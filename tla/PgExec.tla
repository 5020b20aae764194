--------------------------------- MODULE PgExec --------------------------------
(***************************************************************************)
(* pg_exec, which runs a command and collects what it writes, and the      *)
(* program that uses it, gitlab-url-copy: three git commands whose outputs *)
(* make the address of a line of a file. Data is counted in reads: a pipe  *)
(* holds PipeCapacity of them (16 where a pipe is 64 KiB), and a command   *)
(* writes that many to each of its streams, in any order.                  *)
(***************************************************************************)
EXTENDS Naturals

CONSTANTS PipeCapacity,  \* of a pipe, in reads of 4096 bytes
          MaxOutput      \* bound on what a command writes to a stream

Streams  == {"stdio", "stderr"}
Commands == <<"remote", "prefix", "head">>
\* What a command will do. A failing git explains itself on stderr.
Plans == { p \in [stdio : 0 .. MaxOutput, stderr : 0 .. MaxOutput, end : {"exit_0", "exit_1", "signal"}] :
             /\ p.end = "exit_1" => p.stdio = 0 /\ p.stderr > 0
             /\ p.end = "exit_0" => p.stdio > 0 }

VARIABLES step,     \* of main: the number of the command, or how the program ended
          pc,       \* in pg_exec: idle, poll, read, waitpid, last_waitpid
          plan,     \* of the command that runs
          written, pipe, got,   \* per stream: by the command, in the pipe, by pg_exec
          child,    \* none, running, zombie, reaped
          missed,   \* the commands whose stdout a poll did not announce
          url       \* the parts of the address that were collected
execVars == <<step, pc, plan, written, pipe, got, child, missed, url>>

Nothing == [s \in Streams |-> 0]

ExecInit ==
    /\ step = "start" /\ pc = "idle" /\ plan = [stdio |-> 0, stderr |-> 0, end |-> "exit_0"]
    /\ written = Nothing /\ pipe = Nothing /\ got = Nothing
    /\ child = "none" /\ missed = {} /\ url = {}

Exit(how) == step' = how /\ pc' = "idle" /\ UNCHANGED url

-----------------------------------------------------------------------------
(* The command. Its writes block while the pipe is full. *)

ChildWrites(s) ==
    /\ child = "running" /\ written[s] < plan[s] /\ pipe[s] < PipeCapacity
    /\ written' = [written EXCEPT ![s] = @ + 1]
    /\ pipe' = [pipe EXCEPT ![s] = @ + 1]
    /\ UNCHANGED <<step, pc, plan, got, child, missed, url>>

ChildExits ==
    /\ child = "running"
    /\ plan.end = "signal" \/ \A s \in Streams : written[s] = plan[s]
    /\ child' = "zombie"
    /\ UNCHANGED <<step, pc, plan, written, pipe, got, missed, url>>

-----------------------------------------------------------------------------
(* pg_exec *)

Exec(c) ==
    /\ step = c /\ pc = "idle"
    /\ plan' \in Plans
    /\ written' = Nothing /\ pipe' = Nothing /\ got' = Nothing
    /\ child' = "running" /\ pc' = "poll"
    /\ UNCHANGED <<step, missed, url>>

\* pipe or fork fails.
ExecFails(c) ==
    /\ step = c /\ pc = "idle"
    /\ Exit("failed")
    /\ UNCHANGED <<plan, written, pipe, got, child, missed>>

Readable == {s \in Streams : pipe[s] > 0}

\* The parent has the write ends open: poll does not see a hang-up.
Poll ==
    /\ pc = "poll" /\ Readable # {}
    /\ pc' = "read"
    /\ UNCHANGED <<step, plan, written, pipe, got, child, missed, url>>

PollTimesOut ==
    /\ pc = "poll" /\ Readable = {}
    /\ pc' = "waitpid" /\ missed' = missed \cup {step}
    /\ UNCHANGED <<step, plan, written, pipe, got, child, url>>

PollFails ==
    /\ pc = "poll" /\ pc' = "last_waitpid" /\ missed' = missed \cup {step}
    /\ UNCHANGED <<step, plan, written, pipe, got, child, url>>

\* As many descriptors are looked at as are readable: stderr alone is not read.
StreamsRead_one_too_few == IF Readable = Streams THEN {"stdio"} ELSE {}   \* Mutant of StreamsRead
StreamsRead == IF Readable = {"stderr"} THEN {} ELSE Readable

\* pg_string_read_from_stream_once, for each stream: one read.
Read ==
    /\ pc = "read"
    /\ got'  = [s \in Streams |-> IF s \in StreamsRead THEN got[s] + 1 ELSE got[s]]
    /\ pipe' = [s \in Streams |-> IF s \in StreamsRead THEN pipe[s] - 1 ELSE pipe[s]]
    /\ missed' = IF "stdio" \in Readable THEN missed ELSE missed \cup {step}
    /\ pc' = "waitpid"
    /\ UNCHANGED <<step, plan, written, child, url>>

\* Back to main: a status other than 0 ends the program, and so does the
\* assertion on the length of the remote's address and of the commit. The
\* prefix is empty for a file in the root of the repository, and not asserted.
MayBeEmpty == {"prefix"}
Succeeded == plan.end # "exit_1"

Collected ==
    /\ pc' = "idle"
    /\ \/ ~Succeeded /\ step' = "failed" /\ UNCHANGED url
       \/ Succeeded /\ got["stdio"] = 0 /\ step \notin MayBeEmpty /\ step' = "assertion" /\ UNCHANGED url
       \/ /\ Succeeded /\ (got["stdio"] > 0 \/ step \in MayBeEmpty)
          /\ url' = IF got["stdio"] > 0 THEN url \cup {step} ELSE url
          /\ \/ step' = CASE step = "remote" -> "prefix" [] step = "prefix" -> "head" [] step = "head" -> "open"
             \/ step = "remote" /\ step' = "assertion"   \* not an address of gitlab.ppro.com

\* waitpid blocks. A command that was killed is waited for again, in vain: the
\* loop polls and reads for ever.
Waitpid ==
    /\ pc = "waitpid" /\ child \in {"zombie", "reaped"}
    /\ child' = "reaped"
    /\ IF child = "zombie" /\ plan.end # "signal" THEN Collected ELSE pc' = "poll" /\ UNCHANGED <<step, url>>
    /\ UNCHANGED <<plan, written, pipe, got, missed>>

\* After a poll that failed; nobody looks at how the command ended but for its
\* exit status.
LastWaitpid ==
    /\ pc = "last_waitpid" /\ child \in {"zombie", "reaped"}
    /\ child' = "reaped"
    /\ IF child = "zombie" THEN Collected ELSE Exit("failed")
    /\ UNCHANGED <<plan, written, pipe, got, missed>>

-----------------------------------------------------------------------------
(* main *)

\* path_get_directory asserts that there is a slash; chdir may fail.
Start ==
    /\ step = "start" /\ step' \in {"remote", "failed", "assertion"}
    /\ UNCHANGED <<pc, plan, written, pipe, got, child, missed, url>>

\* open_url_in_browser and copy_to_clipboard do not wait for their commands.
Open ==
    /\ step = "open" /\ step' = "opened"
    /\ UNCHANGED <<pc, plan, written, pipe, got, child, missed, url>>

ExecEnded == step \in {"opened", "failed", "assertion"}
ExecDone  == ExecEnded /\ UNCHANGED execVars

ExecParent == Start \/ Poll \/ PollTimesOut \/ PollFails \/ Read \/ Waitpid \/ LastWaitpid \/ Open
                    \/ \E i \in DOMAIN Commands : Exec(Commands[i]) \/ ExecFails(Commands[i])
ExecChild  == ChildExits \/ \E s \in Streams : ChildWrites(s)

ExecNext == ExecParent \/ ExecChild \/ ExecDone
ExecSpec == ExecInit /\ [][ExecNext]_execVars /\ WF_execVars(ExecParent) /\ WF_execVars(ExecChild)

-----------------------------------------------------------------------------
ExecTypeOK ==
    /\ pc \in {"idle", "poll", "read", "waitpid", "last_waitpid"}
    /\ plan \in Plans \cup {[stdio |-> 0, stderr |-> 0, end |-> "exit_0"]}
    /\ pipe \in [Streams -> 0 .. PipeCapacity]
    /\ \A s \in Streams : written[s] = pipe[s] + got[s] /\ written[s] <= plan[s]

\* What a command writes to stdout reaches the caller when it is one write of
\* at most 4096 bytes that a poll has announced, whatever happens on stderr.
OutputIsRead ==
    pc = "waitpid" /\ plan.stdio = 1 /\ step \notin missed => got["stdio"] = 1

\* The address that is opened names the repository and the commit; it names the
\* directory unless the poll gave up on git, or heard its stderr first.
UrlIsComplete ==
    step \in {"open", "opened"} =>
        {"remote", "head"} \subseteq url /\ "prefix" \in url \cup missed

\* However the child, the poll and the pipes race.
OutputReachesTheUrl == OutputIsRead /\ UrlIsComplete

\* pg_exec returns when the command exits by itself and no stream holds more
\* than a pipe.
FitsInPipes == \A s \in Streams : plan[s] <= PipeCapacity
Returns == (pc = "poll" /\ plan.end # "signal" /\ FitsInPipes) ~> (pc = "idle")
=============================================================================
