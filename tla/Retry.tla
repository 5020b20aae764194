--------------------------------- MODULE Retry ---------------------------------
(***************************************************************************)
(* Running a command until it succeeds: the six implementations of ueb and *)
(* eb. All have the same loop (fork, wait for the child or for a timeout,  *)
(* kill it, reap it, sleep, try again) and differ in how they learn that   *)
(* the child has ended, whose status they judge, and what is left over for *)
(* the next attempt. The loop is modelled once; `backend` picks the        *)
(* differences. Durations are abstracted: a timeout may fire whenever no   *)
(* notification is waiting.                                                *)
(***************************************************************************)
EXTENDS Naturals

CONSTANTS Backends,     \* the implementations to run
          MaxRetries,   \* 10 in ueb, --max-retries in eb
          MaxDuration   \* whether eb was given --max-duration-seconds

Ueb  == {"sigtimedwait", "self_pipe", "self_pipe2", "kqueue", "process_descriptor", "io_uring"}

VARIABLES backend, pc, attempt,
          child,     \* of this attempt: none, running, zombie, reaped
          outcome,   \* how it ended: none, ok (0), exit128, fail, killed
          notices,   \* notifications of a child's end that nobody has taken yet
          told,      \* whether the wait was ended by one
          result     \* of the program: none, zero, one, errno, EINTR
retryVars == <<backend, pc, attempt, child, outcome, notices, told, result>>

RetryInit ==
    /\ backend \in Backends
    /\ pc = "fork" /\ attempt = 1
    /\ child = "none" /\ outcome = "none" /\ notices = 0 /\ told = FALSE /\ result = "none"

Return(r)   == pc' = "done" /\ result' = r
Continue(p) == pc' = p /\ UNCHANGED result

\* These three apply WIFEXITED to the si_status of a siginfo_t, which is the
\* exit code itself: 0 and 128 are the codes that look like a success.
MisreadsStatus == {"sigtimedwait", "process_descriptor", "io_uring"}
JudgedOk(b, o) == o = "ok" \/ (b \in MisreadsStatus /\ o = "exit128")

-----------------------------------------------------------------------------
(* The child. *)

\* sigtimedwait does not block SIGCHLD: outside of the wait the empty handler
\* takes the signal. A self-pipe's handler, the hang-up of the pipe of
\* self_pipe2, the pidfd, the event and the completion stay until they are taken.
\* io_uring has asked for one completion, which may have come with an error.
Unheard(b) == \/ b = "eb"
              \/ b = "sigtimedwait" /\ pc # "wait"
              \/ b = "io_uring" /\ pc = "reap"
NoticesAfter(b) == IF Unheard(b) THEN notices ELSE notices + 1

Dies(o) == child' = "zombie" /\ outcome' = o /\ notices' = NoticesAfter(backend)

ChildEnds(o) ==
    /\ child = "running" /\ pc # "done"
    /\ Dies(o)
    /\ UNCHANGED <<backend, pc, attempt, told, result>>

-----------------------------------------------------------------------------
(* The parent. *)

Fork ==
    /\ pc = "fork" /\ attempt <= MaxRetries
    /\ child' = "running" /\ outcome' = "none" /\ told' = FALSE
    /\ Continue("wait")
    /\ UNCHANGED <<backend, attempt, notices>>

\* posix_spawnp returns a positive error, which eb does not see.
ForkFails ==
    /\ pc = "fork" /\ attempt <= MaxRetries
    /\ IF backend = "eb" THEN child' = "none" /\ Continue("wait")
                        ELSE Return("errno") /\ UNCHANGED child
    /\ UNCHANGED <<backend, attempt, outcome, notices, told>>

\* process_descriptor and eb fall off the end of main: the status is 0.
Exhausted ==
    /\ pc = "fork" /\ attempt > MaxRetries
    /\ Return(IF backend \in {"process_descriptor", "eb"} THEN "zero" ELSE "one")
    /\ UNCHANGED <<backend, attempt, child, outcome, notices, told>>

\* pidfd_open, poll, sigtimedwait or kevent fails: the child is left running.
WaitFails ==
    /\ pc = "wait" /\ backend \in {"process_descriptor", "sigtimedwait", "kqueue"} /\ child # "none"
    /\ Return("errno")
    /\ UNCHANGED <<backend, attempt, child, outcome, notices, told>>

\* The wait is over without a notification.
Timeout ==
    /\ pc = "wait" /\ backend # "eb" /\ notices = 0
    /\ Continue("kill")
    /\ UNCHANGED <<backend, attempt, child, outcome, notices, told>>

\* poll leaves what it has seen where it is; sigtimedwait and kevent take it.
\* The completion of io_uring holds the reaped status and is judged at once.
Notified ==
    /\ pc = "wait" /\ backend # "eb" /\ notices > 0
    /\ told' = TRUE
    /\ notices' = IF backend \in {"sigtimedwait", "kqueue", "io_uring"} THEN notices - 1 ELSE notices
    /\ child' = IF backend = "io_uring" THEN "reaped" ELSE child
    /\ IF backend \in {"sigtimedwait", "io_uring"} /\ JudgedOk(backend, outcome)
         THEN Return("zero")
         ELSE Continue(CASE backend = "kqueue"   -> "collect"
                         [] backend = "io_uring" -> "reap"
                         [] OTHER                -> "kill")
    /\ UNCHANGED <<backend, attempt, outcome>>

\* Mutant of CompletionFails: the status of a completion with an error is judged,
\* and the siginfo_t that nobody filled in says 0.
CompletionFails_judged ==
    /\ pc = "wait" /\ backend = "io_uring" /\ child \in {"running", "zombie"}
    /\ notices' = 0
    /\ Return("zero")
    /\ UNCHANGED <<backend, attempt, child, outcome, told>>

\* io_uring: the completion carries an error. It reaps nothing, nothing is
\* killed, and the wait that follows lasts as long as the child.
CompletionFails ==
    /\ pc = "wait" /\ backend = "io_uring" /\ child \in {"running", "zombie"}
    /\ notices' = 0
    /\ Continue("reap")
    /\ UNCHANGED <<backend, attempt, child, outcome, told>>

\* kqueue reaps the child to judge it and then goes on as after a timeout.
Collect ==
    /\ pc = "collect" /\ child = "zombie"
    /\ child' = "reaped"
    /\ IF JudgedOk(backend, outcome) THEN Return("zero") ELSE Continue("kill")
    /\ UNCHANGED <<backend, attempt, outcome, notices, told>>

\* Mutant of Kill: a signal that the child may ignore.
Kill_ignored ==
    /\ pc = "kill" /\ Continue("reap")
    /\ UNCHANGED <<backend, attempt, child, outcome, notices, told>>

\* The kill of a child that has ended does nothing.
Kill ==
    /\ pc = "kill"
    /\ IF child = "running" THEN Dies("killed") ELSE UNCHANGED <<child, outcome, notices>>
    /\ Continue("reap")
    /\ UNCHANGED <<backend, attempt, told>>

\* wait, or the completion of io_uring and a wait that finds no child, unless
\* that completion was the error. After a timeout sigtimedwait, kqueue and
\* io_uring do not look at the status.
JudgesWhenReaping == {"self_pipe", "self_pipe2", "process_descriptor"}
Reap ==
    /\ pc = "reap" /\ child \in {"zombie", "reaped"}
    /\ child' = "reaped"
    /\ notices' = IF backend = "io_uring" THEN 0 ELSE notices
    /\ IF backend \in JudgesWhenReaping /\ JudgedOk(backend, outcome)
         THEN Return("zero")
         ELSE Continue("drain")
    /\ UNCHANGED <<backend, attempt, outcome, told>>

\* Mutant of Drain: the byte stays in the pipe.
Drain_nothing ==
    /\ pc = "drain" /\ notices' = notices /\ Continue("sleep")
    /\ UNCHANGED <<backend, attempt, child, outcome, told>>

\* self_pipe reads one byte, and blocks until there is one; self_pipe2 and
\* process_descriptor close their descriptor; kqueue deletes its event.
Drain ==
    /\ pc = "drain"
    /\ backend = "self_pipe" => notices > 0
    /\ notices' = IF backend = "self_pipe" THEN notices - 1 ELSE 0
    /\ Continue("sleep")
    /\ UNCHANGED <<backend, attempt, child, outcome, told>>

Sleep ==
    /\ pc = "sleep"
    /\ attempt' = attempt + 1
    /\ Continue("fork")
    /\ UNCHANGED <<backend, child, outcome, notices, told>>

\* eb has no timeout of its own: it waits, and sleeps unless a signal ended the
\* child.
EbReaps ==
    /\ pc = "wait" /\ backend = "eb" /\ child = "zombie"
    /\ child' = "reaped"
    /\ CASE outcome = "ok"     -> Return("zero") /\ UNCHANGED attempt
         [] outcome = "killed" -> Continue("fork") /\ attempt' = attempt + 1
         [] OTHER              -> Continue("sleep") /\ UNCHANGED attempt
    /\ UNCHANGED <<backend, outcome, notices, told>>

EbHasNoChild ==
    /\ pc = "wait" /\ backend = "eb" /\ child = "none"
    /\ Return("errno")
    /\ UNCHANGED <<backend, attempt, child, outcome, notices, told>>

\* exit_after_max_duration: a thread of eb ends the program, not the child.
exit_after_max_duration ==
    /\ backend = "eb" /\ MaxDuration /\ pc # "done"
    /\ Return("EINTR")
    /\ UNCHANGED <<backend, attempt, child, outcome, notices, told>>

RetryDone == pc = "done" /\ UNCHANGED retryVars

Parent == Fork \/ ForkFails \/ Exhausted \/ WaitFails \/ Timeout \/ Notified
              \/ CompletionFails \/ Collect \/ Kill \/ Reap \/ Drain \/ Sleep \/ EbReaps \/ EbHasNoChild

RetryNext == Parent \/ exit_after_max_duration \/ RetryDone
                 \/ \E o \in {"ok", "exit128", "fail", "killed"} : ChildEnds(o)

\* The parent runs and its timers fire. Nothing is asked of the command.
RetrySpec == RetryInit /\ [][RetryNext]_retryVars
                       /\ WF_retryVars(Parent) /\ WF_retryVars(exit_after_max_duration)

-----------------------------------------------------------------------------
RetryTypeOK ==
    /\ backend \in Backends /\ attempt \in 1 .. MaxRetries + 1
    /\ pc \in {"fork", "wait", "collect", "kill", "reap", "drain", "sleep", "done"}
    /\ child \in {"none", "running", "zombie", "reaped"}
    /\ outcome \in {"none", "ok", "exit128", "fail", "killed"}
    /\ notices \in 0 .. 1 /\ told \in BOOLEAN
    /\ result \in {"none", "zero", "one", "errno", "EINTR"}

\* The program only reports success when the last run of the command did, up
\* to the exit code that is misread and the two programs that forget to return
\* a failure when they give up.
ResultIsTheCommands ==
    result = "zero" => \/ outcome = "ok"
                       \/ (outcome = "exit128" /\ backend \in {"sigtimedwait", "process_descriptor", "io_uring"})
                       \/ (attempt > MaxRetries /\ backend \in {"process_descriptor", "eb"})

\* A command that has succeeded is not run again, even when it ends between the
\* timeout and the kill. (sigtimedwait, kqueue and io_uring do run it again:
\* after a timeout they throw the status away.)
SuccessIsNotRepeated ==
    pc \in {"sleep", "fork"} /\ backend \in {"self_pipe", "self_pipe2", "process_descriptor", "eb"} => outcome # "ok"

\* A notification is about the child of this attempt: none is left over from an
\* earlier one, so a child is only killed when it has ended or run out of time.
NotKilledEarly == told => child # "running"

\* There is one child at a time: the last one is reaped before the next starts.
OneChildAtATime == pc = "fork" => child \in {"none", "reaped"}

\* Whatever the command does and whenever it ends: what is reported is its
\* result, and attempts do not get mixed up.
RetryIsSafe == ResultIsTheCommands /\ SuccessIsNotRepeated /\ NotKilledEarly /\ OneChildAtATime

\* io_uring was told of an error and waits for a child that it does not kill.
WaitsUnkilled == backend = "io_uring" /\ pc = "reap" /\ child = "running"

\* ueb ends whatever the command does, because it kills it, and eb ends when it
\* has a maximal duration. The exception: io_uring, once the completion of its
\* waitid is an error, ends only if the command does.
RetryEnds == <>(pc = "done" \/ (backend = "eb" /\ ~MaxDuration)) \/ <>[]WaitsUnkilled
=============================================================================
