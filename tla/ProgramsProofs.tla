----------------------------- MODULE ProgramsProofs -----------------------------
(***************************************************************************)
(* The invariants of the programs of MCPrograms, for every value of their  *)
(* parameters. Each program moves alone, so each is proved from an         *)
(* invariant of its own variables; a step of another one leaves them.      *)
(* SequentialProofs has the invariants of the structures of pg.h and of    *)
(* the programs that work on them alone.                                   *)
(***************************************************************************)
EXTENDS MCPrograms, SequentialProofs

-----------------------------------------------------------------------------
(***************************************************************************)
(* Retry: RetryIsSafe, for each of the seven programs and any number of    *)
(* attempts, wherever the timeouts and the ends of the children fall.      *)
(*                                                                         *)
(* It is not inductive.  That a notification is about the child of this    *)
(* attempt depends on there being none while a child runs, and so on what  *)
(* each program does with the one that it has not taken (NoticesAreTaken); *)
(* that a success is not repeated, on the child being reaped before its    *)
(* status is judged and thrown away (ChildIsFollowed, SuccessEnds).        *)
(***************************************************************************)

\* The backend is one of the seven, and the program reports when it ends.
Runs ==
    /\ backend \in Retries!Ueb \cup {"eb"} /\ MaxRetries \in Nat
    /\ pc # "done" => result = "none"
    /\ pc \notin {"fork", "done"} => attempt <= MaxRetries
    /\ backend = "eb" => pc \in {"fork", "wait", "sleep", "done"}

\* Where the loop is says how far the child is.
ChildIsFollowed ==
    /\ pc = "fork" => child \in {"none", "reaped"}
    /\ pc \in {"wait", "kill"} /\ backend # "eb" => child # "none"
    /\ pc = "reap" => child \in {"zombie", "reaped"} \/ (backend = "io_uring" /\ child = "running")
    /\ pc \in {"drain", "sleep"} => child = "reaped"

\* A running child has no notification, and none is left at its next attempt.
NoticesAreTaken ==
    /\ child = "running" => notices = 0
    /\ pc \in {"fork", "sleep"} => notices = 0
    /\ backend = "eb" => notices = 0

\* These programs judge every child that they reap.
SuccessEnds ==
    pc \in {"drain", "sleep", "fork"} /\ backend \in Retries!JudgesWhenReaping \cup {"eb"} => outcome # "ok"

RetryInv ==
    /\ Retries!RetryTypeOK /\ Retries!ResultIsTheCommands /\ Retries!NotKilledEarly
    /\ Runs /\ ChildIsFollowed /\ NoticesAreTaken /\ SuccessEnds

LEMMA RetryInitHolds == Retries!RetryInit => RetryInv
  <1> SUFFICES ASSUME Retries!RetryInit
               PROVE  RetryInv
    OBVIOUS
  <1>1. told \in BOOLEAN /\ Retries!NotKilledEarly
    BY Zenon DEF Retries!RetryInit, Retries!NotKilledEarly
  <1>2. /\ backend \in Backends /\ backend \in Retries!Ueb \cup {"eb"}
        /\ attempt \in 1 .. MaxRetries + 1 /\ MaxRetries \in Nat
    BY RetryAssumption DEF Retries!RetryInit
  <1>3. Retries!RetryTypeOK
    BY <1>1, <1>2 DEF Retries!RetryInit, Retries!RetryTypeOK
  <1>4. Retries!ResultIsTheCommands /\ Runs /\ ChildIsFollowed /\ NoticesAreTaken /\ SuccessEnds
    BY <1>2 DEF Retries!RetryInit, Retries!ResultIsTheCommands, Runs, ChildIsFollowed, NoticesAreTaken, SuccessEnds
  <1> QED
    BY <1>1, <1>3, <1>4 DEF RetryInv

-----------------------------------------------------------------------------
(* One lemma for each action that a reader would not believe at once, and   *)
(* one for the others.                                                      *)

USE DEF RetryInv, Retries!RetryTypeOK, Retries!ResultIsTheCommands, Retries!NotKilledEarly, Runs, ChildIsFollowed,
        NoticesAreTaken, SuccessEnds, Retries!Ueb, Retries!Return, Retries!Continue

\* A child that ends while it runs leaves one notification at most.
LEMMA ChildEndsHolds ==
    ASSUME RetryInv, NEW o \in {"ok", "exit128", "fail", "killed"}, Retries!ChildEnds(o)
    PROVE  RetryInv'
  BY DEF Retries!ChildEnds, Retries!Dies, Retries!NoticesAfter, Retries!Unheard

LEMMA NotifiedHolds == RetryInv /\ Retries!Notified => RetryInv'
  BY DEF Retries!Notified, Retries!JudgedOk, Retries!MisreadsStatus

LEMMA CollectHolds == RetryInv /\ Retries!Collect => RetryInv'
  BY DEF Retries!Collect, Retries!JudgedOk, Retries!MisreadsStatus

LEMMA KillHolds == RetryInv /\ Retries!Kill => RetryInv'
  BY DEF Retries!Kill, Retries!Dies, Retries!NoticesAfter, Retries!Unheard

LEMMA ReapHolds == RetryInv /\ Retries!Reap => RetryInv'
  BY DEF Retries!Reap, Retries!JudgesWhenReaping, Retries!JudgedOk, Retries!MisreadsStatus

LEMMA DrainHolds == RetryInv /\ Retries!Drain => RetryInv'
  BY DEF Retries!Drain, Retries!JudgesWhenReaping

LEMMA EbReapsHolds == RetryInv /\ Retries!EbReaps => RetryInv'
  BY DEF Retries!EbReaps, Retries!JudgesWhenReaping

LEMMA OthersHold ==
    ASSUME RetryInv,
           Retries!Fork \/ Retries!ForkFails \/ Retries!Exhausted \/ Retries!WaitFails \/ Retries!Timeout \/ Retries!Sleep \/ Retries!EbHasNoChild \/ Retries!CompletionFails
             \/ Retries!exit_after_max_duration \/ UNCHANGED Retries!retryVars
    PROVE  RetryInv'
  <1>1. CASE Retries!Fork
    BY <1>1 DEF Retries!Fork
  <1>2. CASE Retries!ForkFails
    BY <1>2 DEF Retries!ForkFails
  <1>3. CASE Retries!Exhausted
    BY <1>3 DEF Retries!Exhausted
  <1>4. CASE Retries!WaitFails
    BY <1>4 DEF Retries!WaitFails
  <1>5. CASE Retries!Timeout
    BY <1>5 DEF Retries!Timeout
  <1>6. CASE Retries!Sleep
    BY <1>6 DEF Retries!Sleep
  <1>7. CASE Retries!EbHasNoChild
    BY <1>7 DEF Retries!EbHasNoChild
  <1>8. CASE Retries!exit_after_max_duration
    BY <1>8 DEF Retries!exit_after_max_duration
  <1>9. CASE UNCHANGED Retries!retryVars
    BY <1>9 DEF Retries!retryVars
  <1>10. CASE Retries!CompletionFails
    BY <1>10 DEF Retries!CompletionFails
  <1> QED
    BY <1>1, <1>2, <1>3, <1>4, <1>5, <1>6, <1>7, <1>8, <1>9, <1>10

LEMMA RetryStepHolds == RetryInv /\ [Retries!RetryNext]_Retries!retryVars => RetryInv'
  <1> SUFFICES ASSUME RetryInv, [Retries!RetryNext]_Retries!retryVars
               PROVE  RetryInv'
    OBVIOUS
  <1> USE DEF Retries!RetryNext, Retries!Parent
  <1>1. CASE \E o \in {"ok", "exit128", "fail", "killed"} : Retries!ChildEnds(o)
    BY <1>1, ChildEndsHolds, Zenon
  <1>2. CASE Retries!Notified \/ Retries!Collect \/ Retries!Kill \/ Retries!Reap \/ Retries!Drain \/ Retries!EbReaps
    BY <1>2, NotifiedHolds, CollectHolds, KillHolds, ReapHolds, DrainHolds, EbReapsHolds, Zenon
  <1>3. CASE Retries!Fork \/ Retries!ForkFails \/ Retries!Exhausted \/ Retries!WaitFails \/ Retries!Timeout \/ Retries!Sleep \/ Retries!EbHasNoChild \/ Retries!CompletionFails
               \/ Retries!exit_after_max_duration \/ UNCHANGED Retries!retryVars
    BY <1>3, OthersHold, Zenon
  <1>4. CASE Retries!RetryDone
    BY <1>4, OthersHold DEF Retries!RetryDone
  <1> QED
    BY <1>1, <1>2, <1>3, <1>4, Zenon

LEMMA RetryInvIsSafe == RetryInv => Retries!RetryIsSafe
  <1> SUFFICES ASSUME RetryInv
               PROVE  Retries!RetryIsSafe
    OBVIOUS
  <1>1. Retries!ResultIsTheCommands /\ Retries!NotKilledEarly
    OBVIOUS
  <1>2. Retries!SuccessIsNotRepeated
    BY DEF Retries!SuccessIsNotRepeated, Retries!JudgesWhenReaping
  <1>3. Retries!OneChildAtATime
    BY DEF Retries!OneChildAtATime
  <1> QED
    BY <1>1, <1>2, <1>3 DEF Retries!RetryIsSafe

HIDE DEF RetryInv, Retries!RetryTypeOK, Retries!ResultIsTheCommands, Retries!NotKilledEarly, Runs, ChildIsFollowed,
         NoticesAreTaken, SuccessEnds, Retries!Ueb, Retries!Return, Retries!Continue

\* A step of any program is a step of the retried command, or leaves it alone.
LEMMA StepsOfRetry == [Next]_vars => [Retries!RetryNext]_Retries!retryVars
  BY DEF Next, vars, retryVars, Retries!retryVars, RetryStep, PgExecStep, HttpExchangeStep,
     PoolStep, BitarrayStep, RingDequeStep, SpansStep, BuffersStep, AllocTraceStep, SudokuStep,
     OnCallStep, X11Step, RopesStep, PuzzlesStep, SymbolizerStep

\* Whatever the command does, whenever it ends and however often it is run: the
\* seven programs only report its success when it succeeded (up to what the
\* property says of them), do not run it again if they can tell, kill it only
\* when its time is over, and never have two children.
THEOREM RetryIsAlwaysSafe == Spec => []RetryIsSafe
  <1>1. Init => RetryInv
    BY RetryInitHolds DEF Init
  <1>2. RetryInv /\ [Next]_vars => RetryInv'
    BY StepsOfRetry, RetryStepHolds
  <1>3. RetryInv => RetryIsSafe
    BY RetryInvIsSafe DEF RetryIsSafe
  <1> QED
    BY <1>1, <1>2, <1>3, PTL DEF Spec
-----------------------------------------------------------------------------
(***************************************************************************)
(* PgExec: OutputReachesTheUrl, however the writes of git, the polls, the  *)
(* reads and the end of git interleave. What a poll has announced is read  *)
(* before the next wait for git, and so a wait is preceded by a read of    *)
(* stdout or by a poll that missed it (ReadOrMissed).                      *)
(***************************************************************************)

ExecTypes ==
    /\ Execs!ExecTypeOK
    /\ written \in [Execs!Streams -> Nat] /\ got \in [Execs!Streams -> Nat]
    /\ exec_pc # "idle" => step \in {"remote", "prefix", "head"}

ReadOrMissed ==
    exec_pc \in {"waitpid", "last_waitpid"} => step \in missed \/ got["stdio"] > 0

\* The parts of the address come one after the other.
PartsSoFar ==
    /\ step \in {"prefix", "head", "open", "opened"} => "remote" \in url
    /\ step \in {"head", "open", "opened"} => "prefix" \in url \cup missed
    /\ step \in {"open", "opened"} => "head" \in url

ExecInv == ExecTypes /\ ReadOrMissed /\ PartsSoFar /\ Execs!OutputIsRead

LEMMA ExecInitHolds == Execs!ExecInit => ExecInv
  <1> SUFFICES ASSUME Execs!ExecInit PROVE ExecInv
    OBVIOUS
  <1> USE DEF Execs!ExecInit, Execs!Nothing, Execs!Streams
  <1>1. 0 \in 0 .. PipeCapacity
    BY ExecAssumption
  <1>2. pipe \in [Execs!Streams -> 0 .. PipeCapacity] /\ got \in [Execs!Streams -> Nat]
        /\ written \in [Execs!Streams -> Nat]
    BY <1>1
  <1>3. ExecTypes
    BY <1>2 DEF ExecTypes, Execs!ExecTypeOK
  <1>4. ReadOrMissed /\ PartsSoFar /\ Execs!OutputIsRead
    BY DEF ReadOrMissed, PartsSoFar, Execs!OutputIsRead
  <1> QED
    BY <1>3, <1>4 DEF ExecInv

\* git writes and ends: pg_exec has seen nothing of it.
LEMMA GitHolds ==
    ASSUME ExecInv, Execs!ExecChild
    PROVE  ExecInv'
  <1> USE DEF ExecInv, ExecTypes, Execs!ExecTypeOK, ReadOrMissed, PartsSoFar, Execs!OutputIsRead
  <1>1. CASE Execs!ChildExits
    BY <1>1 DEF Execs!ChildExits
  <1>2. ASSUME NEW s \in Execs!Streams, Execs!ChildWrites(s)
        PROVE  ExecInv'
    <2> USE DEF Execs!ChildWrites
    <2>1. plan.stdio \in Nat /\ plan.stderr \in Nat /\ plan["stdio"] \in Nat /\ plan["stderr"] \in Nat
      BY ExecAssumption DEF Execs!Plans
    <2>2. pipe[s] + 1 \in 0 .. PipeCapacity /\ written[s] + 1 \in Nat
      BY <1>2, ExecAssumption
    <2>3. pipe' \in [Execs!Streams -> 0 .. PipeCapacity] /\ written' \in [Execs!Streams -> Nat]
      BY <1>2, <2>2
    <2>4. \A r \in Execs!Streams : written'[r] = pipe'[r] + got'[r] /\ written'[r] <= plan'[r]
      <3>1. TAKE r \in Execs!Streams
      <3>2. CASE r = s
        BY <3>2, <1>2, <2>1, ExecAssumption DEF Execs!Streams
      <3>3. CASE r # s
        BY <3>3, <1>2
      <3> QED
        BY <3>2, <3>3
    <2> QED
      BY <1>2, <2>3, <2>4
  <1> QED
    BY <1>1, <1>2 DEF Execs!ExecChild

\* A command begins: nothing was written yet.
LEMMA ExecHolds ==
    ASSUME ExecInv, NEW i \in DOMAIN Execs!Commands, Execs!Exec(Execs!Commands[i])
    PROVE  ExecInv'
  <1> USE DEF ExecInv, ExecTypes, Execs!ExecTypeOK, ReadOrMissed, PartsSoFar, Execs!OutputIsRead,
              Execs!Exec, Execs!Nothing, Execs!Streams
  <1>1. 0 \in 0 .. PipeCapacity
    BY ExecAssumption
  <1>2. Execs!Commands[i] \in {"remote", "prefix", "head"}
    BY DEF Execs!Commands
  <1>3. \A s \in Execs!Streams : 0 <= plan'[s]
    BY ExecAssumption DEF Execs!Plans
  <1> QED
    BY <1>1, <1>2, <1>3

\* A read: of stdout, if the poll has announced it.
LEMMA ReadHolds ==
    ASSUME ExecInv, Execs!Read
    PROVE  ExecInv'
  <1> USE DEF ExecInv, ExecTypes, Execs!ExecTypeOK, Execs!Read
  <1>1. \A s \in Execs!Streams : pipe[s] \in 0 .. PipeCapacity /\ got[s] \in Nat /\ written[s] \in Nat
    OBVIOUS
  <1>2. \A s \in Execs!StreamsRead : s \in Execs!Streams /\ pipe[s] > 0
    BY DEF Execs!StreamsRead, Execs!Readable
  <1>3. \A s \in Execs!Streams :
          /\ pipe'[s] \in 0 .. PipeCapacity /\ got'[s] \in Nat
          /\ written'[s] = pipe'[s] + got'[s] /\ written'[s] <= plan'[s]
    <2>1. TAKE s \in Execs!Streams
    <2>2. CASE s \in Execs!StreamsRead
      <3>1. pipe'[s] = pipe[s] - 1 /\ got'[s] = got[s] + 1
        BY <2>2
      <3> QED
        BY <3>1, <2>2, <1>1, <1>2, ExecAssumption
    <2>3. CASE s \notin Execs!StreamsRead
      <3>1. pipe'[s] = pipe[s] /\ got'[s] = got[s]
        BY <2>3
      <3> QED
        BY <3>1
    <2> QED
      BY <2>2, <2>3
  <1>4. ExecTypes'
    BY <1>3
  <1>5. CASE "stdio" \in Execs!Readable
    <2>1. "stdio" \in Execs!StreamsRead /\ "stdio" \in Execs!Streams
      BY <1>5 DEF Execs!StreamsRead, Execs!Streams
    <2>2. got'["stdio"] > 0
      BY <2>1, <1>1
    <2>3. plan.stdio = 1 => got'["stdio"] = 1
      <3>1. written'["stdio"] <= plan["stdio"] /\ written'["stdio"] = pipe'["stdio"] + got'["stdio"]
            /\ pipe'["stdio"] \in Nat /\ got'["stdio"] \in Nat
        BY <1>3, <2>1, ExecAssumption
      <3> QED
        BY <3>1, <2>2
    <2> QED
      BY <1>4, <2>2, <2>3 DEF ReadOrMissed, PartsSoFar, Execs!OutputIsRead
  <1>6. CASE "stdio" \notin Execs!Readable
    BY <1>4, <1>6 DEF ReadOrMissed, PartsSoFar, Execs!OutputIsRead
  <1> QED
    BY <1>5, <1>6

\* Back in main: a command whose output is not in the address was missed.
LEMMA CollectedHolds ==
    ASSUME ExecInv, exec_pc \in {"waitpid", "last_waitpid"}, Execs!Collected,
           UNCHANGED <<plan, written, pipe, got, missed>>
    PROVE  ExecInv'
  <1> USE DEF ExecInv, ExecTypes, Execs!ExecTypeOK
  <1>1. step \in {"remote", "prefix", "head"}
    OBVIOUS
  <1>2. exec_pc' = "idle"
    BY DEF Execs!Collected
  <1>3. ExecTypes' /\ ReadOrMissed' /\ Execs!OutputIsRead'
    BY <1>2 DEF ReadOrMissed, Execs!OutputIsRead
  <1>4. CASE step' \in {"failed", "assertion"}
    BY <1>3, <1>4 DEF PartsSoFar
  <1>5. CASE /\ got["stdio"] > 0 \/ step \in Execs!MayBeEmpty
             /\ url' = IF got["stdio"] > 0 THEN url \cup {step} ELSE url
             /\ step' = CASE step = "remote" -> "prefix" [] step = "prefix" -> "head" [] step = "head" -> "open"
    <2>1. step \in url' \/ (step = "prefix" /\ step \in missed /\ url' = url)
      BY <1>5 DEF ReadOrMissed, Execs!MayBeEmpty
    <2>2. url \subseteq url'
      BY <1>5
    <2>3. CASE step = "remote"
      BY <1>3, <1>5, <2>1, <2>2, <2>3 DEF PartsSoFar
    <2>4. CASE step = "prefix"
      BY <1>3, <1>5, <2>1, <2>2, <2>4 DEF PartsSoFar
    <2>5. CASE step = "head"
      BY <1>3, <1>5, <2>1, <2>2, <2>5 DEF PartsSoFar
    <2> QED
      BY <1>1, <2>3, <2>4, <2>5
  <1> QED
    BY <1>4, <1>5 DEF Execs!Collected

LEMMA ExecStepHolds == ExecInv /\ [Execs!ExecNext]_Execs!execVars => ExecInv'
  <1> SUFFICES ASSUME ExecInv, [Execs!ExecNext]_Execs!execVars
               PROVE  ExecInv'
    OBVIOUS
  <1>1. CASE Execs!ExecChild
    BY <1>1, GitHolds
  <1>2. CASE Execs!Read
    BY <1>2, ReadHolds
  <1>3. ASSUME NEW i \in DOMAIN Execs!Commands, Execs!Exec(Execs!Commands[i])
        PROVE  ExecInv'
    BY <1>3, ExecHolds
  <1>4. CASE Execs!Waitpid
    <2>1. CASE exec_child = "zombie" /\ plan.end # "signal"
      BY <1>4, <2>1, CollectedHolds DEF Execs!Waitpid
    <2>2. CASE ~(exec_child = "zombie" /\ plan.end # "signal")
      BY <1>4, <2>2 DEF Execs!Waitpid, ExecInv, ExecTypes, Execs!ExecTypeOK, ReadOrMissed, PartsSoFar, Execs!OutputIsRead
    <2> QED
      BY <2>1, <2>2
  <1>5. CASE Execs!LastWaitpid
    <2>1. CASE exec_child = "zombie"
      BY <1>5, <2>1, CollectedHolds DEF Execs!LastWaitpid
    <2>2. CASE exec_child # "zombie"
      BY <1>5, <2>2 DEF Execs!LastWaitpid, Execs!Exit, ExecInv, ExecTypes, Execs!ExecTypeOK, ReadOrMissed, PartsSoFar, Execs!OutputIsRead
    <2> QED
      BY <2>1, <2>2
  <1> USE DEF ExecInv, ExecTypes, Execs!ExecTypeOK, ReadOrMissed, PartsSoFar, Execs!OutputIsRead
  <1>6. CASE Execs!Poll
    BY <1>6 DEF Execs!Poll
  <1>7. CASE Execs!PollTimesOut
    BY <1>7 DEF Execs!PollTimesOut
  <1>8. CASE Execs!PollFails
    BY <1>8 DEF Execs!PollFails
  <1>9. CASE Execs!Start
    BY <1>9 DEF Execs!Start
  <1>10. CASE Execs!Open
    BY <1>10 DEF Execs!Open
  <1>11. ASSUME NEW i \in DOMAIN Execs!Commands, Execs!ExecFails(Execs!Commands[i])
         PROVE  ExecInv'
    BY <1>11 DEF Execs!ExecFails, Execs!Exit
  <1>12. CASE UNCHANGED Execs!execVars
    BY <1>12 DEF Execs!execVars
  <1> QED
    BY <1>1, <1>2, <1>3, <1>4, <1>5, <1>6, <1>7, <1>8, <1>9, <1>10, <1>11, <1>12
    DEF Execs!ExecNext, Execs!ExecParent, Execs!ExecDone

LEMMA StepsOfExec == [Next]_vars => [Execs!ExecNext]_Execs!execVars
  BY DEF Next, vars, execVars, Execs!execVars, RetryStep, PgExecStep, HttpExchangeStep,
     PoolStep, BitarrayStep, RingDequeStep, SpansStep, BuffersStep, AllocTraceStep, SudokuStep,
     OnCallStep, X11Step, RopesStep, PuzzlesStep, SymbolizerStep

\* However git writes and ends while pg_exec polls: the one read that was
\* announced is not lost, and the address that is opened has all its parts, or
\* lacks the one whose output no poll announced.
THEOREM OutputAlwaysReachesTheUrl == Spec => []OutputReachesTheUrl
  <1>1. Init => ExecInv
    BY ExecInitHolds DEF Init
  <1>2. ExecInv /\ [Next]_vars => ExecInv'
    BY StepsOfExec, ExecStepHolds
  <1>3. ExecInv => OutputReachesTheUrl
    BY DEF ExecInv, PartsSoFar, OutputReachesTheUrl, Execs!OutputReachesTheUrl, Execs!UrlIsComplete
  <1> QED
    BY <1>1, <1>2, <1>3, PTL DEF Spec
-----------------------------------------------------------------------------
(***************************************************************************)
(* HttpExchange: AnswersAreWhole, however the two directions of the        *)
(* connection are cut, and in whatever order the parent, the child, the    *)
(* timeout and the client move. The connection is closed only by an end    *)
(* of the handler, and the handler ends without an answer only in trouble, *)
(* after a reset or for what is no HTTP (EndsForAReason).                  *)
(***************************************************************************)

Troubled == trouble # {}

HttpTypes ==
    /\ server \in {"accept", "fork", "ended"} /\ handler \in {"none", "recv", "send", "exited"}
    /\ req_len \in Nat /\ sent \in Nat /\ to_server \in Nat /\ to_client \in Nat
    /\ total_received \in Nat /\ reset \in BOOLEAN

\* The child holds the connection as long as it runs.
ChildHolds ==
    /\ handler \in {"recv", "send"} => "child" \in fds
    /\ server = "ended" => Troubled
    /\ client = "ok" => Exchanges!Closed
    /\ client = "failed" => reset \/ server = "ended"

\* Nothing is sent before the headers are there, and then all at once.
SendsWhole ==
    /\ handler \in {"none", "recv"} => sent = 0 /\ to_client = 0 /\ total_received = 0
    /\ handler = "send" => req_len >= HeadLength /\ method # "malformed"
    /\ ~Troubled => sent \in {0, ResponseLength} /\ to_client + total_received = sent

EndsForAReason ==
    handler = "exited" => Troubled \/ method = "malformed" \/ reset \/ sent = ResponseLength

HttpInv ==
    /\ HttpTypes /\ ChildHolds /\ SendsWhole /\ EndsForAReason
    /\ Exchanges!AnswersWholeHeads /\ Exchanges!ResponseIsWhole

LEMMA HttpInitHolds == Exchanges!HttpInit => HttpInv
  <1> SUFFICES ASSUME Exchanges!HttpInit PROVE HttpInv
    OBVIOUS
  <1>1. /\ server = "accept" /\ handler = "none" /\ req_len = 0 /\ sent = 0 /\ to_server = 0
        /\ to_client = 0 /\ total_received = 0 /\ reset = FALSE /\ client = "connect" /\ trouble = {}
    BY DEF Exchanges!HttpInit
  <1>2. HttpTypes
    BY <1>1 DEF HttpTypes
  <1>3. ChildHolds
    BY <1>1 DEF ChildHolds
  <1>4. SendsWhole
    BY <1>1 DEF SendsWhole, Troubled
  <1>5. EndsForAReason /\ Exchanges!AnswersWholeHeads /\ Exchanges!ResponseIsWhole
    BY <1>1 DEF EndsForAReason, Exchanges!AnswersWholeHeads, Exchanges!ResponseIsWhole
  <1> QED
    BY <1>2, <1>3, <1>4, <1>5 DEF HttpInv

LEMMA LesserOfTwo ==
    ASSUME NEW a \in Int, NEW b \in Int
    PROVE  Exchanges!Min({a, b}) \in Int /\ Exchanges!Min({a, b}) <= a /\ Exchanges!Min({a, b}) <= b
  <1>1. \E x \in {a, b} : \A y \in {a, b} : x <= y
    <2>1. CASE a <= b
      BY <2>1
    <2>2. CASE b <= a
      BY <2>2
    <2> QED
      BY <2>1, <2>2
  <1>2. Exchanges!Min({a, b}) \in {a, b} /\ \A y \in {a, b} : Exchanges!Min({a, b}) <= y
    BY <1>1 DEF Exchanges!Min
  <1> QED
    BY <1>2

\* The parent, before and after it forks.
LEMMA ParentHolds ==
    ASSUME HttpInv, \/ Exchanges!Accept \/ Exchanges!AcceptFails \/ Exchanges!ForkHandler
                    \/ Exchanges!ForkHandlerFails \/ Exchanges!ParentCloses
    PROVE  HttpInv'
  <1> USE DEF HttpInv, HttpTypes, Troubled, ChildHolds, SendsWhole, EndsForAReason, Exchanges!HeldBy,
              Exchanges!AnswersWholeHeads, Exchanges!ResponseIsWhole, Exchanges!Closed, Exchanges!clientVars
  <1>1. CASE Exchanges!Accept
    BY <1>1 DEF Exchanges!Accept
  <1>2. CASE Exchanges!AcceptFails
    BY <1>2 DEF Exchanges!AcceptFails
  <1>3. CASE Exchanges!ForkHandler
    BY <1>3 DEF Exchanges!ForkHandler
  <1>4. CASE Exchanges!ForkHandlerFails
    BY <1>4 DEF Exchanges!ForkHandlerFails
  <1>5. CASE Exchanges!ParentCloses
    BY <1>5 DEF Exchanges!ParentCloses
  <1> QED
    BY <1>1, <1>2, <1>3, <1>4, <1>5

\* One read of the request, or its end.
LEMMA RecvHolds ==
    ASSUME HttpInv, NEW n \in 1 .. max_payload_length, Exchanges!Recv(n)
    PROVE  HttpInv'
  <1> DEFINE err == Exchanges!http_parse_request(req_len + n)
             big == req_len + n = max_payload_length
  <1>1. n \in Nat /\ n <= to_server
    <2> DEFINE m == Exchanges!Min({to_server, max_payload_length - req_len})
    <2>1. to_server \in Int /\ max_payload_length - req_len \in Int /\ n \in Nat
      BY HttpAssumption DEF HttpInv, HttpTypes
    <2>2. m \in Int /\ m <= to_server
      BY <2>1, LesserOfTwo
    <2>3. n \in 1 .. m
      BY DEF Exchanges!Recv
    <2> HIDE DEF m
    <2> QED
      BY <2>1, <2>2, <2>3
  <1>2. /\ Exchanges!Answers(err) => req_len + n >= HeadLength /\ method # "malformed"
        /\ ~(err = -2 \/ Exchanges!Answers(err)) => method = "malformed"
    BY <1>1, HttpAssumption DEF Exchanges!Answers, Exchanges!http_parse_request, HttpInv, HttpTypes
  <1>3. /\ handler = "recv" /\ req_len' = req_len + n /\ to_server' = to_server - n
        /\ trouble' = IF big THEN trouble \cup {"too_big"} ELSE trouble
        /\ IF big \/ ~(err = -2 \/ Exchanges!Answers(err))
             THEN /\ handler' = "exited" /\ fds' = fds \ {"child"}
                  /\ reset' = (reset \/ (fds = {"child"} /\ to_server > n))
             ELSE /\ handler' = IF Exchanges!Answers(err) THEN "send" ELSE "recv"
                  /\ UNCHANGED <<fds, reset>>
        /\ UNCHANGED <<server, sent, Exchanges!clientVars, to_client>>
    BY DEF Exchanges!Recv
  <1> HIDE DEF err, big
  <1>4. HttpTypes'
    <2>1. req_len' \in Nat /\ to_server' \in Nat
      BY <1>1, <1>3 DEF HttpInv, HttpTypes
    <2>2. handler' \in {"none", "recv", "send", "exited"}
      BY <1>3
    <2>3. reset' \in BOOLEAN
      BY <1>3, Zenon DEF HttpInv, HttpTypes
    <2> QED
      BY <1>3, <2>1, <2>2, <2>3 DEF HttpInv, HttpTypes, Exchanges!clientVars
  <1> USE DEF HttpInv, HttpTypes, Troubled, ChildHolds, SendsWhole, EndsForAReason,
              Exchanges!AnswersWholeHeads, Exchanges!ResponseIsWhole, Exchanges!Closed, Exchanges!clientVars
  <1>5. CASE big \/ ~(err = -2 \/ Exchanges!Answers(err))
    BY <1>2, <1>3, <1>4, <1>5
  <1>6. CASE ~big /\ (err = -2 \/ Exchanges!Answers(err))
    BY <1>2, <1>3, <1>4, <1>6
  <1> QED
    BY <1>5, <1>6

\* The other steps of the handler.
LEMMA HandlerHolds ==
    ASSUME HttpInv, \/ Exchanges!RecvEnds \/ Exchanges!SendEnds \/ Exchanges!timeout_background_worker_run
                    \/ \E n \in 1 .. ResponseLength : Exchanges!Send(n)
    PROVE  HttpInv'
  <1> USE HttpAssumption
      DEF HttpInv, HttpTypes, Troubled, ChildHolds, SendsWhole, EndsForAReason, Exchanges!HeldBy, Exchanges!HandlerExits,
          Exchanges!AnswersWholeHeads, Exchanges!ResponseIsWhole, Exchanges!Closed, Exchanges!clientVars
  <1>1. CASE Exchanges!RecvEnds
    BY <1>1 DEF Exchanges!RecvEnds
  <1>2. CASE Exchanges!SendEnds
    BY <1>2 DEF Exchanges!SendEnds
  <1>3. CASE Exchanges!timeout_background_worker_run
    BY <1>3 DEF Exchanges!timeout_background_worker_run
  <1>4. ASSUME NEW n \in 1 .. ResponseLength, Exchanges!Send(n)
        PROVE  HttpInv'
    BY <1>4 DEF Exchanges!Send
  <1> QED
    BY <1>1, <1>2, <1>3, <1>4

\* The client.
LEMMA ClientHolds ==
    ASSUME HttpInv, Exchanges!HttpClient
    PROVE  HttpInv'
  <1> USE HttpAssumption
      DEF HttpInv, HttpTypes, Troubled, ChildHolds, SendsWhole, EndsForAReason, Exchanges!serverVars,
          Exchanges!AnswersWholeHeads, Exchanges!ResponseIsWhole, Exchanges!Closed
  <1>1. CASE Exchanges!Connect
    BY <1>1 DEF Exchanges!Connect
  <1>2. CASE Exchanges!request_sent
    BY <1>2 DEF Exchanges!request_sent
  <1>3. CASE Exchanges!response_ends
    BY <1>3 DEF Exchanges!response_ends
  <1>4. ASSUME NEW n \in 1 .. BatchSizeMax, Exchanges!request_send(n)
        PROVE  HttpInv'
    <2>1. n \in Nat
      OBVIOUS
    <2>2. UNCHANGED <<server, handler, fds, req_len, sent, client, method, total_received, to_client, method, trouble>>
          /\ client = "send"
      BY <1>4 DEF Exchanges!request_send
    <2>3. (reset' = TRUE /\ to_server' = to_server) \/ (reset' = reset /\ to_server' = to_server + n)
      BY <1>4, Zenon DEF Exchanges!request_send
    <2>4. to_server' \in Nat /\ reset' \in BOOLEAN /\ (reset => reset')
      <3>1. to_server' = to_server \/ to_server' = to_server + n
        BY <2>3, Zenon
      <3>2. to_server' \in Nat
        BY <2>1, <3>1
      <3>3. reset' \in BOOLEAN /\ (reset => reset')
        BY <2>3, Zenon
      <3> QED
        BY <3>2, <3>3
    <2>5. HttpTypes'
      BY <2>2, <2>4
    <2>6. ChildHolds' /\ SendsWhole' /\ EndsForAReason'
      BY <2>2, <2>4
    <2> QED
      BY <2>2, <2>5, <2>6
  <1>5. ASSUME NEW n \in 1 .. BatchSizeMax, Exchanges!response_receive(n)
        PROVE  HttpInv'
    <2>1. n <= to_client
      <3> DEFINE m == Exchanges!Min({to_client, BatchSizeMax})
      <3>1. to_client \in Int /\ BatchSizeMax \in Int
        OBVIOUS
      <3>2. m \in Int /\ m <= to_client
        BY <3>1, LesserOfTwo
      <3>3. n \in 1 .. m
        BY <1>5 DEF Exchanges!response_receive
      <3> HIDE DEF m
      <3>4. to_client \in Nat
        OBVIOUS
      <3> QED
        BY <3>2, <3>3, <3>4
    <2>2. /\ UNCHANGED <<server, handler, fds, req_len, sent, to_server, client, method, reset, trouble>>
          /\ to_client' = to_client - n /\ total_received' = total_received + n /\ client = "receive"
      BY <1>5 DEF Exchanges!response_receive
    <2>3. /\ to_client' \in Nat /\ total_received' \in Nat
          /\ to_client' + total_received' = to_client + total_received
          /\ to_client + total_received > 0
      BY <2>1, <2>2
    <2>4. HttpTypes' /\ ChildHolds' /\ EndsForAReason'
      BY <2>2, <2>3
    <2>5. SendsWhole' /\ Exchanges!AnswersWholeHeads'
      BY <2>1, <2>2, <2>3
    <2> QED
      BY <2>2, <2>4, <2>5
  <1> QED
    BY <1>1, <1>2, <1>3, <1>4, <1>5 DEF Exchanges!HttpClient

LEMMA HttpStepHolds == HttpInv /\ [Exchanges!HttpNext]_Exchanges!httpVars => HttpInv'
  <1> SUFFICES ASSUME HttpInv, [Exchanges!HttpNext]_Exchanges!httpVars
               PROVE  HttpInv'
    OBVIOUS
  <1>1. CASE Exchanges!HttpServer
    BY <1>1, ParentHolds, RecvHolds, HandlerHolds DEF Exchanges!HttpServer
  <1>2. CASE Exchanges!HttpClient
    BY <1>2, ClientHolds
  <1>3. CASE UNCHANGED Exchanges!httpVars
    BY <1>3 DEF Exchanges!httpVars, Exchanges!serverVars, Exchanges!clientVars,
                HttpInv, HttpTypes, Troubled, ChildHolds, SendsWhole, EndsForAReason,
                Exchanges!AnswersWholeHeads, Exchanges!ResponseIsWhole, Exchanges!Closed
  <1> QED
    BY <1>1, <1>2, <1>3 DEF Exchanges!HttpNext, Exchanges!HttpDone

LEMMA StepsOfHttp == [Next]_vars => [Exchanges!HttpNext]_Exchanges!httpVars
  BY DEF Next, vars, httpVars, Exchanges!httpVars, Exchanges!serverVars, Exchanges!clientVars, RetryStep, PgExecStep, HttpExchangeStep,
     PoolStep, BitarrayStep, RingDequeStep, SpansStep, BuffersStep, AllocTraceStep, SudokuStep,
     OnCallStep, X11Step, RopesStep, PuzzlesStep, SymbolizerStep

\* However the bytes are cut, and whoever ends first: nothing is answered
\* before the headers are complete, and a client that reads the end of the
\* stream has all of the response, unless the server was in trouble.
THEOREM AnswersAreAlwaysWhole == Spec => []AnswersAreWhole
  <1>1. Init => HttpInv
    BY HttpInitHolds DEF Init
  <1>2. HttpInv /\ [Next]_vars => HttpInv'
    BY StepsOfHttp, HttpStepHolds
  <1>3. HttpInv => AnswersAreWhole
    BY DEF HttpInv, AnswersAreWhole, Exchanges!AnswersAreWhole
  <1> QED
    BY <1>1, <1>2, <1>3, PTL DEF Spec
-----------------------------------------------------------------------------
(***************************************************************************)
(* X11: StreamStaysInStep, for images of any length. The requests of the   *)
(* set-up are whole (WholeRequests); after that, the bytes that the server *)
(* still waits for are those of the exposures that complete the image      *)
(* (QuartersOfAnImage), so that a write never brings more than is missing. *)
(***************************************************************************)

Ops == {"create_window", "create_gc", "map_window", "put_image"}

XTypes ==
    /\ requests \in Seq({Windows!create_window, Windows!create_gc, Windows!map_window})
    /\ taken \in Seq(Ops) /\ missing \in Nat /\ exposed \in Nat /\ in_step = TRUE

WholeRequests == drawing \in {"connect", "header", "setup", "requests"} => exposed = 0

QuartersOfAnImage ==
    \/ exposed % 4 = 0 /\ missing = 0
    \/ exposed % 4 = 1 /\ missing = 3 * ImageWords
    \/ exposed % 4 = 2 /\ missing = 2 * ImageWords
    \/ exposed % 4 = 3 /\ missing = ImageWords

XInv == XTypes /\ WholeRequests /\ QuartersOfAnImage /\ Windows!Images = exposed \div 4

ImagesIn(ops) == {i \in DOMAIN ops : ops[i] = "put_image"}

\* The cardinality of an instance is that of sets.
LEMMA WindowsCardinality == ASSUME NEW S PROVE Windows!Cardinality(S) = Cardinality(S)
  BY DEF Windows!Cardinality, Cardinality

\* A request that is taken is an image, or is not.
LEMMA ImagesAfterOne ==
    ASSUME NEW ops \in Seq(Ops), NEW new \in Ops
    PROVE  /\ Append(ops, new) \in Seq(Ops)
           /\ new = "put_image" => Cardinality(ImagesIn(Append(ops, new))) = Cardinality(ImagesIn(ops)) + 1
           /\ new # "put_image" => ImagesIn(Append(ops, new)) = ImagesIn(ops)
           /\ Cardinality(ImagesIn(ops)) \in Nat
  <1> DEFINE more == Append(ops, new)
  <1>1. Append(ops, new) \in Seq(Ops) /\ Len(ops) \in Nat /\ DOMAIN ops = 1 .. Len(ops)
    OBVIOUS
  <1>2. DOMAIN more = 1 .. Len(ops) + 1 /\ more[Len(ops) + 1] = new /\ \A i \in 1 .. Len(ops) : more[i] = ops[i]
    OBVIOUS
  <1>3. \A i : i \in 1 .. Len(ops) + 1 <=> i \in 1 .. Len(ops) \/ i = Len(ops) + 1
    BY <1>1
  <1>4. IsFiniteSet(ImagesIn(ops)) /\ Len(ops) + 1 \notin ImagesIn(ops)
    <2>1. IsFiniteSet(1 .. Len(ops)) /\ Len(ops) + 1 \notin 1 .. Len(ops)
      BY <1>1, FS_Interval
    <2> QED
      BY <1>1, <2>1, FS_Subset DEF ImagesIn
  <1> HIDE DEF more
  <1>5. CASE new = "put_image"
    <2>1. ImagesIn(more) = ImagesIn(ops) \cup {Len(ops) + 1}
      BY <1>1, <1>2, <1>3, <1>5, Zenon DEF ImagesIn
    <2>2. Cardinality(ImagesIn(more)) = Cardinality(ImagesIn(ops)) + 1
      BY <1>4, <2>1, FS_AddElement
    <2> QED
      BY <1>1, <1>4, <1>5, <2>2, FS_CardinalityType DEF more
  <1>6. CASE new # "put_image"
    <2>1. ImagesIn(more) = ImagesIn(ops)
      BY <1>1, <1>2, <1>3, <1>6, Zenon DEF ImagesIn
    <2> QED
      BY <1>1, <1>4, <1>6, <2>1, FS_CardinalityType DEF more
  <1> QED
    BY <1>5, <1>6

LEMMA GreaterOfTwo ==
    ASSUME NEW a \in Int, NEW b \in Int, a <= b
    PROVE  Windows!Max({a, b}) = b
  BY DEF Windows!Max

LEMMA XInitHolds == Windows!XInit => XInv
  <1> SUFFICES ASSUME Windows!XInit PROVE XInv
    OBVIOUS
  <1>1. requests \in Seq({Windows!create_window, Windows!create_gc, Windows!map_window})
    BY DEF Windows!XInit
  <1>2. missing = 0 /\ taken = <<>> /\ in_step = TRUE /\ exposed = 0
    BY DEF Windows!XInit
  <1>3. Windows!Images = 0
    <2>1. {i \in DOMAIN taken : taken[i] = "put_image"} = {}
      BY <1>2
    <2> QED
      BY <2>1, FS_EmptySet, WindowsCardinality DEF Windows!Images
  <1> QED
    BY <1>1, <1>2, <1>3 DEF XInv, XTypes, WholeRequests, QuartersOfAnImage

\* A request of the set-up, when the server waits for none.
LEMMA TakesARequest ==
    ASSUME XInv, missing = 0, exposed' = exposed,
           NEW r \in {Windows!create_window, Windows!create_gc, Windows!map_window}, Windows!Take(r)
    PROVE  taken' \in Seq(Ops) /\ missing' = 0 /\ in_step' = TRUE /\ Windows!Images' = Windows!Images
  <1>1. r.op \in Ops /\ r.op # "put_image" /\ 4 * r.words - r.bytes = 0
    BY DEF Windows!create_window, Windows!create_gc, Windows!map_window, Windows!Request, Ops
  <1>2. missing' = 0 /\ in_step' = TRUE /\ taken' = Append(taken, r.op)
    BY <1>1 DEF Windows!Take, XInv, XTypes
  <1> QED
    BY <1>1, <1>2, ImagesAfterOne DEF XInv, XTypes, Windows!Images, ImagesIn

\* A write of a quarter of an image.
LEMMA DrawHolds ==
    ASSUME XInv, Windows!Draw
    PROVE  /\ exposed' \in Nat /\ missing' \in Nat /\ taken' \in Seq(Ops) /\ in_step' = TRUE
           /\ QuartersOfAnImage' /\ Windows!Images' = exposed' \div 4
  <1> DEFINE w == ImageWords
  <1>1. /\ w \in Nat \ {0} /\ exposed \in Nat /\ exposed' = exposed + 1
    BY XAssumption DEF XInv, XTypes, Windows!Draw
  <1>2. IF missing = 0
        THEN /\ missing' = 4 * w - w
             /\ taken' = IF missing' = 0 THEN Append(taken, "put_image") ELSE taken
             /\ in_step' = in_step
        ELSE /\ missing' = Windows!Max({0, missing - w})
             /\ in_step' = (in_step /\ w <= missing)
             /\ taken' = IF missing' = 0 THEN Append(taken, "put_image") ELSE taken
    BY DEF Windows!Draw, Windows!Take, Windows!put_image, Windows!Request
  <1>3. in_step = TRUE /\ taken \in Seq(Ops) /\ "put_image" \in Ops /\ Windows!Images = exposed \div 4
    BY DEF XInv, XTypes, Ops
  <1> HIDE DEF w
  <1>4. ASSUME missing' # 0, taken' = taken, in_step' = TRUE, missing' \in Nat, QuartersOfAnImage',
               exposed' \div 4 = exposed \div 4
        PROVE  /\ exposed' \in Nat /\ missing' \in Nat /\ taken' \in Seq(Ops) /\ in_step' = TRUE
               /\ QuartersOfAnImage' /\ Windows!Images' = exposed' \div 4
    BY <1>1, <1>3, <1>4 DEF Windows!Images
  <1>5. CASE exposed % 4 = 0 /\ missing = 0
    <2>1. exposed' % 4 = 1 /\ exposed' \div 4 = exposed \div 4
      BY <1>1, <1>5
    <2>2. missing' = 3 * w /\ missing' # 0 /\ missing' \in Nat
      BY <1>1, <1>2, <1>5
    <2>3. taken' = taken /\ in_step' = TRUE
      BY <1>2, <1>3, <1>5, <2>2
    <2> QED
      BY <1>4, <2>1, <2>2, <2>3 DEF QuartersOfAnImage, w
  <1>6. CASE exposed % 4 = 1 /\ missing = 3 * w
    <2>1. exposed' % 4 = 2 /\ exposed' \div 4 = exposed \div 4
      BY <1>1, <1>6
    <2>2. missing # 0 /\ missing - w = 2 * w /\ w <= missing /\ 0 <= 2 * w /\ 2 * w \in Nat \ {0}
      BY <1>1, <1>6
    <2>3. missing' = 2 * w
      BY <1>2, <2>2, GreaterOfTwo
    <2>4. taken' = taken /\ in_step' = TRUE
      BY <1>2, <1>3, <2>2, <2>3
    <2> QED
      BY <1>4, <2>1, <2>2, <2>3, <2>4 DEF QuartersOfAnImage, w
  <1>7. CASE exposed % 4 = 2 /\ missing = 2 * w
    <2>1. exposed' % 4 = 3 /\ exposed' \div 4 = exposed \div 4
      BY <1>1, <1>7
    <2>2. missing # 0 /\ missing - w = w /\ w <= missing /\ 0 <= w
      BY <1>1, <1>7
    <2>3. missing' = w
      BY <1>1, <1>2, <2>2, GreaterOfTwo
    <2>4. taken' = taken /\ in_step' = TRUE
      BY <1>1, <1>2, <1>3, <2>2, <2>3
    <2> QED
      BY <1>1, <1>4, <2>1, <2>3, <2>4 DEF QuartersOfAnImage, w
  <1>8. CASE exposed % 4 = 3 /\ missing = w
    <2>1. exposed' % 4 = 0 /\ exposed' \div 4 = (exposed \div 4) + 1 /\ exposed' \in Nat
      BY <1>1, <1>8
    <2>2. missing # 0 /\ missing - w = 0 /\ w <= missing /\ 0 <= 0
      BY <1>1, <1>8
    <2>3. missing' = 0
      BY <1>2, <2>2, GreaterOfTwo
    <2>4. taken' = Append(taken, "put_image") /\ in_step' = TRUE
      BY <1>2, <1>3, <2>2, <2>3
    <2>5. taken' \in Seq(Ops) /\ Windows!Images' = Windows!Images + 1
      BY <1>3, <2>4, ImagesAfterOne, WindowsCardinality DEF Windows!Images, ImagesIn
    <2> QED
      BY <1>3, <2>1, <2>3, <2>4, <2>5 DEF QuartersOfAnImage
  <1> QED
    BY <1>5, <1>6, <1>7, <1>8 DEF XInv, QuartersOfAnImage, w

LEMMA XStepHolds == XInv /\ [Windows!XNext]_Windows!xVars => XInv'
  <1> SUFFICES ASSUME XInv, [Windows!XNext]_Windows!xVars
               PROVE  XInv'
    OBVIOUS
  <1>1. ASSUME UNCHANGED <<requests, missing, taken, in_step, exposed>>,
               drawing' \in {"connect", "header", "setup", "requests"} =>
                   drawing \in {"connect", "header", "setup", "requests"}
        PROVE  XInv'
    BY <1>1 DEF XInv, XTypes, WholeRequests, QuartersOfAnImage, Windows!Images
  <1>2. CASE Windows!Setup
    <2>1. CASE requests = <<>>
      BY <1>1, <1>2, <2>1 DEF Windows!Setup
    <2>2. CASE requests # <<>>
      <3>1. /\ Head(requests) \in {Windows!create_window, Windows!create_gc, Windows!map_window}
            /\ Tail(requests) \in Seq({Windows!create_window, Windows!create_gc, Windows!map_window})
        BY <2>2 DEF XInv, XTypes
      <3>2. /\ drawing = "requests" /\ drawing' = drawing /\ exposed' = exposed
            /\ requests' = Tail(requests) /\ Windows!Take(Head(requests))
        BY <1>2, <2>2 DEF Windows!Setup
      <3>3. missing = 0 /\ exposed = 0
        BY <3>2 DEF XInv, WholeRequests, QuartersOfAnImage
      <3>4. taken' \in Seq(Ops) /\ missing' = 0 /\ in_step' = TRUE /\ Windows!Images' = Windows!Images
        BY <3>1, <3>2, <3>3, TakesARequest
      <3> QED
        BY <3>1, <3>2, <3>3, <3>4 DEF XInv, XTypes, WholeRequests, QuartersOfAnImage
    <2> QED
      BY <2>1, <2>2
  <1>3. ASSUME NEW n \in 1 .. ReadEvents, Windows!HandleEvent(n)
        PROVE  XInv'
    <2>1. CASE Head(x_events) = "exposure"
      <3>1. Windows!Draw /\ drawing' = drawing /\ drawing = "events" /\ requests' = requests
        BY <1>3, <2>1 DEF Windows!HandleEvent
      <3> QED
        BY <3>1, DrawHolds DEF XInv, XTypes, WholeRequests
    <2>2. CASE Head(x_events) # "exposure"
      BY <1>1, <1>3, <2>2 DEF Windows!HandleEvent
    <2> QED
      BY <2>1, <2>2
  <1>4. ASSUME NEW event \in {"exposure", "key_release", "error"}, Windows!Happens(event)
        PROVE  XInv'
    BY <1>1, <1>4 DEF Windows!Happens
  <1>5. CASE \/ Windows!Connect \/ Windows!ReadHead \/ Windows!ReadSetup \/ Windows!Fails
             \/ Windows!ServerLeaves \/ UNCHANGED Windows!xVars
    BY <1>1, <1>5 DEF Windows!Connect, Windows!ReadHead, Windows!ReadSetup, Windows!Fails,
                      Windows!ServerLeaves, Windows!Ends, Windows!xVars
  <1> QED
    BY <1>2, <1>3, <1>4, <1>5 DEF Windows!XNext

LEMMA StepsOfX == [Next]_vars => [Windows!XNext]_Windows!xVars
  BY DEF Next, vars, xVars, Windows!xVars, RetryStep, PgExecStep, HttpExchangeStep,
     PoolStep, BitarrayStep, RingDequeStep, SpansStep, BuffersStep, AllocTraceStep, SudokuStep,
     OnCallStep, X11Step, RopesStep, PuzzlesStep, SymbolizerStep

\* Whatever the length of the image and whatever the server sends: it has taken
\* an image for every four exposures, and never a part of one for a request.
THEOREM StreamAlwaysStaysInStep == Spec => []StreamStaysInStep
  <1>1. Init => XInv
    BY XInitHolds DEF Init
  <1>2. XInv /\ [Next]_vars => XInv'
    BY StepsOfX, XStepHolds
  <1>3. XInv => StreamStaysInStep
    BY DEF XInv, XTypes, StreamStaysInStep, Windows!StreamStaysInStep
  <1> QED
    BY <1>1, <1>2, <1>3, PTL DEF Spec
-----------------------------------------------------------------------------
(***************************************************************************)
(* Ropes: RopesAreRight, for ropes of any number of knots on a grid of any *)
(* size. That the jump of 9_1 and the step of 9_2 agree on the second knot *)
(* is arithmetic, and needs that it was near the head before. A knot that  *)
(* follows one that moved by a step stays near to it and moves by a step   *)
(* itself (KnotFollows), which is carried along the rope by induction; and *)
(* as it goes between where it was and the one before, the rope stays      *)
(* where its head is, on the grid.                                         *)
(***************************************************************************)

Point == [x : Int, y : Int]
Near(a, b) == a.x - b.x \in -1 .. 1 /\ a.y - b.y \in -1 .. 1
Within(a, half) == /\ -half < a.x /\ a.x < half
                   /\ -half < a.y /\ a.y < half
\* A vector of length one along an axis.
IsUnit(v) == \/ v.x = 0 /\ v.y \in {-1, 1}
             \/ v.y = 0 /\ v.x \in {-1, 1}
Half == GridSide \div 2

RopeInv ==
    /\ rope_head \in Point /\ tail \in Point /\ Near(rope_head, tail)
    /\ rope \in [1 .. RopeLen -> Point]
    /\ rope[1] = RopesOf!Flip(rope_head) /\ rope[2] = RopesOf!Flip(tail)
    /\ \A k \in 2 .. RopeLen : Near(rope[k - 1], rope[k])
    /\ ~off_grid /\ Half >= 1 => /\ Within(rope_head, Half) /\ Within(tail, Half)
                                 /\ \A k \in 1 .. RopeLen : Within(rope[k], Half)
    /\ \A cell \in visited_cells \cup rope_cells : RopesOf!HasCell(cell)

LEMMA NearIsDist ==
    ASSUME NEW a \in Point, NEW b \in Point
    PROVE  RopesOf!chebychev_dist(a, b) \in Nat /\ (RopesOf!chebychev_dist(a, b) <= 1 <=> Near(a, b))
  <1> DEFINE dx == RopesOf!Abs(a.x - b.x)
             dy == RopesOf!Abs(a.y - b.y)
  <1>1. /\ dx \in Nat /\ (dx <= 1 <=> a.x - b.x \in -1 .. 1)
        /\ dy \in Nat /\ (dy <= 1 <=> a.y - b.y \in -1 .. 1)
    BY DEF RopesOf!Abs, Point
  <1>2. RopesOf!chebychev_dist(a, b) = RopesOf!Max({dx, dy})
    BY DEF RopesOf!chebychev_dist
  <1> HIDE DEF dx, dy
  <1>3. \E m \in {dx, dy} : \A n \in {dx, dy} : m >= n
    BY <1>1
  <1>4. RopesOf!Max({dx, dy}) \in {dx, dy} /\ \A n \in {dx, dy} : RopesOf!Max({dx, dy}) >= n
    BY <1>3 DEF RopesOf!Max
  <1> QED
    BY <1>1, <1>2, <1>4 DEF Near

LEMMA HalfOfGrid == Half \in Nat /\ 2 * Half <= GridSide /\ GridSide \in Nat
  <1> DEFINE two == 2
  <1>1. GridSide \in Int /\ two \in Nat \ {0} /\ two = 2
    BY RopeAssumption
  <1> HIDE DEF two
  <1>2. /\ GridSide \div two \in Int /\ GridSide % two \in Nat /\ GridSide % two < two
        /\ GridSide = two * (GridSide \div two) + (GridSide % two)
    BY <1>1, DivMod
  <1>3. Half = GridSide \div two
    BY <1>1 DEF Half
  <1> QED
    BY <1>1, <1>2, <1>3, RopeAssumption

LEMMA GridIsWithin ==
    ASSUME NEW a \in Point
    PROVE  /\ RopesOf!IsOnGrid(a) <=> Within(a, Half)
           /\ Within(a, Half) => Half >= 1 /\ RopesOf!HasCell(a)
  <1>1. RopesOf!IsOnGrid(a) <=> RopesOf!Abs(a.x) < Half /\ RopesOf!Abs(a.y) < Half
    BY DEF RopesOf!IsOnGrid, Half
  <1>2. RopesOf!HasCell(a) <=> a.x + Half \in 0 .. GridSide - 1 /\ a.y + Half \in 0 .. GridSide - 1
    BY DEF RopesOf!HasCell, Half
  <1>3. a.x \in Int /\ a.y \in Int
    BY DEF Point
  <1> QED
    BY <1>1, <1>2, <1>3, HalfOfGrid DEF Within, RopesOf!Abs

-----------------------------------------------------------------------------
\* A knot that follows one that moved by a step.
LEMMA KnotFollows ==
    ASSUME NEW front \in Point, NEW old \in Point, NEW knot \in Point, NEW half \in Nat,
           Near(front, old), Near(old, knot)
    PROVE  LET next == RopesOf!move_rope_knot_step(front, knot) IN
           /\ next \in Point /\ Near(next, knot) /\ Near(front, next)
           /\ Within(front, half) /\ Within(knot, half) => Within(next, half)
  <1> DEFINE next == RopesOf!move_rope_knot_step(front, knot)
  <1>1. /\ front.x \in Int /\ front.y \in Int /\ knot.x \in Int /\ knot.y \in Int
        /\ front.x - knot.x \in -2 .. 2 /\ front.y - knot.y \in -2 .. 2
    BY DEF Point, Near
  <1>2. CASE Near(front, knot)
    <2>1. next = knot
      BY <1>2, NearIsDist DEF RopesOf!move_rope_knot_step
    <2> QED
      BY <1>1, <1>2, <2>1 DEF Near
  <1>3. CASE ~Near(front, knot)
    <2> DEFINE dx == RopesOf!Clamp(front.x - knot.x)
               dy == RopesOf!Clamp(front.y - knot.y)
    <2>1. next = [x |-> knot.x + dx, y |-> knot.y + dy]
      BY <1>3, NearIsDist DEF RopesOf!move_rope_knot_step, RopesOf!Plus
    <2>2. /\ dx \in -1 .. 1 /\ dy \in -1 .. 1
          /\ front.x - (knot.x + dx) \in -1 .. 1 /\ front.y - (knot.y + dy) \in -1 .. 1
          /\ -half < front.x /\ -half < knot.x => -half < knot.x + dx
          /\ front.x < half /\ knot.x < half => knot.x + dx < half
          /\ -half < front.y /\ -half < knot.y => -half < knot.y + dy
          /\ front.y < half /\ knot.y < half => knot.y + dy < half
      BY <1>1 DEF RopesOf!Clamp
    <2> HIDE DEF dx, dy, next
    <2>3. next.x = knot.x + dx /\ next.y = knot.y + dy /\ next \in Point
      BY <1>1, <2>1, <2>2 DEF Point
    <2> QED
      BY <1>1, <2>2, <2>3 DEF Near, Within, next
  <1> QED
    BY <1>2, <1>3

IsPulled(p, knots, delta) ==
    p = [k \in DOMAIN knots |-> IF k = 1 THEN RopesOf!Plus(knots[1], delta)
                                ELSE RopesOf!move_rope_knot_step(p[k - 1], knots[k])]

LEMMA MoveIsPoint ==
    ASSUME NEW a \in Point, NEW b \in Point
    PROVE  RopesOf!move_rope_knot_step(a, b) \in Point
  <1>1. RopesOf!Clamp(a.x - b.x) \in Int /\ RopesOf!Clamp(a.y - b.y) \in Int
    BY DEF RopesOf!Clamp, Point
  <1> QED
    BY <1>1 DEF RopesOf!move_rope_knot_step, RopesOf!Plus, Point

LEMMA PulledIs ==
    ASSUME NEW knots \in [1 .. RopeLen -> Point], NEW delta \in Point
    PROVE  LET p == RopesOf!Pulled(knots, delta) IN
           /\ p = [k \in 1 .. RopeLen |-> p[k]]
           /\ p[1] = RopesOf!Plus(knots[1], delta)
           /\ \A k \in 2 .. RopeLen : p[k] = RopesOf!move_rope_knot_step(p[k - 1], knots[k])
  <1> DEFINE N == RopeLen - 1
             V == Point
             zero == RopesOf!Plus(knots[1], delta)
             rule == [q \in (1 .. N) \X V |-> RopesOf!move_rope_knot_step(q[2], knots[q[1] + 1])]
  <1>1. N \in Nat /\ 1 \in 1 .. RopeLen /\ \A n \in 1 .. N : n + 1 \in 1 .. RopeLen
    BY RopeAssumption
  <1>2. zero \in V
    BY <1>1 DEF RopesOf!Plus, Point
  <1>3. rule \in [(1 .. N) \X V -> V]
    BY <1>1, MoveIsPoint
  <1>4. \A n \in 1 .. N, x \in V : rule[<<n, x>>] = RopesOf!move_rope_knot_step(x, knots[n + 1])
    OBVIOUS
  <1> HIDE DEF N, V, zero, rule
  <1>5. PICK f : IsRecursive(f, N, V, zero, rule)
    BY <1>1, <1>2, <1>3, RecursionExists
  <1>6. f \in [0 .. N -> V] /\ f[0] = zero /\ \A n \in 1 .. N : f[n] = rule[<<n, f[n - 1]>>]
    BY <1>5 DEF IsRecursive
  <1> DEFINE p == [k \in 1 .. RopeLen |-> f[k - 1]]
  <1>7. ASSUME NEW k \in 1 .. RopeLen
        PROVE  p[k] = IF k = 1 THEN zero ELSE RopesOf!move_rope_knot_step(p[k - 1], knots[k])
    <2>1. CASE k = 1
      BY <1>6, <2>1
    <2>2. CASE k # 1
      <3>1. k - 1 \in 1 .. N /\ k - 1 \in 1 .. RopeLen /\ k - 1 - 1 \in 0 .. N /\ k - 1 + 1 = k
        BY <2>2, RopeAssumption DEF N
      <3>2. f[k - 1 - 1] \in V
        BY <1>6, <3>1
      <3>3. f[k - 1] = rule[<<k - 1, f[k - 1 - 1]>>]
        BY <1>6, <3>1
      <3>4. f[k - 1] = RopesOf!move_rope_knot_step(f[k - 1 - 1], knots[k - 1 + 1])
        BY <1>4, <3>1, <3>2, <3>3
      <3> QED
        BY <2>2, <3>1, <3>4
    <2> QED
      BY <2>1, <2>2
  <1>8. IsPulled(p, knots, delta)
    <2> DEFINE g == [k \in 1 .. RopeLen |-> IF k = 1 THEN zero
                                            ELSE RopesOf!move_rope_knot_step(p[k - 1], knots[k])]
    <2>1. \A k \in 1 .. RopeLen : p[k] = g[k]
      BY <1>7
    <2>2. p = g
      <3>1. p = [k \in 1 .. RopeLen |-> p[k]] /\ g = [k \in 1 .. RopeLen |-> g[k]]
        OBVIOUS
      <3> HIDE DEF p, g
      <3> QED
        BY <2>1, <3>1
    <2>3. DOMAIN knots = 1 .. RopeLen
      OBVIOUS
    <2> QED
      BY <2>2, <2>3 DEF IsPulled, zero
  <1> DEFINE r == RopesOf!Pulled(knots, delta)
  <1>9. r = CHOOSE q : IsPulled(q, knots, delta)
    BY DEF RopesOf!Pulled, IsPulled
  <1>10. IsPulled(r, knots, delta)
    BY <1>8, <1>9
  <1> HIDE DEF r
  <1>11. r = [k \in 1 .. RopeLen |-> IF k = 1 THEN RopesOf!Plus(knots[1], delta)
                                     ELSE RopesOf!move_rope_knot_step(r[k - 1], knots[k])]
    BY <1>10 DEF IsPulled
  <1>12. r = [k \in 1 .. RopeLen |-> r[k]]
    BY <1>11
  <1>13. r[1] = RopesOf!Plus(knots[1], delta)
    BY <1>1, <1>11
  <1>14. \A k \in 2 .. RopeLen : r[k] = RopesOf!move_rope_knot_step(r[k - 1], knots[k])
    <2> SUFFICES ASSUME NEW k \in 2 .. RopeLen PROVE r[k] = RopesOf!move_rope_knot_step(r[k - 1], knots[k])
      OBVIOUS
    <2>1. k \in 1 .. RopeLen /\ k # 1
      OBVIOUS
    <2> QED
      BY <1>11, <2>1
  <1> QED
    BY <1>12, <1>13, <1>14 DEF r

\* The rope behind a head that moved by a step.
LEMMA RopeFollows ==
    ASSUME NEW knots \in [1 .. RopeLen -> Point], NEW delta \in Point, NEW half \in Nat,
           Near(RopesOf!Plus(knots[1], delta), knots[1]),
           \A k \in 2 .. RopeLen : Near(knots[k - 1], knots[k])
    PROVE  LET p == RopesOf!Pulled(knots, delta) IN
           /\ p \in [1 .. RopeLen -> Point]
           /\ p[1] = RopesOf!Plus(knots[1], delta)
           /\ p[2] = RopesOf!move_rope_knot_step(p[1], knots[2])
           /\ \A k \in 2 .. RopeLen : Near(p[k - 1], p[k])
           /\ Within(p[1], half) /\ (\A k \in 1 .. RopeLen : Within(knots[k], half))
                => \A k \in 1 .. RopeLen : Within(p[k], half)
  <1> DEFINE p == RopesOf!Pulled(knots, delta)
             N == RopeLen - 1
             inside == Within(p[1], half) /\ \A k \in 1 .. RopeLen : Within(knots[k], half)
             S == {n \in 0 .. N : /\ p[n + 1] \in Point /\ Near(p[n + 1], knots[n + 1])
                                  /\ inside => Within(p[n + 1], half)
                                  /\ n > 0 => Near(p[n], p[n + 1])}
  <1>1. N \in Nat /\ N >= 1 /\ 1 \in 1 .. RopeLen /\ 2 \in 2 .. RopeLen
    BY RopeAssumption
  <1>2. /\ p = [k \in 1 .. RopeLen |-> p[k]]
        /\ p[1] = RopesOf!Plus(knots[1], delta)
        /\ \A k \in 2 .. RopeLen : p[k] = RopesOf!move_rope_knot_step(p[k - 1], knots[k])
    BY PulledIs
  <1> HIDE DEF p
  <1>3. 0 \in S
    <2>1. p[1] \in Point
      BY <1>1, <1>2 DEF RopesOf!Plus, Point
    <2> QED
      BY <1>1, <1>2, <2>1
  <1>4. ASSUME NEW n \in 0 .. N - 1, n \in S PROVE n + 1 \in S
    <2> DEFINE k == n + 2
    <2>1. k \in 2 .. RopeLen /\ k \in 1 .. RopeLen /\ n + 1 \in 1 .. RopeLen /\ k - 1 = n + 1 /\ n + 1 + 1 = k /\ n + 1 \in 0 .. N
      BY <1>1, RopeAssumption
    <2> HIDE DEF k, N
    <2>2. p[n + 1] \in Point /\ Near(p[n + 1], knots[n + 1]) /\ (inside => Within(p[n + 1], half))
      BY <1>4
    <2>3. knots[n + 1] \in Point /\ knots[k] \in Point /\ Near(knots[n + 1], knots[k])
      BY <2>1
    <2>4. p[k] = RopesOf!move_rope_knot_step(p[n + 1], knots[k])
      BY <1>2, <2>1
    <2>5. /\ p[k] \in Point /\ Near(p[k], knots[k]) /\ Near(p[n + 1], p[k])
          /\ Within(p[n + 1], half) /\ Within(knots[k], half) => Within(p[k], half)
      BY <2>2, <2>3, <2>4, KnotFollows
    <2>6. inside => Within(p[k], half)
      BY <2>1, <2>2, <2>5
    <2> HIDE DEF inside
    <2> QED
      BY <2>1, <2>5, <2>6
  <1>5. \A n \in 0 .. N : n \in S
    <2> HIDE DEF S, N
    <2> QED
      BY <1>1, <1>3, <1>4, UpToInduction
  <1>6. ASSUME NEW k \in 1 .. RopeLen
        PROVE  p[k] \in Point /\ (inside => Within(p[k], half)) /\ (k \in 2 .. RopeLen => Near(p[k - 1], p[k]))
    <2>1. k - 1 \in 0 .. N /\ k - 1 + 1 = k /\ (k \in 2 .. RopeLen => k - 1 > 0)
      BY <1>1, RopeAssumption
    <2>2. k - 1 \in S
      BY <1>5, <2>1
    <2> HIDE DEF inside, N
    <2> QED
      BY <2>1, <2>2
  <1>7. p \in [1 .. RopeLen -> Point]
    BY <1>2, <1>6
  <1>8. \A k \in 2 .. RopeLen : Near(p[k - 1], p[k])
    <2>1. \A k \in 2 .. RopeLen : k \in 1 .. RopeLen
      OBVIOUS
    <2> QED
      BY <1>6, <2>1
  <1>9. p[2] = RopesOf!move_rope_knot_step(p[1], knots[2])
    BY <1>1, <1>2, 2 - 1 = 1
  <1> QED
    BY <1>2, <1>6, <1>7, <1>8, <1>9 DEF p

-----------------------------------------------------------------------------
LEMMA FlipIs ==
    ASSUME NEW a \in Point
    PROVE  /\ RopesOf!Flip(a) \in Point /\ RopesOf!Flip(a).x = a.x /\ RopesOf!Flip(a).y = -a.y
           /\ Within(a, Half) => Within(RopesOf!Flip(a), Half)
  <1>1. RopesOf!Flip(a) \in Point /\ RopesOf!Flip(a).x = a.x /\ RopesOf!Flip(a).y = -a.y
    BY DEF RopesOf!Flip, Point
  <1> QED
    BY <1>1, HalfOfGrid DEF Within, Point

LEMMA SamePoint == ASSUME NEW a \in Point, NEW b \in Point, a.x = b.x, a.y = b.y PROVE a = b
  BY DEF Point

\* A direction is along one of the axes.
LEMMA VectorIs ==
    ASSUME NEW d \in DOMAIN RopesOf!Vector
    PROVE  RopesOf!Vector[d] \in Point /\ IsUnit(RopesOf!Vector[d])
  BY DEF RopesOf!Vector, Point, IsUnit

\* The jump of 9_1 and the step of 9_2 lead to the same place.
LEMMA RulesAgree ==
    ASSUME NEW h \in Point, NEW t \in Point, NEW v \in Point, Near(h, t),
           IsUnit(v)
    PROVE  LET front == RopesOf!Plus(h, v)
               t_    == IF RopesOf!chebychev_dist(front, t) > 1 THEN h ELSE t
           IN  /\ front \in Point /\ t_ \in Point /\ Near(front, t_)
               /\ RopesOf!Plus(RopesOf!Flip(h), RopesOf!Flip(v)) = RopesOf!Flip(front)
               /\ RopesOf!move_rope_knot_step(RopesOf!Flip(front), RopesOf!Flip(t)) = RopesOf!Flip(t_)
  <1> DEFINE front == RopesOf!Plus(h, v)
             up   == RopesOf!Flip(front)
             knot == RopesOf!Flip(t)
  <1>1. front \in Point /\ front.x = h.x + v.x /\ front.y = h.y + v.y
    BY DEF RopesOf!Plus, Point
  <1>2. /\ h.x \in Int /\ h.y \in Int /\ t.x \in Int /\ t.y \in Int /\ v.x \in Int /\ v.y \in Int
        /\ h.x - t.x \in -1 .. 1 /\ h.y - t.y \in -1 .. 1
        /\ \/ v.x = 0 /\ v.y \in {-1, 1}
           \/ v.y = 0 /\ v.x \in {-1, 1}
    BY DEF Point, Near, IsUnit
  <1> HIDE DEF front
  <1>3. /\ up \in Point /\ up.x = front.x /\ up.y = -front.y
        /\ knot \in Point /\ knot.x = t.x /\ knot.y = -t.y
    BY <1>1, FlipIs
  <1>4. Near(up, knot) <=> Near(front, t)
    <2>1. front.x \in Int /\ front.y \in Int
      BY <1>1, <1>2
    <2>2. up.x - knot.x = front.x - t.x /\ up.y - knot.y = -(front.y - t.y)
      BY <1>2, <1>3, <2>1
    <2>3. front.y - t.y \in Int /\ (-(front.y - t.y) \in -1 .. 1 <=> front.y - t.y \in -1 .. 1)
      BY <1>2, <2>1
    <2> HIDE DEF up, knot
    <2> QED
      BY <2>2, <2>3 DEF Near
  <1>5. RopesOf!Plus(RopesOf!Flip(h), RopesOf!Flip(v)) = up
    <2>1. RopesOf!Flip(h) \in Point /\ RopesOf!Flip(h).x = h.x /\ RopesOf!Flip(h).y = -h.y
      BY FlipIs
    <2>2. RopesOf!Flip(v) \in Point /\ RopesOf!Flip(v).x = v.x /\ RopesOf!Flip(v).y = -v.y
      BY FlipIs
    <2> DEFINE p == RopesOf!Plus(RopesOf!Flip(h), RopesOf!Flip(v))
    <2>3. p \in Point /\ p.x = h.x + v.x /\ p.y = -h.y + -v.y
      BY <1>2, <2>1, <2>2 DEF RopesOf!Plus, Point
    <2> HIDE DEF p, up
    <2>4. p = up
      BY <1>1, <1>2, <1>3, <2>3, SamePoint
    <2> QED
      BY <2>4 DEF p
  <1>6. CASE Near(front, t)
    <2>1. ~(RopesOf!chebychev_dist(front, t) > 1)
      BY <1>1, <1>6, NearIsDist
    <2>2. RopesOf!move_rope_knot_step(up, knot) = knot
      BY <1>3, <1>4, <1>6, NearIsDist DEF RopesOf!move_rope_knot_step
    <2> QED
      BY <1>1, <1>5, <1>6, <2>1, <2>2 DEF front
  <1>7. CASE ~Near(front, t)
    <2>1. RopesOf!chebychev_dist(front, t) > 1
      BY <1>1, <1>7, NearIsDist
    <2> DEFINE dx == RopesOf!Clamp(up.x - knot.x)
               dy == RopesOf!Clamp(up.y - knot.y)
               m == RopesOf!move_rope_knot_step(up, knot)
    <2>2. dx = h.x - t.x /\ dy = -(h.y - t.y)
      <3>1. ~((h.x + v.x) - t.x \in -1 .. 1 /\ (h.y + v.y) - t.y \in -1 .. 1)
        <4>1. ~(front.x - t.x \in -1 .. 1 /\ front.y - t.y \in -1 .. 1)
          BY <1>7 DEF Near
        <4>2. front.x = h.x + v.x /\ front.y = h.y + v.y
          BY <1>1
        <4>3. front.x - t.x = (h.x + v.x) - t.x /\ front.y - t.y = (h.y + v.y) - t.y
          BY <4>2
        <4> QED
          BY <4>1, <4>3
      <3>2. up.x - knot.x = (h.x + v.x) - t.x /\ up.y - knot.y = -((h.y + v.y) - t.y)
        BY <1>1, <1>2, <1>3
      <3> DEFINE a == up.x - knot.x
                 b == up.y - knot.y
                 p == h.x - t.x
                 q == h.y - t.y
      <3>3. p \in -1 .. 1 /\ q \in -1 .. 1 /\ a = p + v.x /\ b = -(q + v.y)
        BY <1>2, <3>2
      <3>4. ~(p + v.x \in -1 .. 1 /\ q + v.y \in -1 .. 1)
        <4>1. (h.x + v.x) - t.x = p + v.x /\ (h.y + v.y) - t.y = q + v.y
          BY <1>2
        <4> HIDE DEF p, q
        <4> QED
          BY <3>1, <4>1
      <3> HIDE DEF a, b, p, q
      <3>5. RopesOf!Clamp(a) = p /\ RopesOf!Clamp(b) = -q
        BY <1>2, <3>3, <3>4 DEF RopesOf!Clamp
      <3> QED
        BY <3>5 DEF a, b, p, q
    <2>3. m = RopesOf!Plus(knot, [x |-> dx, y |-> dy])
      BY <1>3, <1>4, <1>7, NearIsDist DEF RopesOf!move_rope_knot_step
    <2>4. m \in Point /\ m.x = h.x /\ m.y = -h.y
      <3> HIDE DEF dx, dy, m, knot
      <3>1. m = [x |-> knot.x + dx, y |-> knot.y + dy]
        BY <2>3 DEF RopesOf!Plus
      <3> QED
        BY <1>2, <1>3, <2>2, <3>1 DEF Point
    <2>5. m = RopesOf!Flip(h)
      <3> HIDE DEF m
      <3> QED
        BY <2>4, FlipIs, SamePoint
    <2>6. Near(front, h)
      BY <1>1, <1>2 DEF Near
    <2> QED
      BY <1>1, <1>5, <2>1, <2>5, <2>6 DEF front
  <1> QED
    BY <1>6, <1>7

LEMMA RopeInitHolds == RopesOf!RopesInit => RopeInv
  <1> SUFFICES ASSUME RopesOf!RopesInit PROVE RopeInv
    OBVIOUS
  <1> DEFINE o == RopesOf!Origin
  <1>1. o \in Point /\ o.x = 0 /\ o.y = 0 /\ Near(o, o) /\ (Half >= 1 => Within(o, Half))
    BY HalfOfGrid DEF RopesOf!Origin, Point, Near, Within
  <1>2. RopesOf!Flip(o) = o
    BY <1>1, FlipIs, SamePoint
  <1> HIDE DEF o
  <1>3. rope_head = o /\ tail = o /\ visited_cells = {} /\ rope_cells = {} /\ rope = [k \in 1 .. RopeLen |-> o]
    BY DEF RopesOf!RopesInit, o
  <1>4. \A k \in 1 .. RopeLen : rope[k] = o
    BY <1>3
  <1>5. 1 \in 1 .. RopeLen /\ 2 \in 1 .. RopeLen /\ \A k \in 2 .. RopeLen : k \in 1 .. RopeLen /\ k - 1 \in 1 .. RopeLen
    BY RopeAssumption
  <1> QED
    BY <1>1, <1>2, <1>3, <1>4, <1>5 DEF RopeInv

LEMMA RopeStep ==
    ASSUME RopeInv, NEW d \in DOMAIN RopesOf!Vector, RopesOf!Step(d)
    PROVE  RopeInv'
  <1> DEFINE v == RopesOf!Vector[d]
  <1>1. v \in Point /\ IsUnit(v)
    BY VectorIs
  <1>2. /\ ~off_grid
        /\ rope_head' = RopesOf!Plus(rope_head, v)
        /\ rope' = RopesOf!Pulled(rope, RopesOf!Flip(v))
        /\ off_grid' = ~RopesOf!IsOnGrid(rope_head')
        /\ tail' = IF RopesOf!chebychev_dist(rope_head', tail) > 1 THEN rope_head ELSE tail
        /\ visited_cells' = IF off_grid' THEN visited_cells ELSE visited_cells \cup {tail'}
        /\ rope_cells'    = IF off_grid' THEN rope_cells ELSE rope_cells \cup {rope'[RopeLen]}
    BY DEF RopesOf!Step
  <1> HIDE DEF v
  <1>3. /\ rope_head \in Point /\ tail \in Point /\ Near(rope_head, tail)
        /\ rope \in [1 .. RopeLen -> Point]
        /\ rope[1] = RopesOf!Flip(rope_head) /\ rope[2] = RopesOf!Flip(tail)
        /\ \A k \in 2 .. RopeLen : Near(rope[k - 1], rope[k])
        /\ Half >= 1 => /\ Within(rope_head, Half) /\ Within(tail, Half)
                        /\ \A k \in 1 .. RopeLen : Within(rope[k], Half)
        /\ \A cell \in visited_cells \cup rope_cells : RopesOf!HasCell(cell)
    BY <1>2 DEF RopeInv
  <1>4. /\ rope_head' \in Point /\ tail' \in Point /\ Near(rope_head', tail')
        /\ RopesOf!Plus(rope[1], RopesOf!Flip(v)) = RopesOf!Flip(rope_head')
        /\ RopesOf!move_rope_knot_step(RopesOf!Flip(rope_head'), rope[2]) = RopesOf!Flip(tail')
    BY <1>1, <1>2, <1>3, RulesAgree
  <1>5. RopesOf!Flip(v) \in Point /\ Near(RopesOf!Plus(rope[1], RopesOf!Flip(v)), rope[1])
    <2>1. RopesOf!Flip(v) \in Point /\ RopesOf!Flip(v).x \in -1 .. 1 /\ RopesOf!Flip(v).y \in -1 .. 1
      BY <1>1, FlipIs DEF IsUnit
    <2>2. rope[1] \in Point
      BY <1>3, FlipIs
    <2> QED
      BY <2>1, <2>2 DEF RopesOf!Plus, Near, Point
  <1>6. /\ rope' \in [1 .. RopeLen -> Point]
        /\ rope'[1] = RopesOf!Flip(rope_head') /\ rope'[2] = RopesOf!Flip(tail')
        /\ \A k \in 2 .. RopeLen : Near(rope'[k - 1], rope'[k])
        /\ Within(rope'[1], Half) /\ (\A k \in 1 .. RopeLen : Within(rope[k], Half))
             => \A k \in 1 .. RopeLen : Within(rope'[k], Half)
    <2> DEFINE p == RopesOf!Pulled(rope, RopesOf!Flip(v))
    <2>1. /\ p \in [1 .. RopeLen -> Point]
          /\ p[1] = RopesOf!Plus(rope[1], RopesOf!Flip(v))
          /\ p[2] = RopesOf!move_rope_knot_step(p[1], rope[2])
          /\ \A k \in 2 .. RopeLen : Near(p[k - 1], p[k])
          /\ Within(p[1], Half) /\ (\A k \in 1 .. RopeLen : Within(rope[k], Half))
               => \A k \in 1 .. RopeLen : Within(p[k], Half)
      BY <1>3, <1>5, HalfOfGrid, RopeFollows
    <2>2. rope' = p
      BY <1>2
    <2> HIDE DEF p
    <2> QED
      BY <1>4, <2>1, <2>2
  <1>7. ASSUME ~off_grid'
        PROVE  /\ Half >= 1 /\ Within(rope_head', Half) /\ Within(tail', Half)
               /\ \A k \in 1 .. RopeLen : Within(rope'[k], Half)
    <2>1. Half >= 1 /\ Within(rope_head', Half)
      BY <1>2, <1>4, <1>7, GridIsWithin
    <2>2. Within(tail', Half)
      BY <1>2, <1>3, <2>1
    <2>3. Within(rope'[1], Half)
      BY <1>4, <1>6, <2>1, FlipIs
    <2> QED
      BY <1>3, <1>6, <2>1, <2>2, <2>3
  <1>8. ASSUME ~off_grid'
        PROVE  RopesOf!HasCell(tail') /\ RopesOf!HasCell(rope'[RopeLen])
    <2>1. RopeLen \in 1 .. RopeLen
      BY RopeAssumption
    <2>2. rope'[RopeLen] \in Point
      BY <1>6, <2>1
    <2> QED
      BY <1>4, <1>7, <1>8, <2>1, <2>2, GridIsWithin
  <1>9. \A cell \in visited_cells' \cup rope_cells' : RopesOf!HasCell(cell)
    BY <1>2, <1>3, <1>8
  <1> QED
    BY <1>4, <1>6, <1>7, <1>9 DEF RopeInv, Half

LEMMA RopeStepHolds == RopeInv /\ [RopesOf!RopesNext]_ropeVars => RopeInv'
  <1> SUFFICES ASSUME RopeInv, [RopesOf!RopesNext]_ropeVars PROVE RopeInv'
    OBVIOUS
  <1>1. CASE RopesOf!RopesNext
    BY <1>1, RopeStep DEF RopesOf!RopesNext
  <1>2. CASE UNCHANGED ropeVars
    BY <1>2 DEF RopeInv, ropeVars, Half
  <1> QED
    BY <1>1, <1>2

LEMMA RopeInvSuffices == RopeInv => RopesOf!RopesAreRight
  <1> SUFFICES ASSUME RopeInv, NEW k \in 2 .. RopeLen
               PROVE  RopesOf!chebychev_dist(rope[k - 1], rope[k]) <= 1
    BY DEF RopeInv, RopesOf!RopesAreRight, RopesOf!TailIsSecondKnot, RopesOf!RopeHolds
  <1>1. k \in 1 .. RopeLen /\ k - 1 \in 1 .. RopeLen
    BY RopeAssumption
  <1>2. rope[k - 1] \in Point /\ rope[k] \in Point /\ Near(rope[k - 1], rope[k])
    BY <1>1 DEF RopeInv
  <1> QED
    BY <1>2, NearIsDist
-----------------------------------------------------------------------------
(***************************************************************************)
(* Puzzles: PuzzlesAreSolved, for any input. Of the markers, that four     *)
(* letters differ if and only if the exclusive or of their bits has four,  *)
(* and that none starts at a multiple of four behind the loop; of the      *)
(* trees, that a tree is higher than the highest before it if and only if  *)
(* it is than each; and of the groups, that `sum` is the sum of the group  *)
(* that is being read, which began after the last blank line, and `max`    *)
(* the largest of those that a blank line has ended.                       *)
(***************************************************************************)

LEMMA PuzzleCardinality == ASSUME NEW S PROVE PuzzlesOf!Cardinality(S) = Cardinality(S)
  BY DEF PuzzlesOf!Cardinality, Cardinality

\* A finite set of numbers has a largest.
LEMMA MaxOfNats ==
    ASSUME NEW S \in SUBSET Nat, IsFiniteSet(S), S # {}
    PROVE  PuzzlesOf!Max(S) \in S /\ \A n \in S : PuzzlesOf!Max(S) >= n
  <1> DEFINE N == Cardinality(S)
  <1>1. N \in Nat /\ N # 0 /\ ExistsBijection(1 .. N, S)
    BY FS_CardinalityType, FS_EmptySet
  <1> HIDE DEF N
  <1>2. PICK f \in [1 .. N -> S] : \A n \in S : \E i \in 1 .. N : f[i] = n
    BY <1>1 DEF ExistsBijection, Bijection, Surjection
  <1> DEFINE T == {k \in 0 .. N - 1 : \E m \in 1 .. k + 1 : \A i \in 1 .. k + 1 : f[m] >= f[i]}
  <1>3. 0 \in T
    <2>1. 0 \in 0 .. N - 1 /\ 0 + 1 = 1 /\ 1 \in 1 .. N /\ 1 \in 1 .. 1 /\ \A i \in 1 .. 1 : i = 1
      BY <1>1
    <2>2. f[1] \in Nat
      BY <2>1
    <2>3. \A i \in 1 .. 1 : f[1] >= f[i]
      BY <2>1, <2>2
    <2> QED
      BY <2>1, <2>3
  <1>4. ASSUME NEW k \in 0 .. (N - 1) - 1, k \in T PROVE k + 1 \in T
    <2>1. PICK m \in 1 .. k + 1 : \A i \in 1 .. k + 1 : f[m] >= f[i]
      BY <1>4
    <2> DEFINE n == k + 2
    <2>2. /\ n \in 1 .. N /\ n = k + 1 + 1 /\ k + 1 \in 0 .. N - 1 /\ m \in 1 .. n /\ n \in 1 .. n /\ m \in 1 .. N
          /\ \A i \in 1 .. n : i \in 1 .. N /\ (i = n \/ i \in 1 .. k + 1)
      BY <1>1
    <2> HIDE DEF n
    <2>3. f[n] \in Nat /\ f[m] \in Nat /\ \A i \in 1 .. n : f[i] \in Nat
      BY <2>2
    <2>4. CASE f[m] >= f[n]
      BY <2>1, <2>2, <2>4
    <2>5. CASE ~(f[m] >= f[n])
      <3>1. \A i \in 1 .. n : f[n] >= f[i]
        BY <2>1, <2>2, <2>3, <2>5
      <3> QED
        BY <2>2, <3>1
    <2> QED
      BY <2>4, <2>5
  <1>5. N - 1 \in T
    <2>1. N - 1 \in Nat /\ N - 1 \in 0 .. N - 1
      BY <1>1
    <2>2. \A k \in 0 .. N - 1 : k \in T
      <3> HIDE DEF T
      <3> QED
        BY <1>3, <1>4, <2>1, UpToInduction
    <2> QED
      BY <2>1, <2>2
  <1>6. PICK m \in 1 .. N : \A i \in 1 .. N : f[m] >= f[i]
    <2>1. N - 1 + 1 = N
      BY <1>1
    <2> QED
      BY <1>5, <2>1
  <1>7. f[m] \in S /\ \A n \in S : f[m] >= n
    BY <1>2, <1>6
  <1> QED
    BY <1>7 DEF PuzzlesOf!Max

LEMMA IsLargest ==
    ASSUME NEW S \in SUBSET Nat, NEW m \in S, \A n \in S : n <= m
    PROVE  PuzzlesOf!Max(S) = m
  <1>1. PuzzlesOf!Max(S) \in S /\ \A n \in S : PuzzlesOf!Max(S) >= n
    BY DEF PuzzlesOf!Max
  <1>2. PuzzlesOf!Max(S) >= m /\ PuzzlesOf!Max(S) <= m /\ PuzzlesOf!Max(S) \in Nat /\ m \in Nat
    BY <1>1
  <1> QED
    BY <1>2

-----------------------------------------------------------------------------
(* The markers. *)

IsMarkers == aoc \in {"6_1", "6_1_xor"}

\* A sequence has as many members as places if and only if they all differ.
AsManyAs(T, k, w) == Cardinality(T) = k <=> \A i, j \in 1 .. k : w[i] = w[j] => i = j

LEMMA AllDiffer ==
    ASSUME NEW k \in Nat, NEW V, NEW w \in [1 .. k -> V]
    PROVE  LET T == {w[i] : i \in 1 .. k} IN
           /\ IsFiniteSet(T) /\ Cardinality(T) \in Nat /\ Cardinality(T) <= k
           /\ AsManyAs(T, k, w)
  <1> DEFINE T == {w[i] : i \in 1 .. k}
  <1>1. w = [i \in 1 .. k |-> w[i]]
    OBVIOUS
  <1>2. w \in Surjection(1 .. k, T)
    <2>1. w \in [1 .. k -> T] /\ \A t \in T : \E i \in 1 .. k : w[i] = t
      BY <1>1
    <2> QED
      BY <2>1 DEF Surjection
  <1> HIDE DEF T
  <1>3. IsFiniteSet(1 .. k) /\ Cardinality(1 .. k) = k
    BY FS_Interval
  <1>4. /\ IsFiniteSet(T) /\ Cardinality(T) <= k
        /\ Cardinality(T) = k <=> w \in Injection(1 .. k, T)
    BY <1>2, <1>3, FS_Surjection
  <1>5. w \in Injection(1 .. k, T) <=> \A i, j \in 1 .. k : w[i] = w[j] => i = j
    BY <1>2 DEF Injection, IsInjective, Surjection
  <1>6. Cardinality(T) \in Nat
    BY <1>4, FS_CardinalityType
  <1> QED
    BY <1>4, <1>5, <1>6 DEF T, AsManyAs

LEMMA PairIs ==
    ASSUME NEW w
    PROVE  PuzzlesOf!HasPair(w) <=> \E i, j \in 1 .. 4 : i # j /\ w[i] = w[j]
  <1>1. ASSUME NEW i \in 1 .. 4, NEW j \in 1 .. 4, i # j, w[i] = w[j] PROVE PuzzlesOf!HasPair(w)
    <2>1. i < j \/ j < i
      BY <1>1
    <2> QED
      BY <1>1, <2>1 DEF PuzzlesOf!HasPair
  <1>2. ASSUME NEW i \in 1 .. 4, NEW j \in 1 .. 4, i < j, w[i] = w[j] PROVE i # j
    BY <1>2
  <1> QED
    BY <1>1, <1>2 DEF PuzzlesOf!HasPair

LEMMA Parity == 0 % 2 = 0 /\ 1 % 2 = 1
  <1> DEFINE two == 2
             zero == 0
             one == 1
  <1>1. /\ two \in Nat \ {0} /\ zero \in Int /\ zero \in Nat /\ one \in Nat /\ zero < two /\ one < two
        /\ two * zero + zero = zero /\ two * zero + one = one
    OBVIOUS
  <1> HIDE DEF two, zero, one
  <1>2. zero % two = zero /\ one % two = one
    BY <1>1, DivModUnique
  <1> QED
    BY <1>2 DEF two, zero, one

\* The bits of the exclusive or are four if and only if the letters differ.
LEMMA CombinedIs ==
    ASSUME NEW w \in [1 .. 4 -> Letters]
    PROVE  PuzzlesOf!Cardinality(PuzzlesOf!Combined(w)) = 4 <=> ~PuzzlesOf!HasPair(w)
  <1> DEFINE T == {w[i] : i \in 1 .. 4}
             C == PuzzlesOf!Combined(w)
             Places(c) == {i \in 1 .. 4 : w[i] = c}
  <1>1. /\ IsFiniteSet(T) /\ Cardinality(T) \in Nat /\ Cardinality(T) <= 4
        /\ Cardinality(T) = 4 <=> ~PuzzlesOf!HasPair(w)
    <2> DEFINE k == 4
    <2>1. k \in Nat /\ w \in [1 .. k -> Letters]
      OBVIOUS
    <2> HIDE DEF k
    <2>2. LET U == {w[i] : i \in 1 .. k} IN
          /\ IsFiniteSet(U) /\ Cardinality(U) \in Nat /\ Cardinality(U) <= k
          /\ AsManyAs(U, k, w)
      BY <2>1, AllDiffer
    <2> HIDE DEF T
    <2>3. /\ IsFiniteSet(T) /\ Cardinality(T) \in Nat /\ Cardinality(T) <= 4
          /\ Cardinality(T) = 4 <=> \A i, j \in 1 .. 4 : w[i] = w[j] => i = j
      BY <2>2, Zenon DEF k, T, AsManyAs
    <2> QED
      BY <2>3, PairIs
  <1>2. T = {w[i] : i \in 1 .. 4} /\ T \subseteq Letters
    OBVIOUS
  <1>3. \A c : c \in C <=> c \in Letters /\ Cardinality(Places(c)) % 2 = 1
    BY PuzzleCardinality DEF PuzzlesOf!Combined
  <1> HIDE DEF T, C
  <1>4. C \subseteq T
    <2> SUFFICES ASSUME NEW c \in C, c \notin T PROVE FALSE
      OBVIOUS
    <2>1. Places(c) = {}
      BY <1>2
    <2>2. Cardinality(Places(c)) = 0
      BY <2>1, FS_EmptySet, Zenon
    <2>3. Cardinality(Places(c)) % 2 = 1
      BY <1>3, Zenon
    <2> HIDE DEF Places
    <2>4. 0 % 2 = 1 /\ 0 % 2 = 0
      BY <2>2, <2>3, Parity, Zenon
    <2> QED
      BY <2>4
  <1>5. IsFiniteSet(C) /\ Cardinality(C) <= Cardinality(T) /\ Cardinality(C) \in Nat
    BY <1>1, <1>4, FS_Subset, FS_CardinalityType
  <1>6. ASSUME ~PuzzlesOf!HasPair(w) PROVE C = T
    <2> SUFFICES ASSUME NEW c \in T PROVE c \in C
      BY <1>4
    <2>1. PICK i \in 1 .. 4 : w[i] = c
      BY <1>2
    <2>2. \A j \in 1 .. 4 : w[j] = c => j = i
      <3> SUFFICES ASSUME NEW j \in 1 .. 4, w[j] = c, j # i PROVE FALSE
        OBVIOUS
      <3>1. i < j \/ j < i
        OBVIOUS
      <3> QED
        BY <1>6, <2>1, <3>1 DEF PuzzlesOf!HasPair
    <2>3. Places(c) = {i}
      BY <2>1, <2>2
    <2>4. Cardinality(Places(c)) = 1
      BY <2>3, FS_Singleton, Zenon
    <2>5. Cardinality(Places(c)) % 2 = 1
      BY <2>4, Parity, Zenon
    <2> QED
      BY <1>2, <1>3, <2>5, Zenon
  <1>7. PuzzlesOf!Cardinality(C) = 4 <=> Cardinality(T) = 4
    BY <1>1, <1>5, <1>6, PuzzleCardinality
  <1> QED
    BY <1>1, <1>7 DEF C

\* What a window holds: the letters, and the NUL behind them.
LEMMA WindowIs ==
    ASSUME input \in Seq(Letters), NEW n \in Nat
    PROVE  LET w == PuzzlesOf!Window(n) IN
           /\ \A i \in 1 .. 4 : n + i <= Len(input) => w[i] \in Letters
           /\ \A i \in 1 .. 4 : n + i > Len(input) => w[i] \notin Letters
           /\ w = [i \in 1 .. 4 |-> w[i]]
           /\ \A k \in 1 .. 4 : n + k <= Len(input)
                => (PuzzlesOf!Differing(n, k) <=> \A i, j \in 1 .. k : w[i] = w[j] => i = j)
  <1> DEFINE w == PuzzlesOf!Window(n)
             L == Len(input)
  <1>1. L \in Nat /\ \A i \in 1 .. L : input[i] \in Letters
    BY LenProperties, ElementOfSeq
  <1>2. /\ \A i \in 1 .. 4 : w[i] = IF n + i <= L THEN input[n + i] ELSE PuzzlesOf!NUL
        /\ w = [i \in 1 .. 4 |-> w[i]]
    BY DEF PuzzlesOf!Window
  <1> HIDE DEF w, L
  <1>3. \A i \in 1 .. 4 : n + i <= L => w[i] \in Letters
    BY <1>1, <1>2
  <1>4. \A i \in 1 .. 4 : n + i > L => w[i] \notin Letters
    BY <1>1, <1>2, PuzzleAssumption
  <1>5. ASSUME NEW k \in 1 .. 4, n + k <= L
        PROVE  PuzzlesOf!Differing(n, k) <=> \A i, j \in 1 .. k : w[i] = w[j] => i = j
    <2> DEFINE v == [i \in 1 .. k |-> w[i]]
               T == {v[i] : i \in 1 .. k}
               U == {input[i] : i \in n + 1 .. n + k}
    <2>1. k \in Nat /\ v \in [1 .. k -> Letters] /\ \A i \in 1 .. k : v[i] = w[i] /\ w[i] = input[n + i]
      <3>1. k \in Nat /\ \A i \in 1 .. k : i \in 1 .. 4 /\ n + i <= L
        BY <1>1, <1>5
      <3>2. \A i \in 1 .. k : w[i] = input[n + i] /\ w[i] \in Letters
        BY <1>2, <1>3, <3>1
      <3> QED
        BY <3>1, <3>2
    <2>2. T = U
      <3>1. ASSUME NEW i \in 1 .. k PROVE n + i \in n + 1 .. n + k /\ v[i] = input[n + i]
        BY <2>1
      <3>2. ASSUME NEW i \in n + 1 .. n + k PROVE i - n \in 1 .. k /\ v[i - n] = input[i]
        <4>1. i - n \in 1 .. k /\ n + (i - n) = i
          BY <2>1
        <4> QED
          BY <2>1, <4>1
      <3> HIDE DEF v
      <3>3. ASSUME NEW i \in 1 .. k PROVE v[i] \in U
        BY <3>1, Zenon
      <3>4. ASSUME NEW i \in n + 1 .. n + k PROVE input[i] \in T
        BY <3>2, Zenon
      <3> QED
        BY <3>3, <3>4, Zenon
    <2> HIDE DEF v
    <2>3. Cardinality(T) = k <=> \A i, j \in 1 .. k : v[i] = v[j] => i = j
      <3>1. AsManyAs(T, k, v)
        BY <2>1, AllDiffer, Zenon
      <3> QED
        BY <3>1 DEF AsManyAs
    <2>4. PuzzlesOf!Differing(n, k) <=> Cardinality(U) = k
      BY PuzzleCardinality, Zenon DEF PuzzlesOf!Differing
    <2> HIDE DEF T, U
    <2> QED
      BY <2>1, <2>2, <2>3, <2>4
  <1> QED
    BY <1>2, <1>3, <1>4, <1>5 DEF w, L

\* Both programs tell whether four letters differ; of a window that does not
\* fit, 6_1 tells whether the three differ that are left.
LEMMA DifferIs ==
    ASSUME IsMarkers, input \in Seq(Letters), NEW n \in Nat, ~PuzzlesOf!Overreads(n)
    PROVE  /\ n + 4 <= Len(input) => (PuzzlesOf!Differ(PuzzlesOf!Window(n)) <=> PuzzlesOf!Differing(n, 4))
           /\ ~(n + 4 <= Len(input))
                => /\ aoc = "6_1" /\ n + 3 = Len(input)
                   /\ PuzzlesOf!Differ(PuzzlesOf!Window(n)) <=> PuzzlesOf!Differing(n, 3)
  <1> DEFINE w == PuzzlesOf!Window(n)
             L == Len(input)
  <1>1. L \in Nat
    BY LenProperties
  <1>2. /\ \A i \in 1 .. 4 : n + i <= L => w[i] \in Letters
        /\ \A i \in 1 .. 4 : n + i > L => w[i] \notin Letters
        /\ w = [i \in 1 .. 4 |-> w[i]]
        /\ \A k \in 1 .. 4 : n + k <= L => (PuzzlesOf!Differing(n, k) <=> \A i, j \in 1 .. k : w[i] = w[j] => i = j)
    BY WindowIs
  <1> HIDE DEF w, L
  <1>3. PuzzlesOf!Differ(w) <=> IF aoc = "6_1" THEN ~PuzzlesOf!HasPair(w)
                                ELSE PuzzlesOf!Cardinality(PuzzlesOf!Combined(w)) = 4
    BY DEF PuzzlesOf!Differ
  <1>4. ~PuzzlesOf!HasPair(w) <=> \A i, j \in 1 .. 4 : w[i] = w[j] => i = j
    BY PairIs
  <1>5. ASSUME n + 4 <= L
        PROVE  PuzzlesOf!Differ(w) <=> PuzzlesOf!Differing(n, 4)
    <2>1. 4 \in 1 .. 4 /\ \A i \in 1 .. 4 : n + i <= L
      BY <1>1, <1>5
    <2>2. w \in [1 .. 4 -> Letters]
      BY <1>2, <2>1
    <2>3. PuzzlesOf!Cardinality(PuzzlesOf!Combined(w)) = 4 <=> ~PuzzlesOf!HasPair(w)
      BY <2>2, CombinedIs
    <2>4. PuzzlesOf!Differing(n, 4) <=> \A i, j \in 1 .. 4 : w[i] = w[j] => i = j
      BY <1>2, <2>1
    <2> QED
      BY <1>3, <1>4, <2>3, <2>4, Zenon
  <1>6. ASSUME ~(n + 4 <= L)
        PROVE  /\ aoc = "6_1" /\ n + 3 = L
               /\ PuzzlesOf!Differ(w) <=> PuzzlesOf!Differing(n, 3)
    <2>1. aoc = "6_1" /\ n + 3 = L
      BY <1>1, <1>6 DEF PuzzlesOf!Overreads, L
    <2>2. /\ 3 \in 1 .. 4 /\ n + 3 <= L /\ n + 4 > L /\ 4 \in 1 .. 4
          /\ \A i \in 1 .. 3 : i \in 1 .. 4 /\ n + i <= L
          /\ \A i \in 1 .. 4 : i \in 1 .. 3 \/ i = 4
      BY <1>1, <2>1
    <2>3. w[4] \notin Letters /\ \A i \in 1 .. 3 : w[i] \in Letters
      BY <1>2, <2>2
    <2>4. PuzzlesOf!Differing(n, 3) <=> \A i, j \in 1 .. 3 : w[i] = w[j] => i = j
      BY <1>2, <2>2
    <2>5. (\A i, j \in 1 .. 4 : w[i] = w[j] => i = j) <=> \A i, j \in 1 .. 3 : w[i] = w[j] => i = j
      BY <2>2, <2>3, Zenon
    <2> QED
      BY <1>3, <1>4, <2>1, <2>4, <2>5, Zenon
  <1> QED
    BY <1>5, <1>6 DEF w, L

\* The numbers that both programs look at.
Fours(n) == \E k \in Nat : n = 4 * k

\* A marker that starts at a multiple of four lies ahead, and undefined behaviour
\* is where there is none and the text is not as long as a multiple of four.
MarkerInv ==
    IsMarkers =>
        /\ input \in Seq(Letters) /\ cursor \in Nat /\ Fours(cursor)
        /\ \A m \in PuzzlesOf!Markers : Fours(m) => m >= cursor
        /\ ~undefined => cursor <= Len(input)
        /\ undefined => /\ ~Fours(Len(input)) /\ answer = PuzzlesOf!Unknown
                        /\ \A m \in PuzzlesOf!Markers : ~Fours(m)
        /\ answer # PuzzlesOf!Unknown
             => /\ answer = cursor + 3
                /\ \/ cursor \in PuzzlesOf!Markers
                   \/ aoc = "6_1" /\ cursor + 3 = Len(input) /\ PuzzlesOf!Differing(cursor, 3)

LEMMA FoursIs == ASSUME NEW n \in Nat PROVE n % 4 = 0 <=> Fours(n)
  <1> DEFINE four == 4
             q == n \div four
  <1>1. four \in Nat \ {0} /\ four = 4
    OBVIOUS
  <1> HIDE DEF four
  <1>2. q \in Int /\ n % four \in Nat /\ n = four * q + (n % four)
    BY <1>1, DivMod
  <1>3. ASSUME n % four = 0 PROVE Fours(n)
    <2>1. n = 4 * q /\ q \in Nat
      <3> HIDE DEF q
      <3>1. n = 4 * q
        BY <1>1, <1>2, <1>3
      <3> QED
        BY <1>2, <3>1
    <2> QED
      BY <2>1 DEF Fours
  <1>4. ASSUME Fours(n) PROVE n % four = 0
    <2>1. PICK k \in Nat : n = four * k
      BY <1>1, <1>4 DEF Fours
    <2>2. (four * k + 0) % four = 0 /\ four * k + 0 = n
      BY <1>1, <2>1, DivModUnique
    <2> QED
      BY <2>2
  <1> QED
    BY <1>1, <1>3, <1>4

\* After one of them comes the next, four later.
LEMMA NextFour ==
    ASSUME NEW m \in Nat, NEW n \in Nat, Fours(m), Fours(n), m < n
    PROVE  m + 4 <= n /\ Fours(m + 4)
  <1>1. PICK j \in Nat : m = 4 * j
    BY DEF Fours
  <1>2. PICK k \in Nat : n = 4 * k
    BY DEF Fours
  <1>3. j < k /\ m + 4 = 4 * (j + 1) /\ j + 1 \in Nat
    BY <1>1, <1>2
  <1> QED
    BY <1>1, <1>2, <1>3 DEF Fours

LEMMA LookHolds ==
    ASSUME MarkerInv, PuzzlesOf!LookAtWindow
    PROVE  MarkerInv' /\ aoc \notin {"8_1", "1_1"} /\ UNCHANGED aoc
  <1> DEFINE w == PuzzlesOf!Window(cursor)
             L == Len(input)
             M == PuzzlesOf!Markers
  <1>1. /\ IsMarkers /\ answer = PuzzlesOf!Unknown /\ ~undefined /\ cursor < L
        /\ UNCHANGED <<aoc, input>>
    BY DEF PuzzlesOf!LookAtWindow, IsMarkers
  <1>2. \/ PuzzlesOf!Overreads(cursor) /\ undefined' = TRUE /\ UNCHANGED <<cursor, answer>>
        \/ ~PuzzlesOf!Overreads(cursor) /\ PuzzlesOf!Differ(w) /\ answer' = cursor + 3 /\ UNCHANGED <<cursor, undefined>>
        \/ /\ ~PuzzlesOf!Overreads(cursor) /\ ~PuzzlesOf!Differ(w)
           /\ cursor' = cursor + 4 /\ undefined' = (cursor' > L) /\ UNCHANGED answer
    BY DEF PuzzlesOf!LookAtWindow
  <1>3. /\ input \in Seq(Letters) /\ cursor \in Nat /\ Fours(cursor) /\ L \in Nat
        /\ \A m \in M : Fours(m) => m >= cursor
    BY <1>1, LenProperties DEF MarkerInv
  <1>4. \A m \in M : m \in Nat /\ m + 4 <= L /\ PuzzlesOf!Differing(m, 4)
    BY <1>3 DEF PuzzlesOf!Markers
  <1>5. Fours(L) => cursor + 4 <= L
    BY <1>1, <1>3, NextFour
  <1>6. Fours(cursor + 4)
    <2>1. PICK k \in Nat : cursor = 4 * k
      BY <1>3 DEF Fours
    <2>2. cursor + 4 = 4 * (k + 1) /\ k + 1 \in Nat
      BY <2>1
    <2> QED
      BY <2>2 DEF Fours
  <1>7. /\ IsMarkers' /\ input' = input /\ aoc' = aoc /\ M' = M /\ PuzzlesOf!Unknown' = PuzzlesOf!Unknown
        /\ \A n, k : PuzzlesOf!Differing(n, k)' <=> PuzzlesOf!Differing(n, k)
    BY <1>1 DEF IsMarkers, PuzzlesOf!Markers, PuzzlesOf!Differing, PuzzlesOf!Unknown
  <1>8. aoc \notin {"8_1", "1_1"}
    BY <1>1 DEF IsMarkers
  <1> HIDE DEF w, L, M
  <1>9. CASE PuzzlesOf!Overreads(cursor)
    <2>1. undefined' = TRUE /\ cursor' = cursor /\ answer' = PuzzlesOf!Unknown
      BY <1>1, <1>2, <1>9
    <2>2. ~(cursor + 4 <= L)
      BY <1>3, <1>9 DEF PuzzlesOf!Overreads, L
    <2>3. \A m \in M : ~Fours(m)
      BY <1>3, <1>4, <2>2
    <2> QED
      BY <1>1, <1>3, <1>5, <1>7, <1>8, <2>1, <2>2, <2>3 DEF MarkerInv, L, M
  <1>10. CASE ~PuzzlesOf!Overreads(cursor) /\ PuzzlesOf!Differ(w)
    <2>1. answer' = cursor + 3 /\ cursor' = cursor /\ ~undefined'
      BY <1>1, <1>2, <1>10
    <2>2. cursor \in M \/ (aoc = "6_1" /\ cursor + 3 = L /\ PuzzlesOf!Differing(cursor, 3))
      <3>1. CASE cursor + 4 <= L
        <4>1. PuzzlesOf!Differing(cursor, 4)
          BY <1>1, <1>3, <1>10, <3>1, DifferIs DEF w, L
        <4>2. cursor \in 0 .. L - 4
          BY <1>3, <3>1
        <4> QED
          BY <4>1, <4>2 DEF M, PuzzlesOf!Markers, L
      <3>2. CASE ~(cursor + 4 <= L)
        BY <1>1, <1>3, <1>10, <3>2, DifferIs DEF w, L
      <3> QED
        BY <3>1, <3>2
    <2>3. cursor <= L
      BY <1>1, <1>3
    <2>4. PuzzlesOf!Differing(cursor, 3)' <=> PuzzlesOf!Differing(cursor, 3)
      BY <1>7, <2>1 DEF PuzzlesOf!Differing
    <2> QED
      BY <1>1, <1>3, <1>7, <1>8, <2>1, <2>2, <2>3, <2>4 DEF MarkerInv, L, M
  <1>11. CASE ~PuzzlesOf!Overreads(cursor) /\ ~PuzzlesOf!Differ(w)
    <2>1. cursor' = cursor + 4 /\ (undefined' <=> cursor' > L) /\ answer' = PuzzlesOf!Unknown
      BY <1>1, <1>2, <1>11, Zenon
    <2>2. ASSUME NEW m \in M, Fours(m) PROVE m >= cursor + 4
      <3>1. m \in Nat /\ m + 4 <= L /\ m >= cursor /\ PuzzlesOf!Differing(m, 4)
        BY <1>3, <1>4, <2>2
      <3>2. m # cursor
        <4> SUFFICES ASSUME m = cursor PROVE FALSE
          OBVIOUS
        <4>1. cursor + 4 <= L /\ PuzzlesOf!Differing(cursor, 4)
          BY <3>1
        <4> QED
          BY <1>1, <1>3, <1>11, <4>1, DifferIs DEF w, L
      <3>3. cursor < m
        BY <1>3, <3>1, <3>2
      <3> QED
        BY <1>3, <2>2, <3>1, <3>3, NextFour
    <2>3. cursor' \in Nat /\ Fours(cursor') /\ (~undefined' => cursor' <= L) /\ \A m \in M : Fours(m) => m >= cursor'
      <3>1. cursor' \in Nat /\ Fours(cursor')
        BY <1>3, <1>6, <2>1
      <3>2. ~undefined' => cursor' <= L
        BY <1>3, <2>1
      <3>3. \A m \in M : Fours(m) => m >= cursor'
        BY <2>1, <2>2
      <3> QED
        BY <3>1, <3>2, <3>3
    <2>4. undefined' => ~Fours(L) /\ \A m \in M : ~Fours(m)
      <3> SUFFICES ASSUME undefined' PROVE ~Fours(L) /\ \A m \in M : ~Fours(m)
        OBVIOUS
      <3>1. ~(cursor + 4 <= L)
        BY <1>3, <2>1
      <3>2. ~Fours(L)
        BY <1>5, <3>1
      <3>3. ASSUME NEW m \in M, Fours(m) PROVE FALSE
        <4>1. m \in Nat /\ m + 4 <= L /\ m >= cursor + 4
          BY <1>4, <2>2, <3>3
        <4> QED
          BY <1>3, <3>1, <4>1
      <3> QED
        BY <3>2, <3>3
    <2> QED
      BY <1>3, <1>7, <1>8, <2>1, <2>3, <2>4 DEF MarkerInv, L, M
  <1> QED
    BY <1>2, <1>9, <1>10, <1>11

LEMMA MarkerInvSays == MarkerInv => PuzzlesOf!FindsAMarker
  <1> DEFINE L == Len(input)
             M == PuzzlesOf!Markers
  <1> SUFFICES ASSUME MarkerInv, IsMarkers
               PROVE  /\ answer # PuzzlesOf!Unknown =>
                           /\ answer - 3 \in M \/ (aoc = "6_1" /\ answer - 3 + 3 = L /\ PuzzlesOf!Differing(answer - 3, 3))
                           /\ \A m \in M : m < answer - 3 => m % 4 # 0
                      /\ answer = PuzzlesOf!Unknown /\ (undefined \/ cursor = L) => \A m \in M : m % 4 # 0
                      /\ undefined => L % 4 # 0
    BY Zenon DEF MarkerInv, IsMarkers, PuzzlesOf!FindsAMarker
  <1>1. /\ cursor \in Nat /\ L \in Nat
        /\ \A m \in M : Fours(m) => m >= cursor
        /\ undefined => ~Fours(L) /\ \A m \in M : ~Fours(m)
        /\ answer # PuzzlesOf!Unknown
             => /\ answer = cursor + 3
                /\ cursor \in M \/ (aoc = "6_1" /\ cursor + 3 = L /\ PuzzlesOf!Differing(cursor, 3))
    BY LenProperties DEF MarkerInv
  <1>2. \A m \in M : m \in Nat /\ m + 4 <= L /\ (m % 4 = 0 <=> Fours(m))
    <2>1. \A m \in M : m \in Nat /\ m + 4 <= L
      BY <1>1 DEF PuzzlesOf!Markers
    <2> QED
      BY <2>1, FoursIs
  <1>3. L % 4 = 0 <=> Fours(L)
    BY <1>1, FoursIs
  <1> HIDE DEF L, M
  <1>4. ASSUME answer # PuzzlesOf!Unknown
        PROVE  /\ answer - 3 \in M \/ (aoc = "6_1" /\ answer - 3 + 3 = L /\ PuzzlesOf!Differing(answer - 3, 3))
               /\ \A m \in M : m < answer - 3 => m % 4 # 0
    <2>1. answer - 3 = cursor
      BY <1>1, <1>4
    <2>2. \A m \in M : m < cursor => m % 4 # 0
      BY <1>1, <1>2
    <2> QED
      BY <1>1, <1>4, <2>1, <2>2
  <1>5. ASSUME undefined \/ cursor = L, NEW m \in M PROVE m % 4 # 0
    BY <1>1, <1>2, <1>5
  <1> QED
    BY <1>1, <1>3, <1>4, <1>5

-----------------------------------------------------------------------------
(* The trees. *)

\* Seen from a side: all the trees before it are lower.
Seen(c, s) == \A d \in PuzzlesOf!Before(s, c) : input[d] < input[c]

TreeInv ==
    aoc = "8_1" =>
        /\ input \in [PuzzlesOf!Cells -> TreeSizes] /\ cursor \in 0 .. 4
        /\ visible = {c \in PuzzlesOf!Cells : \E s \in 1 .. cursor : Seen(c, s)}
        /\ answer # PuzzlesOf!Unknown => cursor = 4 /\ answer = PuzzlesOf!Cardinality(visible)

LEMMA TopsAre ==
    ASSUME NEW s \in 1 .. 4, input \in [PuzzlesOf!Cells -> TreeSizes]
    PROVE  PuzzlesOf!Tops(s) = {c \in PuzzlesOf!Cells : Seen(c, s)}
  <1> SUFFICES ASSUME NEW c \in PuzzlesOf!Cells
               PROVE  input[c] > PuzzlesOf!Max({0} \cup {input[d] : d \in PuzzlesOf!Before(s, c)}) <=> Seen(c, s)
    BY DEF PuzzlesOf!Tops
  <1> DEFINE B == PuzzlesOf!Before(s, c)
             S == {0} \cup {input[d] : d \in B}
  <1>1. B \subseteq PuzzlesOf!Cells
    BY DEF PuzzlesOf!Before
  <1>2. IsFiniteSet(B)
    <2>1. Width - 1 \in Int /\ Height - 1 \in Int /\ 0 \in Int
      BY PuzzleAssumption
    <2>2. IsFiniteSet(0 .. Width - 1) /\ IsFiniteSet(0 .. Height - 1)
      BY <2>1, FS_Interval
    <2>3. IsFiniteSet(PuzzlesOf!Cells)
      BY <2>2, FS_Product DEF PuzzlesOf!Cells
    <2> QED
      BY <1>1, <2>3, FS_Subset
  <1> HIDE DEF B
  <1>3. \A d \in PuzzlesOf!Cells : input[d] \in Nat \ {0}
    BY PuzzleAssumption
  <1>4. S \in SUBSET Nat /\ S # {}
    BY <1>1, <1>3
  <1>5. IsFiniteSet(S)
    <2> DEFINE T == {input[d] : d \in B}
    <2>1. [d \in B |-> input[d]] \in Surjection(B, T)
      BY DEF Surjection
    <2>2. IsFiniteSet(T)
      BY <1>2, <2>1, FS_Surjection
    <2>3. IsFiniteSet(T \cup {0})
      BY <2>2, FS_AddElement
    <2>4. S = T \cup {0}
      OBVIOUS
    <2> QED
      BY <2>3, <2>4
  <1> DEFINE m == PuzzlesOf!Max(S)
  <1>6. m \in S /\ \A n \in S : m >= n
    BY <1>4, <1>5, MaxOfNats
  <1>7. m \in Nat /\ input[c] \in Nat \ {0} /\ (m = 0 \/ \E d \in B : m = input[d]) /\ \A d \in B : m >= input[d] /\ input[d] \in Nat
    BY <1>1, <1>3, <1>4, <1>6
  <1> HIDE DEF m
  <1>8. input[c] > m <=> \A d \in B : input[d] < input[c]
    BY <1>7
  <1> QED
    BY <1>8 DEF m, B, Seen

LEMMA SweepHolds ==
    ASSUME TreeInv, PuzzlesOf!Sweep
    PROVE  TreeInv' /\ aoc = "8_1" /\ UNCHANGED aoc
  <1>1. /\ aoc = "8_1" /\ answer = PuzzlesOf!Unknown /\ cursor < 4 /\ cursor' = cursor + 1
        /\ visible' = visible \cup PuzzlesOf!Tops(cursor')
        /\ UNCHANGED <<aoc, input, answer>>
    BY DEF PuzzlesOf!Sweep
  <1>2. /\ input \in [PuzzlesOf!Cells -> TreeSizes] /\ cursor \in 0 .. 4
        /\ visible = {c \in PuzzlesOf!Cells : \E s \in 1 .. cursor : Seen(c, s)}
    BY <1>1 DEF TreeInv
  <1>3. cursor' \in 1 .. 4 /\ \A s : s \in 1 .. cursor' <=> s \in 1 .. cursor \/ s = cursor'
    BY <1>1, <1>2
  <1>4. PuzzlesOf!Tops(cursor') = {c \in PuzzlesOf!Cells : Seen(c, cursor')}
    BY <1>2, <1>3, TopsAre
  <1>5. visible' = {c \in PuzzlesOf!Cells : \E s \in 1 .. cursor' : Seen(c, s)}
    BY <1>1, <1>2, <1>3, <1>4
  <1>6. \A c, s : Seen(c, s)' <=> Seen(c, s)
    BY <1>1 DEF Seen, PuzzlesOf!Before, PuzzlesOf!Cells
  <1>7. input' \in [PuzzlesOf!Cells -> TreeSizes] /\ cursor' \in 0 .. 4 /\ answer' = PuzzlesOf!Unknown
    BY <1>1, <1>2, <1>3
  <1> QED
    BY <1>1, <1>5, <1>6, <1>7 DEF TreeInv, PuzzlesOf!Unknown, Seen, PuzzlesOf!Before, PuzzlesOf!Cells

LEMMA TreeInvSays == TreeInv => PuzzlesOf!CountsVisibleTrees
  BY DEF TreeInv, PuzzlesOf!CountsVisibleTrees, Seen

-----------------------------------------------------------------------------
(* The groups. *)

IsTotal(f, s) == f = [n \in 0 .. Len(s) |-> IF n = 0 THEN 0 ELSE f[n - 1] + s[n]]
TotalOf(s)    == CHOOSE f : IsTotal(f, s)

LEMMA TotalExists ==
    ASSUME NEW s \in Seq(Nat)
    PROVE  LET f == TotalOf(s) IN
           /\ \A n \in 0 .. Len(s) : f[n] \in Nat
           /\ f[0] = 0 /\ \A n \in 1 .. Len(s) : f[n] = f[n - 1] + s[n]
           /\ PuzzlesOf!SumOf(s) = f[Len(s)]
  <1> DEFINE N == Len(s)
             rule == [q \in (1 .. N) \X Nat |-> q[2] + s[q[1]]]
  <1>1. N \in Nat /\ \A n \in 1 .. N : s[n] \in Nat
    BY ElementOfSeq, LenProperties
  <1>2. rule \in [(1 .. N) \X Nat -> Nat]
    BY <1>1
  <1>3. \A n \in 1 .. N, x \in Nat : rule[<<n, x>>] = x + s[n]
    OBVIOUS
  <1> HIDE DEF rule
  <1>4. PICK f \in [0 .. N -> Nat] : f[0] = 0 /\ \A n \in 1 .. N : f[n] = rule[<<n, f[n - 1]>>]
    <2> DEFINE V == Nat
    <2>1. N \in Nat /\ 0 \in V /\ rule \in [(1 .. N) \X V -> V]
      BY <1>1, <1>2
    <2> HIDE DEF N, V
    <2>2. \E f : IsRecursive(f, N, V, 0, rule)
      BY <2>1, RecursionExists, Zenon
    <2> QED
      BY <2>2 DEF V, IsRecursive
  <1>5. IsTotal(f, s)
    <2> DEFINE g == [n \in 0 .. N |-> IF n = 0 THEN 0 ELSE f[n - 1] + s[n]]
    <2>1. ASSUME NEW n \in 0 .. N PROVE g[n] = f[n]
      <3>1. CASE n = 0
        BY <1>4, <3>1
      <3>2. CASE n # 0
        <4>1. n \in 1 .. N /\ n - 1 \in 0 .. N
          BY <1>1, <3>2
        <4>2. f[n - 1] \in Nat /\ f[n] = rule[<<n, f[n - 1]>>]
          BY <1>4, <4>1
        <4>3. f[n] = f[n - 1] + s[n]
          BY <1>3, <4>1, <4>2
        <4> QED
          BY <3>2, <4>3
      <3> QED
        BY <3>1, <3>2
    <2>2. g = [n \in 0 .. N |-> g[n]] /\ f = [n \in 0 .. N |-> f[n]]
      BY <1>4
    <2> HIDE DEF g
    <2>3. f = g
      BY <2>1, <2>2
    <2> QED
      BY <2>3 DEF IsTotal, g
  <1> DEFINE t == TotalOf(s)
  <1>6. IsTotal(t, s)
    BY <1>5 DEF TotalOf
  <1>7. PuzzlesOf!SumOf(s) = t[N]
    BY DEF PuzzlesOf!SumOf, TotalOf, IsTotal
  <1> HIDE DEF t
  <1>8. t = [n \in 0 .. N |-> IF n = 0 THEN 0 ELSE t[n - 1] + s[n]]
    BY <1>6 DEF IsTotal
  <1> HIDE DEF N
  <1>9. t[0] = 0 /\ \A n \in 1 .. N : t[n] = t[n - 1] + s[n]
    <2>1. 0 \in 0 .. N /\ \A n \in 1 .. N : n \in 0 .. N /\ n # 0
      BY <1>1
    <2> QED
      BY <1>8, <2>1
  <1> DEFINE S == {n \in 0 .. N : t[n] \in Nat}
  <1>10. 0 \in S
    BY <1>1, <1>9
  <1>11. ASSUME NEW n \in 0 .. N - 1, n \in S PROVE n + 1 \in S
    <2>1. n + 1 \in 1 .. N /\ n + 1 \in 0 .. N /\ n + 1 - 1 = n
      BY <1>1
    <2>2. t[n + 1] = t[n] + s[n + 1] /\ s[n + 1] \in Nat /\ t[n] \in Nat
      BY <1>1, <1>9, <1>11, <2>1
    <2> QED
      BY <2>1, <2>2
  <1>12. \A n \in 0 .. N : n \in S
    <2> HIDE DEF S
    <2> QED
      BY <1>1, <1>10, <1>11, UpToInduction
  <1> QED
    BY <1>7, <1>9, <1>12 DEF t, N

\* Another number is added to the sum.
LEMMA SumOfAppend ==
    ASSUME NEW s \in Seq(Nat), NEW x \in Nat
    PROVE  /\ PuzzlesOf!SumOf(s) \in Nat
           /\ PuzzlesOf!SumOf(Append(s, x)) = PuzzlesOf!SumOf(s) + x
  <1> DEFINE N == Len(s)
             more == Append(s, x)
             f == TotalOf(s)
             g == TotalOf(more)
  <1>1. /\ more \in Seq(Nat) /\ Len(more) = N + 1 /\ N \in Nat
        /\ \A n \in 1 .. N : more[n] = s[n]
        /\ more[N + 1] = x
    BY AppendProperties, LenProperties
  <1>2. /\ \A n \in 0 .. N : f[n] \in Nat
        /\ f[0] = 0 /\ \A n \in 1 .. N : f[n] = f[n - 1] + s[n]
        /\ PuzzlesOf!SumOf(s) = f[N]
    BY TotalExists
  <1>3. /\ g[0] = 0 /\ \A n \in 1 .. N + 1 : g[n] = g[n - 1] + more[n]
        /\ PuzzlesOf!SumOf(more) = g[N + 1]
    <2> HIDE DEF more, N
    <2>1. /\ g[0] = 0 /\ \A n \in 1 .. Len(more) : g[n] = g[n - 1] + more[n]
          /\ PuzzlesOf!SumOf(more) = g[Len(more)]
      BY <1>1, TotalExists
    <2> QED
      BY <1>1, <2>1
  <1> HIDE DEF f, g, more, N
  <1> DEFINE S == {k \in 0 .. N : g[k] = f[k]}
  <1>4. 0 \in S
    BY <1>1, <1>2, <1>3
  <1>5. ASSUME NEW k \in 0 .. N - 1, k \in S PROVE k + 1 \in S
    <2>1. k + 1 \in 1 .. N /\ k + 1 \in 1 .. N + 1 /\ k + 1 \in 0 .. N /\ k + 1 - 1 = k
      BY <1>1
    <2>2. g[k + 1] = g[k] + more[k + 1]
      BY <1>3, <2>1
    <2>3. f[k + 1] = f[k] + s[k + 1]
      BY <1>2, <2>1
    <2> QED
      BY <1>1, <1>5, <2>1, <2>2, <2>3
  <1>6. \A k \in 0 .. N : k \in S
    <2> HIDE DEF S
    <2> QED
      BY <1>1, <1>4, <1>5, UpToInduction
  <1>7. g[N] = f[N] /\ f[N] \in Nat /\ g[N + 1] = g[N] + x
    <2>1. N \in 0 .. N /\ N + 1 \in 1 .. N + 1 /\ N + 1 - 1 = N
      BY <1>1
    <2>2. g[N + 1] = g[N] + more[N + 1]
      BY <1>3, <2>1
    <2> QED
      BY <1>1, <1>2, <1>6, <2>1, <2>2
  <1> QED
    BY <1>2, <1>3, <1>7 DEF more

GroupSum(a, b) == PuzzlesOf!SumOf(SubSeq(input, a, b))

LEMMA GroupGrows ==
    ASSUME input \in Seq(Nat), NEW b \in 1 .. Len(input), NEW a \in 1 .. b
    PROVE  /\ GroupSum(a, b - 1) \in Nat /\ GroupSum(a, b) = GroupSum(a, b - 1) + input[b]
           /\ a = b => GroupSum(a, b - 1) = 0
  <1> DEFINE L == Len(input)
             s == SubSeq(input, a, b - 1)
             t == SubSeq(input, a, b)
  <1>1. /\ L \in Nat /\ b \in 1 .. L /\ a \in 1 .. b /\ a \in 1 .. L + 1 /\ b - 1 \in a - 1 .. L /\ b \in a - 1 .. L
        /\ input[b] \in Nat /\ (\A i \in a .. b - 1 : input[i] \in Nat) /\ \A i \in a .. b : input[i] \in Nat
    BY LenProperties, ElementOfSeq
  <1>2. s \in Seq(Nat) /\ Len(s) = (b - 1) - a + 1 /\ \A i \in 1 .. (b - 1) - a + 1 : s[i] = input[a + i - 1]
    <2> DEFINE c == b - 1
    <2>1. a \in Int /\ c \in Int /\ (a <= c \/ c - a + 1 = 0) /\ \A i \in a .. c : input[i] \in Nat
      BY <1>1
    <2> HIDE DEF c, L
    <2>2. /\ SubSeq(input, a, c) \in Seq(Nat)
          /\ Len(SubSeq(input, a, c)) = IF a <= c THEN c - a + 1 ELSE 0
          /\ \A i \in 1 .. c - a + 1 : SubSeq(input, a, c)[i] = input[a + i - 1]
      BY <2>1, SubSeqProperties
    <2>3. s = SubSeq(input, a, c)
      BY DEF c
    <2> HIDE DEF s
    <2>4. s \in Seq(Nat) /\ Len(s) = c - a + 1 /\ \A i \in 1 .. c - a + 1 : s[i] = input[a + i - 1]
      BY <2>1, <2>2, <2>3
    <2> QED
      BY <2>4 DEF c
  <1>3. t \in Seq(Nat) /\ Len(t) = b - a + 1 /\ \A i \in 1 .. b - a + 1 : t[i] = input[a + i - 1]
    <2>1. a \in Int /\ b \in Int /\ a <= b /\ \A i \in a .. b : input[i] \in Nat
      BY <1>1
    <2> HIDE DEF L
    <2>2. /\ SubSeq(input, a, b) \in Seq(Nat)
          /\ Len(SubSeq(input, a, b)) = IF a <= b THEN b - a + 1 ELSE 0
          /\ \A i \in 1 .. b - a + 1 : SubSeq(input, a, b)[i] = input[a + i - 1]
      BY <2>1, SubSeqProperties
    <2> QED
      BY <2>1, <2>2
  <1> HIDE DEF s, t, L
  <1>4. t = Append(s, input[b])
    <2> DEFINE r == Append(s, input[b])
               n == b - a
    <2>1. n \in Nat /\ Len(s) = n /\ Len(t) = n + 1 /\ a + (n + 1) - 1 = b
      BY <1>1, <1>2, <1>3
    <2>2. r \in Seq(Nat) /\ Len(r) = n + 1 /\ (\A i \in 1 .. n : r[i] = s[i]) /\ r[n + 1] = input[b]
      BY <1>1, <1>2, <2>1, AppendProperties
    <2>3. \A i \in 1 .. n : s[i] = input[a + i - 1]
      BY <1>1, <1>2, <2>1
    <2>4. \A i \in 1 .. n + 1 : t[i] = input[a + i - 1]
      BY <1>1, <1>3, <2>1
    <2> HIDE DEF r, n
    <2>5. \A i \in 1 .. n + 1 : t[i] = r[i]
      <3> SUFFICES ASSUME NEW i \in 1 .. n + 1 PROVE t[i] = r[i]
        OBVIOUS
      <3>1. CASE i = n + 1
        BY <2>1, <2>2, <2>4, <3>1
      <3>2. CASE i \in 1 .. n
        BY <2>2, <2>3, <2>4, <3>2
      <3> QED
        BY <2>1, <3>1, <3>2
    <2>6. t = r
      BY <1>3, <2>1, <2>2, <2>5, SeqEqual
    <2> QED
      BY <2>6 DEF r
  <1>5. PuzzlesOf!SumOf(s) \in Nat /\ PuzzlesOf!SumOf(t) = PuzzlesOf!SumOf(s) + input[b]
    BY <1>1, <1>2, <1>4, SumOfAppend
  <1>6. ASSUME a = b PROVE PuzzlesOf!SumOf(s) = 0
    <2>1. Len(s) = 0
      BY <1>1, <1>2, <1>6
    <2> QED
      BY <1>2, <2>1, TotalExists
  <1> QED
    BY <1>5, <1>6 DEF GroupSum, s, t

-----------------------------------------------------------------------------
Begins(a)  == a = 1 \/ input[a - 1] = 0
Full(a, b) == \A i \in a .. b : input[i] # 0

\* The group that is being read: none, or one with its sum so far.
OpenGroup ==
    /\ cursor = 0 \/ input[cursor] = 0 \/ PuzzlesOf!EndsGroup(cursor) => sum = 0
    /\ \A a \in 1 .. cursor : Begins(a) /\ Full(a, cursor) /\ ~PuzzlesOf!EndsGroup(cursor) => sum = GroupSum(a, cursor)
    /\ cursor # 0 /\ input[cursor] # 0 => \E a \in 1 .. cursor : Begins(a) /\ Full(a, cursor)

\* The groups that a blank line ends, and what has been read of them.
Closed == {g \in PuzzlesOf!Groups : g[2] < Len(input)}
LargestSoFar ==
    /\ \A g \in Closed : g[2] <= cursor => GroupSum(g[1], g[2]) <= max
    /\ max = 0 \/ \E g \in Closed : max = GroupSum(g[1], g[2])

GroupInv ==
    aoc = "1_1" =>
        /\ input \in Seq(Nat) /\ cursor \in 0 .. Len(input) /\ sum \in Nat /\ max \in Nat
        /\ OpenGroup /\ LargestSoFar
        /\ answer # PuzzlesOf!Unknown => cursor = Len(input) /\ answer = max

LEMMA GroupIs ==
    ASSUME NEW g \in Closed
    PROVE  /\ g[1] \in 1 .. g[2] /\ g[2] \in 1 .. Len(input) /\ PuzzlesOf!EndsGroup(g[2])
           /\ Begins(g[1]) /\ Full(g[1], g[2])
  BY DEF Closed, PuzzlesOf!Groups, PuzzlesOf!IsGroup, PuzzlesOf!EndsGroup, Begins, Full

LEMMA GroupFrom ==
    ASSUME NEW a, NEW b, Len(input) \in Nat, b \in 1 .. Len(input), a \in 1 .. b,
           PuzzlesOf!EndsGroup(b), Begins(a), Full(a, b)
    PROVE  <<a, b>> \in Closed
  BY DEF Closed, PuzzlesOf!Groups, PuzzlesOf!IsGroup, PuzzlesOf!EndsGroup, Begins, Full

\* Reading a line keeps the sum of the group that is being read.
LEMMA SumAfterLine ==
    ASSUME input \in Seq(Nat), NEW n \in 1 .. Len(input), cursor = n - 1, sum \in Nat, OpenGroup
    PROVE  LET total == sum + input[n] IN
           /\ total \in Nat /\ (input[n] = 0 => total = 0)
           /\ \A a \in 1 .. n : Begins(a) /\ Full(a, n) => total = GroupSum(a, n)
           /\ input[n] # 0 => \E a \in 1 .. n : Begins(a) /\ Full(a, n)
  <1>1. n \in Nat /\ input[n] \in Nat /\ Len(input) \in Nat /\ n >= 1
    BY ElementOfSeq, LenProperties
  <1>2. ASSUME input[n] = 0 PROVE sum = 0
    <2>1. cursor = 0 \/ PuzzlesOf!EndsGroup(cursor)
      BY <1>1, <1>2 DEF PuzzlesOf!EndsGroup
    <2> QED
      BY <2>1 DEF OpenGroup
  <1>3. ASSUME NEW a \in 1 .. n, Begins(a), Full(a, n) PROVE sum = GroupSum(a, n - 1)
    <2>1. CASE a = n
      <3>1. GroupSum(a, n - 1) = 0
        BY <2>1, GroupGrows
      <3>2. cursor = 0 \/ input[cursor] = 0
        BY <1>1, <1>3, <2>1 DEF Begins
      <3> QED
        BY <3>1, <3>2 DEF OpenGroup
    <2>2. CASE a # n
      <3>1. a \in 1 .. cursor /\ Full(a, cursor)
        BY <1>1, <1>3, <2>2 DEF Full
      <3>2. input[n] # 0
        BY <1>1, <1>3 DEF Full
      <3>3. ~PuzzlesOf!EndsGroup(cursor)
        BY <1>1, <3>2 DEF PuzzlesOf!EndsGroup
      <3> QED
        BY <1>3, <3>1, <3>3 DEF OpenGroup
    <2> QED
      BY <2>1, <2>2
  <1>4. ASSUME NEW a \in 1 .. n, Begins(a), Full(a, n) PROVE sum + input[n] = GroupSum(a, n)
    BY <1>3, <1>4, GroupGrows
  <1>5. ASSUME input[n] # 0 PROVE \E a \in 1 .. n : Begins(a) /\ Full(a, n)
    <2>1. CASE cursor = 0 \/ input[cursor] = 0
      <3>1. n \in 1 .. n /\ Begins(n) /\ Full(n, n)
        BY <1>1, <1>5, <2>1 DEF Begins, Full
      <3> QED
        BY <3>1
    <2>2. CASE cursor # 0 /\ input[cursor] # 0
      <3>1. PICK a \in 1 .. cursor : Begins(a) /\ Full(a, cursor)
        BY <2>2 DEF OpenGroup
      <3>2. a \in 1 .. n /\ \A i \in a .. n : i \in a .. cursor \/ i = n
        BY <1>1
      <3>3. Full(a, n)
        BY <1>5, <3>1, <3>2 DEF Full
      <3> QED
        BY <3>1, <3>2, <3>3
    <2> QED
      BY <2>1, <2>2
  <1> QED
    BY <1>1, <1>2, <1>4, <1>5

LEMMA ReadLineHolds ==
    ASSUME GroupInv, PuzzlesOf!ReadLine
    PROVE  GroupInv' /\ aoc = "1_1" /\ UNCHANGED aoc
  <1> DEFINE n == cursor + 1
             total == sum + input[n]
  <1>1. /\ aoc = "1_1" /\ answer = PuzzlesOf!Unknown /\ cursor < Len(input) /\ cursor' = n
        /\ PuzzlesOf!EndsGroup(n) => max' = PuzzlesOf!Max({max, total}) /\ sum' = 0
        /\ ~PuzzlesOf!EndsGroup(n) => sum' = total /\ max' = max
        /\ UNCHANGED <<aoc, input, answer>>
    BY DEF PuzzlesOf!ReadLine
  <1>2. /\ input \in Seq(Nat) /\ cursor \in 0 .. Len(input) /\ sum \in Nat /\ max \in Nat
        /\ OpenGroup /\ LargestSoFar
    BY <1>1 DEF GroupInv
  <1>3. n \in 1 .. Len(input) /\ cursor = n - 1 /\ n \in Nat /\ Len(input) \in Nat
    BY <1>1, <1>2, LenProperties
  <1> HIDE DEF n
  <1>4. /\ total \in Nat /\ (input[n] = 0 => total = 0)
        /\ \A a \in 1 .. n : Begins(a) /\ Full(a, n) => total = GroupSum(a, n)
        /\ input[n] # 0 => \E a \in 1 .. n : Begins(a) /\ Full(a, n)
    BY <1>2, <1>3, SumAfterLine
  <1> HIDE DEF total
  <1>5. \A a, b : /\ Begins(a)' <=> Begins(a)
                  /\ Full(a, b)' <=> Full(a, b)
                  /\ PuzzlesOf!EndsGroup(a)' <=> PuzzlesOf!EndsGroup(a)
                  /\ GroupSum(a, b)' = GroupSum(a, b)
    BY <1>1 DEF Begins, Full, PuzzlesOf!EndsGroup, GroupSum, PuzzlesOf!SumOf
  <1>6. Closed' = Closed
    BY <1>1 DEF Closed, PuzzlesOf!Groups, PuzzlesOf!IsGroup
  <1>7. sum' \in Nat /\ OpenGroup'
    <2>1. cursor' = 0 \/ input'[cursor'] = 0 \/ PuzzlesOf!EndsGroup(n) => sum' = 0
      BY <1>1, <1>3, <1>4
    <2>2. ASSUME NEW a \in 1 .. n, Begins(a), Full(a, n), ~PuzzlesOf!EndsGroup(n) PROVE sum' = GroupSum(a, n)
      BY <1>1, <1>4, <2>2
    <2>3. input'[cursor'] # 0 => \E a \in 1 .. n : Begins(a) /\ Full(a, n)
      BY <1>1, <1>4
    <2>4. sum' \in Nat
      BY <1>1, <1>4
    <2>5. /\ PuzzlesOf!EndsGroup(cursor)' <=> PuzzlesOf!EndsGroup(n)
          /\ \A a : GroupSum(a, cursor)' = GroupSum(a, n) /\ (Full(a, cursor)' <=> Full(a, n))
      BY <1>1 DEF PuzzlesOf!EndsGroup, Full, GroupSum, PuzzlesOf!SumOf
    <2> QED
      BY <1>1, <1>5, <2>1, <2>2, <2>3, <2>4, <2>5 DEF OpenGroup
  <1>8. max' \in Nat /\ LargestSoFar'
    <2>1. ASSUME NEW g \in Closed, g[2] <= n, g[2] # n PROVE g[2] <= cursor /\ GroupSum(g[1], g[2]) <= max
      BY <1>2, <1>3, <2>1, GroupIs DEF LargestSoFar
    <2>2. ASSUME NEW g \in Closed, g[2] = n PROVE PuzzlesOf!EndsGroup(n) /\ GroupSum(g[1], g[2]) = total
      BY <1>4, <2>2, GroupIs
    <2>3. \A g \in Closed : GroupSum(g[1], g[2]) = GroupSum(g[1], g[2])'
      BY <1>5
    <2>4. CASE PuzzlesOf!EndsGroup(n)
      <3>1. max' \in {max, total} /\ max' \in Nat /\ max' >= max /\ max' >= total
        <4> DEFINE S == {max, total}
        <4>1. S \in SUBSET Nat /\ max' = PuzzlesOf!Max(S)
          BY <1>1, <1>2, <1>4, <2>4
        <4>2. max >= total => PuzzlesOf!Max(S) = max
          <5> SUFFICES ASSUME max >= total PROVE \A m \in S : m <= max
            BY <4>1, IsLargest
          <5> QED
            BY <1>2, <1>4
        <4>3. ~(max >= total) => PuzzlesOf!Max(S) = total
          <5> SUFFICES ASSUME ~(max >= total) PROVE \A m \in S : m <= total
            BY <4>1, IsLargest
          <5> QED
            BY <1>2, <1>4
        <4> QED
          BY <1>2, <1>4, <4>1, <4>2, <4>3
      <3>2. \A g \in Closed : g[2] <= n => GroupSum(g[1], g[2]) <= max'
        <4> SUFFICES ASSUME NEW g \in Closed, g[2] <= n PROVE GroupSum(g[1], g[2]) <= max'
          OBVIOUS
        <4>1. CASE g[2] = n
          BY <1>4, <2>2, <3>1, <4>1
        <4>2. CASE g[2] # n
          <5>1. GroupSum(g[1], g[2]) <= max /\ GroupSum(g[1], g[2]) \in Nat
            <6>1. GroupSum(g[1], g[2] - 1) \in Nat /\ input[g[2]] \in Nat
                  /\ GroupSum(g[1], g[2]) = GroupSum(g[1], g[2] - 1) + input[g[2]]
              BY <1>2, GroupIs, GroupGrows, ElementOfSeq
            <6> QED
              BY <2>1, <4>2, <6>1
          <5> QED
            BY <1>2, <3>1, <5>1
        <4> QED
          BY <4>1, <4>2
      <3>3. max' = 0 \/ \E g \in Closed : max' = GroupSum(g[1], g[2])
        <4>1. CASE max' = max
          BY <1>2, <4>1 DEF LargestSoFar
        <4>2. CASE max' = total
          <5>1. CASE input[n] = 0
            BY <1>4, <4>2, <5>1
          <5>2. CASE input[n] # 0
            <6>1. PICK a \in 1 .. n : Begins(a) /\ Full(a, n)
              BY <1>4, <5>2
            <6>2. <<a, n>> \in Closed /\ total = GroupSum(a, n)
              BY <1>3, <1>4, <2>4, <6>1, GroupFrom
            <6> QED
              BY <4>2, <6>2
          <5> QED
            BY <5>1, <5>2
        <4> QED
          BY <3>1, <4>1, <4>2
      <3> QED
        BY <1>1, <1>6, <2>3, <3>1, <3>2, <3>3 DEF LargestSoFar
    <2>5. CASE ~PuzzlesOf!EndsGroup(n)
      <3>1. max' = max
        BY <1>1, <2>5
      <3>2. \A g \in Closed : g[2] <= n => GroupSum(g[1], g[2]) <= max
        BY <2>1, <2>2, <2>5
      <3>3. max = 0 \/ \E g \in Closed : max = GroupSum(g[1], g[2])
        BY <1>2 DEF LargestSoFar
      <3> QED
        BY <1>1, <1>2, <1>6, <2>3, <3>1, <3>2, <3>3 DEF LargestSoFar
    <2> QED
      BY <2>4, <2>5
  <1>9. input' \in Seq(Nat) /\ cursor' \in 0 .. Len(input') /\ answer' = PuzzlesOf!Unknown
    BY <1>1, <1>2, <1>3
  <1> QED
    BY <1>1, <1>7, <1>8, <1>9 DEF GroupInv, PuzzlesOf!Unknown

\* The sums of some of the groups: the largest of them is the only one that is
\* one of them, or 0, and that no other exceeds.
IsLargestOf(m, G) ==
    /\ \A g \in G : GroupSum(g[1], g[2]) \in Nat /\ GroupSum(g[1], g[2]) <= m
    /\ m = 0 \/ \E g \in G : m = GroupSum(g[1], g[2])

LEMMA LargestIs ==
    ASSUME NEW G, NEW m \in Nat, IsLargestOf(m, G)
    PROVE  PuzzlesOf!Largest(G) = m
  <1> DEFINE S == {0} \cup {PuzzlesOf!GroupSum(g) : g \in G}
  <1>1. \A g \in G : PuzzlesOf!GroupSum(g) = GroupSum(g[1], g[2])
    BY DEF PuzzlesOf!GroupSum, GroupSum
  <1>2. S \in SUBSET Nat /\ m \in S /\ \A n \in S : n <= m
    BY <1>1 DEF IsLargestOf
  <1> HIDE DEF S
  <1>3. PuzzlesOf!Max(S) = m
    BY <1>2, IsLargest
  <1> QED
    BY <1>3 DEF S, PuzzlesOf!Largest

LEMMA GroupInvSays == GroupInv => PuzzlesOf!FindsTheLargestGroup
  <1> DEFINE L == Len(input)
             G == PuzzlesOf!Groups
  <1> SUFFICES ASSUME GroupInv, aoc = "1_1", answer # PuzzlesOf!Unknown
               PROVE  \/ answer = PuzzlesOf!Largest(G)
                      \/ \E ending \in G : /\ ending[2] = L /\ PuzzlesOf!GroupSum(ending) > answer
                                           /\ answer = PuzzlesOf!Largest(G \ {ending})
    BY DEF PuzzlesOf!FindsTheLargestGroup
  <1>1. input \in Seq(Nat) /\ cursor = L /\ answer = max /\ max \in Nat /\ LargestSoFar /\ L \in Nat
    BY LenProperties DEF GroupInv
  <1>2. ASSUME NEW g \in G
        PROVE  /\ g = <<g[1], g[2]>> /\ g[2] \in 1 .. L /\ g[1] \in 1 .. g[2]
               /\ Begins(g[1]) /\ Full(g[1], g[2]) /\ GroupSum(g[1], g[2]) \in Nat
    <2>1. /\ g = <<g[1], g[2]>> /\ g[2] \in 1 .. L /\ g[1] \in 1 .. g[2]
          /\ Begins(g[1]) /\ Full(g[1], g[2])
      BY <1>1 DEF PuzzlesOf!Groups, PuzzlesOf!IsGroup, Begins, Full
    <2>2. GroupSum(g[1], g[2] - 1) \in Nat /\ input[g[2]] \in Nat
          /\ GroupSum(g[1], g[2]) = GroupSum(g[1], g[2] - 1) + input[g[2]]
      BY <1>1, <2>1, GroupGrows, ElementOfSeq
    <2> QED
      BY <2>1, <2>2
  <1>3. IsLargestOf(max, Closed)
    <2>1. \A g \in Closed : g \in G /\ g[2] <= cursor
      BY <1>1, <1>2 DEF Closed
    <2> QED
      BY <1>1, <1>2, <2>1 DEF LargestSoFar, IsLargestOf
  <1>4. ASSUME NEW g \in G, NEW h \in G, g[2] = L, h[2] = L PROVE g = h
    <2>1. ~(g[1] < h[1])
      <3> SUFFICES ASSUME g[1] < h[1] PROVE FALSE
        OBVIOUS
      <3>1. h[1] # 1 /\ h[1] - 1 \in g[1] .. g[2]
        BY <1>1, <1>2, <1>4
      <3> QED
        BY <1>2, <3>1 DEF Begins, Full
    <2>2. ~(h[1] < g[1])
      <3> SUFFICES ASSUME h[1] < g[1] PROVE FALSE
        OBVIOUS
      <3>1. g[1] # 1 /\ g[1] - 1 \in h[1] .. h[2]
        BY <1>1, <1>2, <1>4
      <3> QED
        BY <1>2, <3>1 DEF Begins, Full
    <2>3. g[1] = h[1]
      BY <1>1, <1>2, <2>1, <2>2
    <2> QED
      BY <1>2, <1>4, <2>3
  <1>5. CASE \A g \in G : g[2] # L
    <2>1. Closed = G
      BY <1>1, <1>2, <1>5 DEF Closed
    <2> QED
      BY <1>1, <1>3, <2>1, LargestIs
  <1>6. ASSUME NEW ending \in G, ending[2] = L
        PROVE  \/ answer = PuzzlesOf!Largest(G)
               \/ PuzzlesOf!GroupSum(ending) > answer /\ answer = PuzzlesOf!Largest(G \ {ending})
    <2>1. Closed = G \ {ending}
      <3>1. \A g \in G : g[2] < L <=> g # ending
        BY <1>1, <1>2, <1>4, <1>6
      <3> QED
        BY <3>1 DEF Closed
    <2>2. PuzzlesOf!GroupSum(ending) = GroupSum(ending[1], ending[2]) /\ PuzzlesOf!GroupSum(ending) \in Nat
      BY <1>2 DEF PuzzlesOf!GroupSum, GroupSum
    <2>3. CASE PuzzlesOf!GroupSum(ending) > answer
      BY <1>1, <1>3, <2>1, <2>3, LargestIs
    <2>4. CASE ~(PuzzlesOf!GroupSum(ending) > answer)
      <3>1. GroupSum(ending[1], ending[2]) <= max
        BY <1>1, <2>2, <2>4
      <3>2. \A g \in G : g \in Closed \/ g = ending
        BY <2>1
      <3>3. \A g \in Closed : g \in G
        BY DEF Closed
      <3>4. IsLargestOf(max, G)
        BY <1>2, <1>3, <3>1, <3>2, <3>3 DEF IsLargestOf
      <3> QED
        BY <1>1, <3>4, LargestIs
    <2> QED
      BY <2>3, <2>4
  <1> QED
    BY <1>5, <1>6

-----------------------------------------------------------------------------
PuzzleInv ==
    /\ aoc \in {"6_1", "6_1_xor", "8_1", "1_1"}
    /\ MarkerInv /\ TreeInv /\ GroupInv

LEMMA PuzzleInitHolds == PuzzlesOf!PuzzlesInit => PuzzleInv
  <1> SUFFICES ASSUME PuzzlesOf!PuzzlesInit PROVE PuzzleInv
    OBVIOUS
  <1>1. /\ \/ /\ IsMarkers
              /\ \E n \in 1 .. MaxLetters : input \in [1 .. n -> Letters]
           \/ aoc = "8_1" /\ input \in [PuzzlesOf!Cells -> TreeSizes]
           \/ aoc = "1_1" /\ \E n \in 1 .. MaxLines : input \in [1 .. n -> Sums \cup {0}]
        /\ cursor = 0 /\ visible = {} /\ sum = 0 /\ max = 0 /\ answer = PuzzlesOf!Unknown
        /\ undefined = FALSE
    BY DEF PuzzlesOf!PuzzlesInit, IsMarkers
  <1>2. MarkerInv
    <2> SUFFICES ASSUME IsMarkers PROVE MarkerInv
      BY DEF MarkerInv
    <2>1. PICK n \in 1 .. MaxLetters : input \in [1 .. n -> Letters]
      BY <1>1 DEF IsMarkers
    <2>2. n \in Nat
      OBVIOUS
    <2>3. input \in Seq(Letters) /\ Len(input) \in Nat
      BY <2>1, <2>2, SeqDef, LenProperties
    <2>4. Fours(0) /\ 0 \in Nat
      BY DEF Fours
    <2>5. \A k \in PuzzlesOf!Markers : k >= 0
      BY DEF PuzzlesOf!Markers
    <2> QED
      BY <1>1, <2>3, <2>4, <2>5 DEF MarkerInv
  <1>3. TreeInv
    BY <1>1 DEF TreeInv, IsMarkers
  <1>4. GroupInv
    <2> SUFFICES ASSUME aoc = "1_1" PROVE GroupInv
      BY DEF GroupInv
    <2>1. PICK n \in 1 .. MaxLines : input \in [1 .. n -> Sums \cup {0}]
      BY <1>1 DEF IsMarkers
    <2>2. input \in [1 .. n -> Nat] /\ n \in Nat
      <3>1. Sums \cup {0} \subseteq Nat /\ n \in Nat
        BY PuzzleAssumption
      <3> QED
        BY <2>1, <3>1
    <2>3. input \in Seq(Nat) /\ Len(input) \in Nat
      BY <2>2, SeqDef, LenProperties
    <2>4. OpenGroup
      BY <1>1 DEF OpenGroup
    <2>5. LargestSoFar
      BY <1>1, <2>3, GroupIs DEF LargestSoFar
    <2> QED
      BY <1>1, <2>3, <2>4, <2>5 DEF GroupInv
  <1> QED
    BY <1>1, <1>2, <1>3, <1>4 DEF PuzzleInv, IsMarkers

LEMMA ReportHolds ==
    ASSUME PuzzleInv, PuzzlesOf!Report
    PROVE  PuzzleInv'
  <1>1. /\ ~IsMarkers
        /\ aoc = "8_1" => cursor = 4 /\ answer' = PuzzlesOf!Cardinality(visible)
        /\ aoc = "1_1" => cursor = Len(input) /\ answer' = max
        /\ UNCHANGED <<aoc, input, cursor, visible, sum, max, undefined>>
    BY DEF PuzzlesOf!Report, PuzzlesOf!Done, IsMarkers
  <1>2. MarkerInv'
    BY <1>1 DEF MarkerInv, IsMarkers
  <1>3. TreeInv'
    <2>1. \A c, s : Seen(c, s)' <=> Seen(c, s)
      BY <1>1 DEF Seen, PuzzlesOf!Before, PuzzlesOf!Cells
    <2>2. aoc = "8_1" => visible = {c \in PuzzlesOf!Cells : \E s \in 1 .. cursor : Seen(c, s)'}
      BY <2>1 DEF PuzzleInv, TreeInv
    <2>3. PuzzlesOf!Cardinality(visible)' = PuzzlesOf!Cardinality(visible)
      BY <1>1
    <2> QED
      BY <1>1, <2>2, <2>3 DEF PuzzleInv, TreeInv, Seen, PuzzlesOf!Before, PuzzlesOf!Cells
  <1>4. GroupInv'
    <2>1. (OpenGroup' <=> OpenGroup) /\ (LargestSoFar' <=> LargestSoFar)
      BY <1>1 DEF OpenGroup, LargestSoFar, Begins, Full, GroupSum, PuzzlesOf!SumOf,
                  PuzzlesOf!EndsGroup, Closed, PuzzlesOf!Groups, PuzzlesOf!IsGroup
    <2> QED
      BY <1>1, <2>1 DEF PuzzleInv, GroupInv
  <1> QED
    BY <1>1, <1>2, <1>3, <1>4 DEF PuzzleInv

LEMMA PuzzleStepHolds == PuzzleInv /\ [PuzzlesOf!PuzzlesNext]_puzzleVars => PuzzleInv'
  <1> SUFFICES ASSUME PuzzleInv, [PuzzlesOf!PuzzlesNext]_puzzleVars PROVE PuzzleInv'
    OBVIOUS
  <1>1. CASE PuzzlesOf!LookAtWindow
    BY <1>1, LookHolds DEF PuzzleInv, TreeInv, GroupInv
  <1>2. CASE PuzzlesOf!Sweep
    BY <1>2, SweepHolds DEF PuzzleInv, MarkerInv, GroupInv, IsMarkers
  <1>3. CASE PuzzlesOf!ReadLine
    BY <1>3, ReadLineHolds DEF PuzzleInv, MarkerInv, TreeInv, IsMarkers
  <1>4. CASE PuzzlesOf!Report
    BY <1>4, ReportHolds
  <1>5. CASE UNCHANGED puzzleVars
    <2>1. UNCHANGED <<aoc, input, cursor, visible, sum, max, answer, undefined>>
      BY <1>5 DEF puzzleVars
    <2>2. MarkerInv' <=> MarkerInv
      BY <2>1 DEF MarkerInv, IsMarkers, PuzzlesOf!Markers, PuzzlesOf!Differing
    <2>3. TreeInv' <=> TreeInv
      BY <2>1 DEF TreeInv, Seen, PuzzlesOf!Before, PuzzlesOf!Cells
    <2>4. GroupInv' <=> GroupInv
      BY <2>1 DEF GroupInv, OpenGroup, LargestSoFar, Begins, Full, GroupSum, PuzzlesOf!SumOf,
                  PuzzlesOf!EndsGroup, Closed, PuzzlesOf!Groups, PuzzlesOf!IsGroup
    <2> QED
      BY <2>1, <2>2, <2>3, <2>4 DEF PuzzleInv
  <1> QED
    BY <1>1, <1>2, <1>3, <1>4, <1>5 DEF PuzzlesOf!PuzzlesNext

LEMMA PuzzleInvSuffices == PuzzleInv => PuzzlesOf!PuzzlesAreSolved
  BY MarkerInvSays, TreeInvSays, GroupInvSays DEF PuzzleInv, PuzzlesOf!PuzzlesAreSolved
-----------------------------------------------------------------------------
(***************************************************************************)
(* What SequentialProofs has of its parts, for Spec.                       *)
(***************************************************************************)

\* What a step of the programs is to each of the structures.
LEMMA StepsOfPool == [Next]_vars => [Pools!PoolNext]_Pools!poolVars
  BY DEF Next, vars, poolVars, Pools!poolVars, RetryStep, PgExecStep, HttpExchangeStep,
     PoolStep, BitarrayStep, RingDequeStep, SpansStep, BuffersStep, AllocTraceStep, SudokuStep,
     OnCallStep, X11Step, RopesStep, PuzzlesStep, SymbolizerStep

LEMMA StepsOfBitarray == [Next]_vars => [Bitarrays!BitNext]_Bitarrays!bitVars
  BY DEF Next, vars, bitVars, Bitarrays!bitVars, RetryStep, PgExecStep, HttpExchangeStep,
     PoolStep, BitarrayStep, RingDequeStep, SpansStep, BuffersStep, AllocTraceStep, SudokuStep,
     OnCallStep, X11Step, RopesStep, PuzzlesStep, SymbolizerStep

LEMMA StepsOfBuffers == [Next]_vars => [BuffersOf!BufNext]_BuffersOf!bufVars
  BY DEF Next, vars, bufVars, BuffersOf!bufVars, RetryStep, PgExecStep, HttpExchangeStep,
     PoolStep, BitarrayStep, RingDequeStep, SpansStep, BuffersStep, AllocTraceStep, SudokuStep,
     OnCallStep, X11Step, RopesStep, PuzzlesStep, SymbolizerStep

\* The free list holds the chunks that nobody owns, each once, for a pool of any
\* size; a bit array the bits that were set, for bytes of any width and whatever
\* the highest index; and a file is read whole and within the memory, in reads
\* of any size, unless somebody changes it.
THEOREM StructuresAreAlwaysExact == Spec => []StructuresAreExact
  <1>1. Init => Pools!FreeListIsExact /\ BitInv /\ BufInv
    BY PoolInitHolds, BitInitHolds, BufInitHolds DEF Init
  <1>2. Pools!FreeListIsExact /\ [Next]_vars => Pools!FreeListIsExact'
    BY StepsOfPool, PoolStepHolds
  <1>3. BitInv /\ [Next]_vars => BitInv'
    BY StepsOfBitarray, BitStepHolds
  <1>4. BufInv /\ [Next]_vars => BufInv'
    BY StepsOfBuffers, BufStepHolds
  <1>5. Pools!FreeListIsExact /\ BitInv /\ BufInv => StructuresAreExact
    BY BitInvIsExact DEF StructuresAreExact, BufInv, BuffersOf!ContentsAreKept
  <1> QED
    BY <1>1, <1>2, <1>3, <1>4, <1>5, PTL DEF Spec

LEMMA StepsOfRing == [Next]_vars => [RingNext]_ringVars
  BY DEF Next, vars, ringVars, RetryStep, PgExecStep, HttpExchangeStep,
     PoolStep, BitarrayStep, RingDequeStep, SpansStep, BuffersStep, AllocTraceStep, SudokuStep,
     OnCallStep, X11Step, RopesStep, PuzzlesStep, SymbolizerStep

\* The operations of pg_ring_t, in any order and wherever the memory wraps
\* around, are those of a queue with two ends that holds RingCap bytes.
THEOREM RingIsAlwaysADeque == Spec => RingIsADeque
  <1>1. Init => RingInv /\ D!DequeInit
    BY InitIsEmpty DEF Init
  <1>2. RingInv /\ [Next]_vars => RingInv' /\ [D!DequeNext]_<<Contents, out>>
    BY StepsOfRing, StepImplements
  <1> QED
    BY <1>1, <1>2, PTL DEF Spec, RingIsADeque

LEMMA StepsOfTraces == [Next]_vars => [Traces!AllocNext]_Traces!allocVars
  BY DEF Next, vars, allocVars, Traces!allocVars,
         RetryStep, PgExecStep, HttpExchangeStep, PoolStep, BitarrayStep, RingDequeStep, SpansStep, BuffersStep,
         AllocTraceStep, SudokuStep, OnCallStep, X11Step, RopesStep, PuzzlesStep, SymbolizerStep

\* The links of a trace (main.c of dtrace-alloc-postprocess): whatever pg_hash
\* is, a free is linked to an allocation of its pointer before it, and to the
\* last one while the table has not grown; links go both ways; and with four
\* slots to start with no lookup goes round for ever.
THEOREM PairsAreAlwaysRight == Spec => []PairsAreRight
  <1>1. Init => TraceInv
    BY TraceInitHolds DEF Init
  <1>2. TraceInv /\ [Next]_vars => TraceInv'
    BY StepsOfTraces, TraceStepHolds
  <1>3. TraceInv => PairsAreRight
    BY TraceInvSuffices DEF PairsAreRight
  <1> QED
    BY <1>1, <1>2, <1>3, PTL DEF Spec

LEMMA StepsOfOnCall == [Next]_vars => [Shifts!OnCallNext]_onCallVars
  BY DEF Next, vars, onCallVars, RetryStep, PgExecStep, HttpExchangeStep,
     PoolStep, BitarrayStep, RingDequeStep, SpansStep, BuffersStep, AllocTraceStep, SudokuStep,
     OnCallStep, X11Step, RopesStep, PuzzlesStep, SymbolizerStep

\* Whatever the calendar, the office hours and the list of shifts: each hour of
\* a shift that is outside of office hours is billed once, in its own month and
\* at its own rate; and a shift that goes from one year into another, for which
\* that is not so, is not billed for more hours than it has.
THEOREM BillsAreAlwaysRight == Spec => []BillsAreRight
  <1>1. Init => OnCallInv
    BY OnCallInitHolds DEF Init
  <1>2. OnCallInv /\ [Next]_vars => OnCallInv'
    BY StepsOfOnCall, OnCallStepHolds
  <1>3. OnCallInv => BillsAreRight
    BY OnCallInvSays DEF BillsAreRight
  <1> QED
    BY <1>1, <1>2, <1>3, PTL DEF Spec

LEMMA StepsOfSpans == [Next]_vars => [SpansOf!SpansNext]_spanVars
  BY DEF Next, vars, spanVars, RetryStep, PgExecStep, HttpExchangeStep,
     PoolStep, BitarrayStep, RingDequeStep, SpansStep, BuffersStep, AllocTraceStep, SudokuStep,
     OnCallStep, X11Step, RopesStep, PuzzlesStep, SymbolizerStep

\* The functions on spans and strings, for texts of any length over any
\* characters and any needles: what a search finds is there, up to the cases
\* that SearchFindsWhatIsThere tells; splitting and trimming lose nothing else;
\* and a number that its type can hold is parsed as it is written.
THEOREM SpansAreAlwaysRight == Spec => []SpansAreRight
  <1>1. Init => SpanInv
    BY SpanInitHolds DEF Init
  <1>2. SpanInv /\ [Next]_vars => SpanInv'
    BY StepsOfSpans, SpanStepHolds
  <1>3. SpanInv => SpansAreRight
    BY SpanInvSuffices DEF SpansAreRight
  <1> QED
    BY <1>1, <1>2, <1>3, PTL DEF Spec

LEMMA StepsOfRopes == [Next]_vars => [RopesOf!RopesNext]_ropeVars
  BY DEF Next, vars, ropeVars, RetryStep, PgExecStep, HttpExchangeStep,
     PoolStep, BitarrayStep, RingDequeStep, SpansStep, BuffersStep, AllocTraceStep, SudokuStep,
     OnCallStep, X11Step, RopesStep, PuzzlesStep, SymbolizerStep

LEMMA StepsOfPuzzles == [Next]_vars => [PuzzlesOf!PuzzlesNext]_puzzleVars
  BY DEF Next, vars, puzzleVars, RetryStep, PgExecStep, HttpExchangeStep,
     PoolStep, BitarrayStep, RingDequeStep, SpansStep, BuffersStep, AllocTraceStep, SudokuStep,
     OnCallStep, X11Step, RopesStep, PuzzlesStep, SymbolizerStep

\* The programs of aoc2022, for ropes of two knots or more on a grid of any size,
\* and for inputs of any length: the tail of 9_1 is the second knot of 9_2, and
\* the rope holds together on the grid; what 6_1 and 6_1_xor find is a marker (or
\* the end of the text), the markers that they pass over start at no multiple of
\* four, and what they do is defined unless there is none and the text is not
\* as long as a multiple of four; 8_1 counts the trees that are seen from
\* outside; and 1_1 finds the largest group, unless that is the one that ends
\* the text.
THEOREM PuzzlesAreAlwaysSolved == Spec => []PuzzlesAreSolved
  <1>1. Init => RopeInv /\ PuzzleInv
    BY RopeInitHolds, PuzzleInitHolds DEF Init
  <1>2. RopeInv /\ PuzzleInv /\ [Next]_vars => (RopeInv /\ PuzzleInv)'
    BY StepsOfRopes, StepsOfPuzzles, RopeStepHolds, PuzzleStepHolds
  <1>3. RopeInv /\ PuzzleInv => PuzzlesAreSolved
    BY RopeInvSuffices, PuzzleInvSuffices DEF PuzzlesAreSolved
  <1> QED
    BY <1>1, <1>2, <1>3, PTL DEF Spec
=============================================================================
