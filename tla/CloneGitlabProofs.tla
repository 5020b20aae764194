--------------------------- MODULE CloneGitlabProofs ---------------------------
(***************************************************************************)
(* What holds of clone-gitlab-api for any pages, any number of pids and    *)
(* every failure: the registry of children is exact, the reports are true  *)
(* and no project is left out silently.                                    *)
(*                                                                         *)
(* Only a pid ties what wait() returned to an entry of the registry, and   *)
(* between wait() and the critical section the kernel may give that pid    *)
(* to another job.  The invariant says why the first entry with the pid is *)
(* the right one all the same: every other entry is of a child that lives. *)
(***************************************************************************)
EXTENDS CloneGitlab, FiniteSetTheorems, SequenceTheorems, TLAPS

\* Jobs are numbered as they are forked, and appended at once or next.
JobsAreCounted ==
    /\ Len(pipe) = concurrent_children_spawned_count + (IF main_pc = "append" THEN 1 ELSE 0)
    /\ main_pc = "append" => forked.pid \in Pids /\ forked.job = Len(pipe)

Registry == concurrent_child_processes

LookedUp == Reported \cup (IF watch_pc = "report" THEN {reaped.job} ELSE {})

\* The registry holds the jobs appended and not looked up, each of them once.
EntriesAreJobs ==
    /\ { Registry[i].job : i \in 1 .. Len(Registry) }
         = (1 .. concurrent_children_spawned_count) \ LookedUp
    /\ LookedUp \subseteq 1 .. concurrent_children_spawned_count
    /\ \A i, j \in 1 .. Len(Registry) : Registry[i].job = Registry[j].job => i = j

\* A report is of a job of its own, and its numbers are those of the moment.
ReportsAreNumbered ==
    /\ \A i, j \in 1 .. Len(reports) : reports[i].job = reports[j].job => i = j
    /\ \A i \in 1 .. Len(reports) : reports[i].waited = i /\ i <= reports[i].spawned
    /\ children_waited_count = Len(reports) + (IF watch_pc \in {"lookup", "report"} THEN 1 ELSE 0)
    /\ watch_pc = "report" => /\ reaped.job \notin Reported
                              /\ reaped.job \in Jobs
                              /\ children_waited_count <= reaped.spawned
                              /\ exits[reaped.job] = reaped.status

\* What is known of how a job ended is what its process says.
ExitsAgree ==
    \A p \in Children :
        exits[child[p].job] = IF child[p].state = "zombie" THEN child[p].status ELSE "running"

Lives(e) == e.pid \in Children /\ child[e.pid].job = e.job

\* e is the job that wait() has just returned.
Awaited(e) ==
    /\ watch_pc = "lookup" /\ reaped.pid = e.pid
    /\ e.job \in Jobs /\ exits[e.job] = reaped.status /\ ~Lives(e)

\* Each job not looked up is a child, or is the one that was waited for,
\* and then it comes before all children that got its pid after it.
EntriesAreChildren ==
    /\ \A i \in 1 .. Len(Registry) :
         Lives(Registry[i]) \/ (Awaited(Registry[i]) /\ FoundAt(i, reaped.pid))
    /\ main_pc = "append" => Lives(forked) \/ (Awaited(forked) /\ Matching(reaped.pid) = {})

ChildrenAreEntries ==
    \A p \in Children :
        \/ \E i \in 1 .. Len(Registry) : Registry[i].pid = p /\ Registry[i].job = child[p].job
        \/ main_pc = "append" /\ forked.pid = p /\ forked.job = child[p].job

\* The first entry with the pid is the one awaited, if that was appended yet.
LookupIsRight ==
    watch_pc = "lookup" =>
        /\ \A i \in Matching(reaped.pid) : FoundAt(i, reaped.pid) => Awaited(Registry[i])
        /\ Matching(reaped.pid) # {} \/ (main_pc = "append" /\ Awaited(forked))

\* The pages fetched were listed or empty; the projects listed were tried or are to do.
NoneIsSkipped ==
    /\ main_pc = "fetch" => todo = <<>> /\ ~finished
    /\ main_pc = "append" => todo # <<>> /\ Head(todo) \in tried
    /\ res = "ok" =>
         /\ main_pc \in {"signal", "chdir", "join"} => finished /\ todo = <<>>
         /\ \A n \in 1 .. Len(Pages) : finished \/ n < page => n \in listed \cup empty
         /\ \A q \in Projects :
              q[1] \in listed => q \in tried \/ \E k \in 1 .. Len(todo) : todo[k] = q

CloneInv ==
    /\ TypeOK /\ JobsAreCounted /\ EntriesAreJobs /\ ReportsAreNumbered /\ OutcomesAreReported
    /\ ExitsAgree /\ EntriesAreChildren /\ ChildrenAreEntries /\ LookupIsRight /\ NoneIsSkipped
-----------------------------------------------------------------------------
(* Types. *)

ChildType ==
    {NoChild}
      \cup [state : {"running"}, job : Jobs, left : 0 .. MaxStderr]
      \cup [state : {"zombie"}, job : Jobs, status : {"success", "failure", "signal"}]

\* What a process is, field by field.
LEMMA ChildFields ==
    ASSUME TypeOK, NEW p \in Children
    PROVE  /\ p \in Pids /\ child[p].job \in Jobs /\ child[p].state \in {"running", "zombie"}
           /\ child[p].state = "running" =>
                /\ child[p].left \in 0 .. MaxStderr
                /\ child[p] = [state |-> "running", job |-> child[p].job, left |-> child[p].left]
           /\ child[p].state = "zombie" =>
                /\ child[p].status \in {"success", "failure", "signal"}
                /\ child[p] = [state |-> "zombie", job |-> child[p].job, status |-> child[p].status]
  <1>1. p \in Pids /\ child[p] # NoChild
    BY DEF Children
  <1>2. child[p] \in ChildType
    BY <1>1 DEF TypeOK, ChildType
  <1> QED
    BY <1>1, <1>2 DEF ChildType, NoChild

\* More jobs: what was of the types is.
LEMMA MoreJobs ==
    ASSUME TypeOK, Len(pipe') >= Len(pipe), Len(pipe') \in Nat
    PROVE  /\ Jobs \subseteq Jobs'
           /\ forked \in [pid : Pids \cup {0}, job : Jobs' \cup {0}]
           /\ Registry \in Seq([pid : Pids, job : Jobs'])
           /\ reaped \in [pid : Pids \cup {0}, status : {"success", "failure", "signal"},
                          job : Jobs' \cup {0}, spawned : Nat]
           /\ child \in [Pids -> ChildType']
           /\ reports \in Seq([job : Jobs', success : BOOLEAN, waited : Nat, spawned : Nat])
  <1>1. Len(pipe) \in Nat
    BY DEF TypeOK
  <1>2. Jobs \subseteq Jobs'
    BY <1>1 DEF Jobs
  <1>3. [pid : Pids, job : Jobs] \subseteq [pid : Pids, job : Jobs']
    BY <1>2
  <1>4. [job : Jobs, success : BOOLEAN, waited : Nat, spawned : Nat]
          \subseteq [job : Jobs', success : BOOLEAN, waited : Nat, spawned : Nat]
    BY <1>2
  <1>5. Registry \in Seq([pid : Pids, job : Jobs'])
    BY <1>3, SeqMonotonic DEF TypeOK, Registry
  <1>6. reports \in Seq([job : Jobs', success : BOOLEAN, waited : Nat, spawned : Nat])
    BY <1>4, SeqMonotonic DEF TypeOK
  <1>7. ChildType \subseteq ChildType'
    BY <1>2 DEF ChildType, NoChild
  <1>8. child \in [Pids -> ChildType']
    BY <1>7 DEF TypeOK, ChildType
  <1> QED
    BY <1>2, <1>5, <1>6, <1>8 DEF TypeOK

LEMMA TypeInit == Init => TypeOK
  <1> SUFFICES ASSUME Init
               PROVE  TypeOK
    OBVIOUS
  <1>1. Len(Pages) \in Nat \ {0}
    BY PagesAssumption
  <1>2. child \in [Pids -> ChildType]
    BY DEF Init, ChildType
  <1>3. /\ todo \in Seq(Projects) /\ Registry \in Seq([pid : Pids, job : Jobs])
        /\ pipe \in Seq(0 .. PipeCapacity) /\ exits \in Seq({"running", "success", "failure", "signal"})
        /\ Len(exits) = Len(pipe)
        /\ reports \in Seq([job : Jobs, success : BOOLEAN, waited : Nat, spawned : Nat])
    BY EmptySeq DEF Init, Registry
  <1>4. /\ main_pc = "fetch" /\ page \in 1 .. Len(Pages) /\ missing \in 0 .. MaxMissing
        /\ res = "ok" /\ tried \subseteq Projects
        /\ listed \subseteq 1 .. Len(Pages) /\ empty \subseteq 1 .. Len(Pages)
        /\ concurrent_children_spawned_count \in Nat
        /\ watch_pc = "wait" /\ children_waited_count \in Nat
    BY <1>1, BoundsAssumption DEF Init
  <1>6. /\ finished \in BOOLEAN /\ atomic_child_spawner_finished \in BOOLEAN
        /\ aborted \in BOOLEAN
    BY Zenon DEF Init
  <1>5. /\ forked \in [pid : Pids \cup {0}, job : Jobs \cup {0}]
        /\ reaped \in [pid : Pids \cup {0}, status : {"success", "failure", "signal"},
                       job : Jobs \cup {0}, spawned : Nat]
    BY DEF Init
  <1> QED
    BY <1>2, <1>3, <1>4, <1>5, <1>6 DEF TypeOK, ChildType, Registry

LEMMA ListedType ==
    ASSUME NEW n \in 1 .. Len(Pages)
    PROVE  /\ Pages[n] \in Nat /\ Listed(n) \in Seq(Projects) /\ Len(Listed(n)) = Pages[n]
           /\ \A k \in 1 .. Pages[n] : Listed(n)[k] = <<n, k>>
  <1>1. Pages[n] \in Nat
    BY PagesAssumption
  <1>2. \A k \in 1 .. Pages[n] : <<n, k>> \in Projects
    BY DEF Projects
  <1>3. Listed(n) \in [1 .. Pages[n] -> Projects]
    BY <1>2 DEF Listed
  <1> QED
    BY <1>1, <1>3, IsASeq DEF Listed

LEMMA TypeMain == CloneInv /\ Main => TypeOK'
  <1> SUFFICES ASSUME TypeOK, JobsAreCounted, NoneIsSkipped, Main
               PROVE  TypeOK'
    BY DEF CloneInv
  <1>1. CASE api_fetch_projects
    <2>1. page' \in 1 .. Len(Pages) /\ missing' \in 0 .. MaxMissing
      <3>1. /\ page \in 1 .. Len(Pages) /\ missing \in 0 .. MaxMissing
            /\ Len(Pages) \in Nat /\ MaxMissing \in Nat
        BY PagesAssumption, BoundsAssumption DEF TypeOK
      <3>2. /\ page' = page \/ (page < Len(Pages) /\ page' = page + 1)
            /\ missing' = missing \/ (missing < MaxMissing /\ missing' = missing + 1)
        BY <1>1 DEF api_fetch_projects, on_header
      <3>3. page' \in 1 .. Len(Pages)
        BY <3>1, <3>2
      <3>4. missing' \in 0 .. MaxMissing
        BY <3>1, <3>2
      <3> QED
        BY <3>3, <3>4
    <2>3. finished' \in BOOLEAN
      BY <1>1, Zenon DEF api_fetch_projects, on_header, TypeOK
    <2>2. main_pc' \in {"upsert", "signal"} /\ todo' \in Seq(Projects) /\ res' \in {"ok", "failed"}
      <3>1. <<>> \in Seq(Projects)
        OBVIOUS
      <3> QED
        BY <1>1, <3>1, ListedType DEF api_fetch_projects, TypeOK
    <2>4. listed' \subseteq 1 .. Len(Pages) /\ empty' \subseteq 1 .. Len(Pages)
      BY <1>1 DEF api_fetch_projects, TypeOK
    <2> QED
      BY <1>1, <2>1, <2>2, <2>3, <2>4 DEF api_fetch_projects, TypeOK, Jobs, sharedVars, watchVars, childVars
  <1>2. CASE upsert_project_fork
    <2>1. CASE UNCHANGED <<child, pipe, exits, tried, forked>>
      BY <1>2, <2>1 DEF upsert_project_fork, TypeOK, Jobs, sharedVars, watchVars
    <2>2. ASSUME NEW pid \in Pids, NEW left \in 0 .. MaxStderr,
                 child' = [child EXCEPT ![pid] =
                             [state |-> "running", job |-> Len(pipe) + 1, left |-> left]],
                 pipe' = Append(pipe, 0), exits' = Append(exits, "running"),
                 tried' = tried \cup {Head(todo)},
                 forked' = [pid |-> pid, job |-> Len(pipe) + 1],
                 main_pc' = "append", res' = res
          PROVE  TypeOK'
      <3>1. /\ pipe' \in Seq(0 .. PipeCapacity) /\ Len(pipe') = Len(pipe) + 1 /\ Len(pipe) \in Nat
            /\ exits' \in Seq({"running", "success", "failure", "signal"})
            /\ Len(exits') = Len(pipe')
        <4> DEFINE Ends == {"running", "success", "failure", "signal"}
        <4>1. pipe \in Seq(0 .. PipeCapacity) /\ exits \in Seq(Ends) /\ Len(exits) = Len(pipe)
          BY DEF TypeOK
        <4>2. 0 \in 0 .. PipeCapacity /\ "running" \in Ends
          BY BoundsAssumption
        <4>3. pipe' \in Seq(0 .. PipeCapacity) /\ Len(pipe') = Len(pipe) + 1 /\ Len(pipe) \in Nat
          BY <2>2, <4>1, <4>2, AppendProperties, LenProperties
        <4>4. exits' \in Seq(Ends) /\ Len(exits') = Len(exits) + 1
          <5> HIDE DEF Ends
          <5> QED
            BY <2>2, <4>1, <4>2, AppendProperties
        <4> QED
          BY <4>1, <4>3, <4>4
      <3>2. tried' \subseteq Projects
        BY <1>2, <2>2 DEF upsert_project_fork, TypeOK
      <3>3. Len(pipe) + 1 \in Jobs'
        BY <3>1 DEF Jobs
      <3>4. forked' \in [pid : Pids \cup {0}, job : Jobs' \cup {0}]
        BY <2>2, <3>3
      <3>5. [state |-> "running", job |-> Len(pipe) + 1, left |-> left] \in ChildType'
        BY <3>3 DEF ChildType
      <3>6. child' \in [Pids -> ChildType']
        BY <2>2, <3>1, <3>5, MoreJobs
      <3> QED
        BY <1>2, <2>2, <3>1, <3>2, <3>4, <3>6, MoreJobs
        DEF upsert_project_fork, TypeOK, ChildType, Registry, sharedVars, watchVars
    <2> QED
      BY <1>2, <2>1, <2>2 DEF upsert_project_fork
  <1>3. CASE upsert_project_append
    <2>1. todo' \in Seq(Projects)
      BY <1>3, HeadTailProperties DEF upsert_project_append, TypeOK, NoneIsSkipped
    <2>2. forked \in [pid : Pids, job : Jobs]
      BY <1>3 DEF upsert_project_append, TypeOK, JobsAreCounted, Jobs
    <2>3. Registry' \in Seq([pid : Pids, job : Jobs])
      BY <1>3, <2>2, AppendProperties DEF upsert_project_append, TypeOK, Registry
    <2> QED
      BY <1>3, <2>1, <2>2, <2>3
      DEF upsert_project_append, TypeOK, Jobs, Registry, watchVars, childVars
  <1>4. CASE page_done
    BY <1>4 DEF page_done, TypeOK, Jobs, sharedVars, watchVars, childVars
  <1>5. CASE spawner_finished
    BY <1>5 DEF spawner_finished, TypeOK, Jobs, watchVars, childVars
  <1>6. CASE main_end
    BY <1>6 DEF main_end, TypeOK, Jobs, sharedVars, watchVars, childVars
  <1> QED
    BY <1>1, <1>2, <1>3, <1>4, <1>5, <1>6 DEF Main

\* The entries that are left are those there were, but for the i-th.
LEMMA Removed ==
    ASSUME NEW S, NEW s \in Seq(S), NEW i \in 1 .. Len(s)
    PROVE  /\ SwapRemove(s, i) \in Seq(S) /\ Len(SwapRemove(s, i)) = Len(s) - 1
           /\ \A j \in 1 .. Len(s) - 1 :
                SwapRemove(s, i)[j] = s[IF j = i THEN Len(s) ELSE j]
           /\ \A j \in 1 .. Len(s) - 1 :
                (IF j = i THEN Len(s) ELSE j) \in (1 .. Len(s)) \ {i}
           /\ \A k \in (1 .. Len(s)) \ {i} :
                \E j \in 1 .. Len(s) - 1 : k = IF j = i THEN Len(s) ELSE j
  <1> DEFINE r == SwapRemove(s, i)
  <1>1. Len(s) \in Nat /\ Len(s) - 1 \in Nat
    OBVIOUS
  <1>2. r = [j \in 1 .. Len(s) - 1 |-> s[IF j = i THEN Len(s) ELSE j]]
    BY DEF SwapRemove
  <1>3. \A j \in 1 .. Len(s) - 1 : (IF j = i THEN Len(s) ELSE j) \in (1 .. Len(s)) \ {i}
    BY <1>1
  <1>4. r \in [1 .. Len(s) - 1 -> S]
    BY <1>2, <1>3, ElementOfSeq
  <1>5. r \in Seq(S) /\ Len(r) = Len(s) - 1
    BY <1>1, <1>4, IsASeq, LenProperties
  <1>6. \A k \in (1 .. Len(s)) \ {i} :
          \E j \in 1 .. Len(s) - 1 : k = IF j = i THEN Len(s) ELSE j
    <2> SUFFICES ASSUME NEW k \in (1 .. Len(s)) \ {i}
                 PROVE  \E j \in 1 .. Len(s) - 1 : k = IF j = i THEN Len(s) ELSE j
      OBVIOUS
    <2>1. CASE k = Len(s)
      BY <1>1, <2>1
    <2>2. CASE k # Len(s)
      BY <1>1, <2>2
    <2> QED
      BY <2>1, <2>2
  <1> QED
    BY <1>2, <1>3, <1>5, <1>6

LEMMA TypeWatcher == CloneInv /\ watch_workers => TypeOK'
  <1> SUFFICES ASSUME CloneInv, TypeOK, watch_workers
               PROVE  TypeOK'
    BY DEF CloneInv
  <1>1. CASE watch_wait
    <2>1. CASE UNCHANGED <<reaped, child, children_waited_count>> /\ watch_pc' = "check"
      BY <1>1, <2>1 DEF watch_wait, TypeOK, Jobs, mainVars, sharedVars
    <2>2. ASSUME NEW pid \in Children, child[pid].state = "zombie",
                 reaped' = [pid |-> pid, status |-> child[pid].status, job |-> 0, spawned |-> 0],
                 child' = [child EXCEPT ![pid] = NoChild],
                 children_waited_count' = children_waited_count + 1,
                 watch_pc' = "lookup"
          PROVE  TypeOK'
      <3>1. pid \in Pids /\ child[pid].status \in {"success", "failure", "signal"}
        BY <2>2, ChildFields
      <3>2. reaped' \in [pid : Pids \cup {0}, status : {"success", "failure", "signal"},
                         job : Jobs \cup {0}, spawned : Nat]
        BY <2>2, <3>1
      <3>3. child' \in [Pids -> ChildType]
        BY <2>2, <3>1 DEF TypeOK, ChildType
      <3> QED
        BY <1>1, <2>2, <3>2, <3>3 DEF watch_wait, TypeOK, ChildType, Jobs, mainVars, sharedVars
    <2> QED
      BY <1>1, <2>1, <2>2 DEF watch_wait
  <1>2. CASE watch_check_finished
    BY <1>2 DEF watch_check_finished, TypeOK, Jobs, mainVars, sharedVars, childVars
  <1>3. CASE watch_lookup
    <2>1. CASE UNCHANGED <<watch_pc, reaped, Registry>> /\ aborted' = TRUE
      BY <1>3, <2>1 DEF watch_lookup, TypeOK, Jobs, Registry, mainVars, childVars
    <2>2. ASSUME NEW i \in Matching(reaped.pid),
                 reaped' = [reaped EXCEPT !.job = Registry[i].job,
                                          !.spawned = concurrent_children_spawned_count],
                 Registry' = SwapRemove(Registry, i), watch_pc' = "report", aborted' = aborted
          PROVE  TypeOK'
      <3>1. i \in 1 .. Len(Registry) /\ Registry \in Seq([pid : Pids, job : Jobs])
        BY DEF Matching, Registry, TypeOK
      <3>2. Registry' \in Seq([pid : Pids, job : Jobs])
        BY <2>2, <3>1, Removed
      <3>3. Registry[i].job \in Jobs
        <4>1. Registry[i] \in [pid : Pids, job : Jobs]
          BY <3>1, ElementOfSeq
        <4> QED
          BY <4>1
      <3>5. aborted' \in BOOLEAN
        BY <2>2, Zenon DEF TypeOK
      <3>4. reaped' \in [pid : Pids \cup {0}, status : {"success", "failure", "signal"},
                         job : Jobs \cup {0}, spawned : Nat]
        BY <2>2, <3>3 DEF TypeOK
      <3>6. /\ UNCHANGED <<mainVars, childVars, reports, children_waited_count>>
            /\ UNCHANGED <<concurrent_children_spawned_count, atomic_child_spawner_finished>>
        BY <1>3 DEF watch_lookup
      <3>7. concurrent_child_processes' \in Seq([pid : Pids, job : Jobs]) /\ watch_pc' = "report"
        BY <2>2, <3>2 DEF Registry
      <3> QED
        BY <3>4, <3>5, <3>6, <3>7 DEF TypeOK, Jobs, mainVars, childVars
    <2> QED
      BY <1>3, <2>1, <2>2 DEF watch_lookup, Registry
  <1>4. CASE watch_report
    <2> DEFINE report == [job |-> reaped.job, success |-> WEXITSTATUS(reaped.status) = 0,
                          waited |-> children_waited_count, spawned |-> reaped.spawned]
    <2>1. reaped.job \in Jobs /\ reaped.spawned \in Nat /\ children_waited_count \in Nat
      BY <1>4 DEF watch_report, CloneInv, ReportsAreNumbered, TypeOK
    <2>2. (WEXITSTATUS(reaped.status) = 0) \in BOOLEAN
      OBVIOUS
    <2>3. report \in [job : Jobs, success : BOOLEAN, waited : Nat, spawned : Nat]
      BY <2>1, <2>2
    <2>4. reports' = Append(reports, report)
      BY <1>4 DEF watch_report
    <2>5. reports' \in Seq([job : Jobs, success : BOOLEAN, waited : Nat, spawned : Nat])
      BY <2>3, <2>4, AppendProperties DEF TypeOK
    <2> QED
      BY <1>4, <2>5 DEF watch_report, TypeOK, Jobs, mainVars, sharedVars, childVars
  <1> QED
    BY <1>1, <1>2, <1>3, <1>4 DEF watch_workers

LEMMA TypeChild == ASSUME TypeOK, NEW pid \in Pids, Child(pid) PROVE TypeOK'
  <1>1. CASE child_writes(pid)
    <2> DEFINE j == child[pid].job
               c == [child[pid] EXCEPT !.left = @ - 1]
    <2>1. pid \in Children /\ child[pid].state = "running" /\ child[pid].left > 0
          /\ pipe[j] < PipeCapacity /\ child' = [child EXCEPT ![pid] = c]
          /\ pipe' = [pipe EXCEPT ![j] = @ + 1]
      BY <1>1 DEF child_writes, Children
    <2>2. j \in Jobs /\ child[pid].left \in 0 .. MaxStderr
          /\ child[pid] = [state |-> "running", job |-> j, left |-> child[pid].left]
      BY <2>1, ChildFields
    <2>9. child[pid].left - 1 \in 0 .. MaxStderr
      BY <2>1, <2>2, BoundsAssumption
    <2>3. c = [state |-> "running", job |-> j, left |-> child[pid].left - 1]
      BY <2>2
    <2>4. c \in ChildType
      BY <2>2, <2>3, <2>9 DEF ChildType
    <2>5. child' \in [Pids -> ChildType]
      BY <2>1, <2>4 DEF TypeOK, ChildType
    <2>6. pipe \in Seq(0 .. PipeCapacity) /\ j \in 1 .. Len(pipe)
      BY <2>2 DEF TypeOK, Jobs
    <2>7. pipe[j] + 1 \in 0 .. PipeCapacity
      BY <2>1, <2>6, BoundsAssumption
    <2>8. pipe' \in Seq(0 .. PipeCapacity) /\ Len(pipe') = Len(pipe)
      BY <2>1, <2>6, <2>7, ExceptSeq
    <2> QED
      BY <1>1, <2>5, <2>8
      DEF child_writes, TypeOK, ChildType, Jobs, mainVars, sharedVars, watchVars
  <1>2. CASE child_exits(pid)
    <2>1. PICK status \in Statuses :
            /\ child' = [child EXCEPT ![pid] =
                           [state |-> "zombie", job |-> @.job, status |-> status]]
            /\ exits' = [exits EXCEPT ![child[pid].job] = status]
      BY <1>2 DEF child_exits
    <2>2. status \in {"success", "failure", "signal"}
      BY DEF Statuses
    <2>3. pid \in Children /\ child[pid].job \in Jobs
      BY <1>2, ChildFields DEF child_exits, Children
    <2>4. [state |-> "zombie", job |-> child[pid].job, status |-> status] \in ChildType
      BY <2>2, <2>3 DEF ChildType
    <2>5. child' \in [Pids -> ChildType]
      BY <2>1, <2>4 DEF TypeOK, ChildType
    <2>6. exits \in Seq({"running", "success", "failure", "signal"})
          /\ child[pid].job \in 1 .. Len(exits)
      BY <2>3 DEF TypeOK, Jobs
    <2>7. exits' \in Seq({"running", "success", "failure", "signal"}) /\ Len(exits') = Len(exits)
      BY <2>1, <2>2, <2>6, ExceptSeq
    <2> QED
      BY <1>2, <2>5, <2>7
      DEF child_exits, TypeOK, ChildType, Jobs, mainVars, sharedVars, watchVars
  <1> QED
    BY <1>1, <1>2 DEF Child

-----------------------------------------------------------------------------
(* The registry holds the jobs that were appended and not looked up.        *)

LEMMA EntryFields ==
    ASSUME TypeOK
    PROVE  /\ Len(Registry) \in Nat /\ Len(pipe) \in Nat /\ concurrent_children_spawned_count \in Nat
           /\ \A i \in 1 .. Len(Registry) : Registry[i].pid \in Pids /\ Registry[i].job \in Jobs
  <1>1. Registry \in Seq([pid : Pids, job : Jobs]) /\ Len(pipe) \in Nat
        /\ concurrent_children_spawned_count \in Nat
    BY DEF TypeOK, Registry
  <1>2. \A i \in 1 .. Len(Registry) : Registry[i] \in [pid : Pids, job : Jobs]
    BY <1>1, ElementOfSeq
  <1>3. ASSUME NEW i \in 1 .. Len(Registry)
        PROVE  Registry[i].pid \in Pids /\ Registry[i].job \in Jobs
    <2>1. Registry[i] \in [pid : Pids, job : Jobs]
      BY <1>2
    <2> QED
      BY <2>1
  <1> QED
    BY <1>1, <1>3, LenProperties

\* The job of an entry, wherever it is looked at.
LEMMA EntriesBefore ==
    ASSUME CloneInv, NEW i \in 1 .. Len(Registry)
    PROVE  /\ Registry[i].job \in 1 .. concurrent_children_spawned_count
           /\ Registry[i].job \notin LookedUp
  BY DEF CloneInv, EntriesAreJobs

LEMMA EntriesFrame ==
    ASSUME CloneInv, UNCHANGED <<Registry, concurrent_children_spawned_count, LookedUp>>
    PROVE  EntriesAreJobs'
  BY DEF CloneInv, EntriesAreJobs

LEMMA EntriesMain == CloneInv /\ Main => EntriesAreJobs' /\ JobsAreCounted'
  <1> SUFFICES ASSUME CloneInv, Main
               PROVE  EntriesAreJobs' /\ JobsAreCounted'
    OBVIOUS
  <1> USE EntryFields DEF CloneInv
  <1>0. UNCHANGED LookedUp
    BY DEF Main, api_fetch_projects, upsert_project_fork, upsert_project_append, page_done,
           spawner_finished, main_end, watchVars, LookedUp, Reported
  <1>1. CASE upsert_project_append
    <2>1. /\ forked.job = concurrent_children_spawned_count + 1
          /\ Len(pipe) = concurrent_children_spawned_count + 1
          /\ concurrent_children_spawned_count' = concurrent_children_spawned_count + 1
          /\ main_pc' = "upsert" /\ pipe' = pipe
      BY <1>1 DEF upsert_project_append, JobsAreCounted, childVars
    <2>2. forked \in [pid : Pids, job : Jobs]
      BY <1>1 DEF upsert_project_append, TypeOK, JobsAreCounted, Jobs
    <2>3. /\ Len(Registry') = Len(Registry) + 1 /\ Registry'[Len(Registry) + 1] = forked
          /\ \A i \in 1 .. Len(Registry) : Registry'[i] = Registry[i]
      BY <1>1, <2>2, AppendProperties DEF upsert_project_append, TypeOK, Registry
    <2>4. \A i, j \in 1 .. Len(Registry') : Registry'[i].job = Registry'[j].job => i = j
      <3> SUFFICES ASSUME NEW i \in 1 .. Len(Registry) + 1, NEW j \in 1 .. Len(Registry) + 1,
                          Registry'[i].job = Registry'[j].job
                   PROVE  i = j
        BY <2>3
      <3>1. CASE i \in 1 .. Len(Registry) /\ j \in 1 .. Len(Registry)
        BY <2>3, <3>1 DEF EntriesAreJobs
      <3>2. CASE i = Len(Registry) + 1 /\ j \in 1 .. Len(Registry)
        BY <2>1, <2>3, <3>2, EntriesBefore
      <3>3. CASE j = Len(Registry) + 1 /\ i \in 1 .. Len(Registry)
        BY <2>1, <2>3, <3>3, EntriesBefore
      <3> QED
        BY <3>1, <3>2, <3>3
    <2>5. { Registry'[i].job : i \in 1 .. Len(Registry') }
            = { Registry[i].job : i \in 1 .. Len(Registry) } \cup {forked.job}
      <3>1. 1 .. Len(Registry') = (1 .. Len(Registry)) \cup {Len(Registry) + 1}
        BY <2>3
      <3> QED
        BY <2>3, <3>1
    <2>6. forked.job \notin LookedUp
      BY <2>1 DEF EntriesAreJobs
    <2>7. 1 .. concurrent_children_spawned_count'
            = (1 .. concurrent_children_spawned_count) \cup {forked.job}
      BY <2>1
    <2>8. { Registry'[i].job : i \in 1 .. Len(Registry') }
            = (1 .. concurrent_children_spawned_count') \ LookedUp
      BY <2>5, <2>6, <2>7 DEF EntriesAreJobs
    <2>9. LookedUp \subseteq 1 .. concurrent_children_spawned_count'
      BY <2>7 DEF EntriesAreJobs
    <2>10. EntriesAreJobs'
      BY <1>0, <2>4, <2>8, <2>9 DEF EntriesAreJobs
    <2> QED
      BY <2>1, <2>10 DEF JobsAreCounted
  <1>2. CASE upsert_project_fork
    <2>1. EntriesAreJobs'
      BY <1>0, <1>2, EntriesFrame DEF upsert_project_fork, sharedVars, Registry
    <2>2. Len(Append(pipe, 0)) = Len(pipe) + 1
      BY AppendProperties, BoundsAssumption DEF TypeOK
    <2> QED
      BY <1>2, <2>1, <2>2 DEF upsert_project_fork, JobsAreCounted, sharedVars
  <1>3. ASSUME UNCHANGED <<sharedVars, childVars>>, main_pc # "append", main_pc' # "append"
        PROVE  EntriesAreJobs' /\ JobsAreCounted'
    BY <1>0, <1>3, EntriesFrame DEF JobsAreCounted, sharedVars, childVars, Registry
  <1>4. CASE spawner_finished
    BY <1>0, <1>4, EntriesFrame DEF spawner_finished, JobsAreCounted, childVars, Registry
  <1>5. CASE api_fetch_projects \/ page_done \/ main_end
    BY <1>3, <1>5 DEF api_fetch_projects, page_done, main_end
  <1> QED
    BY <1>1, <1>2, <1>4, <1>5 DEF Main

LEMMA CountedOtherwise ==
    ASSUME CloneInv, watch_workers \/ \E pid \in Pids : Child(pid)
    PROVE  JobsAreCounted'
  <1>1. UNCHANGED <<main_pc, forked, concurrent_children_spawned_count>>
    BY DEF watch_workers, watch_wait, watch_check_finished, watch_lookup, watch_report, Child,
           child_writes, child_exits, mainVars, sharedVars
  <1>2. Len(pipe') = Len(pipe)
    <2>1. CASE watch_workers
      BY <2>1 DEF watch_workers, watch_wait, watch_check_finished, watch_lookup, watch_report,
                  childVars
    <2>2. ASSUME NEW pid \in Pids, Child(pid)
          PROVE  Len(pipe') = Len(pipe)
      <3>1. CASE child_writes(pid)
        <4>1. pipe' = [pipe EXCEPT ![child[pid].job] = pipe[child[pid].job] + 1]
          BY <3>1 DEF child_writes
        <4> QED
          BY <4>1 DEF CloneInv, TypeOK
      <3>2. CASE child_exits(pid)
        BY <3>2 DEF child_exits
      <3> QED
        BY <2>2, <3>1, <3>2 DEF Child
    <2> QED
      BY <2>1, <2>2
  <1> QED
    BY <1>1, <1>2 DEF CloneInv, JobsAreCounted

LEMMA EntriesWatcher == CloneInv /\ watch_workers => EntriesAreJobs'
  <1> SUFFICES ASSUME CloneInv, watch_workers
               PROVE  EntriesAreJobs'
    OBVIOUS
  <1> USE EntryFields DEF CloneInv
  <1>1. CASE watch_wait \/ watch_check_finished
    <2>1. UNCHANGED <<Registry, concurrent_children_spawned_count, LookedUp>>
      BY <1>1 DEF watch_wait, watch_check_finished, sharedVars, LookedUp, Reported, Registry
    <2> QED
      BY <2>1, EntriesFrame
  <1>2. CASE watch_lookup
    <2>0. UNCHANGED <<concurrent_children_spawned_count, reports>> /\ watch_pc = "lookup"
      BY <1>2 DEF watch_lookup
    <2>1. CASE UNCHANGED <<watch_pc, reaped, Registry>>
      BY <2>0, <2>1, EntriesFrame DEF LookedUp, Reported
    <2>2. ASSUME NEW i \in Matching(reaped.pid),
                 reaped' = [reaped EXCEPT !.job = Registry[i].job,
                                          !.spawned = concurrent_children_spawned_count],
                 Registry' = SwapRemove(Registry, i), watch_pc' = "report"
          PROVE  EntriesAreJobs'
      <3>1. i \in 1 .. Len(Registry) /\ Registry \in Seq([pid : Pids, job : Jobs])
        BY DEF Matching, Registry, TypeOK
      <3> DEFINE old(j) == IF j = i THEN Len(Registry) ELSE j
      <3>2. /\ Len(Registry') = Len(Registry) - 1
            /\ \A j \in 1 .. Len(Registry') : Registry'[j] = Registry[old(j)]
            /\ \A j \in 1 .. Len(Registry') : old(j) \in (1 .. Len(Registry)) \ {i}
            /\ \A k \in (1 .. Len(Registry)) \ {i} : \E j \in 1 .. Len(Registry') : k = old(j)
        <4>1. Len(SwapRemove(Registry, i)) = Len(Registry) - 1
          BY <3>1, Removed
        <4>2. Len(Registry') = Len(Registry) - 1
          BY <2>2, <4>1
        <4>3. \A j \in 1 .. Len(Registry) - 1 : SwapRemove(Registry, i)[j] = Registry[old(j)]
          BY <3>1, Removed
        <4>4. \A j \in 1 .. Len(Registry) - 1 : old(j) \in (1 .. Len(Registry)) \ {i}
          BY <3>1, Removed
        <4>5. \A k \in (1 .. Len(Registry)) \ {i} : \E j \in 1 .. Len(Registry) - 1 : k = old(j)
          BY <3>1, Removed
        <4> QED
          BY <2>2, <4>2, <4>3, <4>4, <4>5
      <3>3. \A j, k \in 1 .. Len(Registry') : old(j) = old(k) => j = k
        BY <3>1, <3>2
      <3>4. reaped'.job = Registry[i].job
        BY <2>2 DEF TypeOK
      <3>5. LookedUp' = LookedUp \cup {Registry[i].job}
        BY <2>0, <2>2, <3>4 DEF LookedUp, Reported
      <3> HIDE DEF old
      <3>6. \A j, k \in 1 .. Len(Registry') : Registry'[j].job = Registry'[k].job => j = k
        BY <3>2, <3>3 DEF EntriesAreJobs
      <3>7. { Registry'[j].job : j \in 1 .. Len(Registry') }
              = { Registry[j].job : j \in (1 .. Len(Registry)) \ {i} }
        BY <3>2
      <3>8. { Registry[j].job : j \in (1 .. Len(Registry)) \ {i} }
              = { Registry[j].job : j \in 1 .. Len(Registry) } \ {Registry[i].job}
        BY <3>1 DEF EntriesAreJobs
      <3>9. Registry[i].job \in 1 .. concurrent_children_spawned_count
        BY <3>1, EntriesBefore
      <3> QED
        BY <2>0, <3>5, <3>6, <3>7, <3>8, <3>9 DEF EntriesAreJobs
    <2> QED
      BY <1>2, <2>1, <2>2 DEF watch_lookup, Registry
  <1>3. CASE watch_report
    <2> DEFINE report == [job |-> reaped.job, success |-> WEXITSTATUS(reaped.status) = 0,
                          waited |-> children_waited_count, spawned |-> reaped.spawned]
    <2>1. reports' = Append(reports, report) /\ watch_pc = "report" /\ watch_pc' = "wait"
          /\ UNCHANGED <<Registry, concurrent_children_spawned_count>>
      BY <1>3 DEF watch_report, sharedVars, Registry
    <2>2. Len(reports) \in Nat /\ Len(reports') = Len(reports) + 1
          /\ reports'[Len(reports) + 1] = report
          /\ \A k \in 1 .. Len(reports) : reports'[k] = reports[k]
      BY <2>1 DEF TypeOK
    <2>3. Reported' = Reported \cup {reaped.job}
      <3>1. 1 .. Len(reports') = (1 .. Len(reports)) \cup {Len(reports) + 1}
        BY <2>2
      <3>2. report.job = reaped.job
        OBVIOUS
      <3> HIDE DEF report
      <3> QED
        BY <2>2, <3>1, <3>2 DEF Reported
    <2>4. UNCHANGED LookedUp
      BY <2>1, <2>3 DEF LookedUp
    <2> QED
      BY <2>1, <2>4, EntriesFrame
  <1> QED
    BY <1>1, <1>2, <1>3 DEF watch_workers

LEMMA EntriesChild == CloneInv /\ (\E pid \in Pids : Child(pid)) => EntriesAreJobs'
  BY EntriesFrame DEF Child, child_writes, child_exits, sharedVars, watchVars, LookedUp, Reported, Registry

-----------------------------------------------------------------------------
(* What was recorded of an ended job stays, and what is said of it is true.  *)

LEMMA EndedStaysEnded ==
    ASSUME CloneInv, Next, NEW j \in Jobs
    PROVE  j \in Jobs' /\ (exits[j] # "running" => exits'[j] = exits[j])
  <1>1. Len(pipe) \in Nat /\ Len(exits) = Len(pipe) /\ j \in 1 .. Len(exits)
        /\ exits \in Seq({"running", "success", "failure", "signal"}) /\ pipe \in Seq(0 .. PipeCapacity)
    BY DEF CloneInv, TypeOK, Jobs
  <1>2. CASE upsert_project_fork
    <2>1. CASE UNCHANGED <<pipe, exits>>
      BY <1>1, <2>1 DEF Jobs
    <2>2. CASE pipe' = Append(pipe, 0) /\ exits' = Append(exits, "running")
      <3>1. Len(pipe') = Len(pipe) + 1
        BY <1>1, <2>2
      <3>2. exits'[j] = exits[j]
        BY <1>1, <2>2
      <3> QED
        BY <1>1, <3>1, <3>2 DEF Jobs
    <2> QED
      BY <1>2, <2>1, <2>2 DEF upsert_project_fork
  <1>3. ASSUME NEW pid \in Pids, child_writes(pid)
        PROVE  j \in Jobs' /\ exits' = exits
    <2>1. pipe' = [pipe EXCEPT ![child[pid].job] = pipe[child[pid].job] + 1] /\ exits' = exits
      BY <1>3 DEF child_writes
    <2> QED
      BY <1>1, <2>1 DEF Jobs
  <1>4. ASSUME NEW pid \in Pids, child_exits(pid)
        PROVE  j \in Jobs' /\ (exits[j] # "running" => exits'[j] = exits[j])
    <2>1. PICK status \in Statuses : exits' = [exits EXCEPT ![child[pid].job] = status]
      BY <1>4 DEF child_exits
    <2>2. pid \in Children /\ child[pid].state = "running"
      BY <1>4 DEF child_exits, Children
    <2>3. exits[child[pid].job] = "running"
      BY <2>2 DEF CloneInv, ExitsAgree
    <2>4. exits[j] # "running" => exits'[j] = exits[j]
      BY <1>1, <2>1, <2>3
    <2> QED
      BY <1>1, <1>4, <2>4 DEF child_exits, Jobs
  <1>5. ASSUME UNCHANGED <<pipe, exits>>
        PROVE  j \in Jobs' /\ exits' = exits
    BY <1>5 DEF Jobs
  <1> QED
    BY <1>2, <1>3, <1>4, <1>5
    DEF Next, Main, api_fetch_projects, upsert_project_append, page_done, spawner_finished, main_end,
        watch_workers, watch_wait, watch_check_finished, watch_lookup, watch_report, Child, childVars

\* A sequence without repetition has as many values as places.
LEMMA ValuesOfDistinct ==
    ASSUME NEW n \in Nat, NEW s, \A i, j \in 1 .. n : s[i].job = s[j].job => i = j
    PROVE  LET S == { s[i].job : i \in 1 .. n }
           IN  IsFiniteSet(S) /\ Cardinality(S) = n
  <1> DEFINE S == { s[i].job : i \in 1 .. n }
             f == [i \in 1 .. n |-> s[i].job]
  <1>1. f \in [1 .. n -> S] /\ \A i \in 1 .. n : f[i] = s[i].job
    OBVIOUS
  <1>2. \A i, j \in 1 .. n : f[i] = f[j] => i = j
    BY <1>1
  <1>3. \A x \in S : \E i \in 1 .. n : f[i] = x
    BY <1>1
  <1> HIDE DEF S, f
  <1>4. f \in Bijection(1 .. n, S)
    BY <1>1, <1>2, <1>3 DEF Bijection, Injection, Surjection, IsInjective
  <1>5. ExistsBijection(1 .. n, S)
    BY <1>4 DEF ExistsBijection
  <1>6. Cardinality(S) = n /\ IsFiniteSet(S)
    BY <1>5, FS_CountingElements, FS_NatBijection
  <1> QED
    BY <1>6 DEF S

\* The jobs reported are as many as the reports, and some that were spawned.
LEMMA ReportedSize ==
    ASSUME CloneInv
    PROVE  Len(reports) \in Nat /\ IsFiniteSet(Reported) /\ Cardinality(Reported) = Len(reports)
  <1>1. Len(reports) \in Nat
    BY DEF CloneInv, TypeOK
  <1>2. \A i, j \in 1 .. Len(reports) : reports[i].job = reports[j].job => i = j
    BY DEF CloneInv, ReportsAreNumbered
  <1>3. LET S == { reports[i].job : i \in 1 .. Len(reports) }
        IN  IsFiniteSet(S) /\ Cardinality(S) = Len(reports)
    BY ONLY <1>1, <1>2, ValuesOfDistinct
  <1> QED
    BY <1>1, <1>3 DEF Reported

LEMMA NotAhead ==
    ASSUME CloneInv, NEW j \in 1 .. concurrent_children_spawned_count, j \notin Reported,
           Reported \subseteq 1 .. concurrent_children_spawned_count
    PROVE  Len(reports) + 1 <= concurrent_children_spawned_count
  <1>1. concurrent_children_spawned_count \in Nat
    BY DEF CloneInv, TypeOK
  <1>2. Cardinality(Reported \cup {j}) = Len(reports) + 1
    BY ReportedSize, FS_AddElement
  <1>3. /\ IsFiniteSet(1 .. concurrent_children_spawned_count)
        /\ Cardinality(1 .. concurrent_children_spawned_count) = concurrent_children_spawned_count
    BY <1>1, FS_Interval
  <1>4. Cardinality(Reported \cup {j}) <= Cardinality(1 .. concurrent_children_spawned_count)
    BY <1>3, FS_Subset
  <1> QED
    BY <1>2, <1>3, <1>4

\* A step that reports nothing leaves what was reported.
LEMMA ReportsFrame ==
    ASSUME CloneInv, Next, UNCHANGED reports
    PROVE  OutcomesAreReported'
  <1> SUFFICES ASSUME NEW i \in 1 .. Len(reports)
               PROVE  exits'[reports[i].job] \in
                        IF reports[i].success THEN {"success", "signal"} ELSE {"failure"}
    BY DEF OutcomesAreReported
  <1>1. reports[i] \in [job : Jobs, success : BOOLEAN, waited : Nat, spawned : Nat]
    BY ElementOfSeq DEF CloneInv, TypeOK
  <1>2. reports[i].job \in Jobs
    BY <1>1
  <1>3. exits[reports[i].job] \in IF reports[i].success THEN {"success", "signal"} ELSE {"failure"}
    BY DEF CloneInv, OutcomesAreReported
  <1>4. exits[reports[i].job] # "running"
    BY <1>3
  <1> QED
    BY <1>2, <1>3, <1>4, EndedStaysEnded

LEMMA ReportsOtherwise ==
    ASSUME CloneInv, Next, UNCHANGED watchVars
    PROVE  ReportsAreNumbered' /\ OutcomesAreReported'
  <1>1. watch_pc = "report" => reaped.job \in Jobs /\ exits[reaped.job] # "running"
    BY DEF CloneInv, ReportsAreNumbered, TypeOK
  <1>2. watch_pc = "report" => reaped.job \in Jobs' /\ exits'[reaped.job] = reaped.status
    BY <1>1, EndedStaysEnded DEF CloneInv, ReportsAreNumbered
  <1> QED
    BY <1>2, ReportsFrame DEF CloneInv, ReportsAreNumbered, Reported, watchVars

LEMMA ReportsWatcher ==
    ASSUME CloneInv, watch_workers
    PROVE  ReportsAreNumbered' /\ OutcomesAreReported'
  <1> USE ReportedSize DEF CloneInv
  <1>0. Next
    BY DEF Next
  <1>1. CASE watch_wait \/ watch_check_finished
    <2>1. UNCHANGED reports /\ watch_pc' # "report"
          /\ children_waited_count' = Len(reports) + (IF watch_pc' = "lookup" THEN 1 ELSE 0)
      BY <1>1 DEF watch_wait, watch_check_finished, ReportsAreNumbered
    <2> QED
      BY <1>0, <2>1, ReportsFrame DEF ReportsAreNumbered
  <1>2. CASE watch_lookup
    <2>0. UNCHANGED <<reports, children_waited_count, childVars>> /\ watch_pc = "lookup"
      BY <1>2 DEF watch_lookup
    <2>1. CASE UNCHANGED watch_pc
      BY <1>0, <2>0, <2>1, ReportsFrame DEF ReportsAreNumbered
    <2>2. ASSUME NEW i \in Matching(reaped.pid), FoundAt(i, reaped.pid),
                 reaped' = [reaped EXCEPT !.job = Registry[i].job,
                                          !.spawned = concurrent_children_spawned_count],
                 watch_pc' = "report"
          PROVE  ReportsAreNumbered' /\ OutcomesAreReported'
      <3>1. i \in 1 .. Len(Registry)
        BY DEF Matching, Registry
      <3>2. /\ reaped'.job = Registry[i].job /\ reaped'.status = reaped.status
            /\ reaped'.spawned = concurrent_children_spawned_count
        BY <2>2 DEF TypeOK
      <3>3. Awaited(Registry[i])
        BY <2>0, <2>2 DEF LookupIsRight
      <3>4. /\ Registry[i].job \in 1 .. concurrent_children_spawned_count
            /\ Registry[i].job \notin Reported /\ Reported \subseteq 1 .. concurrent_children_spawned_count
        BY <2>0, <3>1, EntriesBefore DEF LookedUp, EntriesAreJobs
      <3>5. children_waited_count <= concurrent_children_spawned_count
        BY <2>0, <3>4, NotAhead DEF ReportsAreNumbered
      <3>6. reaped'.job \in Jobs' /\ exits'[reaped'.job] = reaped'.status
        BY <2>0, <3>2, <3>3 DEF Awaited, Jobs, childVars
      <3>7. UNCHANGED Reported
        BY <2>0 DEF Reported
      <3>8. ReportsAreNumbered'
        BY <2>0, <2>2, <3>2, <3>4, <3>5, <3>6, <3>7 DEF ReportsAreNumbered
      <3> QED
        BY <1>0, <2>0, <3>8, ReportsFrame
    <2> QED
      BY <1>2, <2>1, <2>2 DEF watch_lookup, Registry
  <1>3. CASE watch_report
    <2> DEFINE report == [job |-> reaped.job, success |-> WEXITSTATUS(reaped.status) = 0,
                          waited |-> children_waited_count, spawned |-> reaped.spawned]
    <2>1. reports' = Append(reports, report) /\ watch_pc = "report" /\ watch_pc' = "wait"
          /\ UNCHANGED <<children_waited_count, childVars>>
      BY <1>3 DEF watch_report
    <2>2. Len(reports) \in Nat /\ Len(reports') = Len(reports) + 1
          /\ reports'[Len(reports) + 1] = report
          /\ \A k \in 1 .. Len(reports) : reports'[k] = reports[k]
      BY <2>1 DEF TypeOK
    <2>3. children_waited_count = Len(reports) + 1 /\ reaped.job \notin Reported
          /\ children_waited_count <= reaped.spawned /\ exits[reaped.job] = reaped.status
      BY <2>1 DEF ReportsAreNumbered
    <2>4. \A k \in 1 .. Len(reports) : reports[k].job # reaped.job
      BY <2>3 DEF Reported
    <2>5. report.job = reaped.job /\ report.waited = children_waited_count
          /\ report.spawned = reaped.spawned
      OBVIOUS
    <2>6. exits[report.job] \in IF report.success THEN {"success", "signal"} ELSE {"failure"}
      <3>1. reaped.status \in {"success", "failure", "signal"}
        BY DEF TypeOK
      <3>2. report.success = (reaped.status # "failure")
        BY <3>1 DEF WEXITSTATUS
      <3> QED
        BY <2>3, <2>5, <3>1, <3>2
    <2> HIDE DEF report
    <2>7. ReportsAreNumbered'
      BY <2>1, <2>2, <2>3, <2>4, <2>5 DEF ReportsAreNumbered
    <2>8. OutcomesAreReported'
      BY <2>1, <2>2, <2>6 DEF OutcomesAreReported, childVars
    <2> QED
      BY <2>7, <2>8
  <1> QED
    BY <1>1, <1>2, <1>3 DEF watch_workers

-----------------------------------------------------------------------------
(* Entries and processes. *)

Process(p, c) == child' = [child EXCEPT ![p] = c]

\* A process that changes leaves the others as they were.
LEMMA OneChanges ==
    ASSUME TypeOK, NEW p \in Pids, NEW c, Process(p, c)
    PROVE  /\ child'[p] = c /\ \A q \in Pids \ {p} : child'[q] = child[q]
           /\ Children' = IF c = NoChild THEN Children \ {p} ELSE Children \cup {p}
  <1>1. child'[p] = c /\ \A q \in Pids \ {p} : child'[q] = child[q]
    BY DEF Process, TypeOK
  <1>2. ASSUME NEW q
        PROVE  q \in Children' <=> q \in IF c = NoChild THEN Children \ {p} ELSE Children \cup {p}
    <2>1. CASE q \in Pids /\ q # p
      BY <1>1, <2>1 DEF Children
    <2>2. CASE q = p
      BY <1>1, <2>2 DEF Children
    <2>3. CASE q \notin Pids
      BY <2>3 DEF Children
    <2> QED
      BY <2>1, <2>2, <2>3
  <1> QED
    BY <1>1, <1>2

\* An entry, or the fork about to become one, is the only one of its job.
LEMMA OneChildPerJob ==
    ASSUME CloneInv, NEW p \in Children, NEW q \in Children, child[p].job = child[q].job
    PROVE  p = q
  <1> USE EntryFields DEF CloneInv
  <1>1. \A i \in 1 .. Len(Registry) : Registry[i].job \in 1 .. concurrent_children_spawned_count
    BY EntriesBefore
  <1>2. main_pc = "append" => forked.job = concurrent_children_spawned_count + 1
    BY DEF JobsAreCounted
  <1>3. CASE \E i \in 1 .. Len(Registry) : Registry[i].pid = p /\ Registry[i].job = child[p].job
    BY <1>1, <1>2, <1>3 DEF ChildrenAreEntries, EntriesAreJobs
  <1>4. CASE main_pc = "append" /\ forked.pid = p /\ forked.job = child[p].job
    BY <1>1, <1>2, <1>4 DEF ChildrenAreEntries
  <1> QED
    BY <1>3, <1>4 DEF ChildrenAreEntries

ProcessesAgree == ExitsAgree /\ EntriesAreChildren /\ ChildrenAreEntries /\ LookupIsRight

\* A step of a child keeps its job, and what is known of those that ended.
LEMMA ProcessesChild ==
    ASSUME CloneInv, NEW pid \in Pids, Child(pid)
    PROVE  ProcessesAgree'
  <1> USE DEF CloneInv
  <1>1. pid \in Children /\ child[pid].state = "running" /\ child[pid].job \in Jobs
    BY ChildFields DEF Child, child_writes, child_exits, Children
  <1>2. exits \in Seq({"running", "success", "failure", "signal"}) /\ Jobs = 1 .. Len(exits)
    BY DEF TypeOK, Jobs
  <1>3. PICK c : /\ Process(pid, c) /\ c # NoChild /\ c.job = child[pid].job
                 /\ exits'[child[pid].job] = IF c.state = "zombie" THEN c.status ELSE "running"
                 /\ \A j \in Jobs : j # child[pid].job => exits'[j] = exits[j]
    <2>1. CASE child_writes(pid)
      <3> DEFINE c == [child[pid] EXCEPT !.left = @ - 1]
      <3>1. Process(pid, c) /\ exits' = exits
        BY <2>1 DEF child_writes, Process
      <3>5. child[pid] = [state |-> "running", job |-> child[pid].job, left |-> child[pid].left]
        BY <1>1, ChildFields
      <3>2. c = [state |-> "running", job |-> child[pid].job, left |-> child[pid].left - 1]
        BY <3>5
      <3>3. c.state = "running" /\ c # NoChild /\ c.job = child[pid].job
        BY <3>2 DEF NoChild
      <3>4. exits[child[pid].job] = "running"
        BY <1>1 DEF ExitsAgree
      <3> HIDE DEF c
      <3> QED
        BY <3>1, <3>3, <3>4
    <2>2. CASE child_exits(pid)
      <3>1. PICK status \in Statuses :
              /\ Process(pid, [state |-> "zombie", job |-> child[pid].job, status |-> status])
              /\ exits' = [exits EXCEPT ![child[pid].job] = status]
        BY <2>2 DEF child_exits, Process
      <3> DEFINE c == [state |-> "zombie", job |-> child[pid].job, status |-> status]
      <3>2. c.state = "zombie" /\ c.status = status /\ c.job = child[pid].job /\ c # NoChild
        BY DEF NoChild
      <3>3. \A j \in Jobs : exits'[j] = IF j = child[pid].job THEN status ELSE exits[j]
        BY <1>2, <3>1
      <3> QED
        BY <1>1, <3>1, <3>2, <3>3
    <2> QED
      BY <2>1, <2>2 DEF Child
  <1>4. child'[pid] = c /\ (\A q \in Pids \ {pid} : child'[q] = child[q]) /\ Children' = Children
    BY <1>1, <1>3, OneChanges
  <1>5. \A p \in Children : p \in Pids /\ child'[p].job = child[p].job /\ child[p].job \in Jobs
    BY <1>3, <1>4, ChildFields DEF Children
  <1>6. UNCHANGED <<mainVars, sharedVars, watchVars, Registry>>
    BY DEF Child, child_writes, child_exits, sharedVars, Registry
  <1>7. ExitsAgree'
    <2> SUFFICES ASSUME NEW p \in Children
                 PROVE  exits'[child'[p].job] =
                          IF child'[p].state = "zombie" THEN child'[p].status ELSE "running"
      BY <1>4 DEF ExitsAgree
    <2>1. CASE p = pid
      BY <1>3, <1>4, <2>1
    <2>2. CASE p # pid
      BY <1>1, <1>3, <1>4, <1>5, <2>2, OneChildPerJob DEF ExitsAgree
    <2> QED
      BY <2>1, <2>2
  <1>8. \A e : Lives(e)' <=> Lives(e)
    BY <1>4, <1>5 DEF Lives
  <1>9. \A e : Awaited(e) => Awaited(e)'
    <2> SUFFICES ASSUME NEW e, Awaited(e)
                 PROVE  Awaited(e)'
      OBVIOUS
    <2>1. reaped.status # "running"
      BY DEF TypeOK
    <2>2. e.job \in Jobs' /\ exits'[e.job] = exits[e.job]
      BY <2>1, EndedStaysEnded DEF Awaited, Next
    <2> QED
      BY <1>6, <1>8, <2>2 DEF Awaited, watchVars
  <1>10. (\A p : UNCHANGED Matching(p)) /\ (\A i, p : FoundAt(i, p)' <=> FoundAt(i, p))
    BY <1>6 DEF Matching, FoundAt, sharedVars
  <1>11. EntriesAreChildren'
    BY <1>6, <1>8, <1>9, <1>10 DEF EntriesAreChildren, mainVars, watchVars
  <1>12. ChildrenAreEntries'
    BY <1>4, <1>5, <1>6 DEF ChildrenAreEntries, mainVars
  <1>13. LookupIsRight'
    BY <1>6, <1>9, <1>10 DEF LookupIsRight, mainVars, watchVars
  <1> QED
    BY <1>7, <1>11, <1>12, <1>13 DEF ProcessesAgree

LEMMA ProcessesMain == CloneInv /\ Main => ProcessesAgree'
  <1> SUFFICES ASSUME CloneInv, Main
               PROVE  ProcessesAgree'
    OBVIOUS
  <1> USE EntryFields DEF CloneInv
  <1>0. exits \in Seq({"running", "success", "failure", "signal"}) /\ Len(exits) = Len(pipe)
        /\ Jobs = 1 .. Len(pipe)
    BY DEF TypeOK, Jobs
  <1>1. CASE upsert_project_fork /\ main_pc' = "append"
    <2> DEFINE job == Len(pipe) + 1
    <2>1. PICK pid \in Pids, left \in 0 .. MaxStderr :
            /\ child[pid] = NoChild
            /\ Process(pid, [state |-> "running", job |-> job, left |-> left])
            /\ pipe' = Append(pipe, 0) /\ exits' = Append(exits, "running")
            /\ forked' = [pid |-> pid, job |-> job]
      BY <1>1 DEF upsert_project_fork, Process
    <2> DEFINE c == [state |-> "running", job |-> job, left |-> left]
    <2>2. c # NoChild /\ c.state = "running" /\ c.job = job /\ forked'.pid = pid /\ forked'.job = job
      BY <2>1 DEF NoChild
    <2>3. pid \notin Children
      BY <2>1 DEF Children
    <2>4. /\ child'[pid] = c /\ Children' = Children \cup {pid}
          /\ \A q \in Pids \ {pid} : child'[q] = child[q]
      BY <2>1, <2>2, OneChanges
    <2> HIDE DEF c
    <2>5. UNCHANGED <<sharedVars, watchVars, Registry>> /\ main_pc = "upsert"
      BY <1>1 DEF upsert_project_fork, sharedVars, Registry
    <2>6. \A j \in Jobs : j \in Jobs' /\ exits'[j] = exits[j]
      BY <1>0, <2>1 DEF Jobs
    <2>7. exits'[job] = "running" /\ job \notin Jobs
      BY <1>0, <2>1
    <2>8. \A p \in Children : p \in Pids \ {pid} /\ child[p].job \in Jobs
      BY <2>3, ChildFields
    <2>9. ExitsAgree'
      BY <2>2, <2>4, <2>6, <2>7, <2>8 DEF ExitsAgree
    <2>10. \A e : e.job \in Jobs => (Lives(e)' <=> Lives(e))
      BY <2>2, <2>3, <2>4, <2>7, <2>8 DEF Lives
    <2>11. \A e : Awaited(e) => Awaited(e)'
      BY <2>5, <2>6, <2>10 DEF Awaited, watchVars
    <2>12. (\A p : UNCHANGED Matching(p)) /\ (\A i, p : FoundAt(i, p)' <=> FoundAt(i, p))
      BY <2>5 DEF Matching, FoundAt, sharedVars
    <2>13. Lives(forked)'
      BY <2>2, <2>4 DEF Lives
    <2>14. EntriesAreChildren'
      BY <2>5, <2>10, <2>11, <2>12, <2>13 DEF EntriesAreChildren, watchVars
    <2>15. ChildrenAreEntries'
      BY <1>1, <2>2, <2>4, <2>5, <2>8 DEF ChildrenAreEntries
    <2>16. LookupIsRight'
      BY <2>5, <2>11, <2>12 DEF LookupIsRight, watchVars
    <2> QED
      BY <2>9, <2>14, <2>15, <2>16 DEF ProcessesAgree
  <1>2. CASE upsert_project_append
    <2>1. UNCHANGED <<watchVars, childVars, forked>> /\ main_pc = "append" /\ main_pc' = "upsert"
      BY <1>2 DEF upsert_project_append
    <2>2. forked \in [pid : Pids, job : Jobs]
      BY <2>1 DEF TypeOK, JobsAreCounted, Jobs
    <2>20. PICK new \in Nat : new = Len(Registry) + 1
      OBVIOUS
    <2>3. /\ Len(Registry') = new /\ Registry'[new] = forked
          /\ \A i \in 1 .. Len(Registry) : Registry'[i] = Registry[i]
      BY <1>2, <2>2, <2>20, AppendProperties DEF upsert_project_append, TypeOK, Registry
    <2>4. \A p : Matching(p)' = Matching(p) \cup (IF forked.pid = p THEN {new} ELSE {})
      BY <2>3, <2>20 DEF Matching, Registry
    <2>0. \A p : \A i \in Matching(p) : i \in 1 .. Len(Registry) /\ i < new
      BY <2>20 DEF Matching, Registry
    <2>5. \A i \in 1 .. Len(Registry) : \A p : FoundAt(i, p) => FoundAt(i, p)'
      <3> SUFFICES ASSUME NEW i \in 1 .. Len(Registry), NEW p, FoundAt(i, p)
                   PROVE  FoundAt(i, p)'
        OBVIOUS
      <3>1. i \in Matching(p)' /\ i <= new
        BY <2>4, <2>20 DEF FoundAt
      <3>2. \A j \in Matching(p)' : j \in Matching(p) \/ j = new
        BY <2>4
      <3> QED
        BY <3>1, <3>2 DEF FoundAt
    <2>6. \A p : forked.pid = p /\ Matching(p) = {} => FoundAt(new, p)'
      <3> SUFFICES ASSUME NEW p, forked.pid = p, Matching(p) = {}
                   PROVE  FoundAt(new, p)'
        OBVIOUS
      <3>1. Matching(p)' = {new}
        BY <2>4
      <3> QED
        BY <2>20, <3>1 DEF FoundAt
    <2>7. \A i, p : FoundAt(i, p)' => FoundAt(i, p) \/ (i = new /\ Matching(p) = {})
      BY <2>0, <2>4 DEF FoundAt
    <2>8. (\A e : Lives(e)' <=> Lives(e)) /\ (\A e : Awaited(e)' <=> Awaited(e))
      BY <2>1 DEF Lives, Awaited, Children, Jobs, watchVars, childVars
    <2>9. \A i \in 1 .. new : i \in 1 .. Len(Registry) \/ i = new
      BY <2>20
    <2>10. ExitsAgree'
      BY <2>1 DEF ExitsAgree, Children, childVars
    <2>11. EntriesAreChildren'
      <3>1. ASSUME NEW i \in 1 .. Len(Registry)
            PROVE  Lives(Registry[i])' \/ (Awaited(Registry[i])' /\ FoundAt(i, reaped.pid)')
        BY <2>1, <2>3, <2>5, <2>8 DEF EntriesAreChildren, watchVars
      <3>2. Lives(Registry[new])' \/ (Awaited(Registry[new])' /\ FoundAt(new, reaped.pid)')
        BY <2>1, <2>3, <2>6, <2>8 DEF EntriesAreChildren, Awaited, watchVars
      <3> QED
        BY <2>1, <2>3, <2>9, <3>1, <3>2 DEF EntriesAreChildren
    <2>12. ChildrenAreEntries'
      <3>1. Children' = Children /\ child' = child
        BY <2>1 DEF Children, childVars
      <3>2. new \in 1 .. Len(Registry') /\ \A i \in 1 .. Len(Registry) : i \in 1 .. Len(Registry')
        BY <2>3, <2>20
      <3> QED
        BY <2>3, <3>1, <3>2 DEF ChildrenAreEntries
    <2>13. LookupIsRight'
      <3> SUFFICES ASSUME watch_pc = "lookup"
                   PROVE  /\ \A i \in Matching(reaped.pid)' :
                               FoundAt(i, reaped.pid)' => Awaited(Registry[i])'
                          /\ Matching(reaped.pid)' # {}
        BY <2>1 DEF LookupIsRight, watchVars
      <3>1. Matching(reaped.pid) = {} => Awaited(forked)
        BY DEF LookupIsRight
      <3>2. \A i \in 1 .. Len(Registry) : FoundAt(i, reaped.pid) => Awaited(Registry[i])
        BY DEF LookupIsRight, FoundAt
      <3>3. reaped' = reaped
        BY <2>1 DEF watchVars
      <3>4. Matching(reaped.pid)' # {}
        BY <2>4, <3>1, <3>3 DEF Awaited
      <3>5. ASSUME NEW i \in Matching(reaped.pid)', FoundAt(i, reaped.pid)'
            PROVE  Awaited(Registry[i])'
        <4>1. CASE FoundAt(i, reaped.pid)
          <5>1. i \in 1 .. Len(Registry)
            BY <4>1 DEF FoundAt, Matching, Registry
          <5> QED
            BY <2>3, <2>8, <3>2, <4>1, <5>1
        <4>2. CASE i = new /\ Matching(reaped.pid) = {}
          BY <2>3, <2>8, <3>1, <4>2
        <4> QED
          BY <2>7, <3>3, <3>5, <4>1, <4>2
      <3> QED
        BY <3>4, <3>5
    <2> QED
      BY <2>10, <2>11, <2>12, <2>13 DEF ProcessesAgree
  <1>3. ASSUME UNCHANGED <<Registry, watchVars, childVars>>, main_pc # "append", main_pc' # "append"
        PROVE  ProcessesAgree'
    <2>1. (\A e : Lives(e)' <=> Lives(e)) /\ (\A e : Awaited(e)' <=> Awaited(e))
      BY <1>3 DEF Lives, Awaited, Children, Jobs, watchVars, childVars
    <2>2. (\A p : UNCHANGED Matching(p)) /\ (\A i, p : FoundAt(i, p)' <=> FoundAt(i, p))
      BY <1>3 DEF Matching, FoundAt, Registry
    <2>3. ExitsAgree' /\ ChildrenAreEntries'
      BY <1>3 DEF ExitsAgree, ChildrenAreEntries, Children, childVars
    <2>4. EntriesAreChildren' /\ LookupIsRight'
      BY <1>3, <2>1, <2>2 DEF EntriesAreChildren, LookupIsRight, watchVars
    <2> QED
      BY <2>3, <2>4 DEF ProcessesAgree
  <1>4. CASE upsert_project_fork /\ main_pc' # "append"
    BY <1>3, <1>4 DEF upsert_project_fork, childVars, sharedVars, Registry
  <1>5. CASE api_fetch_projects \/ page_done \/ spawner_finished \/ main_end
    BY <1>3, <1>5
    DEF api_fetch_projects, page_done, spawner_finished, main_end, sharedVars, Registry
  <1> QED
    BY <1>1, <1>2, <1>4, <1>5 DEF Main

LEMMA ProcessesWatcher == CloneInv /\ watch_workers => ProcessesAgree'
  <1> SUFFICES ASSUME CloneInv, watch_workers
               PROVE  ProcessesAgree'
    OBVIOUS
  <1> USE EntryFields DEF CloneInv
  <1>1. CASE watch_wait /\ watch_pc' = "lookup"
    <2>1. PICK pid \in Children :
            /\ child[pid].state = "zombie" /\ Process(pid, NoChild)
            /\ reaped' = [pid |-> pid, status |-> child[pid].status, job |-> 0, spawned |-> 0]
      BY <1>1 DEF watch_wait, Process
    <2>2. UNCHANGED <<main_pc, forked, Registry, exits, pipe>> /\ watch_pc = "wait"
      BY <1>1 DEF watch_wait, mainVars, sharedVars, Registry
    <2>3. /\ Children' = Children \ {pid} /\ pid \in Pids
          /\ \A p \in Pids \ {pid} : child'[p] = child[p]
      BY <2>1, OneChanges DEF Children
    <2>4. /\ reaped'.pid = pid /\ reaped'.status = exits[child[pid].job]
          /\ child[pid].job \in Jobs /\ Jobs' = Jobs
      BY <2>1, <2>2, ChildFields DEF ExitsAgree, Jobs
    <2>5. \A i \in 1 .. Len(Registry) : Lives(Registry[i])
      BY <2>2 DEF EntriesAreChildren, Awaited
    <2>6. main_pc = "append" => Lives(forked)
      BY <2>2 DEF EntriesAreChildren, Awaited
    <2>7. \A e : Lives(e) /\ e.pid # pid => Lives(e)'
      BY <2>3 DEF Lives, Children
    <2>8. \A e : Lives(e) /\ e.pid = pid => Awaited(e)'
      BY <1>1, <2>2, <2>3, <2>4 DEF Lives, Awaited
    <2>9. \A p : UNCHANGED Matching(p)
      BY <2>2 DEF Matching, Registry
    <2>10. \A i, j \in Matching(pid) : i = j
      BY <2>5 DEF Matching, Registry, Lives, EntriesAreJobs
    <2>11. \A i \in Matching(pid) : FoundAt(i, pid)'
      <3>1. \A i \in Matching(pid) : i <= i
        BY DEF Matching, Registry
      <3> QED
        BY <2>9, <2>10, <3>1 DEF FoundAt
    <2>12. main_pc = "append" /\ forked.pid = pid => Matching(pid) = {}
      <3>1. SUFFICES ASSUME main_pc = "append", forked.pid = pid, NEW i \in Matching(pid)
                     PROVE  FALSE
        OBVIOUS
      <3>2. i \in 1 .. Len(Registry) /\ Registry[i].pid = pid
        BY DEF Matching, Registry
      <3>3. Registry[i].job = forked.job
        BY <2>5, <2>6, <3>1, <3>2 DEF Lives
      <3> QED
        BY <3>1, <3>2, <3>3, EntriesBefore DEF JobsAreCounted
    <2>13. ExitsAgree'
      BY <2>2, <2>3 DEF ExitsAgree, Children
    <2>14. EntriesAreChildren'
      <3>1. ASSUME NEW i \in 1 .. Len(Registry)
            PROVE  Lives(Registry[i])' \/ (Awaited(Registry[i])' /\ FoundAt(i, reaped.pid)')
        <4>1. CASE Registry[i].pid = pid
          <5>1. i \in Matching(pid)
            BY <4>1 DEF Matching, Registry
          <5> QED
            BY <2>2, <2>4, <2>5, <2>8, <2>11, <4>1, <5>1
        <4>2. CASE Registry[i].pid # pid
          BY <2>2, <2>5, <2>7, <4>2
        <4> QED
          BY <4>1, <4>2
      <3>2. main_pc = "append" =>
              Lives(forked)' \/ (Awaited(forked)' /\ Matching(reaped.pid)' = {})
        BY <2>2, <2>4, <2>6, <2>7, <2>8, <2>9, <2>12
      <3> QED
        BY <2>2, <3>1, <3>2 DEF EntriesAreChildren
    <2>15. ChildrenAreEntries'
      BY <2>2, <2>3 DEF ChildrenAreEntries, Children
    <2>16. LookupIsRight'
      <3>1. \A i \in Matching(pid) : Awaited(Registry[i])'
        BY <2>2, <2>5, <2>8 DEF Matching, Registry
      <3>2. Matching(pid) # {} \/ (main_pc = "append" /\ Awaited(forked)')
        <4>1. CASE \E i \in 1 .. Len(Registry) : Registry[i].pid = pid
          BY <4>1 DEF Matching, Registry
        <4>2. CASE main_pc = "append" /\ forked.pid = pid
          BY <2>2, <2>6, <2>8, <4>2
        <4> QED
          BY <4>1, <4>2 DEF ChildrenAreEntries
      <3> QED
        BY <2>2, <2>4, <2>9, <3>1, <3>2 DEF LookupIsRight
    <2> QED
      BY <2>13, <2>14, <2>15, <2>16 DEF ProcessesAgree
  <1>2. CASE watch_lookup /\ watch_pc' = "report"
    <2>0. UNCHANGED <<main_pc, forked, childVars>> /\ watch_pc = "lookup"
      BY <1>2 DEF watch_lookup, mainVars
    <2>1. PICK i \in Matching(reaped.pid) :
            FoundAt(i, reaped.pid) /\ Registry' = SwapRemove(Registry, i)
      BY <1>2, <2>0 DEF watch_lookup, Registry
    <2>2. i \in 1 .. Len(Registry) /\ Registry \in Seq([pid : Pids, job : Jobs])
      BY DEF Matching, Registry, TypeOK
    <2>3. /\ Len(Registry') = Len(Registry) - 1
          /\ \A j \in 1 .. Len(Registry') :
               \E k \in (1 .. Len(Registry)) \ {i} : Registry'[j] = Registry[k]
          /\ \A k \in (1 .. Len(Registry)) \ {i} :
               \E j \in 1 .. Len(Registry') : Registry'[j] = Registry[k]
      <3>1. Len(Registry') = Len(Registry) - 1
        BY <2>1, <2>2, Removed
      <3>2. \A j \in 1 .. Len(Registry) - 1 :
              \E k \in (1 .. Len(Registry)) \ {i} : SwapRemove(Registry, i)[j] = Registry[k]
        <4>1. \A j \in 1 .. Len(Registry) - 1 :
                SwapRemove(Registry, i)[j] = Registry[IF j = i THEN Len(Registry) ELSE j]
          BY <2>2, Removed
        <4>2. \A j \in 1 .. Len(Registry) - 1 :
                (IF j = i THEN Len(Registry) ELSE j) \in (1 .. Len(Registry)) \ {i}
          BY <2>2, Removed
        <4> QED
          BY <4>1, <4>2
      <3>3. \A k \in (1 .. Len(Registry)) \ {i} :
              \E j \in 1 .. Len(Registry) - 1 : SwapRemove(Registry, i)[j] = Registry[k]
        <4>1. \A j \in 1 .. Len(Registry) - 1 :
                SwapRemove(Registry, i)[j] = Registry[IF j = i THEN Len(Registry) ELSE j]
          BY <2>2, Removed
        <4>2. \A k \in (1 .. Len(Registry)) \ {i} :
                \E j \in 1 .. Len(Registry) - 1 : k = IF j = i THEN Len(Registry) ELSE j
          BY <2>2, Removed
        <4> QED
          BY <4>1, <4>2
      <3> QED
        BY <2>1, <3>1, <3>2, <3>3
    <2>4. Awaited(Registry[i])
      BY <2>0, <2>1 DEF LookupIsRight
    <2>5. \A k \in (1 .. Len(Registry)) \ {i} : Lives(Registry[k])
      <3> SUFFICES ASSUME NEW k \in (1 .. Len(Registry)) \ {i}, FoundAt(k, reaped.pid)
                   PROVE  FALSE
        BY DEF EntriesAreChildren
      <3> QED
        BY <2>1, <2>2 DEF FoundAt
    <2>6. main_pc = "append" => Lives(forked)
      BY <2>1 DEF EntriesAreChildren
    <2>7. \A e : Lives(e)' <=> Lives(e)
      BY <2>0 DEF Lives, Children, childVars
    <2>8. ExitsAgree'
      BY <2>0 DEF ExitsAgree, Children, childVars
    <2>9. EntriesAreChildren'
      <3>1. ASSUME NEW j \in 1 .. Len(Registry')
            PROVE  Lives(Registry[j])'
        BY <2>3, <2>5, <2>7, <3>1
      <3> QED
        BY <2>0, <2>6, <2>7, <3>1 DEF EntriesAreChildren
    <2>10. ChildrenAreEntries'
      <3>1. UNCHANGED <<child, Children>>
        BY <2>0 DEF Children, childVars
      <3>2. \A p \in Children : ~(Registry[i].pid = p /\ Registry[i].job = child[p].job)
        BY <2>4 DEF Awaited, Lives
      <3> SUFFICES ASSUME NEW p \in Children
                   PROVE  \/ \E j \in 1 .. Len(Registry') :
                               Registry'[j].pid = p /\ Registry'[j].job = child[p].job
                          \/ main_pc = "append" /\ forked.pid = p /\ forked.job = child[p].job
        BY <2>0, <3>1 DEF ChildrenAreEntries
      <3> QED
        <4>1. CASE main_pc = "append" /\ forked.pid = p /\ forked.job = child[p].job
          BY <4>1
        <4>2. ASSUME NEW k \in 1 .. Len(Registry), Registry[k].pid = p,
                     Registry[k].job = child[p].job
              PROVE  \E j \in 1 .. Len(Registry') :
                       Registry'[j].pid = p /\ Registry'[j].job = child[p].job
          <5>1. k \in (1 .. Len(Registry)) \ {i}
            BY <3>2, <4>2
          <5>2. PICK j \in 1 .. Len(Registry') : Registry'[j] = Registry[k]
            BY <2>3, <5>1
          <5> QED
            BY <4>2, <5>2
        <4> QED
          BY <4>1, <4>2 DEF ChildrenAreEntries
    <2>11. LookupIsRight'
      BY <1>2 DEF LookupIsRight
    <2> QED
      BY <2>8, <2>9, <2>10, <2>11 DEF ProcessesAgree
  <1>3. ASSUME UNCHANGED <<main_pc, forked, Registry, childVars, watch_pc, reaped>>
        PROVE  ProcessesAgree'
    BY <1>3 DEF ProcessesAgree, ExitsAgree, EntriesAreChildren, ChildrenAreEntries, LookupIsRight,
                Lives, Awaited, FoundAt, Matching, Children, Jobs, Registry, childVars
  <1>4. ASSUME UNCHANGED <<main_pc, forked, Registry, childVars>>,
               watch_pc # "lookup", watch_pc' # "lookup"
        PROVE  ProcessesAgree'
    BY <1>4 DEF ProcessesAgree, ExitsAgree, EntriesAreChildren, ChildrenAreEntries, LookupIsRight,
                Lives, Awaited, Children, Registry, childVars
  <1>5. CASE watch_wait /\ watch_pc' # "lookup"
    BY <1>4, <1>5 DEF watch_wait, mainVars, sharedVars, childVars, Registry
  <1>6. CASE watch_lookup /\ watch_pc' # "report"
    BY <1>3, <1>6 DEF watch_lookup, mainVars, childVars, Registry
  <1>7. CASE watch_check_finished
    BY <1>4, <1>7 DEF watch_check_finished, mainVars, sharedVars, Registry
  <1>8. CASE watch_report
    BY <1>4, <1>8 DEF watch_report, mainVars, sharedVars, Registry
  <1> QED
    BY <1>1, <1>2, <1>5, <1>6, <1>7, <1>8 DEF watch_workers

-----------------------------------------------------------------------------
(* No project is left out.                                                  *)

LEMMA SkippedMain == CloneInv /\ Main => NoneIsSkipped'
  <1> SUFFICES ASSUME TypeOK, NoneIsSkipped, Main
               PROVE  NoneIsSkipped'
    BY DEF CloneInv
  <1>0. /\ page \in 1 .. Len(Pages) /\ Len(Pages) \in Nat /\ todo \in Seq(Projects)
        /\ \A q \in Projects : q = <<q[1], q[2]>> /\ q[1] \in 1 .. Len(Pages)
                               /\ q[2] \in 1 .. Pages[q[1]]
    <2>1. page \in 1 .. Len(Pages) /\ Len(Pages) \in Nat /\ todo \in Seq(Projects)
      BY PagesAssumption DEF TypeOK
    <2>2. ASSUME NEW q \in Projects
          PROVE  q = <<q[1], q[2]>> /\ q[1] \in 1 .. Len(Pages) /\ q[2] \in 1 .. Pages[q[1]]
      <3>1. PICK n \in 1 .. Len(Pages) : q \in {<<n, k>> : k \in 1 .. Pages[n]}
        BY DEF Projects
      <3>2. PICK k \in 1 .. Pages[n] : q = <<n, k>>
        BY <3>1
      <3> QED
        BY <3>2
    <2> QED
      BY <2>1, <2>2
  <1>1. CASE api_fetch_projects
    <2>1. main_pc = "fetch" /\ todo = <<>> /\ ~finished /\ UNCHANGED tried
          /\ main_pc' \in {"upsert", "signal"}
      BY <1>1 DEF api_fetch_projects, NoneIsSkipped
    <2>2. CASE main_pc' = "signal" /\ res' = "failed"
      BY <2>2 DEF NoneIsSkipped
    <2>3. CASE /\ main_pc' = "upsert" /\ todo' = Listed(page)
               /\ listed' = listed \cup {page} /\ UNCHANGED <<res, empty>>
      <3>1. ASSUME res = "ok", NEW n \in 1 .. Len(Pages), finished' \/ n < page'
            PROVE  n \in listed' \cup empty'
        <4>1. n <= page
          BY <1>0, <1>1, <3>1 DEF api_fetch_projects, on_header, NoneIsSkipped
        <4> QED
          BY <1>0, <2>1, <2>3, <3>1, <4>1 DEF NoneIsSkipped
      <3>2. ASSUME res = "ok", NEW q \in Projects, q[1] \in listed'
            PROVE  q \in tried' \/ \E k \in 1 .. Len(todo') : todo'[k] = q
        <4>1. CASE q[1] \in listed
          BY <2>1, <3>2, <4>1 DEF NoneIsSkipped
        <4>2. CASE q[1] = page
          <5>1. q[2] \in 1 .. Len(Listed(page)) /\ Listed(page)[q[2]] = q
            BY <1>0, <4>2, ListedType
          <5> QED
            BY <2>3, <5>1
        <4> QED
          BY <2>3, <3>2, <4>1, <4>2
      <3> QED
        BY <2>3, <3>1, <3>2 DEF NoneIsSkipped
    <2>4. CASE /\ main_pc' = "upsert" /\ todo' = <<>>
               /\ empty' = empty \cup {page} /\ UNCHANGED <<res, listed>>
      <3>1. ASSUME res = "ok", NEW n \in 1 .. Len(Pages), finished' \/ n < page'
            PROVE  n \in listed' \cup empty'
        <4>1. n <= page
          BY <1>0, <1>1, <3>1 DEF api_fetch_projects, on_header, NoneIsSkipped
        <4> QED
          BY <1>0, <2>1, <2>4, <3>1, <4>1 DEF NoneIsSkipped
      <3>2. ASSUME res = "ok", NEW q \in Projects, q[1] \in listed'
            PROVE  q \in tried'
        BY <2>1, <2>4, <3>2 DEF NoneIsSkipped
      <3> QED
        BY <2>4, <3>1, <3>2 DEF NoneIsSkipped
    <2> QED
      BY <1>1, <2>2, <2>3, <2>4 DEF api_fetch_projects
  <1>2. CASE upsert_project_fork
    <2>1. UNCHANGED <<page, finished, todo, listed, empty>> /\ main_pc = "upsert" /\ todo # <<>>
      BY <1>2 DEF upsert_project_fork
    <2>2. CASE main_pc' = "append" /\ tried' = tried \cup {Head(todo)} /\ UNCHANGED res
      BY <2>1, <2>2 DEF NoneIsSkipped
    <2>3. CASE main_pc' = "signal" /\ res' = "failed"
      BY <2>3 DEF NoneIsSkipped
    <2> QED
      BY <1>2, <2>2, <2>3 DEF upsert_project_fork
  <1>3. CASE upsert_project_append
    <2>1. /\ UNCHANGED <<page, finished, res, tried, listed, empty>> /\ main_pc' = "upsert"
          /\ todo' = Tail(todo) /\ todo # <<>> /\ Head(todo) \in tried
      BY <1>3 DEF upsert_project_append, NoneIsSkipped
    <2>2. /\ Len(todo) \in Nat /\ Len(todo') = Len(todo) - 1
          /\ \A k \in 1 .. Len(todo') : todo'[k] = todo[k + 1]
          /\ todo[1] = Head(todo)
      BY <1>0, <2>1, HeadTailProperties
    <2>3. ASSUME NEW k \in 1 .. Len(todo)
          PROVE  todo[k] \in tried \/ \E m \in 1 .. Len(todo') : todo'[m] = todo[k]
      <3>1. CASE k = 1
        BY <2>1, <2>2, <3>1
      <3>2. CASE k # 1
        <4>1. k - 1 \in 1 .. Len(todo') /\ todo'[k - 1] = todo[(k - 1) + 1]
          BY <2>2, <3>2
        <4> QED
          BY <4>1
      <3> QED
        BY <3>1, <3>2
    <2>4. ASSUME res = "ok", NEW q \in Projects, q[1] \in listed
          PROVE  q \in tried \/ \E m \in 1 .. Len(todo') : todo'[m] = q
      BY <2>3, <2>4 DEF NoneIsSkipped
    <2> QED
      BY <2>1, <2>4 DEF NoneIsSkipped
  <1>4. CASE page_done
    BY <1>4 DEF page_done, NoneIsSkipped
  <1>5. CASE spawner_finished
    BY <1>5 DEF spawner_finished, NoneIsSkipped
  <1>6. CASE main_end
    BY <1>6 DEF main_end, NoneIsSkipped
  <1> QED
    BY <1>1, <1>2, <1>3, <1>4, <1>5, <1>6 DEF Main

LEMMA SkippedOtherwise ==
    ASSUME CloneInv, UNCHANGED mainVars
    PROVE  NoneIsSkipped'
  BY DEF CloneInv, NoneIsSkipped, mainVars

-----------------------------------------------------------------------------
(* Together.                                                                *)

LEMMA InitHolds == Init => CloneInv
  <1> SUFFICES ASSUME Init
               PROVE  CloneInv
    OBVIOUS
  <1>1. Children = {} /\ Reported = {} /\ LookedUp = {}
        /\ { Registry[i].job : i \in 1 .. Len(Registry) } = {} /\ Len(Registry) = 0
    BY DEF Init, Children, Reported, LookedUp, Registry
  <1>2. JobsAreCounted /\ EntriesAreJobs
    BY <1>1 DEF Init, JobsAreCounted, EntriesAreJobs
  <1>3. ReportsAreNumbered /\ OutcomesAreReported
    BY DEF Init, ReportsAreNumbered, OutcomesAreReported
  <1>4. ExitsAgree /\ EntriesAreChildren /\ ChildrenAreEntries /\ LookupIsRight
    BY <1>1 DEF Init, ExitsAgree, EntriesAreChildren, ChildrenAreEntries, LookupIsRight
  <1>5. NoneIsSkipped
    BY PagesAssumption DEF Init, NoneIsSkipped, Projects
  <1> QED
    BY <1>2, <1>3, <1>4, <1>5, TypeInit DEF CloneInv

LEMMA StepHolds == CloneInv /\ [Next]_vars => CloneInv'
  <1> SUFFICES ASSUME CloneInv, [Next]_vars
               PROVE  CloneInv'
    OBVIOUS
  <1>1. CASE Main
    <2>1. UNCHANGED watchVars /\ Next
      BY <1>1 DEF Next, Main, api_fetch_projects, upsert_project_fork, upsert_project_append,
                  page_done, spawner_finished, main_end
    <2> QED
      BY <1>1, <2>1, TypeMain, EntriesMain, ReportsOtherwise, ProcessesMain, SkippedMain
      DEF CloneInv, ProcessesAgree
  <1>2. CASE watch_workers
    <2>1. UNCHANGED mainVars
      BY <1>2 DEF watch_workers, watch_wait, watch_check_finished, watch_lookup, watch_report
    <2> QED
      BY <1>2, <2>1, TypeWatcher, EntriesWatcher, CountedOtherwise, ReportsWatcher,
         ProcessesWatcher, SkippedOtherwise
      DEF CloneInv, ProcessesAgree
  <1>3. ASSUME NEW pid \in Pids, Child(pid)
        PROVE  CloneInv'
    <2>1. UNCHANGED <<mainVars, watchVars>> /\ Next /\ \E p \in Pids : Child(p)
      BY <1>3 DEF Next, Child, child_writes, child_exits
    <2>2. TypeOK /\ TypeOK'
      BY <1>3, TypeChild DEF CloneInv
    <2>3. ProcessesAgree'
      BY <1>3, ProcessesChild
    <2>4. EntriesAreJobs' /\ JobsAreCounted' /\ NoneIsSkipped'
      BY <2>1, EntriesChild, CountedOtherwise, SkippedOtherwise
    <2>5. ReportsAreNumbered' /\ OutcomesAreReported'
      BY <2>1, ReportsOtherwise
    <2> QED
      BY <2>2, <2>3, <2>4, <2>5 DEF CloneInv, ProcessesAgree
  <1>4. CASE UNCHANGED vars
    <2>1. UNCHANGED <<mainVars, sharedVars, watchVars, childVars, aborted>>
      BY <1>4 DEF vars
    <2>2. UNCHANGED <<Registry, Reported, LookedUp, Children, Jobs>>
      BY <2>1 DEF Registry, Reported, LookedUp, Children, Jobs, sharedVars, watchVars, childVars
    <2>3. TypeOK'
      BY <2>1, <2>2 DEF CloneInv, TypeOK, mainVars, sharedVars, watchVars, childVars
    <2>4. JobsAreCounted' /\ EntriesAreJobs' /\ ReportsAreNumbered' /\ OutcomesAreReported'
      <3>1. JobsAreCounted'
        BY <2>1 DEF CloneInv, JobsAreCounted, mainVars, sharedVars, childVars
      <3>2. ReportsAreNumbered'
        BY <2>1, <2>2 DEF CloneInv, ReportsAreNumbered, mainVars, sharedVars, watchVars, childVars
      <3>3. OutcomesAreReported'
        BY <2>1, <2>2 DEF CloneInv, OutcomesAreReported, mainVars, sharedVars, watchVars, childVars
      <3>4. EntriesAreJobs'
        BY <2>1, <2>2 DEF CloneInv, EntriesAreJobs, sharedVars
      <3> QED
        BY <3>1, <3>2, <3>3, <3>4
    <2>5. ProcessesAgree'
      BY <2>1, <2>2 DEF CloneInv, ProcessesAgree, ExitsAgree, EntriesAreChildren,
                        ChildrenAreEntries, LookupIsRight, Lives, Awaited, FoundAt, Matching,
                        Registry, mainVars, sharedVars, watchVars, childVars
    <2> QED
      BY <2>1, <2>3, <2>4, <2>5, SkippedOtherwise DEF CloneInv, ProcessesAgree
  <1> QED
    BY <1>1, <1>2, <1>3, <1>4 DEF Next

(***************************************************************************)
(* Every variable keeps its type: no page after the last one is asked for, *)
(* and no pipe holds more than it can (main, upsert_project, the kernel).  *)
(***************************************************************************)
THEOREM TypeCorrect == Spec => []TypeOK
  <1>1. CloneInv => TypeOK
    BY DEF CloneInv
  <1> QED
    BY <1>1, InitHolds, StepHolds, PTL DEF Spec

(***************************************************************************)
(* The array of children, under the mutex of upsert_project and            *)
(* watch_workers: each job that was appended and not looked up yet, once.  *)
(***************************************************************************)
THEOREM RegistryStaysExact == Spec => []RegistryIsExact
  <1>1. CloneInv => RegistryIsExact
    <2> SUFFICES ASSUME CloneInv
                 PROVE  RegistryIsExact
      OBVIOUS
    <2>1. Len(Registry) \in Nat
      BY EntryFields DEF CloneInv
    <2>2. \A i, j \in 1 .. Len(Registry) : Registry[i].job = Registry[j].job => i = j
      BY DEF CloneInv, EntriesAreJobs
    <2>3. LET S == { Registry[i].job : i \in 1 .. Len(Registry) }
          IN  IsFiniteSet(S) /\ Cardinality(S) = Len(Registry)
      BY ONLY <2>1, <2>2, ValuesOfDistinct
    <2>4. { Registry[i].job : i \in 1 .. Len(Registry) }
            = (1 .. concurrent_children_spawned_count) \ LookedUp
      BY DEF CloneInv, EntriesAreJobs
    <2> QED
      BY <2>3, <2>4 DEF RegistryIsExact, LookedUp, Registry
  <1> QED
    BY <1>1, InitHolds, StepHolds, PTL DEF Spec

(***************************************************************************)
(* What watch_workers prints: the outcome is that of the job it names, no  *)
(* job is named twice, and the numbers add up, although pids are given     *)
(* again between wait() and the search for the entry.                      *)
(***************************************************************************)
THEOREM ReportsStayTruthful == Spec => []ReportsAreTruthful
  <1>1. CloneInv => ReportsAreTruthful
    BY ReportedSize DEF CloneInv, ReportsAreTruthful, ReportsAreNumbered, ProgressAddsUp
  <1> QED
    BY <1>1, InitHolds, StepHolds, PTL DEF Spec

(***************************************************************************)
(* main and upsert_project: when the loop over the pages ends without an   *)
(* error, git was started for each project of each page, but for the pages *)
(* that were only ever answered with an empty body.                        *)
(***************************************************************************)
THEOREM OnlyEmptyPagesAreSkipped == Spec => []SkipsOnlyEmptyPages
  <1>1. CloneInv => SkipsOnlyEmptyPages
    <2> SUFFICES ASSUME CloneInv, main_pc \in {"chdir", "join"}, res = "ok", NEW p \in Projects
                 PROVE  p \in tried \/ p[1] \in empty \ listed
      BY DEF SkipsOnlyEmptyPages
    <2>1. finished /\ Len(todo) = 0
      BY DEF CloneInv, NoneIsSkipped
    <2>2. p[1] \in 1 .. Len(Pages)
      <3>1. PICK n \in 1 .. Len(Pages) : p \in {<<n, k>> : k \in 1 .. Pages[n]}
        BY DEF Projects
      <3> QED
        BY <3>1
    <2> QED
      BY <2>1, <2>2 DEF CloneInv, NoneIsSkipped
  <1> QED
    BY <1>1, InitHolds, StepHolds, PTL DEF Spec
=============================================================================
