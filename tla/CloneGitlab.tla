----------------------------- MODULE CloneGitlab -----------------------------
(***************************************************************************)
(* clone-gitlab-api (src/clone-gitlab-api/main.c).  The main thread        *)
(* fetches the pages of the project list and forks one git process per     *)
(* project; the thread watch_workers reaps them and reports each one.      *)
(* They share concurrent_child_processes and its counter, under a mutex,   *)
(* and a flag that says that no more children will come.                   *)
(*                                                                         *)
(* A step of a thread is what no step of another thread or of a child can  *)
(* interrupt: one system call, one critical section, one atomic access.    *)
(* A job is the number of a fork: it stands for the project and its path.  *)
(* The kernel gives a pid away again as soon as it was waited for.         *)
(*                                                                         *)
(* External: the GitLab server, git, and the kernel's pids and pipes.      *)
(***************************************************************************)
EXTENDS Integers, Sequences, FiniteSets

CONSTANTS
    Pages,          \* how many projects each page lists, a sequence
    Pids,           \* the pids the kernel can give; bound: children alive at a time
    PipeCapacity,   \* what a pipe holds, in chunks
    MaxStderr,      \* bound: chunks a child writes to its stderr
    MaxMissing,     \* bound: answers without the header that names the next page
    Faults          \* which failures may happen, out of AllFaults

AllFaults ==
    { "git",        \* a child exits with a status other than 0
      "signal",     \* a child is killed by a signal
      "fork",       \* pipe or fork fails
      "http",       \* the request fails, or its answer is not the JSON expected
      "empty",      \* the answer has no JSON at all
      "no_header",  \* the answer has no x-next-page header
      "chdir"       \* the directory we came from is gone
    }

ASSUME PagesAssumption == Pages \in Seq(Nat) /\ Pages # <<>>
ASSUME BoundsAssumption == {PipeCapacity, MaxStderr, MaxMissing} \subseteq Nat
ASSUME FaultsAssumption == Faults \subseteq AllFaults

VARIABLES
    \* the main thread
    main_pc, page, finished, todo, forked, res, missing,
    \* shared between the threads
    concurrent_child_processes, concurrent_children_spawned_count,
    atomic_child_spawner_finished,
    \* watch_workers
    watch_pc, reaped, children_waited_count,
    \* an assert() has failed
    aborted,
    \* external: the processes, and what each stderr pipe holds
    child, pipe,
    \* history, read by no action
    tried,      \* the projects git was forked for
    listed,     \* the pages that were answered with their projects
    empty,      \* the pages that were answered with nothing
    exits,      \* how each job ended
    reports     \* what watch_workers printed

mainVars   == <<main_pc, page, finished, todo, forked, res, missing, tried,
                listed, empty>>
sharedVars == <<concurrent_child_processes, concurrent_children_spawned_count,
                atomic_child_spawner_finished>>
watchVars  == <<watch_pc, reaped, children_waited_count, reports>>
childVars  == <<child, pipe, exits>>
vars == <<mainVars, sharedVars, watchVars, aborted, childVars>>

NoChild == [state |-> "none"]
Jobs    == 1 .. Len(pipe)

\* The process lives until main returns or an assertion fails.
Alive == main_pc # "returned" /\ ~aborted

-----------------------------------------------------------------------------
(* The main thread. *)

\* Projects of a page, in the order of the answer.
Listed(n) == [k \in 1 .. Pages[n] |-> <<n, k>>]

\* Mutant of on_header: goes on to a page after the last one.
on_header_one_page_more ==
    /\ page' = page + 1
    /\ finished' = (page = Len(Pages))
    /\ UNCHANGED missing

\* on_header: the server names the next page, or none after the last one.
on_header ==
    \/ /\ page < Len(Pages)
       /\ page' = page + 1
       /\ UNCHANGED <<finished, missing>>
    \/ /\ page = Len(Pages)
       /\ finished' = TRUE
       /\ UNCHANGED <<page, missing>>
    \/ /\ "no_header" \in Faults /\ missing < MaxMissing
       /\ missing' = missing + 1
       /\ UNCHANGED <<page, finished>>

\* A failed request or a bad answer ends the loop in main, whatever on_header did.
\* An answer without JSON is logged as an error and counts as a success.
api_fetch_projects ==
    /\ Alive /\ main_pc = "fetch"
    /\ on_header
    /\ \/ /\ main_pc' = "upsert"
          /\ todo' = Listed(page)
          /\ listed' = listed \cup {page}
          /\ UNCHANGED <<res, empty>>
       \/ /\ "empty" \in Faults
          /\ main_pc' = "upsert"
          /\ todo' = <<>>
          /\ empty' = empty \cup {page}
          /\ UNCHANGED <<res, listed>>
       \/ /\ "http" \in Faults
          /\ main_pc' = "signal"
          /\ res' = "failed"
          /\ UNCHANGED <<todo, listed, empty>>
    /\ UNCHANGED <<forked, tried, sharedVars, watchVars, aborted, childVars>>

\* upsert_project, up to the fork.  The child knows nothing of the mutex.
upsert_project_fork ==
    /\ Alive /\ main_pc = "upsert" /\ todo # <<>>
    /\ \/ \E pid \in Pids, left \in 0 .. MaxStderr :
            /\ child[pid] = NoChild
            /\ child' = [child EXCEPT ![pid] =
                           [state |-> "running", job |-> Len(pipe) + 1, left |-> left]]
            /\ pipe' = Append(pipe, 0)
            /\ exits' = Append(exits, "running")
            /\ tried' = tried \cup {Head(todo)}
            /\ forked' = [pid |-> pid, job |-> Len(pipe) + 1]
            /\ main_pc' = "append"
            /\ UNCHANGED res
       \/ /\ "fork" \in Faults
          /\ main_pc' = "signal"
          /\ res' = "failed"
          /\ UNCHANGED <<child, pipe, exits, tried, forked>>
    /\ UNCHANGED <<page, finished, todo, missing, listed, empty, sharedVars, watchVars,
                   aborted>>

\* upsert_project in the parent: the critical section.
upsert_project_append ==
    /\ Alive /\ main_pc = "append"
    /\ concurrent_child_processes' = Append(concurrent_child_processes, forked)
    /\ concurrent_children_spawned_count' = concurrent_children_spawned_count + 1
    /\ todo' = Tail(todo)
    /\ main_pc' = "upsert"
    /\ UNCHANGED <<page, finished, forked, res, missing, tried, listed, empty,
                   atomic_child_spawner_finished, watchVars, aborted, childVars>>

\* Mutant of page_done: the loop in main stops at the first page.
page_done_first_page_only ==
    /\ Alive /\ main_pc = "upsert" /\ todo = <<>>
    /\ main_pc' = "signal"
    /\ UNCHANGED <<page, finished, todo, forked, res, missing, tried, listed, empty,
                   sharedVars, watchVars, aborted, childVars>>

page_done ==
    /\ Alive /\ main_pc = "upsert" /\ todo = <<>>
    /\ main_pc' = IF finished THEN "signal" ELSE "fetch"
    /\ UNCHANGED <<page, finished, todo, forked, res, missing, tried, listed, empty,
                   sharedVars, watchVars, aborted, childVars>>

\* Mutant of spawner_finished: the flag is never stored.
spawner_never_finished ==
    /\ Alive /\ main_pc = "signal"
    /\ main_pc' = "chdir"
    /\ UNCHANGED <<page, finished, todo, forked, res, missing, tried, listed, empty,
                   sharedVars, watchVars, aborted, childVars>>

spawner_finished ==
    /\ Alive /\ main_pc = "signal"
    /\ atomic_child_spawner_finished' = TRUE
    /\ main_pc' = "chdir"
    /\ UNCHANGED <<page, finished, todo, forked, res, missing, tried, listed, empty,
                   concurrent_child_processes, concurrent_children_spawned_count, watchVars, aborted, childVars>>

\* The end of main.  Returning early takes watch_workers down with it.
main_end ==
    /\ Alive
    /\ \/ main_pc = "chdir" /\ main_pc' = "join"
       \/ main_pc = "chdir" /\ "chdir" \in Faults /\ main_pc' = "returned"
       \/ main_pc = "join" /\ watch_pc = "done" /\ main_pc' = "returned"
    /\ UNCHANGED <<page, finished, todo, forked, res, missing, tried, listed, empty,
                   sharedVars, watchVars, aborted, childVars>>

-----------------------------------------------------------------------------
(* watch_workers. *)

Children == { pid \in Pids : child[pid] # NoChild }

\* wait(): reaps any dead child, blocks while all live, fails without children.
watch_wait ==
    /\ Alive /\ watch_pc = "wait"
    /\ \/ \E pid \in Children :
            /\ child[pid].state = "zombie"
            /\ reaped' = [pid |-> pid, status |-> child[pid].status, job |-> 0, spawned |-> 0]
            /\ child' = [child EXCEPT ![pid] = NoChild]
            /\ children_waited_count' = children_waited_count + 1
            /\ watch_pc' = "lookup"
       \/ /\ Children = {}
          /\ watch_pc' = "check"
          /\ UNCHANGED <<reaped, child, children_waited_count>>
    /\ UNCHANGED <<mainVars, sharedVars, reports, aborted, pipe, exits>>

\* After ECHILD: the flag is loaded, then sleep(1) and around again.
watch_check_finished ==
    /\ Alive /\ watch_pc = "check"
    /\ watch_pc' = IF atomic_child_spawner_finished THEN "done" ELSE "wait"
    /\ UNCHANGED <<mainVars, sharedVars, reaped, children_waited_count, reports,
                   aborted, childVars>>

Matching(pid) ==
    { i \in 1 .. Len(concurrent_child_processes) :
        concurrent_child_processes[i].pid = pid }

\* Mutant of FoundAt: the search goes from the end of the array.
FoundAt_last(i, pid) == i \in Matching(pid) /\ \A j \in Matching(pid) : j <= i

\* The loop stops at the first entry with this pid.
FoundAt(i, pid) == i \in Matching(pid) /\ \A j \in Matching(pid) : i <= j

\* Mutant of SwapRemove: the last entry is dropped, not moved.
SwapRemove_drops_last(s, i) == SubSeq(s, 1, Len(s) - 1)

\* The last entry takes the place of the removed one.
SwapRemove(s, i) ==
    LET last == Len(s)
    IN  [ j \in 1 .. last - 1 |-> IF j = i THEN s[last] ELSE s[j] ]

\* The critical section, and the assertion after it that the entry was found.
watch_lookup ==
    /\ Alive /\ watch_pc = "lookup"
    /\ \/ \E i \in Matching(reaped.pid) :
            /\ FoundAt(i, reaped.pid)
            /\ reaped' = [reaped EXCEPT !.job = concurrent_child_processes[i].job,
                                       !.spawned = concurrent_children_spawned_count]
            /\ concurrent_child_processes' = SwapRemove(concurrent_child_processes, i)
            /\ watch_pc' = "report"
            /\ UNCHANGED aborted
       \/ /\ Matching(reaped.pid) = {}
          /\ aborted' = TRUE
          /\ UNCHANGED <<watch_pc, reaped, concurrent_child_processes>>
    /\ UNCHANGED <<mainVars, concurrent_children_spawned_count,
                   atomic_child_spawner_finished, children_waited_count, reports,
                   childVars>>

\* A signal leaves 0 in the bits that WEXITSTATUS selects.
WEXITSTATUS(status) == IF status = "failure" THEN 1 ELSE 0

\* The line printed; the stderr of a failure is read once.
watch_report ==
    /\ Alive /\ watch_pc = "report"
    /\ reports' = Append(reports,
         [job |-> reaped.job,
          success |-> WEXITSTATUS(reaped.status) = 0,
          waited |-> children_waited_count,
          spawned |-> reaped.spawned])
    /\ watch_pc' = "wait"
    /\ UNCHANGED <<mainVars, sharedVars, reaped, children_waited_count, aborted,
                   childVars>>

-----------------------------------------------------------------------------
(* A child: git, after worker_clone_project or worker_update_project.  It    *)
(* blocks while its stderr pipe is full, and goes on when the parent dies.   *)

child_writes(pid) ==
    /\ child[pid] # NoChild /\ child[pid].state = "running" /\ child[pid].left > 0
    /\ pipe[child[pid].job] < PipeCapacity
    /\ child' = [child EXCEPT ![pid].left = @ - 1]
    /\ pipe' = [pipe EXCEPT ![child[pid].job] = @ + 1]
    /\ UNCHANGED <<mainVars, sharedVars, watchVars, aborted, exits>>

Statuses == {"success"}
    \cup (IF "git" \in Faults THEN {"failure"} ELSE {})
    \cup (IF "signal" \in Faults THEN {"signal"} ELSE {})

child_exits(pid) ==
    /\ child[pid] # NoChild /\ child[pid].state = "running"
    /\ \E status \in Statuses :
         /\ status = "signal" \/ child[pid].left = 0
         /\ child' = [child EXCEPT ![pid] =
                        [state |-> "zombie", job |-> @.job, status |-> status]]
         /\ exits' = [exits EXCEPT ![child[pid].job] = status]
    /\ UNCHANGED <<mainVars, sharedVars, watchVars, aborted, pipe>>

-----------------------------------------------------------------------------
Init ==
    /\ main_pc = "fetch" /\ page = 1 /\ missing = 0
    /\ finished = FALSE /\ todo = <<>> /\ forked = [pid |-> 0, job |-> 0]
    /\ res = "ok" /\ tried = {} /\ listed = {} /\ empty = {}
    /\ concurrent_child_processes = <<>>
    /\ concurrent_children_spawned_count = 0
    /\ atomic_child_spawner_finished = FALSE
    /\ watch_pc = "wait"
    /\ reaped = [pid |-> 0, status |-> "success", job |-> 0, spawned |-> 0]
    /\ children_waited_count = 0
    /\ aborted = FALSE
    /\ child = [pid \in Pids |-> NoChild]
    /\ pipe = <<>> /\ exits = <<>> /\ reports = <<>>

Main ==
    \/ api_fetch_projects \/ upsert_project_fork \/ upsert_project_append
    \/ page_done \/ spawner_finished \/ main_end

watch_workers ==
    watch_wait \/ watch_check_finished \/ watch_lookup \/ watch_report

Child(pid) == child_writes(pid) \/ child_exits(pid)

Next == Main \/ watch_workers \/ \E pid \in Pids : Child(pid)

Spec == Init /\ [][Next]_vars

(***************************************************************************)
(* Fairness: the scheduler runs every thread and every process that can    *)
(* run, the server answers, and git ends when nothing stops it from        *)
(* writing.                                                                *)
(***************************************************************************)
Fairness ==
    /\ WF_vars(Main) /\ WF_vars(watch_workers)
    /\ \A pid \in Pids : WF_vars(Child(pid))

FairSpec == Spec /\ Fairness

-----------------------------------------------------------------------------
(* Properties. *)

Projects == UNION { {<<n, k>> : k \in 1 .. Pages[n]} : n \in 1 .. Len(Pages) }

\* Every variable keeps its type.
TypeOK ==
    /\ main_pc \in {"fetch", "upsert", "append", "signal", "chdir", "join", "returned"}
    /\ page \in 1 .. Len(Pages) /\ missing \in 0 .. MaxMissing
    /\ finished \in BOOLEAN /\ res \in {"ok", "failed"}
    /\ todo \in Seq(Projects) /\ tried \subseteq Projects
    /\ listed \subseteq 1 .. Len(Pages) /\ empty \subseteq 1 .. Len(Pages)
    /\ forked \in [pid : Pids \cup {0}, job : Jobs \cup {0}]
    /\ concurrent_child_processes \in Seq([pid : Pids, job : Jobs])
    /\ concurrent_children_spawned_count \in Nat
    /\ atomic_child_spawner_finished \in BOOLEAN
    /\ watch_pc \in {"wait", "check", "lookup", "report", "done"}
    /\ reaped \in [pid : Pids \cup {0}, status : {"success", "failure", "signal"},
                   job : Jobs \cup {0}, spawned : Nat]
    /\ children_waited_count \in Nat
    /\ aborted \in BOOLEAN
    /\ child \in [Pids -> {NoChild}
                    \cup [state : {"running"}, job : Jobs, left : 0 .. MaxStderr]
                    \cup [state : {"zombie"}, job : Jobs,
                          status : {"success", "failure", "signal"}]]
    /\ pipe \in Seq(0 .. PipeCapacity)
    /\ exits \in Seq({"running", "success", "failure", "signal"})
    /\ Len(exits) = Len(pipe)
    /\ reports \in Seq([job : Jobs, success : BOOLEAN, waited : Nat, spawned : Nat])

Reported == { reports[i].job : i \in 1 .. Len(reports) }

(***************************************************************************)
(* Under the mutex: the array holds each job that was appended and not     *)
(* looked up yet, once, whatever the order in which children die and       *)
(* entries are swapped (upsert_project, watch_workers).                    *)
(***************************************************************************)
RegistryIsExact ==
    LET entries  == { concurrent_child_processes[i].job :
                        i \in 1 .. Len(concurrent_child_processes) }
        lookedUp == Reported \cup (IF watch_pc = "report" THEN {reaped.job} ELSE {})
    IN  /\ entries = (1 .. concurrent_children_spawned_count) \ lookedUp
        /\ Cardinality(entries) = Len(concurrent_child_processes)

(***************************************************************************)
(* A report is about the job that ended, although only the pid ties the    *)
(* two together and a pid may be in the array twice: it says failure if    *)
(* and only if git exited with a status other than 0.                      *)
(***************************************************************************)
OutcomesAreReported ==
    \A i \in 1 .. Len(reports) :
        LET r == reports[i]
        IN  exits[r.job] \in IF r.success THEN {"success", "signal"} ELSE {"failure"}

(***************************************************************************)
(* The progress "[i/n]" adds up: no job is reported twice, reports are     *)
(* numbered in order, and never ahead of the number of children spawned.   *)
(***************************************************************************)
ProgressAddsUp ==
    /\ Cardinality(Reported) = Len(reports)
    /\ \A i \in 1 .. Len(reports) : reports[i].waited = i /\ i <= reports[i].spawned

\* Every report is true, and its numbers are.
ReportsAreTruthful == OutcomesAreReported /\ ProgressAddsUp

(***************************************************************************)
(* Unless main says "Failed to handle all projects", each project that the *)
(* server lists on any page was tried, whatever happened to the others and *)
(* whichever answers named no next page.  The exception: a page that was   *)
(* only ever answered with an empty body, which main takes for a success.  *)
(***************************************************************************)
SkipsOnlyEmptyPages ==
    main_pc \in {"chdir", "join"} /\ res = "ok" =>
        \A p \in Projects : p \in tried \/ p[1] \in empty \ listed

(***************************************************************************)
(* "That should be fine, only reporting would be delayed": once            *)
(* watch_workers is done, every child has been reported.                   *)
(***************************************************************************)
WatcherReportsAll ==
    watch_pc = "done" /\ ~aborted => Reported = Jobs

\* assert(process.pid == child_pid) in watch_workers does not fail.
NoAssertionFails == ~aborted

\* The command comes to an end (or stops at a failed assertion).
CommandEnds == <>(~Alive)

=============================================================================
