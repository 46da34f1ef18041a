------------------------ MODULE SchedulerRefinement ------------------------
(***************************************************************************)
(* The daemon of Scheduler implements JobLifecycle.  The workers of a      *)
(* workload are the runOne goroutines past their lookup that may write its *)
(* row, and recoverPending (as None) while the row is on its list; the     *)
(* verdict is what the cloud's state says of it.                           *)
(***************************************************************************)
EXTENDS Scheduler

WorkersOf(w) ==
    {r \in Runs : run[r].w = w /\ run[r].pc \in WriterLabels}
    \cup (IF w \in toFail THEN {None} ELSE {})

VerdictOf(w) ==
    CASE cloud[w].st = "done" -> "completed"
      [] cloud[w].st = "dead" -> "givenUp"
      [] OTHER                -> "open"

Working == [w \in Workloads |-> WorkersOf(w)]
Verdicts == [w \in Workloads |-> VerdictOf(w)]

Lifecycle == INSTANCE JobLifecycle WITH
    Workers <- Runs \cup {None},
    row     <- jobs,
    workers <- Working,
    verdict <- Verdicts

\* The scheduler, with its takeovers, crashes, lost reports, cancels and sweeps
\* (scheduler.go upsertJobForWorkload, runOne and recoverPending), does to rows
\* and verdicts only what the lifecycle of a job allows.
ImplementsLifecycle == Lifecycle!Spec

\* The strengthening the step simulation needs (module SchedulerRefinementProofs):
\* a run that works on a row, or was sent away from it, has seen that row, and
\* recoverPending's list is empty outside recovery.
SeenInv ==
    /\ \A r \in Runs :
          run[r].pc \in WriterLabels \cup {"reportDone", "reportFail"} => jobs[run[r].w] # "none"
    /\ phase # "recover" => toFail = {}

=============================================================================
