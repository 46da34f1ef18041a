------------------------------ MODULE JobStore ------------------------------
(***************************************************************************)
(* The local job table of engine-toold (internal/jobqueue/store.go,        *)
(* recovery.go, schema.sql).  The schema makes workload_id UNIQUE, so a    *)
(* job row is identified here by its workload.  Of the columns only status *)
(* is kept: lease_token and lease_expires_at are written by CreateJob and  *)
(* UpdateLease and read back only for display, and the other columns never *)
(* change.  Every operation runs under Store.wmu (or is a single SELECT),  *)
(* so each is one atomic step; callers interleave between them.            *)
(***************************************************************************)
EXTENDS Naturals, FiniteSets

CONSTANTS
    Workloads,     \* workload ids the cloud may hand to this device
    RecoveryLimit  \* LIMIT of PendingRecovery's SELECT (100 in the code)

ASSUME RecoveryLimitAssumption == RecoveryLimit \in Nat

VARIABLE jobs      \* jobs[w]: status of the row of workload w, "none" if there is no row

TerminalStatuses == {"succeeded", "failed", "abandoned", "cancelled"}
Statuses == {"queued", "running"} \cup TerminalStatuses

\* Store.IsTerminal
IsTerminal(status) == status \in TerminalStatuses

JobsInit == jobs = [w \in Workloads |-> "none"]

JobsTypeOK == jobs \in [Workloads -> Statuses \cup {"none"}]

-----------------------------------------------------------------------------

\* GetByWorkloadID: "none" stands for ErrNotFound.
GetByWorkloadID(w) == jobs[w]

\* INSERT of a queued row; UNIQUE(workload_id) rejects a second one.
CreateJob(w) ==
    /\ jobs[w] = "none"
    /\ jobs' = [jobs EXCEPT ![w] = "queued"]

\* UPDATE jobs SET status: unconditional, whatever the status is now.
UpdateStatus(w, status) == jobs' = [jobs EXCEPT ![w] = status]

\* UPDATE of the lease columns, which nothing but the job view reads.
UpdateLease(w) == UNCHANGED jobs

\* Cancel: lookup and update under one lock; ErrNotFound and ErrJobTerminal
\* leave the table alone.
Cancel(w) ==
    /\ jobs[w] # "none"
    /\ ~IsTerminal(jobs[w])
    /\ jobs' = [jobs EXCEPT ![w] = "cancelled"]

\* The transaction of failActive: all rows in one of the statuses, or none.
FailActive(statuses) ==
    jobs' = [w \in Workloads |-> IF jobs[w] \in statuses THEN "failed" ELSE jobs[w]]

RecoverOrphaned == FailActive({"running"})

SweepActiveToFailed == FailActive({"queued", "running"})

\* ListJobs("running", limit): every running row, or as many as the limit
\* allows.  The result is one of these sets.
PendingRecovery ==
    LET running == {w \in Workloads : jobs[w] = "running"}
    IN  {S \in SUBSET running :
            \/ S = running /\ Cardinality(running) <= RecoveryLimit
            \/ Cardinality(S) = RecoveryLimit}

=============================================================================
