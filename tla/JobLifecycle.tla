---------------------------- MODULE JobLifecycle ----------------------------
(***************************************************************************)
(* What the daemon promises of a workload, without slots, leases, phases   *)
(* and requests: how its row may move, who may move it, and what the cloud *)
(* is told in the end.                                                     *)
(*                                                                         *)
(* A worker of w is whoever has read w's row and may still write it: a     *)
(* runOne goroutine, or the boot recovery with its list.  The one rule on  *)
(* joining is that the row is absent, queued or running: nobody starts     *)
(* from a terminal row.  A worker that joined in time may still overwrite  *)
(* one.                                                                    *)
(***************************************************************************)
EXTENDS FiniteSets

CONSTANTS
    Workloads,  \* workload ids
    Workers     \* whoever may write rows

VARIABLES
    row,      \* row[w]: the status of w's row, or "none"
    workers,  \* workers[w]: those who have read the row and may write it
    earned,   \* the workloads an Execute call returned nil for
    verdict   \* verdict[w]: "open", "completed" or "givenUp" at the cloud

vars == <<row, workers, earned, verdict>>

Active == {"queued", "running"}

Init ==
    /\ row = [w \in Workloads |-> "none"]
    /\ workers = [w \in Workloads |-> {}]
    /\ earned = {}
    /\ verdict = [w \in Workloads |-> "open"]

Join(w, a) == workers' = [workers EXCEPT ![w] = @ \cup {a}]
Quit(w, a) == workers' = [workers EXCEPT ![w] = @ \ {a}]
Becomes(w, status) == row' = [row EXCEPT ![w] = status]

\* The workload is new: a row for it, and a worker.
Receive(w, a) ==
    /\ row[w] = "none"
    /\ Becomes(w, "queued")
    /\ Join(w, a)
    /\ UNCHANGED <<earned, verdict>>

\* A worker joins on a row that is not terminal.
Adopt(w, a) ==
    /\ row[w] \in Active
    /\ Join(w, a)
    /\ UNCHANGED <<row, earned, verdict>>

\* The boot recovery joins on running rows.
AdoptAll(S, a) ==
    /\ \A w \in S : row[w] = "running"
    /\ workers' = [w \in Workloads |-> IF w \in S THEN workers[w] \cup {a} ELSE workers[w]]
    /\ UNCHANGED <<row, earned, verdict>>

\* A worker begins to execute.
Begin(w, a) ==
    /\ a \in workers[w]
    /\ Becomes(w, "running")
    /\ UNCHANGED <<workers, earned, verdict>>

\* Its execution succeeds.
Earn(w, a) ==
    /\ a \in workers[w]
    /\ earned' = earned \cup {w}
    /\ UNCHANGED <<row, workers, verdict>>

\* A worker writes its result and is done; success must have been earned.
Finish(w, a) ==
    /\ a \in workers[w]
    /\ Becomes(w, "failed") \/ (w \in earned /\ Becomes(w, "succeeded"))
    /\ Quit(w, a)
    /\ UNCHANGED <<earned, verdict>>

\* A worker gives up without a result.
Leave(w, a) ==
    /\ a \in workers[w]
    /\ Quit(w, a)
    /\ UNCHANGED <<row, earned, verdict>>

\* The user cancels a row that is not terminal.
Cancel(w) ==
    /\ row[w] \in Active
    /\ Becomes(w, "cancelled")
    /\ UNCHANGED <<workers, earned, verdict>>

\* An unpair fails what is active, the boot what is running.
Sweep(statuses) ==
    /\ row' = [w \in Workloads |-> IF row[w] \in statuses THEN "failed" ELSE row[w]]
    /\ UNCHANGED <<workers, earned, verdict>>

\* The process dies, and with it all workers.
Die ==
    /\ workers' = [w \in Workloads |-> {}]
    /\ UNCHANGED <<row, earned, verdict>>

\* The cloud is told once: of a completion that was earned, or of a failure
\* that is not to be retried, of a workload the device has a row for.
Complete(w) ==
    /\ verdict[w] = "open" /\ w \in earned
    /\ verdict' = [verdict EXCEPT ![w] = "completed"]
    /\ UNCHANGED <<row, workers, earned>>

GiveUp(w) ==
    /\ verdict[w] = "open" /\ row[w] # "none"
    /\ verdict' = [verdict EXCEPT ![w] = "givenUp"]
    /\ UNCHANGED <<row, workers, earned>>

WorkerStep(w, a) ==
    Receive(w, a) \/ Adopt(w, a) \/ Begin(w, a) \/ Earn(w, a) \/ Finish(w, a) \/ Leave(w, a)

Next ==
    \/ \E w \in Workloads, a \in Workers : WorkerStep(w, a)
    \/ \E S \in SUBSET Workloads, a \in Workers : AdoptAll(S, a)
    \/ \E w \in Workloads : Cancel(w) \/ Complete(w) \/ GiveUp(w)
    \/ Sweep(Active) \/ Sweep({"running"})
    \/ Die

Spec == Init /\ [][Next]_vars

=============================================================================
