--------------------- MODULE SchedulerRefinementProofs ---------------------
(***************************************************************************)
(* The step simulation behind ImplementsLifecycle: every step of the       *)
(* daemon and the cloud is a step of JobLifecycle or leaves its variables  *)
(* alone, for any number of workloads, goroutines and slots.               *)
(***************************************************************************)
EXTENDS SchedulerRefinement, SchedulerProofs

SeenLabels == WriterLabels \cup {"reportDone", "reportFail"}

\* What the simulation knows of the states it starts from.
RefInv == Types /\ EarnedInv /\ SeenInv

-----------------------------------------------------------------------------
\* A row, once inserted, is never absent again (store.go deletes none).
LEMMA RowsStay ==
    ASSUME Types, [Next]_vars, NEW w \in Workloads, jobs[w] # "none"
    PROVE  jobs'[w] # "none"
<1> USE DEF loopVars, ghosts
<1>1. CASE UNCHANGED jobs
  BY <1>1
<1>2. CASE Boot \/ UnpairSweep
  BY <1>2 DEF Boot, UnpairSweep, RecoverOrphaned, SweepActiveToFailed, FailActive, Types, TypeOK, JobsTypeOK
<1>3. ASSUME NEW v \in Workloads, RecoverPendingOne(v) \/ CancelJob(v) PROVE jobs'[w] # "none"
  BY <1>3 DEF RecoverPendingOne, CancelJob, UpdateStatus, Cancel, Types, TypeOK, JobsTypeOK
<1>4. ASSUME NEW r \in Runs, RunStep(r) PROVE jobs'[w] # "none"
  BY <1>1, <1>4 DEF RunStep, Lookup, InsertRow, TakeOver, SurrenderStoreError, ReportAlreadySucceeded,
     ReportAlreadyTerminal, SetRunning, OpenHandle, ExecuteReturns, Report, SetStatus, Release,
     CreateJob, UpdateStatus, UpdateLease, Types, TypeOK, JobsTypeOK
<1> QED
  BY <1>1, <1>2, <1>3, <1>4
     DEF Next, BootStep, LoopStep, IPCStep, EnvStep, vars, RecoverPendingList, StartLoop, ReserveCheck,
         ProbeRefuses, ReserveAdd, ClaimWork, ClaimNothing, ClaimReplyLost, ClaimUnauthorized, TickReturn,
         Spawn, Decline, HeartbeatFails, Pause, Resume, Crash, CalmDown, LeaseExpires

\* Where the runs of the steps that are not runOne's own go.
LEMMA OtherRuns ==
    ASSUME Types, [Next]_vars, \A r \in Runs : ~RunStep(r), NEW q \in Runs,
           run'[q].pc \in SeenLabels
    PROVE  run'[q].pc = run[q].pc /\ run'[q].w = run[q].w
<1> USE DEF Types, loopVars, ghosts, At
<1>0. {"idle", "claimed", "lookup"} \cap SeenLabels = {}
  BY DEF SeenLabels, WriterLabels, OwnerLabels
<1>1. CASE UNCHANGED run
  BY <1>1
<1>2. ASSUME NEW w \in Workloads, ClaimWork(w) PROVE run'[q].pc = run[q].pc /\ run'[q].w = run[q].w
  BY <1>0, <1>2 DEF ClaimWork, TypeOK
<1>3. ASSUME NEW r \in Runs, Spawn(r) PROVE run'[q].pc = run[q].pc /\ run'[q].w = run[q].w
  <2>1. run'[r].pc = "lookup" /\ \A s \in Runs : s # r => run'[s] = run[s]
    BY <1>3, BusyRuns DEF Spawn, TypeOK, Busy
  <2> QED BY <1>0, <2>1
<1>4. ASSUME NEW r \in Runs, Decline(r) PROVE run'[q].pc = run[q].pc /\ run'[q].w = run[q].w
  BY <1>0, <1>4 DEF Decline, TypeOK, Idle
<1>5. ASSUME NEW r \in Runs, HeartbeatFails(r) PROVE run'[q].pc = run[q].pc /\ run'[q].w = run[q].w
  <2>1. run[r] \in Busy
    BY <1>5 DEF HeartbeatFails, TypeOK, Idle
  <2>2. run'[r] = [run[r] EXCEPT !.hb = "lost"] /\ \A s \in Runs : s # r => run'[s] = run[s]
    BY <1>5 DEF HeartbeatFails, TypeOK
  <2> QED BY <2>1, <2>2 DEF Busy
<1>6. CASE Crash
  BY <1>0, <1>6 DEF Crash, Idle
<1> QED
  BY <1>1, <1>2, <1>3, <1>4, <1>5, <1>6
     DEF Next, BootStep, LoopStep, IPCStep, EnvStep, vars, Boot, RecoverPendingList, RecoverPendingOne,
         StartLoop, ReserveCheck, ProbeRefuses, ReserveAdd, ClaimNothing, ClaimReplyLost,
         ClaimUnauthorized, TickReturn, CancelJob, UnpairSweep, Pause, Resume, CalmDown, LeaseExpires

\* Where runOne's own step leads: it stays among the labels that have seen the
\* row, or it enters them through Lookup or InsertRow, with the row there.
LEMMA OwnRun ==
    ASSUME Types, NEW r \in Runs, RunStep(r), run'[r].pc \in SeenLabels, run[r].pc \notin SeenLabels
    PROVE  jobs'[run[r].w] # "none" /\ run'[r].w = run[r].w
<1> USE DEF Types, At
<1>0. run[r].pc # "idle" /\ run[r].w \in Workloads
  BY RunStepShape, BusyRuns DEF TypeOK, Idle, Labels, Busy
<1>1. run'[r].w = run[r].w
  BY RunStepShape DEF Idle, SeenLabels, WriterLabels, OwnerLabels
<1>2. CASE Lookup(r)
  <2>1. /\ "surrender" \notin SeenLabels /\ "create" \notin SeenLabels
        /\ LookupNext("none") = "create"
    BY DEF SeenLabels, WriterLabels, OwnerLabels, LookupNext
  <2>2. run'[r].pc = LookupNext(jobs[run[r].w]) \/ run'[r].pc = "surrender"
    BY <1>0, <1>2, GotoKeeps DEF Lookup, GetByWorkloadID
  <2>3. jobs[run[r].w] # "none"
    BY <2>1, <2>2
  <2> QED BY <1>1, <1>2, <2>3 DEF Lookup
<1>3. CASE InsertRow(r)
  <2>1. "surrender" \notin SeenLabels
    BY DEF SeenLabels, WriterLabels, OwnerLabels
  <2>2. CreateJob(run[r].w)
    BY <1>0, <1>3, <2>1, GotoKeeps DEF InsertRow
  <2> QED BY <1>0, <1>1, <2>2 DEF CreateJob, TypeOK, JobsTypeOK
<1>4. CASE SurrenderStoreError(r) \/ Release(r)
  <2>1. {"return", "idle"} \cap SeenLabels = {}
    BY DEF SeenLabels, WriterLabels, OwnerLabels
  <2>2. CASE SurrenderStoreError(r)
    BY <1>0, <2>1, <2>2, GotoKeeps DEF SurrenderStoreError
  <2>3. CASE Release(r)
    BY <2>1, <2>3 DEF Release, TypeOK, Idle
  <2> QED BY <1>4, <2>2, <2>3
<1> QED
  BY <1>2, <1>3, <1>4 DEF RunStep, TakeOver, ReportAlreadySucceeded, ReportAlreadyTerminal, SetRunning,
     OpenHandle, ExecuteReturns, Report, SetStatus, SeenLabels, WriterLabels, OwnerLabels

\* Whoever works on a row goes on seeing it.
LEMMA SeenStep ==
    ASSUME Types, SeenInv, [Next]_vars
    PROVE  SeenInv'
<1>1. ASSUME NEW q \in Runs, run'[q].pc \in SeenLabels PROVE jobs'[run'[q].w] # "none"
  <2>0. ASSUME run[q].pc \in SeenLabels, run'[q].w = run[q].w PROVE jobs'[run'[q].w] # "none"
    <3>1. run[q].w \in Workloads
      BY <2>0, BusyRuns DEF Types, SeenLabels, WriterLabels, OwnerLabels
    <3> QED BY <2>0, <3>1, RowsStay DEF SeenInv, SeenLabels
  <2>1. CASE \A r \in Runs : ~RunStep(r)
    BY <1>1, <2>0, <2>1, OtherRuns
  <2>2. ASSUME NEW r \in Runs, RunStep(r) PROVE jobs'[run'[q].w] # "none"
    <3>1. CASE q # r
      BY <1>1, <2>0, <2>2, <3>1, RunStepShape DEF Types
    <3>2. CASE q = r /\ run[r].pc \in SeenLabels
      BY <1>1, <2>0, <2>2, <3>2, RunStepShape DEF Types, Idle, SeenLabels, WriterLabels, OwnerLabels
    <3>3. CASE q = r /\ run[r].pc \notin SeenLabels
      BY <1>1, <2>2, <3>3, OwnRun
    <3> QED BY <3>1, <3>2, <3>3
  <2> QED BY <2>1, <2>2
<1>2. phase' # "recover" => toFail' = {}
  <2> USE DEF loopVars, ghosts, SeenInv
  <2>1. CASE UNCHANGED <<phase, toFail>>
    BY <2>1
  <2>2. CASE Boot \/ RecoverPendingList \/ StartLoop \/ Crash
    BY <2>2 DEF Boot, RecoverPendingList, StartLoop, Crash
  <2>3. ASSUME NEW w \in Workloads, RecoverPendingOne(w) PROVE phase' = "recover"
    BY <2>3 DEF RecoverPendingOne
  <2>4. ASSUME NEW r \in Runs, RunStep(r) PROVE UNCHANGED <<phase, toFail>>
    BY <2>4, RunStepShape DEF Types
  <2> QED
    BY <2>1, <2>2, <2>3, <2>4
       DEF Next, BootStep, LoopStep, IPCStep, EnvStep, vars, ReserveCheck, ProbeRefuses, ReserveAdd,
           ClaimWork, ClaimNothing, ClaimReplyLost, ClaimUnauthorized, TickReturn, Spawn, Decline,
           HeartbeatFails, CancelJob, UnpairSweep, Pause, Resume, CalmDown, LeaseExpires
<1> QED BY <1>1, <1>2 DEF SeenInv, SeenLabels

-----------------------------------------------------------------------------
(***************************************************************************)
(* How a step moves the mapped variables.                                  *)
(***************************************************************************)

\* A run that alone moves keeps, joins or quits the workers of its workload.
LEMMA WorkersMove ==
    ASSUME TypeOK, NEW r \in Runs, NEW w \in Workloads, run[r].w = w, toFail' = toFail,
           \A s \in Runs : s # r => run'[s] = run[s],
           run'[r].pc \in WriterLabels => run'[r].w = w
    PROVE  /\ (run[r].pc \in WriterLabels <=> run'[r].pc \in WriterLabels) => Working' = Working
           /\ run'[r].pc \in WriterLabels => Working' = [Working EXCEPT ![w] = @ \cup {r}]
           /\ run'[r].pc \notin WriterLabels => Working' = [Working EXCEPT ![w] = @ \ {r}]
<1>0. r # None
  BY SchedulerAssumption
<1>1. ASSUME NEW v \in Workloads, v # w PROVE WorkersOf(v)' = WorkersOf(v)
  BY <1>1 DEF WorkersOf
<1>2. (run[r].pc \in WriterLabels <=> run'[r].pc \in WriterLabels) => WorkersOf(w)' = WorkersOf(w)
  BY DEF WorkersOf
<1>3. run'[r].pc \in WriterLabels => WorkersOf(w)' = WorkersOf(w) \cup {r}
  BY DEF WorkersOf
<1>4. run'[r].pc \notin WriterLabels => WorkersOf(w)' = WorkersOf(w) \ {r}
  BY <1>0 DEF WorkersOf
<1>5. Working' = [v \in Workloads |-> WorkersOf(v)'] /\ Working = [v \in Workloads |-> WorkersOf(v)]
  BY DEF Working
<1>6. (run[r].pc \in WriterLabels <=> run'[r].pc \in WriterLabels) => Working' = Working
  BY <1>1, <1>2, <1>5
<1>7. run'[r].pc \in WriterLabels => Working' = [Working EXCEPT ![w] = @ \cup {r}]
  BY <1>1, <1>3, <1>5
<1>8. run'[r].pc \notin WriterLabels => Working' = [Working EXCEPT ![w] = @ \ {r}]
  BY <1>1, <1>4, <1>5
<1> QED BY <1>6, <1>7, <1>8

\* Runs that stay at labels that do not write, and a list that stays, leave
\* the workers alone.
LEMMA WorkersKept ==
    ASSUME toFail' = toFail,
           \A r \in Runs : run'[r] = run[r] \/
               (run'[r].w = run[r].w /\ run'[r].pc = run[r].pc) \/
               (run[r].pc \notin WriterLabels /\ run'[r].pc \notin WriterLabels)
    PROVE  Working' = Working
<1>1. ASSUME NEW w \in Workloads PROVE WorkersOf(w)' = WorkersOf(w)
  BY DEF WorkersOf
<1> QED BY <1>1 DEF Working

\* A report moves the verdict of its workload, once, or nothing.
LEMMA VerdictMove ==
    ASSUME TypeOK, NEW r \in Runs, NEW w \in Workloads, NEW st \in {"pending", "done", "dead"},
           Deliver(r, w, st)
    PROVE  \/ Verdicts' = Verdicts
           \/ /\ Verdicts[w] = "open" /\ st = "done"
              /\ Verdicts' = [Verdicts EXCEPT ![w] = "completed"]
           \/ /\ Verdicts[w] = "open" /\ st = "dead"
              /\ Verdicts' = [Verdicts EXCEPT ![w] = "givenUp"]
<1>1. CASE cloud' = cloud
  BY <1>1 DEF Verdicts, VerdictOf
<1>2. CASE HoldsLease(r, w) /\ cloud' = [cloud EXCEPT ![w] = [st |-> st, holder |-> None]]
  <2>1. \A v \in Workloads : v # w => VerdictOf(v)' = VerdictOf(v)
    BY <1>2 DEF VerdictOf, TypeOK
  <2>2. VerdictOf(w) = "open"
    BY <1>2 DEF VerdictOf, HoldsLease
  <2>3. cloud'[w].st = st
    BY <1>2 DEF TypeOK
  <2>4. VerdictOf(w)' = (CASE st = "done" -> "completed" [] st = "dead" -> "givenUp" [] OTHER -> "open")
    BY <2>3 DEF VerdictOf
  <2>5. Verdicts' = [v \in Workloads |-> VerdictOf(v)'] /\ Verdicts = [v \in Workloads |-> VerdictOf(v)]
    BY DEF Verdicts
  <2>6. CASE st = "pending"
    BY <2>1, <2>2, <2>4, <2>5, <2>6
  <2>7. CASE st = "done"
    BY <2>1, <2>2, <2>4, <2>5, <2>7
  <2>8. CASE st = "dead"
    BY <2>1, <2>2, <2>4, <2>5, <2>8
  <2> QED BY <2>6, <2>7, <2>8
<1> QED BY <1>1, <1>2 DEF Deliver

\* Leasing an open workload, or requeueing a leased one, is no verdict.
LEMMA VerdictKept ==
    ASSUME TypeOK, NEW w \in Workloads, cloud[w].st \in {"pending", "leased"},
           NEW x \in [st : {"pending", "leased"}, holder : Runs \cup {None}],
           cloud' = [cloud EXCEPT ![w] = x]
    PROVE  Verdicts' = Verdicts
<1>1. ASSUME NEW v \in Workloads PROVE VerdictOf(v)' = VerdictOf(v)
  BY DEF VerdictOf, TypeOK
<1> QED BY <1>1 DEF Verdicts

\* A step of JobLifecycle, or a stutter.
Simulated == [Lifecycle!Next]_Lifecycle!vars

\* A step that touches none of the mapped variables is a stutter.
LEMMA Stutter ==
    ASSUME jobs' = jobs, earned' = earned, Working' = Working, Verdicts' = Verdicts
    PROVE  Simulated
  BY DEF Simulated, Lifecycle!vars

\* A run whose only effect is a report is a verdict or a stutter.
LEMMA ReportSimulated ==
    ASSUME TypeOK, NEW r \in Runs, NEW w \in Workloads, NEW st \in {"pending", "done", "dead"},
           Deliver(r, w, st), jobs' = jobs, earned' = earned, Working' = Working,
           st = "done" => w \in earned, st = "dead" => jobs[w] # "none"
    PROVE  Simulated
<1>1. CASE Verdicts' = Verdicts
  BY <1>1, Stutter
<1>2. CASE Verdicts[w] = "open" /\ st = "done" /\ Verdicts' = [Verdicts EXCEPT ![w] = "completed"]
  <2>1. Lifecycle!Complete(w)
    BY <1>2 DEF Lifecycle!Complete
  <2> QED BY <2>1 DEF Simulated, Lifecycle!Next
<1>3. CASE Verdicts[w] = "open" /\ st = "dead" /\ Verdicts' = [Verdicts EXCEPT ![w] = "givenUp"]
  <2>1. Lifecycle!GiveUp(w)
    BY <1>3 DEF Lifecycle!GiveUp
  <2> QED BY <2>1 DEF Simulated, Lifecycle!Next
<1> QED BY <1>1, <1>2, <1>3, VerdictMove

-----------------------------------------------------------------------------
(***************************************************************************)
(* The simulation, actor by actor.                                         *)
(***************************************************************************)

\* A goroutine of runOne: it joins at the lookup or the insert, earns when
\* Execute returns nil, and quits with its last write or its surrender.
LEMMA RunSimulated ==
    ASSUME RefInv, NEW r \in Runs, RunStep(r)
    PROVE  Simulated
<1> USE DEF RefInv, Types, loopVars, ghosts, At
<1>0. run[r].pc # "idle" /\ run[r].w \in Workloads
  BY RunStepShape, BusyRuns DEF TypeOK, Idle, Labels, Busy
<1>1. PICK w \in Workloads : run[r].w = w
  BY <1>0
<1>2. /\ toFail' = toFail
      /\ \A s \in Runs : s # r => run'[s] = run[s]
      /\ run'[r].pc \in WriterLabels => run'[r].w = w
  BY <1>1, RunStepShape DEF Idle, WriterLabels, OwnerLabels
<1>3. /\ (run[r].pc \in WriterLabels <=> run'[r].pc \in WriterLabels) => Working' = Working
      /\ run'[r].pc \in WriterLabels => Working' = [Working EXCEPT ![w] = @ \cup {r}]
      /\ run'[r].pc \notin WriterLabels => Working' = [Working EXCEPT ![w] = @ \ {r}]
  BY <1>1, <1>2, WorkersMove
<1>4. run[r].pc \in WriterLabels => r \in Working[w] /\ r \in Runs \cup {None}
  BY <1>1 DEF Working, WorkersOf
<1>5. run[r].pc \in SeenLabels => jobs[w] # "none"
  BY <1>1 DEF SeenInv, SeenLabels
<1>6. cloud' = cloud => Verdicts' = Verdicts
  BY DEF Verdicts, VerdictOf
<1> DEFINE Quits == Working' = [Working EXCEPT ![w] = @ \ {r}]
<1>7. CASE Lookup(r)
  <2>1. CASE run'[r].pc \in WriterLabels
    <3>1. run'[r].pc = LookupNext(jobs[w]) \/ run'[r].pc = "surrender"
      BY <1>0, <1>1, <1>7, GotoKeeps DEF Lookup, GetByWorkloadID
    <3>2. jobs[w] \in {"queued", "running"}
      BY <2>1, <3>1 DEF LookupNext, WriterLabels, OwnerLabels
    <3>3. Lifecycle!Adopt(w, r)
      BY <1>3, <1>6, <1>7, <2>1, <3>2 DEF Lookup, Lifecycle!Adopt, Lifecycle!Active, Lifecycle!Join
    <3> QED BY <3>3 DEF Simulated, Lifecycle!Next, Lifecycle!WorkerStep
  <2>2. CASE run'[r].pc \notin WriterLabels
    <3>1. run[r].pc \notin WriterLabels
      BY <1>7 DEF Lookup, WriterLabels, OwnerLabels
    <3> QED BY <1>3, <1>6, <1>7, <2>2, <3>1, Stutter DEF Lookup
  <2> QED BY <2>1, <2>2
<1>8. CASE InsertRow(r)
  <2>0. run[r].pc \notin WriterLabels /\ "surrender" \notin WriterLabels /\ "setRunning" \in WriterLabels
    BY <1>8 DEF InsertRow, WriterLabels, OwnerLabels
  <2>1. CASE CreateJob(w) /\ Goto(r, "setRunning")
    <3>1. Working' = [Working EXCEPT ![w] = @ \cup {r}]
      BY <1>0, <1>3, <2>0, <2>1, GotoKeeps DEF Labels
    <3>2. Lifecycle!Receive(w, r)
      BY <1>6, <1>8, <2>1, <3>1 DEF InsertRow, CreateJob, Lifecycle!Receive, Lifecycle!Join, Lifecycle!Becomes
    <3> QED BY <3>2 DEF Simulated, Lifecycle!Next, Lifecycle!WorkerStep
  <2>2. CASE jobs' = jobs /\ Goto(r, "surrender")
    <3>1. run'[r].pc \notin WriterLabels
      BY <1>0, <2>0, <2>2, GotoKeeps DEF Labels
    <3> QED BY <1>3, <1>6, <1>8, <2>0, <2>2, <3>1, Stutter DEF InsertRow
  <2> QED BY <1>1, <1>8, <2>1, <2>2 DEF InsertRow
<1>9. CASE TakeOver(r)
  <2>0. run[r].pc \in WriterLabels
    BY <1>9 DEF TakeOver, WriterLabels, OwnerLabels
  <2>1. CASE run'[r].pc \in WriterLabels
    BY <1>3, <1>6, <1>9, <2>0, <2>1, Stutter DEF TakeOver, UpdateLease
  <2>2. CASE run'[r].pc \notin WriterLabels
    <3>1. Lifecycle!Leave(w, r)
      BY <1>3, <1>4, <1>6, <1>9, <2>0, <2>2 DEF TakeOver, UpdateLease, Lifecycle!Leave, Lifecycle!Quit
    <3> QED BY <1>4, <2>0, <3>1 DEF Simulated, Lifecycle!Next, Lifecycle!WorkerStep
  <2> QED BY <2>1, <2>2
<1>10. CASE SurrenderStoreError(r) \/ ReportAlreadySucceeded(r) \/ ReportAlreadyTerminal(r)
  <2>1. run[r].pc \notin WriterLabels /\ Goto(r, "return")
    BY <1>10 DEF SurrenderStoreError, ReportAlreadySucceeded, ReportAlreadyTerminal, WriterLabels, OwnerLabels
  <2>2. run'[r].pc \notin WriterLabels
    BY <1>0, <2>1, GotoKeeps DEF WriterLabels, OwnerLabels
  <2>3. Working' = Working
    BY <1>3, <2>1, <2>2
  <2>4. CASE SurrenderStoreError(r)
    BY <1>1, <2>3, <2>4, ReportSimulated DEF SurrenderStoreError, Surrender
  <2>5. CASE ReportAlreadySucceeded(r)
    <3>1. w \in earned
      BY <1>1, <2>5 DEF EarnedInv, ReportAlreadySucceeded
    <3> QED BY <1>1, <2>3, <2>5, <3>1, ReportSimulated DEF ReportAlreadySucceeded, Complete
  <2>6. CASE ReportAlreadyTerminal(r)
    <3>1. jobs[w] # "none"
      BY <1>5, <2>6 DEF ReportAlreadyTerminal, SeenLabels
    <3> QED BY <1>1, <2>3, <2>6, <3>1, ReportSimulated DEF ReportAlreadyTerminal, Fail
  <2> QED BY <1>10, <2>4, <2>5, <2>6
<1>11. CASE SetRunning(r)
  <2>0. run[r].pc \in WriterLabels /\ run'[r].pc \in WriterLabels
    BY <1>0, <1>11, GotoKeeps DEF SetRunning, WriterLabels, OwnerLabels, Labels
  <2>1. CASE UpdateStatus(w, "running")
    <3>1. Lifecycle!Begin(w, r)
      BY <1>3, <1>4, <1>6, <1>11, <2>0, <2>1 DEF SetRunning, UpdateStatus, Lifecycle!Begin, Lifecycle!Becomes
    <3> QED BY <1>4, <2>0, <3>1 DEF Simulated, Lifecycle!Next, Lifecycle!WorkerStep
  <2>2. CASE jobs' = jobs
    BY <1>3, <1>6, <1>11, <2>0, <2>2, Stutter DEF SetRunning
  <2> QED BY <1>1, <1>11, <2>1, <2>2 DEF SetRunning
<1>12. CASE OpenHandle(r)
  <2>1. run[r] \in Busy
    BY <1>0, BusyRuns
  <2>2. \/ run'[r] = [run[r] EXCEPT !.pc = "execute", !.hb = "beating"]
        \/ run'[r] = [run[r] EXCEPT !.pc = "report", !.hb = "beating", !.res = "handleErr"]
    BY <1>12 DEF OpenHandle, TypeOK
  <2>3. run'[r].pc \in {"execute", "report"}
    BY <2>1, <2>2 DEF Busy
  <2>4. run[r].pc \in WriterLabels /\ run'[r].pc \in WriterLabels
    BY <1>12, <2>3 DEF OpenHandle, WriterLabels, OwnerLabels
  <2> QED BY <1>3, <1>6, <1>12, <2>4, Stutter DEF OpenHandle
<1>13. CASE ExecuteReturns(r)
  <2>1. run[r] \in Busy
    BY <1>0, BusyRuns
  <2>2. \/ run'[r] = [run[r] EXCEPT !.pc = "report", !.res = "ok"]
        \/ run'[r] = [run[r] EXCEPT !.pc = "report", !.res = "err"]
    BY <1>13 DEF ExecuteReturns, TypeOK
  <2>3. run'[r].pc = "report"
    BY <2>1, <2>2 DEF Busy
  <2>4. run[r].pc \in WriterLabels /\ run'[r].pc \in WriterLabels
    BY <1>13, <2>3 DEF ExecuteReturns, WriterLabels, OwnerLabels
  <2>5. CASE earned' = earned
    BY <1>3, <1>6, <1>13, <2>4, <2>5, Stutter DEF ExecuteReturns
  <2>6. CASE earned' = earned \cup {w}
    <3>1. Lifecycle!Earn(w, r)
      BY <1>3, <1>4, <1>6, <1>13, <2>4, <2>6 DEF ExecuteReturns, Lifecycle!Earn
    <3> QED BY <1>4, <2>4, <3>1 DEF Simulated, Lifecycle!Next, Lifecycle!WorkerStep
  <2> QED BY <1>1, <1>13, <2>5, <2>6 DEF ExecuteReturns
<1>14. CASE Report(r)
  <2>1. run[r].pc \in WriterLabels /\ run'[r].pc \in WriterLabels
    BY <1>0, <1>14, GotoKeeps DEF Report, WriterLabels, OwnerLabels, Labels
  <2>2. Working' = Working /\ jobs[w] # "none"
    BY <1>3, <1>5, <2>1 DEF SeenLabels
  <2>3. run[r].res = "ok" => w \in earned
    BY <1>1 DEF EarnedInv
  <2> QED BY <1>1, <1>14, <2>2, <2>3, ReportSimulated DEF Report, Complete, Fail
<1>15. CASE SetStatus(r)
  <2>1. run[r].pc \in WriterLabels /\ run'[r].pc \notin WriterLabels
    BY <1>0, <1>15, GotoKeeps DEF SetStatus, WriterLabels, OwnerLabels, Labels
  <2>2. run[r].res = "ok" => w \in earned
    BY <1>1 DEF EarnedInv
  <2>3. CASE UpdateStatus(w, IF run[r].res = "ok" THEN "succeeded" ELSE "failed")
    <3>1. Lifecycle!Finish(w, r)
      BY <1>3, <1>4, <1>6, <1>15, <2>1, <2>2, <2>3
         DEF SetStatus, UpdateStatus, Lifecycle!Finish, Lifecycle!Becomes, Lifecycle!Quit
    <3> QED BY <1>4, <2>1, <3>1 DEF Simulated, Lifecycle!Next, Lifecycle!WorkerStep
  <2>4. CASE jobs' = jobs
    <3>1. Lifecycle!Leave(w, r)
      BY <1>3, <1>4, <1>6, <1>15, <2>1, <2>4 DEF SetStatus, Lifecycle!Leave, Lifecycle!Quit
    <3> QED BY <1>4, <2>1, <3>1 DEF Simulated, Lifecycle!Next, Lifecycle!WorkerStep
  <2> QED BY <1>1, <1>15, <2>3, <2>4 DEF SetStatus
<1>16. CASE Release(r)
  <2>1. run[r].pc \notin WriterLabels /\ run'[r].pc \notin WriterLabels
    BY <1>16 DEF Release, WriterLabels, OwnerLabels, TypeOK, Idle
  <2> QED BY <1>3, <1>6, <1>16, <2>1, Stutter DEF Release
<1> QED
  BY <1>7, <1>8, <1>9, <1>10, <1>11, <1>12, <1>13, <1>14, <1>15, <1>16 DEF RunStep

\* Boot, recovery and crash: sweeps, a worker that adopts what it lists, and
\* the end of all workers.
LEMMA BootSimulated ==
    ASSUME RefInv, BootStep \/ Crash
    PROVE  Simulated
<1> USE DEF RefInv, Types
<1>0. cloud' = cloud => Verdicts' = Verdicts
  BY DEF Verdicts, VerdictOf
<1>1. CASE Boot
  <2>1. Working' = Working
    BY <1>1, WorkersKept DEF Boot
  <2>2. CASE RecoverOrphaned
    <3>1. Lifecycle!Sweep({"running"})
      BY <1>0, <1>1, <2>1, <2>2 DEF Boot, ghosts, RecoverOrphaned, FailActive, Lifecycle!Sweep
    <3> QED BY <3>1 DEF Simulated, Lifecycle!Next
  <2>3. CASE jobs' = jobs
    BY <1>0, <1>1, <2>1, <2>3, Stutter DEF Boot, ghosts
  <2> QED BY <1>1, <2>2, <2>3 DEF Boot
<1>2. CASE RecoverPendingList
  <2>1. toFail = {}
    BY <1>2 DEF RecoverPendingList, SeenInv
  <2>2. CASE toFail' = {}
    BY <1>0, <1>2, <2>1, <2>2, WorkersKept, Stutter DEF RecoverPendingList
  <2>3. CASE toFail' \in PendingRecovery
    <3>1. toFail' \in SUBSET Workloads /\ \A w \in toFail' : jobs[w] = "running"
      BY <2>3 DEF PendingRecovery
    <3>2. PICK S \in SUBSET Workloads : toFail' = S
      BY <3>1
    <3>3. ASSUME NEW w \in Workloads
          PROVE  WorkersOf(w)' = IF w \in S THEN WorkersOf(w) \cup {None} ELSE WorkersOf(w)
      BY <1>2, <2>1, <3>2 DEF RecoverPendingList, WorkersOf
    <3>4. Working' = [w \in Workloads |-> IF w \in S THEN Working[w] \cup {None} ELSE Working[w]]
      BY <3>3 DEF Working
    <3>5. Lifecycle!AdoptAll(S, None)
      BY <1>0, <1>2, <3>1, <3>2, <3>4 DEF RecoverPendingList, Lifecycle!AdoptAll
    <3> QED BY <3>5 DEF Simulated, Lifecycle!Next
  <2> QED BY <1>2, <2>2, <2>3 DEF RecoverPendingList
<1>3. ASSUME NEW w \in Workloads, RecoverPendingOne(w) PROVE Simulated
  <2>1. /\ WorkersOf(w)' = WorkersOf(w) \ {None} /\ None \in WorkersOf(w)
        /\ \A v \in Workloads : v # w => WorkersOf(v)' = WorkersOf(v)
    BY <1>3, SchedulerAssumption DEF RecoverPendingOne, WorkersOf
  <2>2. Working' = [Working EXCEPT ![w] = @ \ {None}] /\ None \in Working[w]
    BY <2>1 DEF Working
  <2>3. CASE UpdateStatus(w, "failed")
    <3>1. Lifecycle!Finish(w, None)
      BY <1>0, <1>3, <2>2, <2>3
         DEF RecoverPendingOne, UpdateStatus, Lifecycle!Finish, Lifecycle!Becomes, Lifecycle!Quit
    <3> QED BY <3>1 DEF Simulated, Lifecycle!Next, Lifecycle!WorkerStep
  <2>4. CASE jobs' = jobs
    <3>1. Lifecycle!Leave(w, None)
      BY <1>0, <1>3, <2>2, <2>4 DEF RecoverPendingOne, Lifecycle!Leave, Lifecycle!Quit
    <3> QED BY <3>1 DEF Simulated, Lifecycle!Next, Lifecycle!WorkerStep
  <2> QED BY <1>3, <2>3, <2>4 DEF RecoverPendingOne
<1>4. CASE StartLoop
  BY <1>0, <1>4, WorkersKept, Stutter DEF StartLoop, ghosts
<1>5. CASE Crash
  <2>1. \A r \in Runs : run'[r].pc \notin WriterLabels
    BY <1>5 DEF Crash, Idle, WriterLabels, OwnerLabels
  <2>2. Working' = [w \in Workloads |-> {}]
    BY <1>5, <2>1 DEF Crash, Working, WorkersOf
  <2>3. Lifecycle!Die
    BY <1>0, <1>5, <2>2 DEF Crash, Lifecycle!Die
  <2> QED BY <2>3 DEF Simulated, Lifecycle!Next
<1> QED BY <1>1, <1>2, <1>3, <1>4, <1>5 DEF BootStep

\* The loop, the heartbeats and the leases are invisible above.
LEMMA LoopSimulated ==
    ASSUME RefInv,
           \/ LoopStep
           \/ \E r \in Runs : HeartbeatFails(r)
           \/ \E w \in Workloads : LeaseExpires(w)
           \/ CalmDown
    PROVE  Simulated
<1> USE DEF RefInv, Types, loopVars, ghosts
<1>0. cloud' = cloud => Verdicts' = Verdicts
  BY DEF Verdicts, VerdictOf
<1>1. "idle" \notin WriterLabels /\ "claimed" \notin WriterLabels /\ "lookup" \notin WriterLabels
  BY DEF WriterLabels, OwnerLabels
<1>2. ASSUME UNCHANGED <<jobs, cloud, toFail, run, earned>> PROVE Simulated
  BY <1>0, <1>2, WorkersKept, Stutter
<1>3. ASSUME NEW w \in Workloads, ClaimWork(w) PROVE Simulated
  <2>1. PICK r \in Runs :
            /\ run[r] = Idle
            /\ run' = [run EXCEPT ![r] = [pc |-> "claimed", w |-> w, res |-> "none", hb |-> "off"]]
            /\ cloud' = [cloud EXCEPT ![w] = [st |-> "leased", holder |-> r]]
    BY <1>3 DEF ClaimWork
  <2>2. Working' = Working
    BY <1>1, <1>3, <2>1, WorkersKept DEF ClaimWork, TypeOK, Idle
  <2>3. PICK x \in [st : {"pending", "leased"}, holder : Runs \cup {None}] : cloud' = [cloud EXCEPT ![w] = x]
    BY <2>1
  <2>4. Verdicts' = Verdicts
    BY <1>3, <2>3, VerdictKept DEF ClaimWork
  <2> QED BY <1>3, <2>2, <2>4, Stutter DEF ClaimWork
<1>4. ASSUME NEW w \in Workloads, ClaimReplyLost(w) \/ LeaseExpires(w) PROVE Simulated
  <2>1. PICK x \in [st : {"pending", "leased"}, holder : Runs \cup {None}] : cloud' = [cloud EXCEPT ![w] = x]
    BY <1>4 DEF ClaimReplyLost, LeaseExpires
  <2>3. Verdicts' = Verdicts
    BY <1>4, <2>1, VerdictKept DEF ClaimReplyLost, LeaseExpires
  <2>2. Working' = Working
    BY <1>4, WorkersKept DEF ClaimReplyLost, LeaseExpires
  <2> QED BY <1>4, <2>2, <2>3, Stutter DEF ClaimReplyLost, LeaseExpires
<1>5. ASSUME NEW r \in Runs, Spawn(r) PROVE Simulated
  <2>1. run[r].pc = "claimed" /\ run'[r].pc = "lookup" /\ \A s \in Runs : s # r => run'[s] = run[s]
    BY <1>5, BusyRuns DEF Spawn, TypeOK, Busy
  <2>2. Working' = Working
    BY <1>1, <1>5, <2>1, WorkersKept DEF Spawn
  <2> QED BY <1>0, <1>5, <2>2, Stutter DEF Spawn
<1>6. ASSUME NEW r \in Runs, Decline(r) PROVE Simulated
  <2>1. run[r].pc = "claimed" /\ run'[r].pc = "idle" /\ \A s \in Runs : s # r => run'[s] = run[s]
    BY <1>6 DEF Decline, TypeOK, Idle
  <2>2. Working' = Working
    BY <1>1, <1>6, <2>1, WorkersKept DEF Decline
  <2>3. PICK w \in Workloads : run[r].w = w
    BY <2>1, BusyRuns
  <2> QED BY <1>6, <2>2, <2>3, ReportSimulated DEF Decline, Surrender
<1>7. ASSUME NEW r \in Runs, HeartbeatFails(r) PROVE Simulated
  <2>1. run[r] \in Busy
    BY <1>7 DEF HeartbeatFails, TypeOK, Idle
  <2>2. run'[r] = [run[r] EXCEPT !.hb = "lost"] /\ \A s \in Runs : s # r => run'[s] = run[s]
    BY <1>7 DEF HeartbeatFails, TypeOK
  <2>3. run'[r].pc = run[r].pc /\ run'[r].w = run[r].w
    BY <2>1, <2>2 DEF Busy
  <2>4. Working' = Working
    BY <1>7, <2>2, <2>3, WorkersKept DEF HeartbeatFails
  <2> QED BY <1>0, <1>7, <2>4, Stutter DEF HeartbeatFails
<1> QED
  BY <1>2, <1>3, <1>4, <1>5, <1>6, <1>7
     DEF LoopStep, ReserveCheck, ProbeRefuses, ReserveAdd, TickReturn, ClaimNothing, ClaimUnauthorized,
         CalmDown

\* The IPC handlers cancel and sweep; pausing is invisible above.
LEMMA IPCSimulated ==
    ASSUME RefInv, IPCStep
    PROVE  Simulated
<1> USE DEF RefInv, Types, loopVars, ghosts
<1>1. Working' = Working /\ Verdicts' = Verdicts /\ earned' = earned
  BY WorkersKept DEF IPCStep, CancelJob, UnpairSweep, Pause, Resume, Verdicts, VerdictOf
<1>2. ASSUME NEW w \in Workloads, CancelJob(w) PROVE Simulated
  <2>1. jobs[w] \in {"queued", "running"}
    BY <1>2 DEF CancelJob, Cancel, IsTerminal, TerminalStatuses, TypeOK, JobsTypeOK, Statuses
  <2>2. Lifecycle!Cancel(w)
    BY <1>1, <1>2, <2>1 DEF CancelJob, Cancel, Lifecycle!Cancel, Lifecycle!Active, Lifecycle!Becomes
  <2> QED BY <2>2 DEF Simulated, Lifecycle!Next
<1>3. CASE UnpairSweep
  <2>1. Lifecycle!Sweep(Lifecycle!Active)
    BY <1>1, <1>3 DEF UnpairSweep, SweepActiveToFailed, FailActive, Lifecycle!Sweep, Lifecycle!Active
  <2> QED BY <2>1 DEF Simulated, Lifecycle!Next
<1>4. CASE Pause \/ Resume
  BY <1>1, <1>4, Stutter DEF Pause, Resume
<1> QED BY <1>2, <1>3, <1>4 DEF IPCStep

-----------------------------------------------------------------------------
\* Whoever works on a row, or was sent away from it, has seen it inserted.
THEOREM SeenBeforeWritten == Spec => []SeenInv
<1>1. Init => SeenInv
  BY DEF Init, SeenInv, Idle, WriterLabels, OwnerLabels
<1>2. Types /\ SeenInv /\ [Next]_vars => SeenInv'
  BY SeenStep
<1> QED BY <1>1, <1>2, TypesAndSlots, PTL DEF Spec

\* The scheduler implements the lifecycle of a job: what scheduler.go, the boot
\* sweeps, the IPC handlers and the cloud do to rows and verdicts, with any
\* number of runs of one workload, is a behaviour of JobLifecycle.
THEOREM SchedulerImplementsLifecycle == Spec => ImplementsLifecycle
<1>1. Init => Lifecycle!Init
  <2> SUFFICES ASSUME Init PROVE Lifecycle!Init
    OBVIOUS
  <2>1. Working = [w \in Workloads |-> {}]
    BY DEF Init, Working, WorkersOf, Idle, WriterLabels, OwnerLabels
  <2>2. Verdicts = [w \in Workloads |-> "open"]
    BY DEF Init, Verdicts, VerdictOf
  <2> QED BY <2>1, <2>2 DEF Init, JobsInit, Lifecycle!Init
<1>2. Types /\ EarnedInv /\ SeenInv /\ [Next]_vars => [Lifecycle!Next]_Lifecycle!vars
  <2> SUFFICES ASSUME RefInv, [Next]_vars PROVE Simulated
    BY DEF RefInv, Simulated
  <2>1. CASE UNCHANGED vars
    <3>1. Working' = Working /\ Verdicts' = Verdicts
      BY <2>1 DEF vars, Working, WorkersOf, Verdicts, VerdictOf
    <3> QED BY <2>1, <3>1, Stutter DEF vars
  <2>2. CASE Next
    BY <2>2, RunSimulated, BootSimulated, LoopSimulated, IPCSimulated DEF Next, EnvStep
  <2> QED BY <2>1, <2>2
<1>3. Init => EarnedInv
  BY DEF Init, EarnedInv, SuccessIsEarned, JobsInit, Idle, At
<1>4. Types /\ EarnedInv /\ [Next]_vars => EarnedInv'
  BY EarnedStep
<1> QED
  BY <1>1, <1>2, <1>3, <1>4, TypesAndSlots, SeenBeforeWritten, PTL DEF Spec, ImplementsLifecycle, Lifecycle!Spec

=============================================================================
