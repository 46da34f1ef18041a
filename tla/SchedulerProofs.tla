-------------------------- MODULE SchedulerProofs --------------------------
(***************************************************************************)
(* Proofs about Scheduler, for any number of workloads, goroutines and     *)
(* slots, any RecoveryLimit, with and without store faults.                *)
(***************************************************************************)
EXTENDS Scheduler, FiniteSetTheorems, TLAPS

Types == TypeOK /\ LoopInv /\ SlotInv

\* A slot is in use whenever a run is not idle, and cardinalities are naturals.
LEMMA HoldersFinite ==
    ASSUME TypeOK
    PROVE  /\ IsFiniteSet(SlotHolders)
           /\ Cardinality(SlotHolders) \in Nat
           /\ \A r \in Runs : run[r] # Idle => Cardinality(SlotHolders) > 0
<1>1. IsFiniteSet(SlotHolders)
  <2>1. SlotHolders \subseteq Runs
    BY DEF SlotHolders
  <2> QED BY <2>1, SchedulerAssumption, FS_Subset
<1>2. Cardinality(SlotHolders) \in Nat
  BY <1>1, FS_CardinalityType
<1>3. ASSUME NEW r \in Runs, run[r] # Idle PROVE Cardinality(SlotHolders) > 0
  <2>1. SlotHolders # {}
    BY <1>3 DEF SlotHolders
  <2> QED BY <2>1, <1>1, <1>2, FS_EmptySet
<1> QED BY <1>1, <1>2, <1>3

\* The table keeps its type under every store operation.
LEMMA StoreTypes ==
    ASSUME JobsTypeOK, NEW w \in Workloads
    PROVE  /\ CreateJob(w) => JobsTypeOK'
           /\ Cancel(w) => JobsTypeOK'
           /\ RecoverOrphaned => JobsTypeOK'
           /\ SweepActiveToFailed => JobsTypeOK'
           /\ \A st \in Statuses : UpdateStatus(w, st) => JobsTypeOK'
  BY DEF JobsTypeOK, CreateJob, Cancel, RecoverOrphaned, SweepActiveToFailed,
         FailActive, UpdateStatus, Statuses, TerminalStatuses

\* A run that is not idle is busy with a workload.
LEMMA BusyRuns ==
    ASSUME TypeOK, NEW r \in Runs, run[r].pc # "idle"
    PROVE  run[r] \in Busy /\ run[r].w \in Workloads
<1>1. run[r] \in Busy
  BY DEF TypeOK, Idle
<1> QED BY <1>1 DEF Busy

\* Giving a run another busy record, or none, keeps the type of run.
LEMMA BusyUpdates ==
    ASSUME TypeOK, NEW r \in Runs, NEW x \in Busy \cup {Idle}
    PROVE  [run EXCEPT ![r] = x] \in [Runs -> Busy \cup {Idle}]
  BY DEF TypeOK

\* A jump of runOne keeps the goroutine table well typed.
LEMMA GotoType ==
    ASSUME TypeOK, NEW r \in Runs, run[r].pc # "idle", NEW pc \in Labels, Goto(r, pc)
    PROVE  run' \in [Runs -> Busy \cup {Idle}]
<1>1. [run[r] EXCEPT !.pc = pc] \in Busy
  BY BusyRuns DEF Busy
<1> QED BY <1>1, BusyUpdates DEF Goto

\* Delivering a report keeps the type of the cloud.
LEMMA DeliverType ==
    ASSUME TypeOK, NEW r \in Runs, NEW w \in Workloads, NEW st \in CloudStates, Deliver(r, w, st)
    PROVE  cloud' \in [Workloads -> [st : CloudStates, holder : Runs \cup {None}]]
  BY DEF TypeOK, Deliver

\* Every step of the daemon, the IPC handlers and the cloud keeps the types.
\* Only Release and TickReturn need more than the types: the slot they give
\* back has to be there (SlotInv), or active would leave the naturals.
LEMMA TypeStep ==
    ASSUME Types, [Next]_vars
    PROVE  TypeOK'
<1> USE DEF Types, loopVars, ghosts
<1>1. CASE Boot
  BY <1>1, StoreTypes DEF TypeOK, Boot, RecoverOrphaned, FailActive, JobsTypeOK, Statuses, TerminalStatuses
<1>2. CASE RecoverPendingList
  BY <1>2 DEF TypeOK, RecoverPendingList, PendingRecovery, JobsTypeOK
<1>3. ASSUME NEW w \in Workloads, RecoverPendingOne(w) PROVE TypeOK'
  BY <1>3, StoreTypes DEF TypeOK, RecoverPendingOne, Statuses, TerminalStatuses, JobsTypeOK
<1>4. CASE StartLoop
  BY <1>4 DEF TypeOK, StartLoop, JobsTypeOK
<1>5. CASE ReserveCheck \/ ProbeRefuses \/ ClaimNothing \/ ClaimUnauthorized
  BY <1>5 DEF TypeOK, ReserveCheck, ProbeRefuses, ClaimNothing, ClaimUnauthorized, JobsTypeOK
<1>6. CASE ReserveAdd
  BY <1>6 DEF TypeOK, ReserveAdd, JobsTypeOK
<1>7. CASE TickReturn
  <2>1. active - 1 \in Nat
    BY <1>7, HoldersFinite DEF TypeOK, TickReturn, SlotInv, SlotAccounting, LoopSlot
  <2> QED BY <2>1, <1>7 DEF TypeOK, TickReturn, JobsTypeOK
<1>8. ASSUME NEW w \in Workloads, ClaimWork(w) PROVE TypeOK'
  <2>1. PICK r \in Runs :
            /\ run' = [run EXCEPT ![r] = [pc |-> "claimed", w |-> w, res |-> "none", hb |-> "off"]]
            /\ cloud' = [cloud EXCEPT ![w] = [st |-> "leased", holder |-> r]]
    BY <1>8 DEF ClaimWork
  <2>2. [pc |-> "claimed", w |-> w, res |-> "none", hb |-> "off"] \in Busy
    BY DEF Busy, Labels, Results
  <2>3. run' \in [Runs -> Busy \cup {Idle}]
    BY <2>1, <2>2 DEF TypeOK
  <2> QED BY <1>8, <2>1, <2>3 DEF TypeOK, ClaimWork, JobsTypeOK, CloudStates
<1>9. ASSUME NEW w \in Workloads, ClaimReplyLost(w) PROVE TypeOK'
  BY <1>9 DEF TypeOK, ClaimReplyLost, JobsTypeOK, CloudStates
<1>10. ASSUME NEW r \in Runs, Spawn(r) PROVE TypeOK'
  <2>1. run' \in [Runs -> Busy \cup {Idle}]
    BY <1>10, GotoType DEF Spawn, Goto, Labels
  <2> QED BY <1>10, <2>1 DEF TypeOK, Spawn, JobsTypeOK
<1>11. ASSUME NEW r \in Runs, Decline(r) PROVE TypeOK'
  <2>1. run' \in [Runs -> Busy \cup {Idle}]
    BY <1>11, BusyUpdates DEF Decline
  <2>2. cloud' \in [Workloads -> [st : CloudStates, holder : Runs \cup {None}]]
    BY <1>11, BusyRuns, DeliverType DEF Decline, Surrender, CloudStates
  <2> QED BY <1>11, <2>1, <2>2 DEF TypeOK, Decline, JobsTypeOK
<1>12. ASSUME NEW r \in Runs, RunStep(r) PROVE TypeOK'
  <2>1. run[r].pc # "idle"
    BY <1>12 DEF RunStep, Lookup, InsertRow, TakeOver, SurrenderStoreError, ReportAlreadySucceeded,
                 ReportAlreadyTerminal, SetRunning, OpenHandle, ExecuteReturns, Report, SetStatus,
                 Release, At
  <2>2. run[r].w \in Workloads
    BY <2>1, BusyRuns
  <2>3. CASE Lookup(r)
    <3>1. LookupNext(jobs[run[r].w]) \in Labels
      BY DEF LookupNext, Labels
    <3>2. run' \in [Runs -> Busy \cup {Idle}]
      BY <2>1, <2>3, <3>1, GotoType DEF Lookup, GetByWorkloadID, Labels
    <3> QED BY <2>3, <3>2 DEF TypeOK, Lookup, JobsTypeOK
  <2>4. CASE InsertRow(r)
    <3>1. run' \in [Runs -> Busy \cup {Idle}]
      BY <2>1, <2>4, GotoType DEF InsertRow, Labels
    <3> QED BY <2>2, <2>4, <3>1, StoreTypes DEF TypeOK, InsertRow, JobsTypeOK
  <2>5. CASE TakeOver(r)
    <3>1. run' \in [Runs -> Busy \cup {Idle}]
      BY <2>1, <2>5, GotoType DEF TakeOver, Labels
    <3> QED BY <2>5, <3>1 DEF TypeOK, TakeOver, UpdateLease, JobsTypeOK
  <2>6. CASE SurrenderStoreError(r) \/ ReportAlreadySucceeded(r) \/ ReportAlreadyTerminal(r) \/ Report(r)
    <3>1. run' \in [Runs -> Busy \cup {Idle}]
      BY <2>1, <2>6, GotoType DEF SurrenderStoreError, ReportAlreadySucceeded, ReportAlreadyTerminal,
                                   Report, Labels
    <3>2. cloud' \in [Workloads -> [st : CloudStates, holder : Runs \cup {None}]]
      BY <2>2, <2>6, DeliverType DEF SurrenderStoreError, ReportAlreadySucceeded, ReportAlreadyTerminal,
                                      Report, Surrender, Complete, Fail, CloudStates
    <3> QED BY <2>6, <3>1, <3>2 DEF TypeOK, SurrenderStoreError, ReportAlreadySucceeded,
                                     ReportAlreadyTerminal, Report, JobsTypeOK
  <2>7. CASE SetRunning(r)
    <3>1. run' \in [Runs -> Busy \cup {Idle}]
      BY <2>1, <2>7, GotoType DEF SetRunning, Labels
    <3> QED BY <2>2, <2>7, <3>1, StoreTypes DEF TypeOK, SetRunning, JobsTypeOK, Statuses
  <2>8. CASE OpenHandle(r)
    <3>1. /\ [run[r] EXCEPT !.pc = "execute", !.hb = "beating"] \in Busy
          /\ [run[r] EXCEPT !.pc = "report", !.hb = "beating", !.res = "handleErr"] \in Busy
      BY <2>1, BusyRuns DEF Busy, Labels, Results
    <3>2. run' \in [Runs -> Busy \cup {Idle}]
      BY <2>8, <3>1, BusyUpdates DEF OpenHandle
    <3> QED BY <2>2, <2>8, <3>2 DEF TypeOK, OpenHandle, JobsTypeOK
  <2>9. CASE ExecuteReturns(r)
    <3>1. \A res \in {"ok", "err"} : [run[r] EXCEPT !.pc = "report", !.res = res] \in Busy
      BY <2>1, BusyRuns DEF Busy, Labels, Results
    <3>2. run' \in [Runs -> Busy \cup {Idle}]
      BY <2>9, <3>1, BusyUpdates DEF ExecuteReturns
    <3> QED BY <2>2, <2>9, <3>2 DEF TypeOK, ExecuteReturns, JobsTypeOK
  <2>10. CASE SetStatus(r)
    <3>1. run' \in [Runs -> Busy \cup {Idle}]
      BY <2>1, <2>10, GotoType DEF SetStatus, Labels
    <3> QED BY <2>2, <2>10, <3>1, StoreTypes DEF TypeOK, SetStatus, JobsTypeOK, Statuses, TerminalStatuses
  <2>11. CASE Release(r)
    <3>1. run' \in [Runs -> Busy \cup {Idle}]
      BY <2>11, BusyUpdates DEF Release
    <3>2. active - 1 \in Nat
      BY <2>1, HoldersFinite DEF TypeOK, Idle, SlotInv, SlotAccounting, LoopSlot
    <3> QED BY <2>11, <3>1, <3>2 DEF TypeOK, Release, JobsTypeOK
  <2> QED BY <1>12, <2>3, <2>4, <2>5, <2>6, <2>7, <2>8, <2>9, <2>10, <2>11 DEF RunStep
<1>13. ASSUME NEW r \in Runs, HeartbeatFails(r) PROVE TypeOK'
  <2>1. run[r].pc # "idle"
    BY <1>13 DEF HeartbeatFails, TypeOK, Busy, Idle, Labels
  <2>2. [run[r] EXCEPT !.hb = "lost"] \in Busy
    BY <2>1, BusyRuns DEF Busy
  <2>3. run' \in [Runs -> Busy \cup {Idle}]
    BY <1>13, <2>2, BusyUpdates DEF HeartbeatFails
  <2> QED BY <1>13, <2>3 DEF TypeOK, HeartbeatFails, JobsTypeOK
<1>14. ASSUME NEW w \in Workloads, CancelJob(w) PROVE TypeOK'
  BY <1>14, StoreTypes DEF TypeOK, CancelJob
<1>15. CASE UnpairSweep
  <2>1. JobsTypeOK'
    BY <1>15, StoreTypes DEF TypeOK, UnpairSweep
  <2> QED BY <1>15, <2>1 DEF TypeOK, UnpairSweep
<1>16. CASE Pause \/ Resume \/ CalmDown
  BY <1>16 DEF TypeOK, Pause, Resume, CalmDown, JobsTypeOK
<1>17. CASE Crash
  BY <1>17, SchedulerAssumption DEF TypeOK, Crash, JobsTypeOK, Labels, Results, Idle
<1>18. ASSUME NEW w \in Workloads, LeaseExpires(w) PROVE TypeOK'
  BY <1>18 DEF TypeOK, LeaseExpires, JobsTypeOK, CloudStates
<1>19. CASE UNCHANGED vars
  BY <1>19 DEF TypeOK, vars, JobsTypeOK
<1> QED
  BY <1>1, <1>2, <1>3, <1>4, <1>5, <1>6, <1>7, <1>8, <1>9, <1>10, <1>11, <1>12, <1>13, <1>14, <1>15,
     <1>16, <1>17, <1>18, <1>19
     DEF Next, BootStep, LoopStep, IPCStep, EnvStep

-----------------------------------------------------------------------------
\* What every step of a goroutine has in common: the loop and the other runs
\* stand still, and the run stays with its workload or gives its slot back.
LEMMA RunStepShape ==
    ASSUME TypeOK, NEW r \in Runs, RunStep(r)
    PROVE  /\ UNCHANGED <<phase, toFail, paused, tick, calm>>
           /\ run[r] # Idle /\ run[r].pc # "claimed"
           /\ \A s \in Runs : s # r => run'[s] = run[s]
           /\ run'[r].pc # "claimed"
           /\ \/ run'[r] # Idle /\ run'[r].w = run[r].w /\ active' = active
              \/ run'[r] = Idle /\ active' = active - 1 /\ run[r].pc = "return"
<1> USE DEF loopVars, ghosts, At
<1>0. run[r].pc # "idle"
  BY DEF RunStep, Lookup, InsertRow, TakeOver, SurrenderStoreError, ReportAlreadySucceeded,
         ReportAlreadyTerminal, SetRunning, OpenHandle, ExecuteReturns, Report, SetStatus, Release
<1>1. run[r] \in Busy /\ run[r] # Idle
  BY <1>0, BusyRuns DEF Idle
<1>2. \A pc \in Labels \ {"claimed"} : Goto(r, pc) =>
          /\ run'[r].pc = pc /\ run'[r].pc # "claimed"
          /\ run'[r] # Idle /\ run'[r].w = run[r].w
          /\ \A s \in Runs : s # r => run'[s] = run[s]
  BY <1>1 DEF Goto, TypeOK, Busy, Idle, Labels
<1>3. CASE Lookup(r)
  <2>1. LookupNext(jobs[run[r].w]) \in Labels \ {"claimed"}
    BY DEF LookupNext, Labels
  <2>2. "surrender" \in Labels \ {"claimed"}
    BY DEF Labels
  <2> QED BY <1>1, <1>2, <1>3, <2>1, <2>2 DEF Lookup, GetByWorkloadID
<1>4. CASE InsertRow(r) \/ TakeOver(r) \/ SetRunning(r) \/ SetStatus(r)
  <2>1. {"setRunning", "surrender", "handle", "return"} \subseteq Labels \ {"claimed"}
    BY DEF Labels
  <2> QED BY <1>1, <1>2, <1>4, <2>1 DEF InsertRow, TakeOver, SetRunning, SetStatus
<1>5. CASE SurrenderStoreError(r) \/ ReportAlreadySucceeded(r) \/ ReportAlreadyTerminal(r) \/ Report(r)
  <2>1. {"return", "setStatus"} \subseteq Labels \ {"claimed"}
    BY DEF Labels
  <2> QED BY <1>1, <1>2, <1>5, <2>1 DEF SurrenderStoreError, ReportAlreadySucceeded, ReportAlreadyTerminal, Report
<1>6. CASE OpenHandle(r)
  <2>1. /\ \/ run'[r] = [run[r] EXCEPT !.pc = "execute", !.hb = "beating"]
           \/ run'[r] = [run[r] EXCEPT !.pc = "report", !.hb = "beating", !.res = "handleErr"]
        /\ \A s \in Runs : s # r => run'[s] = run[s]
    BY <1>6 DEF OpenHandle, TypeOK
  <2>2. run'[r].pc \in {"execute", "report"} /\ run'[r].w = run[r].w
    BY <1>1, <2>1 DEF Busy
  <2> QED BY <1>1, <1>6, <2>1, <2>2 DEF OpenHandle, Idle
<1>7. CASE ExecuteReturns(r)
  <2>1. /\ \/ run'[r] = [run[r] EXCEPT !.pc = "report", !.res = "ok"]
           \/ run'[r] = [run[r] EXCEPT !.pc = "report", !.res = "err"]
        /\ \A s \in Runs : s # r => run'[s] = run[s]
    BY <1>7 DEF ExecuteReturns, TypeOK
  <2>2. run'[r].pc = "report" /\ run'[r].w = run[r].w
    BY <1>1, <2>1 DEF Busy
  <2> QED BY <1>1, <1>7, <2>1, <2>2 DEF ExecuteReturns, Idle
<1>8. CASE Release(r)
  BY <1>1, <1>8 DEF Release, TypeOK, Idle
<1> QED BY <1>3, <1>4, <1>5, <1>6, <1>7, <1>8 DEF RunStep

\* Every step keeps the loop's discipline: one claimed workload, dispatched by
\* tick alone, and no goroutine outside phase up.
LEMMA LoopInvStep ==
    ASSUME Types, [Next]_vars
    PROVE  LoopInv'
<1> USE DEF Types, loopVars, ghosts, At
<1>1. CASE Boot \/ RecoverPendingList \/ StartLoop
  BY <1>1 DEF LoopInv, Boot, RecoverPendingList, StartLoop
<1>2. CASE UNCHANGED <<phase, tick, run>>
  BY <1>2 DEF LoopInv
<1>3. CASE ReserveCheck
  BY <1>3 DEF LoopInv, ReserveCheck
<1>4. CASE ProbeRefuses \/ ReserveAdd \/ ClaimNothing \/ ClaimUnauthorized \/ TickReturn
  BY <1>4 DEF LoopInv, ProbeRefuses, ReserveAdd, ClaimNothing, ClaimUnauthorized, TickReturn
<1>5. ASSUME NEW w \in Workloads, ClaimWork(w) PROVE LoopInv'
  BY <1>5 DEF LoopInv, ClaimWork, TypeOK
<1>6. ASSUME NEW w \in Workloads, ClaimReplyLost(w) PROVE LoopInv'
  BY <1>6 DEF LoopInv, ClaimReplyLost
<1>7. ASSUME NEW r \in Runs, Spawn(r) PROVE LoopInv'
  <2>1. run[r] \in Busy
    BY <1>7, BusyRuns DEF Spawn
  <2>2. phase = "up"
    BY <1>7 DEF LoopInv, Spawn, Idle
  <2>3. run'[r].pc = "lookup" /\ \A s \in Runs : s # r => run'[s] = run[s]
    BY <1>7, <2>1 DEF Spawn, TypeOK, Busy
  <2> QED BY <1>7, <2>2, <2>3 DEF LoopInv, Spawn
<1>8. ASSUME NEW r \in Runs, Decline(r) PROVE LoopInv'
  <2>1. phase = "up"
    BY <1>8 DEF LoopInv, Decline, Idle
  <2> QED BY <1>8, <2>1 DEF LoopInv, Decline, TypeOK, Idle
<1>9. ASSUME NEW r \in Runs, RunStep(r) PROVE LoopInv'
  <2>1. phase = "up"
    BY <1>9, RunStepShape DEF LoopInv
  <2> QED BY <1>9, <2>1, RunStepShape DEF LoopInv
<1>10. ASSUME NEW r \in Runs, HeartbeatFails(r) PROVE LoopInv'
  <2>1. run[r] \in Busy /\ run[r] # Idle
    BY <1>10 DEF HeartbeatFails, TypeOK, Idle
  <2>2. run'[r].pc = run[r].pc /\ \A s \in Runs : s # r => run'[s] = run[s]
    BY <1>10, <2>1 DEF HeartbeatFails, TypeOK, Busy
  <2> QED BY <1>10, <2>1, <2>2 DEF LoopInv, HeartbeatFails
<1>11. CASE Crash
  BY <1>11 DEF LoopInv, Crash, Idle
<1> QED
  BY <1>1, <1>2, <1>3, <1>4, <1>5, <1>6, <1>7, <1>8, <1>9, <1>10, <1>11
     DEF Next, BootStep, LoopStep, IPCStep, EnvStep, vars, RecoverPendingOne, CancelJob, UnpairSweep,
         Pause, Resume, CalmDown, LeaseExpires

-----------------------------------------------------------------------------
\* A run that becomes busy, or idle again, changes the number of holders by one.
LEMMA HoldersCount ==
    ASSUME TypeOK, NEW r \in Runs, \A s \in Runs : s # r => run'[s] = run[s]
    PROVE  /\ (run[r] = Idle /\ run'[r] # Idle) => Cardinality(SlotHolders') = Cardinality(SlotHolders) + 1
           /\ (run[r] # Idle /\ run'[r] = Idle) => Cardinality(SlotHolders') = Cardinality(SlotHolders) - 1
           /\ ((run[r] = Idle) <=> (run'[r] = Idle)) => SlotHolders' = SlotHolders
<1>1. IsFiniteSet(SlotHolders)
  BY HoldersFinite
<1>2. ASSUME run[r] = Idle, run'[r] # Idle
      PROVE  Cardinality(SlotHolders') = Cardinality(SlotHolders) + 1
  <2>1. SlotHolders' = SlotHolders \cup {r} /\ r \notin SlotHolders
    BY <1>2 DEF SlotHolders
  <2> QED BY <1>1, <2>1, FS_AddElement
<1>3. ASSUME run[r] # Idle, run'[r] = Idle
      PROVE  Cardinality(SlotHolders') = Cardinality(SlotHolders) - 1
  <2>1. SlotHolders' = SlotHolders \ {r} /\ r \in SlotHolders
    BY <1>3 DEF SlotHolders
  <2> QED BY <1>1, <2>1, FS_RemoveElement
<1>4. ((run[r] = Idle) <=> (run'[r] = Idle)) => SlotHolders' = SlotHolders
  BY DEF SlotHolders
<1> QED BY <1>2, <1>3, <1>4

\* Every step keeps Manager.active equal to the slots held and within the limit.
LEMMA SlotInvStep ==
    ASSUME Types, [Next]_vars
    PROVE  SlotInv'
<1> USE DEF Types, loopVars, ghosts, At
<1> DEFINE N == Cardinality(SlotHolders)
<1>0. N \in Nat /\ active \in Nat /\ MaxConcurrentJobs \in Nat
  BY HoldersFinite, SchedulerAssumption DEF TypeOK
<1>1. CASE UNCHANGED <<tick, active, run>>
  BY <1>1 DEF SlotInv, SlotAccounting, LoopSlot, SlotHolders
<1>2. CASE ReserveCheck
  BY <1>0, <1>2 DEF SlotInv, SlotAccounting, LoopSlot, SlotHolders, ReserveCheck
<1>3. CASE ProbeRefuses \/ ReserveAdd \/ ClaimNothing \/ ClaimUnauthorized \/ TickReturn
  <2>1. SlotHolders' = SlotHolders
    BY <1>3 DEF SlotHolders, ProbeRefuses, ReserveAdd, ClaimNothing, ClaimUnauthorized, TickReturn
  <2> QED BY <1>0, <1>3, <2>1 DEF SlotInv, SlotAccounting, LoopSlot, ProbeRefuses, ReserveAdd,
                                   ClaimNothing, ClaimUnauthorized, TickReturn
<1>4. ASSUME NEW w \in Workloads, ClaimWork(w) PROVE SlotInv'
  <2>1. PICK r \in Runs : /\ run[r] = Idle
                          /\ run' = [run EXCEPT ![r] = [pc |-> "claimed", w |-> w,
                                                        res |-> "none", hb |-> "off"]]
    BY <1>4 DEF ClaimWork
  <2>2. run'[r] # Idle /\ \A s \in Runs : s # r => run'[s] = run[s]
    BY <2>1 DEF TypeOK, Idle
  <2>3. Cardinality(SlotHolders') = N + 1
    BY <2>1, <2>2, HoldersCount
  <2> QED BY <1>0, <1>4, <2>3 DEF SlotInv, SlotAccounting, LoopSlot, ClaimWork
<1>5. ASSUME NEW w \in Workloads, ClaimReplyLost(w) PROVE SlotInv'
  <2>1. SlotHolders' = SlotHolders
    BY <1>5 DEF SlotHolders, ClaimReplyLost
  <2> QED BY <1>0, <1>5, <2>1 DEF SlotInv, SlotAccounting, LoopSlot, ClaimReplyLost
<1>6. ASSUME NEW r \in Runs, Spawn(r) PROVE SlotInv'
  <2>1. run[r] \in Busy
    BY <1>6, BusyRuns DEF Spawn
  <2>2. run[r] # Idle /\ run'[r] # Idle /\ \A s \in Runs : s # r => run'[s] = run[s]
    BY <1>6, <2>1 DEF Spawn, TypeOK, Busy, Idle
  <2>3. SlotHolders' = SlotHolders
    BY <2>2, HoldersCount
  <2>4. tick = "dispatch"
    BY <1>6 DEF LoopInv, Spawn
  <2> QED BY <1>0, <1>6, <2>3, <2>4 DEF SlotInv, SlotAccounting, LoopSlot, Spawn
<1>7. ASSUME NEW r \in Runs, Decline(r) PROVE SlotInv'
  <2>1. run[r] # Idle /\ run'[r] = Idle /\ \A s \in Runs : s # r => run'[s] = run[s]
    BY <1>7 DEF Decline, TypeOK, Idle
  <2>2. Cardinality(SlotHolders') = N - 1
    BY <2>1, HoldersCount
  <2>3. tick = "dispatch"
    BY <1>7 DEF LoopInv, Decline
  <2> QED BY <1>0, <1>7, <2>2, <2>3 DEF SlotInv, SlotAccounting, LoopSlot, Decline
<1>8. ASSUME NEW r \in Runs, RunStep(r) PROVE SlotInv'
  <2>1. CASE run'[r] # Idle /\ active' = active
    <3>1. SlotHolders' = SlotHolders
      BY <1>8, <2>1, RunStepShape, HoldersCount
    <3> QED BY <1>0, <1>8, <2>1, <3>1, RunStepShape DEF SlotInv, SlotAccounting, LoopSlot
  <2>2. CASE run'[r] = Idle /\ active' = active - 1
    <3>1. Cardinality(SlotHolders') = N - 1
      BY <1>8, <2>2, RunStepShape, HoldersCount
    <3> QED BY <1>0, <1>8, <2>2, <3>1, RunStepShape DEF SlotInv, SlotAccounting, LoopSlot
  <2> QED BY <1>8, <2>1, <2>2, RunStepShape
<1>9. ASSUME NEW r \in Runs, HeartbeatFails(r) PROVE SlotInv'
  <2>1. run[r] \in Busy /\ run[r] # Idle
    BY <1>9 DEF HeartbeatFails, TypeOK, Idle
  <2>2. run'[r] # Idle /\ \A s \in Runs : s # r => run'[s] = run[s]
    BY <1>9, <2>1 DEF HeartbeatFails, TypeOK, Busy, Idle
  <2>3. SlotHolders' = SlotHolders
    BY <2>1, <2>2, HoldersCount
  <2> QED BY <1>9, <2>3 DEF SlotInv, SlotAccounting, LoopSlot, HeartbeatFails
<1>10. CASE Crash
  <2>1. SlotHolders' = {}
    BY <1>10 DEF Crash, SlotHolders
  <2> QED BY <1>0, <1>10, <2>1, FS_EmptySet DEF SlotInv, SlotAccounting, LoopSlot, Crash
<1> QED
  BY <1>1, <1>2, <1>3, <1>4, <1>5, <1>6, <1>7, <1>8, <1>9, <1>10
     DEF Next, BootStep, LoopStep, IPCStep, EnvStep, vars, Boot, RecoverPendingList, RecoverPendingOne,
         StartLoop, CancelJob, UnpairSweep, Pause, Resume, CalmDown, LeaseExpires

\* The type invariant, the shape of the loop and the slot count hold together:
\* the counter is a natural number only because no slot is released twice.
THEOREM TypesAndSlots == Spec => []Types
<1>1. Init => Types
  <2> SUFFICES ASSUME Init PROVE Types
    OBVIOUS
  <2>1. TypeOK
    BY SchedulerAssumption DEF Init, TypeOK, JobsInit, JobsTypeOK, CloudStates
  <2>2. LoopInv
    BY DEF Init, LoopInv, At, Idle
  <2>3. SlotHolders = {}
    BY DEF Init, SlotHolders
  <2>4. SlotInv
    BY <2>3, FS_EmptySet, SchedulerAssumption DEF Init, SlotInv, SlotAccounting, LoopSlot
  <2> QED BY <2>1, <2>2, <2>4 DEF Types
<1>2. Types /\ [Next]_vars => Types'
  BY TypeStep, LoopInvStep, SlotInvStep DEF Types
<1> QED BY <1>1, <1>2, PTL DEF Spec

\* Every state has the types TypeOK gives (scheduler.go, resources/manager.go:
\* in particular the slot counter never becomes negative).
THEOREM TypeCorrect == Spec => []TypeOK
  BY TypesAndSlots, PTL DEF Types

\* The slot counter equals the slots held and respects MaxConcurrentJobs
\* (resources/manager.go Reserve and Release as tick and runOne use them).
THEOREM SlotsAccounted == Spec => []SlotAccounting
  BY TypesAndSlots, PTL DEF Types, SlotInv

-----------------------------------------------------------------------------
\* A goroutine that moves to another label keeps its workload and its result.
LEMMA GotoKeeps ==
    ASSUME TypeOK, NEW r \in Runs, run[r].pc # "idle", NEW pc, Goto(r, pc)
    PROVE  /\ run'[r].pc = pc /\ run'[r].w = run[r].w /\ run'[r].res = run[r].res
           /\ \A s \in Runs : s # r => run'[s] = run[s]
<1>1. run[r] \in Busy
  BY BusyRuns
<1>2. run'[r] = [run[r] EXCEPT !.pc = pc] /\ \A s \in Runs : s # r => run'[s] = run[s]
  BY DEF Goto, TypeOK
<1> QED BY <1>1, <1>2 DEF Busy

\* Every step keeps success earned: what a run is about to report or record as
\* done, and what the row it looked up says, comes from an Execute that returned nil.
LEMMA EarnedStep ==
    ASSUME Types, EarnedInv, [Next]_vars
    PROVE  EarnedInv'
<1> USE DEF Types, loopVars, ghosts, At
<1>1. CASE Boot
  BY <1>1 DEF EarnedInv, SuccessIsEarned, Boot, RecoverOrphaned, FailActive
<1>2. CASE UNCHANGED <<jobs, cloud, run, earned>>
  BY <1>2 DEF EarnedInv, SuccessIsEarned
<1>3. ASSUME NEW w \in Workloads, RecoverPendingOne(w) PROVE EarnedInv'
  BY <1>3 DEF EarnedInv, SuccessIsEarned, RecoverPendingOne, UpdateStatus, TypeOK, JobsTypeOK
<1>4. ASSUME NEW w \in Workloads, ClaimWork(w) PROVE EarnedInv'
  <2>1. SuccessIsEarned'
    BY <1>4 DEF EarnedInv, SuccessIsEarned, ClaimWork, TypeOK
  <2>2. PICK r \in Runs : run' = [run EXCEPT ![r] = [pc |-> "claimed", w |-> w,
                                                     res |-> "none", hb |-> "off"]]
    BY <1>4 DEF ClaimWork
  <2> QED BY <1>4, <2>1, <2>2 DEF EarnedInv, ClaimWork, TypeOK
<1>5. ASSUME NEW w \in Workloads, ClaimReplyLost(w) PROVE EarnedInv'
  BY <1>5 DEF EarnedInv, SuccessIsEarned, ClaimReplyLost, TypeOK
<1>6. ASSUME NEW r \in Runs, Spawn(r) PROVE EarnedInv'
  <2>1. Goto(r, "lookup") /\ run[r].pc # "idle"
    BY <1>6 DEF Spawn, Goto
  <2> QED BY <1>6, <2>1, GotoKeeps DEF EarnedInv, SuccessIsEarned, Spawn
<1>7. ASSUME NEW r \in Runs, Decline(r) PROVE EarnedInv'
  BY <1>7 DEF EarnedInv, SuccessIsEarned, Decline, Surrender, Deliver, TypeOK, Idle
<1>8. ASSUME NEW r \in Runs, RunStep(r) PROVE EarnedInv'
  <2>0. run[r].pc # "idle" /\ run[r].w \in Workloads
    BY <1>8, RunStepShape, BusyRuns DEF TypeOK, Idle, Labels, Busy
  <2>1. CASE Lookup(r)
    <3>1. LookupNext(jobs[run[r].w]) = "reportDone" => jobs[run[r].w] = "succeeded"
      BY DEF LookupNext
    <3> QED BY <2>0, <2>1, <3>1, GotoKeeps DEF EarnedInv, SuccessIsEarned, Lookup, GetByWorkloadID
  <2>2. CASE InsertRow(r)
    BY <2>0, <2>2, GotoKeeps DEF EarnedInv, SuccessIsEarned, InsertRow, CreateJob, TypeOK, JobsTypeOK
  <2>3. CASE TakeOver(r)
    BY <2>0, <2>3, GotoKeeps DEF EarnedInv, SuccessIsEarned, TakeOver, UpdateLease
  <2>4. CASE SurrenderStoreError(r)
    BY <2>0, <2>4, GotoKeeps, SMTT(30) DEF EarnedInv, SuccessIsEarned, SurrenderStoreError, Surrender, Deliver, TypeOK
  <2>5. CASE ReportAlreadySucceeded(r)
    BY <2>0, <2>5, GotoKeeps DEF EarnedInv, SuccessIsEarned, ReportAlreadySucceeded, Complete, Deliver, TypeOK
  <2>6. CASE ReportAlreadyTerminal(r)
    BY <2>0, <2>6, GotoKeeps DEF EarnedInv, SuccessIsEarned, ReportAlreadyTerminal, Fail, Deliver, TypeOK
  <2>7. CASE SetRunning(r)
    BY <2>0, <2>7, GotoKeeps DEF EarnedInv, SuccessIsEarned, SetRunning, UpdateStatus, TypeOK, JobsTypeOK
  <2>8. CASE OpenHandle(r)
    <3>1. run[r] \in Busy
      BY <2>0, BusyRuns
    <3>2. /\ run'[r] = [run[r] EXCEPT !.pc = "execute", !.hb = "beating"]
             \/ run'[r] = [run[r] EXCEPT !.pc = "report", !.hb = "beating", !.res = "handleErr"]
          /\ \A s \in Runs : s # r => run'[s] = run[s]
      BY <2>8 DEF OpenHandle, TypeOK
    <3>3. /\ run'[r].pc # "reportDone" /\ run'[r].w = run[r].w
          /\ run'[r].res = "ok" => run[r].res = "ok"
      BY <3>1, <3>2 DEF Busy
    <3> QED BY <2>8, <3>2, <3>3 DEF EarnedInv, SuccessIsEarned, OpenHandle
  <2>9. CASE ExecuteReturns(r)
    <3>1. run[r] \in Busy
      BY <2>0, BusyRuns
    <3>2. /\ \/ run'[r] = [run[r] EXCEPT !.pc = "report", !.res = "ok"] /\ earned' = earned \cup {run[r].w}
             \/ run'[r] = [run[r] EXCEPT !.pc = "report", !.res = "err"] /\ earned' = earned
          /\ \A s \in Runs : s # r => run'[s] = run[s]
      BY <2>9 DEF ExecuteReturns, TypeOK
    <3>3. /\ run'[r].pc # "reportDone" /\ run'[r].w = run[r].w
          /\ run'[r].res = "ok" => run[r].w \in earned'
      BY <3>1, <3>2 DEF Busy
    <3>4. earned \subseteq earned'
      BY <3>2
    <3> QED BY <2>9, <3>2, <3>3, <3>4 DEF EarnedInv, SuccessIsEarned, ExecuteReturns
  <2>10. CASE Report(r)
    BY <2>0, <2>10, GotoKeeps, SMTT(30) DEF EarnedInv, SuccessIsEarned, Report, Complete, Fail, Deliver, TypeOK
  <2>11. CASE SetStatus(r)
    BY <2>0, <2>11, GotoKeeps DEF EarnedInv, SuccessIsEarned, SetStatus, UpdateStatus, TypeOK, JobsTypeOK
  <2>12. CASE Release(r)
    BY <2>12 DEF EarnedInv, SuccessIsEarned, Release, TypeOK, Idle
  <2> QED BY <1>8, <2>1, <2>2, <2>3, <2>4, <2>5, <2>6, <2>7, <2>8, <2>9, <2>10, <2>11, <2>12 DEF RunStep
<1>9. ASSUME NEW r \in Runs, HeartbeatFails(r) PROVE EarnedInv'
  <2>1. run[r] \in Busy
    BY <1>9 DEF HeartbeatFails, TypeOK, Idle
  <2>2. /\ run'[r] = [run[r] EXCEPT !.hb = "lost"]
        /\ \A s \in Runs : s # r => run'[s] = run[s]
    BY <1>9 DEF HeartbeatFails, TypeOK
  <2>3. run'[r].pc = run[r].pc /\ run'[r].w = run[r].w /\ run'[r].res = run[r].res
    BY <2>1, <2>2 DEF Busy
  <2> QED BY <1>9, <2>2, <2>3 DEF EarnedInv, SuccessIsEarned, HeartbeatFails
<1>10. ASSUME NEW w \in Workloads, CancelJob(w) PROVE EarnedInv'
  BY <1>10 DEF EarnedInv, SuccessIsEarned, CancelJob, Cancel, TypeOK, JobsTypeOK
<1>11. CASE UnpairSweep
  BY <1>11 DEF EarnedInv, SuccessIsEarned, UnpairSweep, SweepActiveToFailed, FailActive
<1>12. CASE Crash
  BY <1>12 DEF EarnedInv, SuccessIsEarned, Crash, Idle
<1>13. ASSUME NEW w \in Workloads, LeaseExpires(w) PROVE EarnedInv'
  BY <1>13 DEF EarnedInv, SuccessIsEarned, LeaseExpires, TypeOK
<1> QED
  BY <1>1, <1>2, <1>3, <1>4, <1>5, <1>6, <1>7, <1>8, <1>9, <1>10, <1>11, <1>12, <1>13
     DEF Next, BootStep, LoopStep, IPCStep, EnvStep, vars, RecoverPendingList, StartLoop, ReserveCheck,
         ProbeRefuses, ReserveAdd, ClaimNothing, ClaimUnauthorized, TickReturn, Pause, Resume, CalmDown

\* Neither the cloud nor the local table ever shows a success that no Execute
\* call earned (scheduler.go upsertJobForWorkload and runOne).
THEOREM SuccessEarned == Spec => []SuccessIsEarned
<1>1. Init => EarnedInv
  BY DEF Init, EarnedInv, SuccessIsEarned, JobsInit, Idle, At
<1>2. Types /\ EarnedInv /\ [Next]_vars => EarnedInv'
  BY EarnedStep
<1>3. EarnedInv => SuccessIsEarned
  BY DEF EarnedInv
<1> QED BY <1>1, <1>2, <1>3, TypesAndSlots, PTL DEF Spec

-----------------------------------------------------------------------------
\* Owners stay owners of rows that do not become running.
LEMMA OwnersKept ==
    ASSUME OwnerInv, phase' = phase, toFail' = toFail, storeFault => storeFault',
           \A w \in Workloads : jobs'[w] = "running" => jobs[w] = "running",
           \A q \in Runs : run[q].pc \in OwnerLabels =>
                               run'[q].pc \in OwnerLabels /\ run'[q].w = run[q].w
    PROVE  OwnerInv'
  BY DEF OwnerInv, RunningHasOwner, Running

\* Every step keeps an owner for each running row, through boot recovery too.
LEMMA OwnerStep ==
    ASSUME Types, OwnerInv, [Next]_vars
    PROVE  OwnerInv'
<1> USE DEF Types, loopVars, ghosts, At
<1>1. CASE Boot
  BY <1>1 DEF OwnerInv, RunningHasOwner, Boot
<1>2. CASE RecoverPendingList
  BY <1>2 DEF OwnerInv, RunningHasOwner, RecoverPendingList, Running
<1>3. ASSUME NEW w \in Workloads, RecoverPendingOne(w) PROVE OwnerInv'
  BY <1>3 DEF OwnerInv, RunningHasOwner, RecoverPendingOne, UpdateStatus, Running, TypeOK, JobsTypeOK
<1>4. CASE StartLoop
  BY <1>4 DEF OwnerInv, RunningHasOwner, StartLoop, Running
<1>5. CASE UNCHANGED <<jobs, run, phase, toFail, storeFault>>
  BY <1>5, OwnersKept
<1>6. ASSUME NEW w \in Workloads, ClaimWork(w) PROVE OwnerInv'
  <2>1. PICK r \in Runs : /\ run[r] = Idle
                          /\ run' = [run EXCEPT ![r] = [pc |-> "claimed", w |-> w,
                                                        res |-> "none", hb |-> "off"]]
    BY <1>6 DEF ClaimWork
  <2>2. \A q \in Runs : run[q].pc \in OwnerLabels => run'[q] = run[q]
    BY <2>1 DEF TypeOK, Idle, OwnerLabels
  <2> QED BY <1>6, <2>2, OwnersKept DEF ClaimWork
<1>7. ASSUME NEW r \in Runs, Spawn(r) PROVE OwnerInv'
  <2>1. \A q \in Runs : run[q].pc \in OwnerLabels => run'[q] = run[q]
    BY <1>7 DEF Spawn, TypeOK, OwnerLabels
  <2> QED BY <1>7, <2>1, OwnersKept DEF Spawn
<1>8. ASSUME NEW r \in Runs, Decline(r) PROVE OwnerInv'
  <2>1. \A q \in Runs : run[q].pc \in OwnerLabels => run'[q] = run[q]
    BY <1>8 DEF Decline, TypeOK, OwnerLabels
  <2> QED BY <1>8, <2>1, OwnersKept DEF Decline
<1>9. ASSUME NEW r \in Runs, RunStep(r) PROVE OwnerInv'
  <2>0. run[r].pc # "idle" /\ run[r].w \in Workloads
    BY <1>9, RunStepShape, BusyRuns DEF TypeOK, Idle, Labels, Busy
  <2>1. \A s \in Runs : s # r => run'[s] = run[s]
    BY <1>9, RunStepShape
  <2>2. UNCHANGED <<phase, toFail>>
    BY <1>9, RunStepShape
  <2>3. CASE Lookup(r) \/ TakeOver(r) \/ SurrenderStoreError(r) \/ ReportAlreadySucceeded(r)
             \/ ReportAlreadyTerminal(r) \/ Release(r)
    <3>1. run[r].pc \notin OwnerLabels /\ UNCHANGED <<jobs, storeFault>>
      BY <2>3 DEF OwnerLabels, Lookup, TakeOver, UpdateLease, SurrenderStoreError, ReportAlreadySucceeded,
                  ReportAlreadyTerminal, Release
    <3> QED BY <2>1, <2>2, <3>1, OwnersKept
  <2>4. CASE InsertRow(r)
    <3>1. run[r].pc \notin OwnerLabels /\ UNCHANGED storeFault
      BY <2>4 DEF OwnerLabels, InsertRow
    <3>2. \A w \in Workloads : jobs'[w] = "running" => jobs[w] = "running"
      BY <2>4 DEF InsertRow, CreateJob, TypeOK, JobsTypeOK
    <3> QED BY <2>1, <2>2, <3>1, <3>2, OwnersKept
  <2>5. CASE SetRunning(r)
    <3>1. run'[r].pc = "handle" /\ run'[r].w = run[r].w
      BY <2>0, <2>5, GotoKeeps DEF SetRunning
    <3>2. \A w \in Workloads : w # run[r].w => jobs'[w] = jobs[w]
      BY <2>5 DEF SetRunning, UpdateStatus, TypeOK, JobsTypeOK
    <3>3. storeFault => storeFault'
      BY <2>5 DEF SetRunning
    <3>4. phase = "up"
      BY <2>0 DEF LoopInv, Idle
    <3>5. run[r].pc \notin OwnerLabels /\ run'[r].pc \in OwnerLabels
      BY <2>5, <3>1 DEF SetRunning, OwnerLabels
    <3> QED BY <2>1, <2>2, <3>1, <3>2, <3>3, <3>4, <3>5 DEF OwnerInv, RunningHasOwner
  <2>6. CASE OpenHandle(r) \/ ExecuteReturns(r) \/ Report(r)
    <3>1. run'[r].pc \in OwnerLabels
      <4>1. run[r] \in Busy
        BY <2>0, BusyRuns
      <4>2. CASE OpenHandle(r)
        <5>1. \/ run'[r] = [run[r] EXCEPT !.pc = "execute", !.hb = "beating"]
              \/ run'[r] = [run[r] EXCEPT !.pc = "report", !.hb = "beating", !.res = "handleErr"]
          BY <4>2 DEF OpenHandle, TypeOK
        <5> QED BY <4>1, <5>1 DEF Busy, OwnerLabels
      <4>3. CASE ExecuteReturns(r)
        <5>1. \/ run'[r] = [run[r] EXCEPT !.pc = "report", !.res = "ok"]
              \/ run'[r] = [run[r] EXCEPT !.pc = "report", !.res = "err"]
          BY <4>3 DEF ExecuteReturns, TypeOK
        <5> QED BY <4>1, <5>1 DEF Busy, OwnerLabels
      <4>4. CASE Report(r)
        BY <2>0, <4>4, GotoKeeps DEF Report, OwnerLabels
      <4> QED BY <2>6, <4>2, <4>3, <4>4
    <3>2. run'[r].w = run[r].w
      BY <1>9, <3>1, RunStepShape DEF Idle, OwnerLabels
    <3>3. UNCHANGED <<jobs, storeFault>>
      BY <2>6 DEF OpenHandle, ExecuteReturns, Report
    <3> QED BY <2>1, <2>2, <3>1, <3>2, <3>3, OwnersKept
  <2>7. CASE SetStatus(r)
    <3>1. CASE UNCHANGED jobs /\ storeFault'
      <4>1. phase = "up"
        BY <2>0 DEF LoopInv, Idle
      <4> QED BY <2>2, <3>1, <4>1 DEF OwnerInv, RunningHasOwner
    <3>2. CASE UNCHANGED storeFault /\ jobs'[run[r].w] # "running"
      <4>1. \A w \in Workloads : w # run[r].w => jobs'[w] = jobs[w]
        BY <2>7 DEF SetStatus, UpdateStatus, TypeOK, JobsTypeOK
      <4>2. phase = "up"
        BY <2>0 DEF LoopInv, Idle
      <4> QED BY <2>1, <2>2, <3>2, <4>1, <4>2 DEF OwnerInv, RunningHasOwner
    <3> QED BY <2>0, <2>7, <3>1, <3>2 DEF SetStatus, UpdateStatus, TypeOK, JobsTypeOK
  <2> QED BY <1>9, <2>3, <2>4, <2>5, <2>6, <2>7 DEF RunStep
<1>10. ASSUME NEW r \in Runs, HeartbeatFails(r) PROVE OwnerInv'
  <2>1. run[r] \in Busy
    BY <1>10 DEF HeartbeatFails, TypeOK, Idle
  <2>2. /\ run'[r] = [run[r] EXCEPT !.hb = "lost"]
        /\ \A s \in Runs : s # r => run'[s] = run[s]
    BY <1>10 DEF HeartbeatFails, TypeOK
  <2>3. run'[r].pc = run[r].pc /\ run'[r].w = run[r].w
    BY <2>1, <2>2 DEF Busy
  <2> QED BY <1>10, <2>2, <2>3, OwnersKept DEF HeartbeatFails
<1>11. ASSUME NEW w \in Workloads, CancelJob(w) PROVE OwnerInv'
  <2>1. \A v \in Workloads : jobs'[v] = "running" => jobs[v] = "running"
    BY <1>11 DEF CancelJob, Cancel, TypeOK, JobsTypeOK
  <2> QED BY <1>11, <2>1, OwnersKept DEF CancelJob
<1>12. CASE UnpairSweep
  <2>1. \A v \in Workloads : jobs'[v] = "running" => jobs[v] = "running"
    BY <1>12 DEF UnpairSweep, SweepActiveToFailed, FailActive
  <2> QED BY <1>12, <2>1, OwnersKept DEF UnpairSweep
<1>13. CASE Crash
  BY <1>13 DEF OwnerInv, RunningHasOwner, Crash
<1> QED
  BY <1>1, <1>2, <1>3, <1>4, <1>5, <1>6, <1>7, <1>8, <1>9, <1>10, <1>11, <1>12, <1>13
     DEF Next, BootStep, LoopStep, IPCStep, EnvStep, vars, ReserveCheck, ProbeRefuses, ReserveAdd,
         ClaimNothing, ClaimReplyLost, ClaimUnauthorized, TickReturn, Pause, Resume, CalmDown, LeaseExpires

\* While no store write is lost, a running row always has a goroutine that
\* will finish it (recovery.go RecoverOrphaned, scheduler.go recoverPending).
THEOREM NoOrphans == Spec => []RunningHasOwner
<1>1. Init => OwnerInv
  BY DEF Init, OwnerInv, RunningHasOwner
<1>2. Types /\ OwnerInv /\ [Next]_vars => OwnerInv'
  BY OwnerStep
<1>3. OwnerInv => RunningHasOwner
  BY DEF OwnerInv
<1> QED BY <1>1, <1>2, <1>3, TypesAndSlots, PTL DEF Spec

-----------------------------------------------------------------------------
\* Every step keeps a row that was executed out of the statuses from which a
\* later daemon life would execute it again.
LEMMA BegunStep ==
    ASSUME Types, OwnerInv, BegunInv, [Next]_vars
    PROVE  BegunInv'
<1> USE DEF Types, loopVars, ghosts, At
<1> USE DEF IsTerminal, TerminalStatuses, Statuses, OwnerLabels, WriterLabels
<1>0. \A q \in Runs : run[q].pc # "idle" => run[q].w \in Workloads
  BY BusyRuns
<1>1. CASE Boot
  BY <1>1 DEF BegunInv, Boot, RecoverOrphaned, FailActive, LoopInv, Idle
<1>2. CASE RecoverPendingList
  <2>1. ~storeFault' => ~storeFault /\ (phase' = "up" => Running = {})
    BY <1>2 DEF RecoverPendingList, TypeOK
  <2>2. UNCHANGED <<jobs, began, run>> /\ \A r \in Runs : run[r].pc = "idle"
    BY <1>2 DEF RecoverPendingList, LoopInv, Idle
  <2>3. \A w \in Workloads : jobs[w] \notin {"none", "queued"} /\ w \notin Running => IsTerminal(jobs[w])
    BY DEF TypeOK, JobsTypeOK, Running
  <2> QED BY <2>1, <2>2, <2>3 DEF BegunInv
<1>3. ASSUME NEW w \in Workloads, RecoverPendingOne(w) PROVE BegunInv'
  BY <1>3 DEF BegunInv, RecoverPendingOne, UpdateStatus, LoopInv, Idle, TypeOK, JobsTypeOK
<1>4. CASE StartLoop
  BY <1>4 DEF BegunInv, StartLoop, OwnerInv, Running, LoopInv, Idle, TypeOK, JobsTypeOK
<1>5. CASE UNCHANGED <<jobs, run, phase, began, storeFault>>
  BY <1>5 DEF BegunInv
<1>6. ASSUME NEW w \in Workloads, ClaimWork(w) PROVE BegunInv'
  BY <1>6 DEF BegunInv, ClaimWork, TypeOK
<1>7. ASSUME NEW r \in Runs, Spawn(r) PROVE BegunInv'
  <2>1. Goto(r, "lookup") /\ run[r].pc # "idle"
    BY <1>7 DEF Spawn, Goto
  <2> QED BY <1>7, <2>1, GotoKeeps DEF BegunInv, Spawn
<1>8. ASSUME NEW r \in Runs, Decline(r) PROVE BegunInv'
  BY <1>8 DEF BegunInv, Decline, TypeOK, Idle
<1>9. ASSUME NEW r \in Runs, RunStep(r) PROVE BegunInv'
  <2>0. run[r].pc # "idle" /\ run[r].w \in Workloads
    BY <1>9, RunStepShape, BusyRuns DEF TypeOK, Idle, Labels, Busy
  <2>1. phase = "up" /\ phase' = "up"
    BY <1>9, <2>0, RunStepShape DEF LoopInv, Idle
  <2>2. CASE Lookup(r)
    <3>1. /\ LookupNext(jobs[run[r].w]) \notin OwnerLabels
          /\ LookupNext(jobs[run[r].w]) \in WriterLabels => ~IsTerminal(jobs[run[r].w])
      BY DEF LookupNext
    <3> QED BY <2>0, <2>1, <2>2, <3>1, GotoKeeps DEF BegunInv, Lookup, GetByWorkloadID
  <2>3. CASE InsertRow(r)
    <3>1. \A v \in Workloads : jobs[v] # "none" => jobs'[v] = jobs[v]
      BY <2>3 DEF InsertRow, CreateJob, TypeOK, JobsTypeOK
    <3>2. run'[r].pc \in {"setRunning", "surrender"} /\ run'[r].w = run[r].w
      BY <2>0, <2>3, GotoKeeps DEF InsertRow
    <3>3. \A s \in Runs : s # r => run'[s] = run[s]
      BY <1>9, RunStepShape
    <3>4. run'[r].pc = "setRunning" => jobs[run[r].w] = "none"
      BY <2>0, <2>3, GotoKeeps DEF InsertRow, CreateJob
    <3> QED BY <1>0, <2>0, <2>1, <2>3, <3>1, <3>2, <3>3, <3>4 DEF BegunInv, InsertRow
  <2>4. CASE TakeOver(r)
    BY <2>0, <2>1, <2>4, GotoKeeps DEF BegunInv, TakeOver, UpdateLease
  <2>5. CASE SurrenderStoreError(r) \/ ReportAlreadySucceeded(r) \/ ReportAlreadyTerminal(r)
    <3>1. run'[r].pc = "return"
      BY <2>0, <2>5, GotoKeeps DEF SurrenderStoreError, ReportAlreadySucceeded, ReportAlreadyTerminal
    <3>2. \A s \in Runs : s # r => run'[s] = run[s]
      BY <1>9, RunStepShape
    <3>3. UNCHANGED <<jobs, began, storeFault>>
      BY <2>5 DEF SurrenderStoreError, ReportAlreadySucceeded, ReportAlreadyTerminal
    <3> QED BY <2>1, <3>1, <3>2, <3>3 DEF BegunInv
  <2>6. CASE SetRunning(r)
    <3>1. CASE storeFault'
      BY <3>1 DEF BegunInv
    <3>2. CASE ~storeFault'
      <4>1. ~storeFault /\ jobs' = [jobs EXCEPT ![run[r].w] = "running"]
        BY <2>6, <3>2 DEF SetRunning, UpdateStatus
      <4>2. jobs'[run[r].w] = "running" /\ \A v \in Workloads : v # run[r].w => jobs'[v] = jobs[v]
        BY <2>0, <4>1 DEF TypeOK, JobsTypeOK
      <4>3. run'[r].pc = "handle" /\ run'[r].w = run[r].w /\ \A s \in Runs : s # r => run'[s] = run[s]
        BY <2>0, <2>6, GotoKeeps DEF SetRunning
      <4>4. began' = began /\ began[run[r].w] # "earlierLife"
        BY <2>0, <2>1, <2>6, <4>1 DEF SetRunning, BegunInv
      <4> QED BY <1>0, <2>0, <2>1, <4>1, <4>2, <4>3, <4>4 DEF BegunInv
    <3> QED BY <3>1, <3>2
  <2>7. CASE OpenHandle(r)
    <3>1. run[r] \in Busy
      BY <2>0, BusyRuns
    <3>2. /\ run'[r] = [run[r] EXCEPT !.pc = "execute", !.hb = "beating"]
             \/ run'[r] = [run[r] EXCEPT !.pc = "report", !.hb = "beating", !.res = "handleErr"]
          /\ \A s \in Runs : s # r => run'[s] = run[s]
      BY <2>7 DEF OpenHandle, TypeOK
    <3>3. run'[r].pc \in {"execute", "report"} /\ run'[r].w = run[r].w
      BY <3>1, <3>2 DEF Busy
    <3> QED BY <2>0, <2>1, <2>7, <3>2, <3>3 DEF BegunInv, OpenHandle, TypeOK
  <2>8. CASE ExecuteReturns(r)
    <3>1. run[r] \in Busy
      BY <2>0, BusyRuns
    <3>2. /\ run'[r] = [run[r] EXCEPT !.pc = "report", !.res = "ok"]
             \/ run'[r] = [run[r] EXCEPT !.pc = "report", !.res = "err"]
          /\ \A s \in Runs : s # r => run'[s] = run[s]
      BY <2>8 DEF ExecuteReturns, TypeOK
    <3>3. run'[r].pc = "report" /\ run'[r].w = run[r].w
      BY <3>1, <3>2 DEF Busy
    <3> QED BY <2>0, <2>1, <2>8, <3>2, <3>3 DEF BegunInv, ExecuteReturns
  <2>9. CASE Report(r)
    BY <2>0, <2>1, <2>9, GotoKeeps DEF BegunInv, Report
  <2>10. CASE SetStatus(r)
    <3>1. CASE storeFault'
      BY <3>1 DEF BegunInv
    <3>2. CASE ~storeFault'
      <4>1. ~storeFault /\ \E st \in {"succeeded", "failed"} : jobs' = [jobs EXCEPT ![run[r].w] = st]
        BY <2>10, <3>2 DEF SetStatus, UpdateStatus
      <4>2. /\ jobs'[run[r].w] \in {"succeeded", "failed"}
            /\ \A v \in Workloads : v # run[r].w => jobs'[v] = jobs[v]
        BY <2>0, <4>1 DEF TypeOK, JobsTypeOK
      <4>3. run'[r].pc = "return" /\ run'[r].w = run[r].w /\ \A s \in Runs : s # r => run'[s] = run[s]
        BY <2>0, <2>10, GotoKeeps DEF SetStatus
      <4>4. began' = began
        BY <2>10 DEF SetStatus
      <4> QED BY <1>0, <2>0, <2>1, <4>1, <4>2, <4>3, <4>4 DEF BegunInv
    <3> QED BY <3>1, <3>2
  <2>11. CASE Release(r)
    BY <2>11 DEF BegunInv, Release, TypeOK, Idle
  <2> QED BY <1>9, <2>2, <2>3, <2>4, <2>5, <2>6, <2>7, <2>8, <2>9, <2>10, <2>11 DEF RunStep
<1>10. ASSUME NEW r \in Runs, HeartbeatFails(r) PROVE BegunInv'
  <2>1. run[r] \in Busy
    BY <1>10 DEF HeartbeatFails, TypeOK, Idle
  <2>2. /\ run'[r] = [run[r] EXCEPT !.hb = "lost"]
        /\ \A s \in Runs : s # r => run'[s] = run[s]
    BY <1>10 DEF HeartbeatFails, TypeOK
  <2>3. run'[r].pc = run[r].pc /\ run'[r].w = run[r].w
    BY <2>1, <2>2 DEF Busy
  <2> QED BY <1>10, <2>2, <2>3 DEF BegunInv, HeartbeatFails
<1>11. ASSUME NEW w \in Workloads, CancelJob(w) PROVE BegunInv'
  BY <1>11 DEF BegunInv, CancelJob, Cancel, TypeOK, JobsTypeOK
<1>12. CASE UnpairSweep
  <2>1. \A v \in Workloads : jobs'[v] = IF jobs[v] \in {"queued", "running"} THEN "failed" ELSE jobs[v]
    BY <1>12 DEF UnpairSweep, SweepActiveToFailed, FailActive
  <2>2. UNCHANGED <<run, phase, began, storeFault>>
    BY <1>12 DEF UnpairSweep
  <2> QED BY <1>0, <2>1, <2>2 DEF BegunInv
<1>13. CASE Crash
  BY <1>13 DEF BegunInv, Crash, Idle, TypeOK
<1> QED
  BY <1>1, <1>2, <1>3, <1>4, <1>5, <1>6, <1>7, <1>8, <1>9, <1>10, <1>11, <1>12, <1>13
     DEF Next, BootStep, LoopStep, IPCStep, EnvStep, vars, ReserveCheck, ProbeRefuses, ReserveAdd,
         ClaimNothing, ClaimReplyLost, ClaimUnauthorized, TickReturn, Pause, Resume, CalmDown, LeaseExpires

\* Only OpenHandle starts an execution, and only for its own workload.
LEMMA BeganStep ==
    ASSUME Types, [Next]_vars, NEW w \in Workloads,
           began[w] = "earlierLife", began'[w] = "thisLife"
    PROVE  \E r \in Runs : OpenHandle(r) /\ run[r].w = w
<1> USE DEF Types, loopVars, ghosts
<1>1. ASSUME NEW r \in Runs, OpenHandle(r) PROVE run[r].w = w
  BY <1>1 DEF OpenHandle, TypeOK
<1>2. CASE Crash
  BY <1>2 DEF Crash
<1>3. CASE UNCHANGED began
  BY <1>3
<1> QED
  BY <1>1, <1>2, <1>3
     DEF Next, BootStep, LoopStep, RunStep, IPCStep, EnvStep, vars, Boot, RecoverPendingList,
         RecoverPendingOne, StartLoop, ReserveCheck, ProbeRefuses, ReserveAdd, ClaimNothing, ClaimWork,
         ClaimReplyLost, ClaimUnauthorized, TickReturn, Spawn, Decline, Lookup, InsertRow, TakeOver,
         SurrenderStoreError, ReportAlreadySucceeded, ReportAlreadyTerminal, SetRunning, ExecuteReturns,
         Report, SetStatus, Release, HeartbeatFails, CancelJob, UnpairSweep, Pause, Resume, CalmDown,
         LeaseExpires

\* While no store write is lost, a workload whose execution began before a
\* restart is never executed again on this device (recovery.go "We do NOT
\* requeue", main.go's boot sweep, scheduler.go upsertJobForWorkload).
THEOREM NoReexecution == Spec => NoReexecutionAfterRestart
<1>1. Init => OwnerInv /\ BegunInv
  BY DEF Init, OwnerInv, RunningHasOwner, BegunInv, Idle, OwnerLabels
<1>2. Types /\ OwnerInv /\ BegunInv /\ [Next]_vars => OwnerInv' /\ BegunInv'
  BY OwnerStep, BegunStep
<1>3. ASSUME Types, BegunInv, [Next]_vars
      PROVE  [\A w \in Workloads :
                 (began[w] = "earlierLife" /\ began'[w] = "thisLife") => storeFault]_vars
  <2> SUFFICES ASSUME NEW w \in Workloads, began[w] = "earlierLife", began'[w] = "thisLife"
               PROVE  storeFault
    OBVIOUS
  <2>1. PICK r \in Runs : OpenHandle(r) /\ run[r].w = w
    BY <1>3, BeganStep
  <2>2. run[r].pc = "handle" /\ run[r].pc \in WriterLabels
    BY <2>1 DEF OpenHandle, At, WriterLabels, OwnerLabels
  <2>3. phase = "up"
    BY <1>3, <2>2 DEF Types, LoopInv, Idle
  <2> QED BY <1>3, <2>1, <2>2, <2>3 DEF BegunInv
<1> QED BY <1>1, <1>2, <1>3, TypesAndSlots, PTL DEF Spec, NoReexecutionAfterRestart

-----------------------------------------------------------------------------
\* Quiescent rows survive a step that writes no row of a terminal status and
\* makes no run a writer of it.
LEMMA QuiescentKept ==
    ASSUME NEW w \in Workloads, Quiescent(w), jobs'[w] = jobs[w], w \notin toFail',
           \A r \in Runs : (run'[r].w = w /\ run'[r].pc \in WriterLabels) =>
                               run[r].w = w /\ run[r].pc \in WriterLabels
    PROVE  jobs'[w] = jobs[w] /\ Quiescent(w)'
  BY DEF Quiescent

\* No step touches a terminal row that nobody read before it became terminal,
\* and none brings such a reader back.
LEMMA QuiescentStep ==
    ASSUME Types, [Next]_vars, NEW w \in Workloads, Quiescent(w)
    PROVE  jobs'[w] = jobs[w] /\ Quiescent(w)'
<1> USE DEF Types, loopVars, ghosts, At
<1>0. jobs[w] \in TerminalStatuses /\ w \notin toFail
  BY DEF Quiescent, IsTerminal
<1>1. CASE Boot
  <2>1. jobs'[w] = jobs[w]
    BY <1>0, <1>1 DEF Boot, RecoverOrphaned, FailActive, TerminalStatuses
  <2> QED BY <1>0, <1>1, <2>1, QuiescentKept DEF Boot
<1>2. CASE RecoverPendingList
  <2>1. w \notin toFail'
    BY <1>0, <1>2 DEF RecoverPendingList, PendingRecovery, TerminalStatuses
  <2> QED BY <1>2, <2>1, QuiescentKept DEF RecoverPendingList
<1>3. ASSUME NEW v \in Workloads, RecoverPendingOne(v) PROVE jobs'[w] = jobs[w] /\ Quiescent(w)'
  <2>1. jobs'[w] = jobs[w] /\ w \notin toFail'
    BY <1>0, <1>3 DEF RecoverPendingOne, UpdateStatus, TypeOK, JobsTypeOK
  <2> QED BY <1>3, <2>1, QuiescentKept DEF RecoverPendingOne
<1>4. CASE UNCHANGED <<jobs, toFail, run>>
  BY <1>0, <1>4, QuiescentKept
<1>5. ASSUME NEW v \in Workloads, ClaimWork(v) PROVE jobs'[w] = jobs[w] /\ Quiescent(w)'
  <2>1. PICK r \in Runs : run' = [run EXCEPT ![r] = [pc |-> "claimed", w |-> v,
                                                     res |-> "none", hb |-> "off"]]
    BY <1>5 DEF ClaimWork
  <2>2. \A s \in Runs : run'[s].pc \in WriterLabels => run'[s] = run[s]
    BY <2>1 DEF TypeOK, WriterLabels, OwnerLabels
  <2> QED BY <1>0, <1>5, <2>2, QuiescentKept DEF ClaimWork
<1>6. ASSUME NEW r \in Runs, Spawn(r) PROVE jobs'[w] = jobs[w] /\ Quiescent(w)'
  <2>1. Goto(r, "lookup") /\ run[r].pc # "idle"
    BY <1>6 DEF Spawn, Goto
  <2>2. \A s \in Runs : run'[s].pc \in WriterLabels => run'[s] = run[s]
    BY <2>1, GotoKeeps DEF WriterLabels, OwnerLabels
  <2> QED BY <1>0, <1>6, <2>2, QuiescentKept DEF Spawn
<1>7. ASSUME NEW r \in Runs, Decline(r) PROVE jobs'[w] = jobs[w] /\ Quiescent(w)'
  <2>1. \A s \in Runs : run'[s].pc \in WriterLabels => run'[s] = run[s]
    BY <1>7 DEF Decline, TypeOK, Idle, WriterLabels, OwnerLabels
  <2> QED BY <1>0, <1>7, <2>1, QuiescentKept DEF Decline
<1>8. ASSUME NEW r \in Runs, RunStep(r) PROVE jobs'[w] = jobs[w] /\ Quiescent(w)'
  <2>0. run[r].pc # "idle" /\ run[r].w \in Workloads
    BY <1>8, RunStepShape, BusyRuns DEF TypeOK, Idle, Labels, Busy
  <2>1. /\ \A s \in Runs : s # r => run'[s] = run[s]
        /\ toFail' = toFail
        /\ run'[r] = Idle \/ run'[r].w = run[r].w
    BY <1>8, RunStepShape
  <2>2. CASE run[r].pc \in WriterLabels
    <3>1. run[r].w # w
      BY <2>2 DEF Quiescent
    <3>2. run'[r].pc \in WriterLabels => run'[r].w # w
      BY <2>1, <3>1 DEF Idle, WriterLabels, OwnerLabels
    <3>3. jobs'[w] = jobs[w]
      BY <1>8, <2>2, <3>1 DEF RunStep, Lookup, InsertRow, TakeOver, UpdateLease, SurrenderStoreError,
            ReportAlreadySucceeded, ReportAlreadyTerminal, SetRunning, OpenHandle, ExecuteReturns,
            Report, SetStatus, Release, UpdateStatus, WriterLabels, OwnerLabels, TypeOK, JobsTypeOK
    <3> QED BY <1>0, <2>1, <3>2, <3>3, QuiescentKept
  <2>3. CASE Lookup(r)
    <3>1. run'[r].w = w => run'[r].pc \notin WriterLabels
      <4>1. LookupNext(jobs[w]) \notin WriterLabels
        BY <1>0 DEF LookupNext, TerminalStatuses, WriterLabels, OwnerLabels
      <4> QED BY <2>0, <2>3, <4>1, GotoKeeps DEF Lookup, GetByWorkloadID, WriterLabels, OwnerLabels
    <3> QED BY <1>0, <2>1, <2>3, <3>1, QuiescentKept DEF Lookup
  <2>4. CASE InsertRow(r)
    <3>1. jobs'[w] = jobs[w]
      BY <1>0, <2>4 DEF InsertRow, CreateJob, TypeOK, JobsTypeOK, TerminalStatuses
    <3>2. run'[r].w = w => run'[r].pc \notin WriterLabels
      BY <1>0, <2>0, <2>4, GotoKeeps DEF InsertRow, CreateJob, TerminalStatuses, WriterLabels, OwnerLabels
    <3> QED BY <1>0, <2>1, <3>1, <3>2, QuiescentKept
  <2>5. CASE SurrenderStoreError(r) \/ ReportAlreadySucceeded(r) \/ ReportAlreadyTerminal(r)
    <3>1. run'[r].pc = "return"
      BY <2>0, <2>5, GotoKeeps DEF SurrenderStoreError, ReportAlreadySucceeded, ReportAlreadyTerminal
    <3>2. jobs'[w] = jobs[w]
      BY <2>5 DEF SurrenderStoreError, ReportAlreadySucceeded, ReportAlreadyTerminal
    <3> QED BY <1>0, <2>1, <3>1, <3>2, QuiescentKept DEF WriterLabels, OwnerLabels
  <2>6. CASE Release(r)
    <3>1. run'[r] = Idle /\ jobs'[w] = jobs[w]
      BY <2>6 DEF Release, TypeOK
    <3> QED BY <1>0, <2>1, <3>1, QuiescentKept DEF Idle, WriterLabels, OwnerLabels
  <2> QED
    BY <1>8, <2>2, <2>3, <2>4, <2>5, <2>6
       DEF RunStep, TakeOver, SetRunning, OpenHandle, ExecuteReturns, Report, SetStatus,
           WriterLabels, OwnerLabels
<1>9. ASSUME NEW r \in Runs, HeartbeatFails(r) PROVE jobs'[w] = jobs[w] /\ Quiescent(w)'
  <2>1. run[r] \in Busy
    BY <1>9 DEF HeartbeatFails, TypeOK, Idle
  <2>2. /\ run'[r] = [run[r] EXCEPT !.hb = "lost"]
        /\ \A s \in Runs : s # r => run'[s] = run[s]
    BY <1>9 DEF HeartbeatFails, TypeOK
  <2>3. run'[r].pc = run[r].pc /\ run'[r].w = run[r].w
    BY <2>1, <2>2 DEF Busy
  <2> QED BY <1>0, <1>9, <2>2, <2>3, QuiescentKept DEF HeartbeatFails
<1>10. ASSUME NEW v \in Workloads, CancelJob(v) PROVE jobs'[w] = jobs[w] /\ Quiescent(w)'
  <2>1. jobs'[w] = jobs[w]
    BY <1>0, <1>10 DEF CancelJob, Cancel, IsTerminal, TypeOK, JobsTypeOK
  <2> QED BY <1>0, <1>10, <2>1, QuiescentKept DEF CancelJob
<1>11. CASE UnpairSweep
  <2>1. jobs'[w] = jobs[w]
    BY <1>0, <1>11 DEF UnpairSweep, SweepActiveToFailed, FailActive, TerminalStatuses
  <2> QED BY <1>0, <1>11, <2>1, QuiescentKept DEF UnpairSweep
<1>12. CASE Crash
  <2>1. \A r \in Runs : run'[r].pc \notin WriterLabels
    BY <1>12 DEF Crash, Idle, WriterLabels, OwnerLabels
  <2> QED BY <1>12, <2>1, QuiescentKept DEF Crash
<1> QED
  BY <1>1, <1>2, <1>3, <1>4, <1>5, <1>6, <1>7, <1>8, <1>9, <1>10, <1>11, <1>12
     DEF Next, BootStep, LoopStep, IPCStep, EnvStep, vars, StartLoop, ReserveCheck, ProbeRefuses,
         ReserveAdd, ClaimNothing, ClaimReplyLost, ClaimUnauthorized, TickReturn, Pause, Resume,
         CalmDown, LeaseExpires

\* A terminal row that no goroutine has in hand is final, in this daemon life
\* and every later one, store faults included (store.go IsTerminal,
\* scheduler.go upsertJobForWorkload).
THEOREM QuiescentFinal == Spec => QuiescentTerminalIsFinal
<1>1. ASSUME Types, [Next]_vars
      PROVE  [\A w \in Workloads : Quiescent(w) => jobs'[w] = jobs[w] /\ Quiescent(w)']_vars
  BY <1>1, QuiescentStep
<1> QED BY <1>1, TypesAndSlots, PTL DEF Spec, QuiescentTerminalIsFinal

=============================================================================
