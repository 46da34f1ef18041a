----------------------------- MODULE Scheduler -----------------------------
(***************************************************************************)
(* One engine-toold daemon working through the workloads of the cloud:     *)
(* the scheduler loop and its runOne goroutines                            *)
(* (internal/runtime/scheduler.go), the slot counter                       *)
(* (internal/runtime/resources/manager.go), the lease heartbeat            *)
(* (internal/sync/lease.go), boot, crash and restart                       *)
(* (cmd/engine-toold/main.go), the IPC calls that touch the job table      *)
(* (internal/ipc), and the cloud side of the lease protocol, external, as  *)
(* internal/sync/client.go uses it.                                        *)
(*                                                                         *)
(* A run r is one runOne goroutine; its record also carries the claimed    *)
(* workload while the loop still decides what to do with it.  A lease      *)
(* token is identified by the run it was issued to: cloud[w].holder = r    *)
(* says that the token run r carries is the current one of w.              *)
(***************************************************************************)
EXTENDS JobStore

CONSTANTS
    Runs,              \* identities of runOne goroutines, reused once idle
    None,              \* no workload, no run
    MaxConcurrentJobs, \* resources.Limits.MaxConcurrentJobs
    Unsupported,       \* workloads without an executor or refused by CanRun
    StoreMayFail       \* whether SQLite calls may return an error

ASSUME SchedulerAssumption ==
    /\ MaxConcurrentJobs \in Nat
    /\ IsFiniteSet(Runs) /\ Cardinality(Runs) >= MaxConcurrentJobs
    /\ None \notin Workloads \cup Runs
    /\ Unsupported \subseteq Workloads
    /\ StoreMayFail \in BOOLEAN

VARIABLES
    cloud,      \* cloud[w]: what the cloud thinks of w (external)
    phase,      \* where the daemon process is: down, boot, recover or up
    toFail,     \* rows recoverPending has listed and not yet updated
    paused,     \* Scheduler.paused
    tick,       \* where the loop is inside tick
    active,     \* Manager.active, the number of slots handed out
    run,        \* run[r]: the goroutine r
    calm,       \* the environment has stopped failing (for liveness only)
    began,      \* history: in which daemon life Execute last began on w
    earned,     \* history: workloads an Execute call returned nil for
    storeFault  \* history: a status write or the boot recovery was lost

vars == <<jobs, cloud, phase, toFail, paused, tick, active, run, calm,
          began, earned, storeFault>>

loopVars == <<phase, toFail, paused, tick>>
ghosts == <<began, earned, storeFault>>

\* Where a run is; an idle one is at "idle".
Labels == {"claimed", "lookup", "create", "takeover", "surrender", "setRunning",
           "handle", "execute", "report", "setStatus", "reportDone", "reportFail",
           "return"}

\* What the executor phase of a run ended with: "ok" (Execute returned nil),
\* "err" (it returned an error), "handleErr" (NewJobHandle failed).
Results == {"none", "ok", "err", "handleErr"}

Idle == [pc |-> "idle", w |-> None, res |-> "none", hb |-> "off"]

Busy == [pc : Labels, w : Workloads, res : Results, hb : {"off", "beating", "lost"}]

CloudStates == {"pending", "leased", "done", "dead"}

TypeOK ==
    /\ JobsTypeOK
    /\ cloud \in [Workloads -> [st : CloudStates, holder : Runs \cup {None}]]
    /\ phase \in {"down", "boot", "recover", "up"}
    /\ toFail \in SUBSET Workloads
    /\ paused \in BOOLEAN
    /\ tick \in {"wait", "probe", "claim", "dispatch", "return"}
    /\ active \in Nat
    /\ run \in [Runs -> Busy \cup {Idle}]
    /\ calm \in BOOLEAN
    /\ began \in [Workloads -> {"never", "thisLife", "earlierLife"}]
    /\ earned \in SUBSET Workloads
    /\ storeFault \in BOOLEAN

Init ==
    /\ JobsInit
    /\ cloud = [w \in Workloads |-> [st |-> "pending", holder |-> None]]
    /\ phase = "down"
    /\ toFail = {}
    /\ paused = FALSE
    /\ tick = "wait"
    /\ active = 0
    /\ run = [r \in Runs |-> Idle]
    /\ calm = FALSE
    /\ began = [w \in Workloads |-> "never"]
    /\ earned = {}
    /\ storeFault = FALSE

-----------------------------------------------------------------------------
(***************************************************************************)
(* The cloud (external).  A report names a workload and a lease token; it  *)
(* takes effect if the token is the current one (the code's comments speak *)
(* of 409 otherwise) and the request arrives.  The daemon ignores or only  *)
(* logs the outcome, so a lost reply is the same as a delivered report.    *)
(***************************************************************************)
HoldsLease(r, w) == cloud[w] = [st |-> "leased", holder |-> r]

Deliver(r, w, st) ==
    \/ /\ HoldsLease(r, w)
       /\ cloud' = [cloud EXCEPT ![w] = [st |-> st, holder |-> None]]
    \/ /\ ~HoldsLease(r, w) \/ ~calm
       /\ UNCHANGED cloud

Complete(r, w) == Deliver(r, w, "done")
Fail(r, w, retryable) == Deliver(r, w, IF retryable THEN "pending" ELSE "dead")
Surrender(r, w) == Deliver(r, w, "pending")

\* Whether the device still keeps the lease of w alive: a heartbeat goroutine
\* is ticking for it, or (in calm times) its run is about to start one.
LeaseKept(w) ==
    \E r \in Runs : /\ HoldsLease(r, w)
                    /\ run[r].w = w
                    /\ run[r].hb = "beating" \/ (calm /\ run[r].hb = "off")

\* The cloud's reclaimer requeues a workload whose lease ran out.
LeaseExpires(w) ==
    /\ cloud[w].st = "leased"
    /\ ~LeaseKept(w)
    /\ cloud' = [cloud EXCEPT ![w] = [st |-> "pending", holder |-> None]]
    /\ UNCHANGED <<jobs, phase, toFail, paused, tick, active, run, calm, ghosts>>

\* From here on no request is lost, no store call fails, no crash happens.
CalmDown ==
    /\ ~calm
    /\ calm' = TRUE
    /\ UNCHANGED <<jobs, cloud, loopVars, active, run, ghosts>>

StoreFails == StoreMayFail /\ ~calm

-----------------------------------------------------------------------------
(***************************************************************************)
(* Boot, crash and restart.                                                *)
(***************************************************************************)

\* main: RecoverOrphaned before anything else runs; its failure is logged.
Boot ==
    /\ phase = "down"
    /\ phase' = "boot"
    /\ RecoverOrphaned \/ (StoreFails /\ UNCHANGED jobs)
    /\ UNCHANGED <<cloud, toFail, paused, tick, active, run, calm, ghosts>>

Running == {w \in Workloads : jobs[w] = "running"}

\* recoverPending, the SELECT: an error ends it, a result is worked through.
RecoverPendingList ==
    /\ phase = "boot"
    /\ \/ /\ toFail' \in PendingRecovery
          /\ phase' = "recover"
          /\ storeFault' = (storeFault \/ toFail' # Running)
       \/ /\ StoreFails
          /\ toFail' = {}
          /\ phase' = "up"
          /\ storeFault' = (storeFault \/ Running # {})
    /\ UNCHANGED <<jobs, cloud, paused, tick, active, run, calm, began, earned>>

\* recoverPending, one iteration of its loop; the write's error is dropped.
RecoverPendingOne(w) ==
    /\ phase = "recover"
    /\ w \in toFail
    /\ toFail' = toFail \ {w}
    /\ \/ UpdateStatus(w, "failed") /\ UNCHANGED storeFault
       \/ StoreFails /\ UNCHANGED jobs /\ storeFault' = TRUE
    /\ UNCHANGED <<cloud, phase, paused, tick, active, run, calm, began, earned>>

\* recoverPending returns and the ticker loop starts.
StartLoop ==
    /\ phase = "recover"
    /\ toFail = {}
    /\ phase' = "up"
    /\ UNCHANGED <<jobs, cloud, toFail, paused, tick, active, run, calm, ghosts>>

\* The process ends, killed or by a signal: main returns without waiting for
\* the goroutines, and their calls fail once the context is cancelled.  The
\* job table and the cloud's view survive.
Crash ==
    /\ phase # "down"
    /\ ~calm
    /\ phase' = "down"
    /\ toFail' = {}
    /\ paused' = FALSE
    /\ tick' = "wait"
    /\ active' = 0
    /\ run' = [r \in Runs |-> Idle]
    /\ began' = [w \in Workloads |->
                    IF began[w] = "never" THEN "never" ELSE "earlierLife"]
    /\ UNCHANGED <<jobs, cloud, calm, earned, storeFault>>

-----------------------------------------------------------------------------
(***************************************************************************)
(* The scheduler loop: one tick reserves a slot, claims, and hands the     *)
(* slot over to a new runOne goroutine or gives it back.                   *)
(***************************************************************************)

\* A mutant: the limit is compared with > instead of >=.
ReserveCheckOffByOne ==
    /\ phase = "up" /\ ~paused /\ tick = "wait"
    /\ active <= MaxConcurrentJobs
    /\ tick' = "probe"
    /\ UNCHANGED <<jobs, cloud, phase, toFail, paused, active, run, calm, ghosts>>

\* The ticker fires and Manager.Reserve reads the counter.  At the limit
\* Reserve fails and the tick is over.
ReserveCheck ==
    /\ phase = "up" /\ ~paused /\ tick = "wait"
    /\ active < MaxConcurrentJobs
    /\ tick' = "probe"
    /\ UNCHANGED <<jobs, cloud, phase, toFail, paused, active, run, calm, ghosts>>

\* Reserve's CPU, RAM and disk probes fail: no slot, next tick.
ProbeRefuses ==
    /\ tick = "probe" /\ ~calm
    /\ tick' = "wait"
    /\ UNCHANGED <<jobs, cloud, phase, toFail, paused, active, run, calm, ghosts>>

\* Reserve increments the counter; it is not one step with the check.
ReserveAdd ==
    /\ tick = "probe"
    /\ tick' = "claim"
    /\ active' = active + 1
    /\ UNCHANGED <<jobs, cloud, phase, toFail, paused, run, calm, ghosts>>

\* Claim answers 200: the cloud leases w to this device.
ClaimWork(w) ==
    /\ tick = "claim"
    /\ cloud[w].st = "pending"
    /\ \E r \in Runs :
          /\ run[r] = Idle
          /\ run' = [run EXCEPT ![r] =
                        [pc |-> "claimed", w |-> w, res |-> "none", hb |-> "off"]]
          /\ cloud' = [cloud EXCEPT ![w] = [st |-> "leased", holder |-> r]]
    /\ tick' = "dispatch"
    /\ UNCHANGED <<jobs, phase, toFail, paused, active, calm, ghosts>>

\* Claim answers 204, or fails without reaching the cloud.
ClaimNothing ==
    /\ tick = "claim"
    /\ ~calm \/ \A w \in Workloads : cloud[w].st # "pending"
    /\ tick' = "return"
    /\ UNCHANGED <<jobs, cloud, phase, toFail, paused, active, run, calm, ghosts>>

\* The cloud leases w, and the answer to Claim is lost: nobody has the token.
ClaimReplyLost(w) ==
    /\ tick = "claim" /\ ~calm
    /\ cloud[w].st = "pending"
    /\ cloud' = [cloud EXCEPT ![w] = [st |-> "leased", holder |-> None]]
    /\ tick' = "return"
    /\ UNCHANGED <<jobs, phase, toFail, paused, active, run, calm, ghosts>>

\* claimWithReauth ends in ErrUnauthorized: the loop parks itself.
ClaimUnauthorized ==
    /\ tick = "claim" /\ ~calm
    /\ paused' = TRUE
    /\ tick' = "return"
    /\ UNCHANGED <<jobs, cloud, phase, toFail, active, run, calm, ghosts>>

\* The deferred slot.Release of an early return.
TickReturn ==
    /\ tick = "return"
    /\ tick' = "wait"
    /\ active' = active - 1
    /\ UNCHANGED <<jobs, cloud, phase, toFail, paused, run, calm, ghosts>>

\* An executor is registered and accepts: go runOne, which owns the slot now.
Spawn(r) ==
    /\ run[r].pc = "claimed" /\ run[r].w \notin Unsupported
    /\ run' = [run EXCEPT ![r].pc = "lookup"]
    /\ tick' = "wait"
    /\ UNCHANGED <<jobs, cloud, phase, toFail, paused, active, calm, ghosts>>

\* No executor, or CanRun refuses: Surrender, then the early return.
Decline(r) ==
    /\ run[r].pc = "claimed" /\ run[r].w \in Unsupported
    /\ Surrender(r, run[r].w)
    /\ run' = [run EXCEPT ![r] = Idle]
    /\ tick' = "return"
    /\ UNCHANGED <<jobs, phase, toFail, paused, active, calm, ghosts>>

-----------------------------------------------------------------------------
(***************************************************************************)
(* runOne, one action per call that reads or writes shared state.          *)
(***************************************************************************)
Goto(r, pc) == run' = [run EXCEPT ![r].pc = pc]

At(r, pc) == run[r].pc = pc

\* A mutant: a failed row is taken over like a running one.
LookupNextRetriesFailed(status) ==
    CASE status = "none"                           -> "create"
      [] status \in {"queued", "running", "failed"} -> "takeover"
      [] status = "succeeded"                      -> "reportDone"
      [] OTHER                                     -> "reportFail"

\* A mutant: a cancelled or failed row is reported as complete.
LookupNextReportsDone(status) ==
    CASE status = "none"                 -> "create"
      [] status \in {"queued", "running"} -> "takeover"
      [] OTHER                           -> "reportDone"

\* The branches of upsertJobForWorkload on the row it has read.
LookupNext(status) ==
    CASE status = "none"                 -> "create"
      [] status \in {"queued", "running"} -> "takeover"
      [] status = "succeeded"            -> "reportDone"
      [] OTHER                           -> "reportFail"

Lookup(r) ==
    /\ At(r, "lookup")
    /\ \/ Goto(r, LookupNext(GetByWorkloadID(run[r].w)))
       \/ StoreFails /\ Goto(r, "surrender")
    /\ UNCHANGED <<jobs, cloud, loopVars, active, calm, ghosts>>

\* CreateJob fails on a store error, and on a row that another run of the
\* same workload inserted since the lookup.
InsertRow(r) ==
    /\ At(r, "create")
    /\ \/ CreateJob(run[r].w) /\ Goto(r, "setRunning")
       \/ /\ jobs[run[r].w] # "none" \/ StoreFails
          /\ UNCHANGED jobs /\ Goto(r, "surrender")
    /\ UNCHANGED <<cloud, loopVars, active, calm, ghosts>>

\* UpdateLease on the row of an earlier run.
TakeOver(r) ==
    /\ At(r, "takeover")
    /\ UpdateLease(run[r].w)
    /\ \/ Goto(r, "setRunning")
       \/ StoreFails /\ Goto(r, "surrender")
    /\ UNCHANGED <<cloud, loopVars, active, calm, ghosts>>

\* The reports that end a run before it executed anything.
SurrenderStoreError(r) ==
    /\ At(r, "surrender")
    /\ Surrender(r, run[r].w)
    /\ Goto(r, "return")
    /\ UNCHANGED <<jobs, loopVars, active, calm, ghosts>>

ReportAlreadySucceeded(r) ==
    /\ At(r, "reportDone")
    /\ Complete(r, run[r].w)
    /\ Goto(r, "return")
    /\ UNCHANGED <<jobs, loopVars, active, calm, ghosts>>

\* A mutant: the terminal row is reported with retryable = true.
ReportAlreadyTerminalRetryable(r) ==
    /\ At(r, "reportFail")
    /\ Fail(r, run[r].w, TRUE)
    /\ Goto(r, "return")
    /\ UNCHANGED <<jobs, loopVars, active, calm, ghosts>>

ReportAlreadyTerminal(r) ==
    /\ At(r, "reportFail")
    /\ Fail(r, run[r].w, FALSE)
    /\ Goto(r, "return")
    /\ UNCHANGED <<jobs, loopVars, active, calm, ghosts>>

\* A mutant: the row is never moved to running.
SetRunningSkipped(r) ==
    /\ At(r, "setRunning")
    /\ Goto(r, "handle")
    /\ UNCHANGED <<jobs, cloud, loopVars, active, calm, ghosts>>

\* UpdateStatus(running), its error dropped, and StartAttempt.
SetRunning(r) ==
    /\ At(r, "setRunning")
    /\ Goto(r, "handle")
    /\ \/ UpdateStatus(run[r].w, "running") /\ UNCHANGED storeFault
       \/ StoreFails /\ UNCHANGED jobs /\ storeFault' = TRUE
    /\ UNCHANGED <<cloud, loopVars, active, calm, began, earned>>

\* StartHeartbeat, then NewJobHandle: Execute begins, or the job directory
\* cannot be made and the run goes straight to its report.
OpenHandle(r) ==
    /\ At(r, "handle")
    /\ \/ /\ run' = [run EXCEPT ![r] = [@ EXCEPT !.pc = "execute", !.hb = "beating"]]
          /\ began' = [began EXCEPT ![run[r].w] = "thisLife"]
       \/ /\ ~calm
          /\ run' = [run EXCEPT ![r] = [@ EXCEPT !.pc = "report", !.hb = "beating",
                                             !.res = "handleErr"]]
          /\ UNCHANGED began
    /\ UNCHANGED <<jobs, cloud, loopVars, active, calm, earned, storeFault>>

\* The heartbeat request fails (a lost request, or 409): OnLost logs and the
\* heartbeat goroutine ends.  The run is not told.
HeartbeatFails(r) ==
    /\ run[r].hb = "beating"
    /\ ~calm \/ ~HoldsLease(r, run[r].w)
    /\ run' = [run EXCEPT ![r].hb = "lost"]
    /\ UNCHANGED <<jobs, cloud, loopVars, active, calm, ghosts>>

\* exec.Execute returns nil or an error (the executor is a component of its own).
ExecuteReturns(r) ==
    /\ At(r, "execute")
    /\ \/ /\ run' = [run EXCEPT ![r] = [@ EXCEPT !.pc = "report", !.res = "ok"]]
          /\ earned' = earned \cup {run[r].w}
       \/ /\ run' = [run EXCEPT ![r] = [@ EXCEPT !.pc = "report", !.res = "err"]]
          /\ UNCHANGED earned
    /\ UNCHANGED <<jobs, cloud, loopVars, active, calm, began, storeFault>>

\* Complete after a nil result, Fail(retryable) after an error (the context
\* is live in this phase), Fail(not retryable) without a job directory.
Report(r) ==
    /\ At(r, "report")
    /\ \/ run[r].res = "ok" /\ Complete(r, run[r].w)
       \/ run[r].res = "err" /\ Fail(r, run[r].w, TRUE)
       \/ run[r].res = "handleErr" /\ Fail(r, run[r].w, FALSE)
    /\ Goto(r, "setStatus")
    /\ UNCHANGED <<jobs, loopVars, active, calm, ghosts>>

\* A mutant: the status is left alone when the run failed.
SetStatusOnlyOk(r) ==
    /\ At(r, "setStatus")
    /\ Goto(r, "return")
    /\ IF run[r].res = "ok" THEN UpdateStatus(run[r].w, "succeeded") ELSE UNCHANGED jobs
    /\ UNCHANGED <<cloud, loopVars, active, calm, ghosts>>

\* The terminal UpdateStatus, its error dropped, whatever the row says now.
SetStatus(r) ==
    /\ At(r, "setStatus")
    /\ Goto(r, "return")
    /\ \/ /\ UpdateStatus(run[r].w, IF run[r].res = "ok" THEN "succeeded" ELSE "failed")
          /\ UNCHANGED storeFault
       \/ StoreFails /\ UNCHANGED jobs /\ storeFault' = TRUE
    /\ UNCHANGED <<cloud, loopVars, active, calm, began, earned>>

\* A mutant: a second Release of the slot is not ignored.
ReleaseTwice(r) ==
    /\ At(r, "return")
    /\ run' = [run EXCEPT ![r] = Idle]
    /\ active' = active - 2
    /\ UNCHANGED <<jobs, cloud, loopVars, calm, ghosts>>

\* A mutant: a heartbeat goroutine that ended on an error never closes done,
\* and Stop waits for it.
ReleaseWaitsForHeartbeat(r) ==
    /\ At(r, "return") /\ run[r].hb # "lost"
    /\ run' = [run EXCEPT ![r] = Idle]
    /\ active' = active - 1
    /\ UNCHANGED <<jobs, cloud, loopVars, calm, ghosts>>

\* FinishAttempt and the deferred calls: Cleanup, heartbeat.Stop, slot.Release.
Release(r) ==
    /\ At(r, "return")
    /\ run' = [run EXCEPT ![r] = Idle]
    /\ active' = active - 1
    /\ UNCHANGED <<jobs, cloud, loopVars, calm, ghosts>>

-----------------------------------------------------------------------------
(***************************************************************************)
(* IPC handlers; the server is up as soon as the loop goroutine is.        *)
(***************************************************************************)
ServingIPC == phase \in {"boot", "recover", "up"}

\* POST /v1/jobs/{id}/cancel
CancelJob(w) ==
    /\ ServingIPC
    /\ Cancel(w)
    /\ UNCHANGED <<cloud, loopVars, active, run, calm, ghosts>>

\* The sweep of POST /v1/unpair (the handler as a whole is in module Identity).
UnpairSweep ==
    /\ ServingIPC
    /\ \E w \in Workloads : jobs[w] \in {"queued", "running"}
    /\ SweepActiveToFailed
    /\ UNCHANGED <<cloud, loopVars, active, run, calm, ghosts>>

Pause ==
    /\ ServingIPC /\ ~paused
    /\ paused' = TRUE
    /\ UNCHANGED <<jobs, cloud, phase, toFail, tick, active, run, calm, ghosts>>

Resume ==
    /\ ServingIPC /\ paused
    /\ paused' = FALSE
    /\ UNCHANGED <<jobs, cloud, phase, toFail, tick, active, run, calm, ghosts>>

-----------------------------------------------------------------------------
BootStep == Boot \/ RecoverPendingList \/ (\E w \in Workloads : RecoverPendingOne(w)) \/ StartLoop

LoopStep ==
    \/ ReserveCheck \/ ProbeRefuses \/ ReserveAdd \/ TickReturn
    \/ ClaimNothing \/ ClaimUnauthorized
    \/ \E w \in Workloads : ClaimWork(w) \/ ClaimReplyLost(w)
    \/ \E r \in Runs : Spawn(r) \/ Decline(r)

RunStep(r) ==
    \/ Lookup(r) \/ InsertRow(r) \/ TakeOver(r)
    \/ SurrenderStoreError(r) \/ ReportAlreadySucceeded(r) \/ ReportAlreadyTerminal(r)
    \/ SetRunning(r) \/ OpenHandle(r) \/ ExecuteReturns(r)
    \/ Report(r) \/ SetStatus(r) \/ Release(r)

IPCStep == (\E w \in Workloads : CancelJob(w)) \/ UnpairSweep \/ Pause \/ Resume

EnvStep == Crash \/ CalmDown \/ (\E w \in Workloads : LeaseExpires(w))

Next ==
    \/ BootStep
    \/ LoopStep
    \/ \E r \in Runs : RunStep(r) \/ HeartbeatFails(r)
    \/ IPCStep
    \/ EnvStep

Spec == Init /\ [][Next]_vars

-----------------------------------------------------------------------------
(***************************************************************************)
(* Safety.                                                                 *)
(***************************************************************************)

\* Slots (resources/manager.go Reserve and Release, scheduler.go tick): the
\* counter equals the number of slots really held, by a goroutine or by the
\* loop itself, so no path of tick or runOne leaks one or gives one back
\* twice, and it never exceeds MaxConcurrentJobs although Reserve checks and
\* increments in two steps.
SlotHolders == {r \in Runs : run[r] # Idle}
LoopSlot == IF tick \in {"claim", "return"} THEN 1 ELSE 0

SlotAccounting ==
    /\ active = Cardinality(SlotHolders) + LoopSlot
    /\ active <= MaxConcurrentJobs

\* The labels from which a run still writes the terminal status of its row,
\* and those from which it may write the row at all.
OwnerLabels == {"handle", "execute", "report", "setStatus"}
WriterLabels == OwnerLabels \cup {"takeover", "setRunning"}

\* No orphans (recovery.go RecoverOrphaned, scheduler.go recoverPending and
\* runOne): once the loop runs, a row in status running has a live goroutine
\* that will still write its final status, whatever crashes, takeovers,
\* cancels and sweeps came before, unless a store write was lost.
RunningHasOwner ==
    (phase = "up" /\ ~storeFault) =>
        \A w \in Workloads :
            jobs[w] = "running" => \E r \in Runs : run[r].w = w /\ run[r].pc \in OwnerLabels

\* Success is earned (scheduler.go upsertJobForWorkload and runOne): the cloud
\* holds a workload for completed, and the local row for succeeded, only if
\* Execute returned nil for it, also when the completion is reported by a
\* later run, in a later daemon life, from the local row alone.
SuccessIsEarned ==
    \A w \in Workloads : (jobs[w] = "succeeded" \/ cloud[w].st = "done") => w \in earned

\* No second execution after a restart (recovery.go "We do NOT requeue: a
\* resumed job would re-run ffmpeg + re-upload and double-bill the cloud"):
\* a workload on which Execute began in an earlier daemon life is not executed
\* again on this device, however often the cloud re-issues it, unless a store
\* write was lost.
NoReexecutionAfterRestart ==
    [][\A w \in Workloads :
          (began[w] = "earlierLife" /\ began'[w] = "thisLife") => storeFault]_vars

\* A row that is terminal, with no goroutine left that read it earlier (a run
\* past its lookup, or recoverPending's list), never changes again: a later
\* claim, in this life or another, does not bring it back (store.go IsTerminal
\* "no further transitions allowed", scheduler.go "Don't loop locally").
Quiescent(w) ==
    /\ IsTerminal(jobs[w])
    /\ w \notin toFail
    /\ \A r \in Runs : run[r].w = w => run[r].pc \notin WriterLabels

QuiescentTerminalIsFinal ==
    [][\A w \in Workloads : Quiescent(w) => jobs'[w] = jobs[w] /\ Quiescent(w)']_vars

\* What scheduler.go's "Crash recovery - daemon restarted while job was active"
\* says of a takeover: the row's earlier run died with its process, so one job
\* is never executed by two goroutines at once.  The code does not keep it.
OneExecutorPerJob ==
    \A r1, r2 \in Runs :
        (At(r1, "execute") /\ At(r2, "execute") /\ run[r1].w = run[r2].w) => r1 = r2

-----------------------------------------------------------------------------
(***************************************************************************)
(* The strengthenings that make the invariants above inductive             *)
(* (module SchedulerProofs).                                               *)
(***************************************************************************)

\* Nothing runs outside phase "up"; one claimed workload at a time, and only
\* while the loop dispatches it; a slot is free while Reserve probes.
LoopInv ==
    /\ phase # "up" => tick = "wait" /\ \A r \in Runs : run[r] = Idle
    /\ \A r \in Runs : At(r, "claimed") => tick = "dispatch"
    /\ \A r1, r2 \in Runs : At(r1, "claimed") /\ At(r2, "claimed") => r1 = r2

SlotInv ==
    /\ SlotAccounting
    /\ tick = "probe" => active < MaxConcurrentJobs

\* A run that is going to report or record success has earned it.
EarnedInv ==
    /\ SuccessIsEarned
    /\ \A r \in Runs : run[r].res = "ok" \/ At(r, "reportDone") => run[r].w \in earned

\* While recoverPending works, what is still running is on its list.
OwnerInv ==
    /\ RunningHasOwner
    /\ (phase = "recover" /\ ~storeFault) => Running \subseteq toFail

\* Once executed, a row is never queued again; from the next life on it is
\* terminal and no run that could write it gets past its lookup.
BegunInv ==
    ~storeFault =>
        /\ \A w \in Workloads : began[w] # "never" => jobs[w] \notin {"none", "queued"}
        /\ \A r \in Runs : run[r].pc \in OwnerLabels => jobs[run[r].w] \notin {"none", "queued"}
        /\ \A w \in Workloads :
              (began[w] = "earlierLife" /\ phase = "up") =>
                  /\ IsTerminal(jobs[w])
                  /\ \A r \in Runs : run[r].w = w => run[r].pc \notin WriterLabels

-----------------------------------------------------------------------------
(***************************************************************************)
(* Liveness.  Every goroutine is scheduled, Execute returns, and the       *)
(* process is started again; the environment becomes calm at some point.   *)
(***************************************************************************)
Fairness ==
    /\ WF_vars(BootStep)
    /\ WF_vars(LoopStep)
    /\ \A w \in Workloads : SF_vars(ClaimWork(w)) /\ WF_vars(LeaseExpires(w))
    /\ \A r \in Runs : WF_vars(RunStep(r)) /\ WF_vars(Spawn(r) \/ Decline(r))

FairSpec == Spec /\ Fairness

\* The device stops re-executing (scheduler.go upsertJobForWorkload,
\* "historically that fell through to UNIQUE conflict -> surrender -> cloud
\* requeue -> infinite loop"): once failures stop and the loop is not paused,
\* every workload the device can run ends up completed or failed for good at
\* the cloud, whatever the local table and the leases looked like by then,
\* provided that Execute does not return an error for ever.
Settled(w) == cloud[w].st \in {"done", "dead"}
SomeRunFailed == \E r \in Runs : run[r].res = "err"

WorkloadsSettle ==
    (<>[](calm /\ ~paused /\ ~SomeRunFailed)) =>
        \A w \in Workloads \ Unsupported : <>[]Settled(w)

\* The same without the proviso, as the comment on upsertJobForWorkload has it
\* ("existing row in failed/cancelled: terminal locally.  Report Fail
\* (retryable=false) so cloud stops re-issuing this workload to us").  The
\* code does not keep it.
FailedWorkloadsSettle ==
    (<>[](calm /\ ~paused)) => \A w \in Workloads \ Unsupported : <>[]Settled(w)

\* Every slot comes back: a goroutine that was started ends, and with it the
\* claim on its slot (or the process does).
RunsEnd == \A r \in Runs : run[r] # Idle ~> run[r] = Idle

=============================================================================
