# A TLA+ model of engine-toold

`engine-toold` is a Go daemon that claims workloads (FFmpeg jobs) from the Astery
cloud, executes them on the user's machine and reports the result. This directory
holds TLA+ modules translated from its source, TLC configurations that check them
on small instances, and proofs checked by TLAPS. Paths below are relative to the
repository; the line of the code behind every definition is in `PROJECT.json`
("map"), and the hazards that the properties are for are listed there too.

## 1. The system

| part | state | operations | talks to |
|---|---|---|---|
| Scheduler loop (`internal/runtime/scheduler.go`) | `paused`, `reauthRequired` | 5 s tick: reserve a slot, claim, dispatch or surrender; boot recovery | resource manager, cloud, job table |
| runOne goroutines (same file) | claimed workload, lease token, row id | look up or insert the row, take over, set running, heartbeat, execute, report, set the final status | job table, cloud, executor |
| Resource manager (`internal/runtime/resources`) | `active` | Reserve (check, probes, increment), Release | loop, runs |
| Job table (`internal/jobqueue`) | SQLite: `jobs`, `job_events`, `job_attempts` | create, look up, update status or lease, cancel, sweeps | loop, runs, IPC, boot |
| Cloud client and heartbeat (`internal/sync`) | one heartbeat goroutine per run | claim, heartbeat, complete, fail, surrender, progress, presign, record outputs | cloud, token source |
| Token source, keystore (`internal/auth`) | cached bundle and mutex; stored bundle | BearerToken, Invalidate, ForceRefresh, Set; exchange, refresh, unpair | cloud, all callers |
| IPC server (`internal/ipc`) | none of its own | pause, resume, cancel, pair, unpair, log stream, and views | all of the above |
| Log hub (`internal/observability`) | ring of 256 events, subscribers with channels of 64 | publish, Subscribe (replay), cancel | every goroutine that logs |
| Executors (`internal/executors`) | the encoder, probed once per process | Execute: download, ffmpeg per clip, output, resumable state | job handle, ffmpeg |
| Job handle, upload (`runtime/jobhandle.go`, `internal/upload`) | work directory `job-<id>` | AddOutput: copy, presign, checksum, PUT, record; save and load resumable state; Cleanup | cloud, job table |
| main (`cmd/engine-toold`) | the process, `ipc.port` | boot order, `-pair`, shutdown, UI child | everything |
| Tauri shell (`tauri-app/src-tauri`) | `SPAWNED`, `CHILD` | spawn or attach (at setup and on the Start button), kill on close; also ended by a crash or by the updater's relaunch | daemon process, `ipc.port` |
| UI (`tauri-app/src`) | page state, cached port, log stream handle | probe, Retry, Start; stream with backoff and Reconnect; pairing form, dashboard, update and relaunch | IPC server, shell |

Goroutines share the job table (one write mutex, no transaction over a read and
the write that follows from it), the slot counter (atomics), the token source (one
mutex, held over a network round trip) and the log hub (one mutex, released before
the channels are used). The cloud is a second writer of the truth: it leases a
workload to the device, reclaims it when the lease runs out and issues it again,
possibly to the same device. The process may be killed at any point; the job table
and the keystore survive.

What is hard here, and which property is about it:

* overlap of two runs of one workload, after a lost heartbeat, a lost report or a
  retryable failure (`SuccessIsEarned`, `QuiescentTerminalIsFinal`,
  `OneExecutorPerJob`, `FailedWorkloadsSettle`);
* a crash between two writes, and the two boot sweeps (`RunningHasOwner`,
  `NoReexecutionAfterRestart`);
* slots on every early return (`SlotAccounting`, `RunsEnd`);
* a rotating refresh token shared by all goroutines, cached in memory, stored on
  disk, and written by pair and unpair past the cache (`KeystoreIsCurrent`,
  `RefreshTokenUsedOnce`, `RepairPickedUp`, `UnpairedUntilPaired`, `CallsEnd`);
* a fan-out that uses the subscriber list after the unlock (`NoEventSlips`,
  `NoEventTwice`, `HistoryInOrder`, `PublishReturns`, `ClosingSubscriberSkipped`);
* executions of one job that share a work directory, `resumable_state`, storage keys
  and the encoder probe, and end, fail or die at any call (`ResumableIsRecorded`,
  `NilMeansAllRecorded`, `RecordedIsStored`, `UndisturbedOutputsAreGood`,
  `WorkDirIsReaped`, `EncoderIsKnown`, `ExecutionsEnd`);
* a child process that two callers may spawn, a port file that outlives its daemon
  and a port that is cached for ever (`NoSecondChild`, `ChildIsHeld`,
  `PageComesUp`, `CachedPortIsSafe`);
* a reconnecting stream whose callbacks, timer and buttons come in any order
  (`OneConnection`, `LeftPagesAreQuiet`, `BackoffEnds`).

## 2. The modules

### JobStore

`jobs[w]` is the status of the row of workload `w` (`workload_id` is UNIQUE), or
`"none"`. Lease columns are written and only shown, so `UpdateLease` changes
nothing here. Every operation holds `Store.wmu` or is one SELECT, so it is one
step. `PendingRecovery` is the set of answers its `LIMIT` allows.

### Scheduler (EXTENDS JobStore)

One daemon, its restarts, and the cloud's side of the lease protocol.

* `tick` is the place of the loop inside `Scheduler.tick`; `run[r]` is a `runOne`
  goroutine with its place (`pc`), workload, outcome and heartbeat. There is one
  action for each call that reads or writes shared state: `Lookup`, `InsertRow`,
  `TakeOver`, `SetRunning`, `OpenHandle`, `ExecuteReturns`, `Report`, `SetStatus`,
  `Release`. `StartAttempt`, `FinishAttempt` and events are records nobody decides
  on and belong to the action beside them.
* `Reserve` is two steps (`ReserveCheck`, `ReserveAdd`) with the CPU, RAM and disk
  probes as a choice between them. A `Slot`'s `released` flag is not a variable:
  each path of the model releases once, and `SlotAccounting` compares the counter
  with the holders.
* `cloud[w]` is external: `pending`, `leased` to the token of a run (or to nobody,
  if the answer to the claim was lost), `done` or `dead`. A report takes effect if
  its token is the current one. It may be lost, and since the daemon ignores the
  answer, a lost answer is the same as a delivered report. A retryable failure and a surrender make
  the workload pending again, a failure that is not retryable ends it. A request
  that arrives long after its timeout is not modelled.
* `LeaseExpires` may happen whenever no heartbeat keeps the lease; in calm times a
  run that is about to start its heartbeat is in time. `HeartbeatFails` ends the
  heartbeat goroutine at the first error, as the code does, and the run goes on.
* `Boot` is `RecoverOrphaned`; then `recoverPending` (`RecoverPendingList`,
  `RecoverPendingOne`, `StartLoop`) runs while the IPC server is already serving.
  `Crash` covers a kill and a SIGTERM: main returns without waiting for the
  goroutines, and with a cancelled context their last calls fail.
* `StoreMayFail` lets each SQLite call fail, with the code's handling: surrender in
  `upsertJobForWorkload`, nothing elsewhere. `storeFault` remembers that a status
  write or the recovery was lost; the guarantees about rows are stated up to that.
* `calm`, `began`, `earned` and `storeFault` are not in the program: `calm` stops
  failures for the liveness properties, the others are history.

### Identity

A bundle is the pairing it belongs to and the generation of its refresh token;
`aged` holds the bundles whose session is in the refresh window or expired.
`cached` and `lock` are `TokenSource`; `keystore` is the stored bundle (one atomic
store: the keyring or the file). `call[c]` is a goroutine in a cloud call; the
loop's goes through `claimWithReauth` (`try` counts its claims, `Invalidate` and
`ForceRefresh` come between them), the others make one request. `RefreshAnswered`
and `SaveRotated` are separate because the cloud has rotated the token by then. The
pair handler, the `-pair` command (another process, which survives a restart of the
daemon and does not look whether the device is paired) and the unpair handler write
`keystore` and leave `cached` alone. The cloud's device row is external: one row
for the installation, replaced by an exchange, deleted by unpair or revocation;
only its newest refresh token is good.

### LogHub

`published` numbers the events; `ring`, `head`, `full`, `subs` are the fields of
`hub`. What happens under `hub.mu` is one step, and each of the three selects after
the unlock is one step per publisher and subscriber, in `publish` and in the replay
of `Subscribe`. `cancel` is three steps (delete, closed flag, close). A send on a
closed channel sets `panicked`: publishers are the daemon's own goroutines, and
only HTTP handlers are shielded by a recover. `got`, `joined` and `dropped` are
history.

### JobLifecycle and SchedulerRefinement

`JobLifecycle` is what the daemon promises of a workload without slots, leases,
phases and requests: the row's status, the workers that have read the row and may
still write it, the workloads whose execution succeeded, and the cloud's verdict.
Its one rule on joining is that nobody starts from a terminal row; a worker that
joined earlier may still overwrite one, which is what the code does.
`SchedulerRefinement` maps Scheduler to it: a worker is a `runOne` goroutine at a
label from which it writes, or `recoverPending` with the row on its list.
`ImplementsLifecycle` is checked in `sched_overlap` and proved.

### Execution

The executions of one job, for both executors, which have the same skeleton:
prepare, produce a file with ffmpeg, `AddOutput`, record, save. `run[r].pc` has one
label per call that touches a file, the store, the cloud or the encoder, and each of
them may fail. What Scheduler shows about runs is the context: a run may start while
another is at work (`Start` after a lease was re-issued), after a run that failed, and
after a crash whose boot sweeps were lost.

* A file is its content: `part`, `bad` or `good`. Creating a file under a writer
  leaves that writer without it (`owns`), and cutting from a partial master may fail
  or give a `bad` clip that looks complete. An unlinked file stays readable for who
  has it open (`fd`).
* `CreateMaster`/`CopyMaster`: the download truncates, then fills; a failed one
  leaves the part behind, which `StatMaster` of a later clip-video run takes for the
  master. extract-audio always downloads and removes its files when it returns.
* `LoadResumableState` and `SaveResumableState` may fail, and `Execute` ignores both
  errors.
* `AddOutput` is eight steps, `OutCreate` to `Save`: Stat, checksum and PUT see the
  file at three moments. `holder` is the run whose lease token the cloud takes.
* `Unlink` removes files under whoever uses them. `Return` is extract-audio's two
  `os.Remove`, each of which may fail; `Cleanup` is the deferred `RemoveAll`, whose error
  `jobhandle.go:98` drops: then the directory stays, with any of its files.
* `shared` and `leftover` are history: two runs had the directory at once; a crash or a
  `RemoveAll` that failed left it behind. Outputs are promised to be right without either,
  and without either the directory is reaped. `RecordedIsStored`, `ResumableIsRecorded`
  and `NilMeansAllRecorded` are promised with both.
* `encOnce` is `new`, `busy`, `done`; `EnterOnce`, `SelectEncoder` and `PassOnce` are
  its three sides. A crash resets it.

### Shell and Desktop (Desktop EXTENDS Shell)

`Shell` has daemons as processes: a daemon's port is its number, `portFile` the one
last written. `spawn_daemon_once` is five steps (`CheckSpawned`, `CheckAlive`,
`Spawn`, `StoreChild`, `MarkSpawned`) with two callers, the setup thread and the
command behind the Start button. The page's `probe()` reads the port (`GetPort`) and
fetches (`Fetch`); at most one probe of each kind is under way. The shell ends in two ways.
`CloseWindow` calls `shutdown_child`, whose kill may fail, and `Exit` follows; calls that
are still under way go on until then. `Relaunch` is every end without `CloseRequested`, a
crash, a kill, or the updater's `relaunch()`: nothing is killed, and a `Launch` finds the
daemon that went on. `overlapped`, `killFailed` and `children` are history.

`Desktop` adds the Logs page: `handle[h]` has the variables that `openLogStream`
closes over, `live[h]` the EventSources that are not closed, assigned or not.
`connect` is two steps, because it awaits the token and the port between them. When
the shell or the probe takes the page away, `PagesFollow` unmounts it.

`MCScheduler`, `MCIdentity`, `MCLogHub`, `MCExecution` and `MCDesktop` instantiate
them for TLC; `SchedulerProofs`, `SchedulerRefinementProofs`, `IdentityProofs`,
`LogHubProofs`, `ExecutionProofs`, `ShellProofs` and `DesktopProofs` hold the theorems.
Definitions marked "A mutant" are altered forms of the definition that follows
them; no specification uses them, they show that a property can fail.

## 3. The runs

| run | instance | distinct states | checks |
|---|---|---|---|
| sched_overlap | 1 job + 1 workload no executor takes, 2 runs, 2 slots, store errors, symmetric runs | 567,724 | `TypeOK`, `SlotAccounting`, `RunningHasOwner`, `SuccessIsEarned`, `NoReexecutionAfterRestart`, `QuiescentTerminalIsFinal`, `ImplementsLifecycle` |
| sched_live | 1 job, 2 runs, fair | 83,884 | `WorkloadsSettle`, `RunsEnd` |
| loghub | 2 publishers, 1 subscriber, ring 2, channel 2, 5 events, fair | 257,046 | `TypeOK`, `RingHoldsNewest`, `NoEventSlips`, `NoEventTwice`, `HistoryInOrder`, `PublishReturns` |
| identity | loop + 1 other caller, IPC and `-pair`, 2 pairings, 1 rotation each | 1,947,632 | `TypeOK`, `KeystoreIsCurrent`, `RefreshTokenUsedOnce` |
| identity_live | loop alone, IPC pairing, 2 pairings, 1 rotation each, fair | 43,476 | `CallsEnd`, `RepairPickedUp` |
| execution | 2 runs, 2 clips or 1 audio file, crashes, failing removals, fair | 320,932 | `TypeOK`, `ResumableIsRecorded`, `NilMeansAllRecorded`, `RecordedIsStored`, `UndisturbedOutputsAreGood`, `WorkDirIsReaped`, `EncoderIsKnown`, `ExecutionsEnd` |
| desktop | 2 daemons, 1 log stream, 1 retry, 2 EventSources, fair | 331,602 | `TypeOK`, `NoSecondChild`, `ChildIsHeld`, `OneConnection`, `LeftPagesAreQuiet`, `PageComesUp`, `BackoffEnds` |

Five further runs expect a violation, and say where the code departs from its
comments (section 6).

**Bounds.** The scheduler's state is finite as it stands; nothing counts up except
`active`, which the limit bounds. Two runs of one job are the smallest instance in
which a takeover meets a live run; the code's default limit is two slots as well.
Only one workload of an instance can have a row, so no limit cuts `PendingRecovery`'s list
in a run; the theorems cover every number of rows and every limit. `MaxEvents` is 5 so that a ring of 2 wraps twice, which is also more than
ring and channel hold together. `MaxPairings` 2 gives an old and a new pairing, `MaxRotations` 1 a
stale and a current token of each; a refresh past the bound fails like an
unreachable cloud. Two clips are the least with a finished and an unfinished one, two
runs the least that overlap; in `execution` a run is used once, so the instance holds
every pair of executions of a job. `Removals` bounds what a failing `RemoveAll` has removed:
the master or not, the clips and their copies or not. `MaxDaemons` 2 gives a daemon of an earlier launch
(or one started by hand) and a spawned one, or two spawned ones; a spawn past it
fails. `MaxAttempts` is 1 where `BACKOFF_MS` has 10, `MaxStreams` 2 so that a second
EventSource beside the assigned one can exist. The theorems hold for every value of
their modules' constants.

**Deadlock** is checked in the scheduler's runs and in `identity`. It is off in
`loghub` and `MCLogHub_ClosingSubscriberSkipped`, where the model stops when the
events are used up or the process has panicked, and in `identity_live`, where a
parked loop in calm times has nothing left to do. It is off in `execution`, whose runs
are used once, and in `desktop`, where an application that is up may just stay so.

**Fairness.** *Scheduler*: weak fairness of the boot steps (the process is started
again), of the loop and of every run (goroutines are scheduled, `Execute` returns,
each HTTP call has a timeout), of `LeaseExpires` (the cloud's reclaimer); strong
fairness of `ClaimWork(w)`: a workload that is again and again offered is
eventually the one claimed. Crashes, lost messages and probe refusals are not fair
and simply stop at some point (`calm`, which `WorkloadsSettle` assumes, together
with the loop not being paused). *LogHub*: publishers are scheduled; subscribers
owe nothing, so `PublishReturns` holds although nobody reads. *Identity*: every
call makes progress (30 s HTTP timeout), and strong fairness of taking the mutex,
because a Go mutex hands itself to a starving waiter. *Execution*: every run makes
progress (downloads and uploads time out after 30 minutes, cloud calls and probes
earlier; ffmpeg ends). *Desktop*: processes and callbacks are scheduled and requests
end; strong fairness of `StartDaemon` is the user who keeps pressing Start, the premise
of `PageComesUp`, which also assumes `calm` and that nothing stale is cached.

**Mutants.** For each property of a passing run `PROJECT.json` names an altered
definition (a dropped status write, an off-by-one in the slot check, a refresh
without the mutex, a registration after the snapshot's lock...) under which TLC
finds that property violated.

## 4. What is proved

All theorems hold for every set of workloads, runs, callers, and all limits, under
the named assumptions of the modules: limits are natural numbers (`RingSize` not
zero), `None` is not one of the values, the set of runs is finite and has at least
`MaxConcurrentJobs` members (a goroutine can always be started).

**SchedulerProofs**

* `TypeCorrect` and `SlotsAccounted` are proved together (`TypesAndSlots`): that
  `active` stays a natural number needs that whoever releases holds a slot, and
  that needs the count. The invariant is `TypeOK /\ LoopInv /\ SlotInv`: `LoopInv`
  says that at most one claimed workload waits and only while the loop dispatches
  it, `SlotInv` that a slot is free while `Reserve` probes, which holds because the
  loop is the only one to reserve: that is what makes the two-step `Reserve` safe.
* `SuccessEarned`: `EarnedInv` adds that a run that will report or record success
  has seen it earned.
* `NoOrphans`: `OwnerInv` adds that during recovery all running rows are on
  `recoverPending`'s list. A takeover's `SetRunning` makes the taker an owner; a
  run's own `SetStatus` makes the row terminal for all runs.
* `NoReexecution`: `BegunInv` adds that an executed row is never `none` or `queued`
  again, so that a crash leaves it `running` or terminal, and that in a later life
  it is terminal before any run looks it up.
* `QuiescentFinal`: a step lemma; a run that looks a terminal row up later never
  reaches a label that writes.

**SchedulerRefinementProofs**: `SchedulerImplementsLifecycle`. The initial states map,
and each action of Scheduler is shown to be a step of `JobLifecycle` or a stutter
under the mapping: moving a run changes the workers of its own workload alone. Two
facts come from invariants: success is written only if earned (`EarnedInv` of
SchedulerProofs), and the cloud is told to give up only on workloads with a row
(`SeenInv`, proved as `SeenBeforeWritten`).

**ExecutionProofs**

* `TypeCorrect`: besides the types, `OpenInv` says that what a run has open can be
  read, which `Read`'s range needs.
* `ResumableRecorded` and `NilAllRecorded` come from `DoneInv`: every index a run has
  done, and the one it is about to save, is in the manifest. Both are about any number
  of overlapping runs, because the manifest only grows.
* `RecordedStored`: `StoredInv` adds that a run that is about to record has something under
  its key. `Put` puts something there because of `OpenInv`: what a run has open stays
  readable, whoever unlinks it (lemma `Unlinks`).
* `WorkDirReaped`: a run that leaves the labels with a handle does so by `Cleanup`
  (lemma `Places`), after a success or a failure; `Cleanup` removes the directory or sets
  `leftover`, and nothing but `OpenHandle` makes the directory.
* `EncoderKnown`: `ProbeInv` says that a clip-video run past the probe has seen
  `encOnce` done, and that done means an encoder is set.
* `OutputsGood`: `AloneInv`. While no directory has been shared or left over, at most
  one run has a handle, it knows what is in every file it is about to read (`Knows`,
  label by label), and a workload without a handle has no directory (`Fresh`), which is
  what the next run starts from.

**IdentityProofs**: `TypeCorrect`, `KeystoreCurrent`, `UsedOnce`. The invariant is
`LockInv` (the mutex is held from the refresh request to the save, and the token in
flight is the cached one), `PairInv` (a pairing that is being saved is known to its
handler alone), and `CurrentInv` (of the registered pairing the cache has the newest
token, and the keystore has it or is about to). `KeystoreIsCurrent` alone is not
inductive: the save writes what is cached.

**LogHubProofs**

* `RingNewest`: `RingInv` gives the content of every slot before and after the ring
  has filled; the step lemma `WrapAround` is the modular arithmetic of `head`, and
  `SnapshotOrder` reads the two halves in order.
* `TypeCorrect` (with the length of the ring and the range of `head`), `NothingSlips`, `NothingTwice`, `HistoryOrdered`, for any number of publishers and
  subscribers, come from one invariant (`HubCorrect`). `NoEventTwice` is not inductive:
  it says nothing of two publishers with one event, nor of an event that is in nobody's
  hands yet. `PublisherInv` says that no two publishers are busy with one event, that
  each event in hand has been counted, and that a subscriber is on a publisher's list
  once. `SubscriberInv` says of each subscriber that what it received, its channel, its
  replay and what publishers still have for it have nothing in common (`Apart`), that
  none of it is newer than `published`, which is why a new event is new to everybody,
  and that until cancel it is registered and no event is missing. For the order of the
  history it adds `InOrder`: of the events the subscriber joined after, what is closer to
  the client is older, and what publishers still have is newer than all of them, so their
  sends, wherever they land in the channel, cannot disturb it. `Subscribe` is where this
  meets the ring: by `RingInv` the snapshot is distinct, sorted, as long as the ring
  allows, and reaches up to `published` (`SnapshotEvents`).
* The proof goes one operation at a time: the lemmas on `QueueOK` say what moving one event
  from a list to the next preserves, the lemmas on `Pending` what a publisher's step takes
  from which subscriber, and the `Flow` lemmas put them together for each action.

**ShellProofs** (about `ShellSpec`, the shell without its pages)

* `ShellTypeCorrect`.
* `OneChild`: `NoSecondChild` says nothing of calls that are still under way, so `OneChildInv`
  adds, for calls that do not overlap, that one call at most is under way, that a call past
  `CheckSpawned` finds no child yet, and that while the shell is on or closing a child
  means that `spawned` is set or is about to be. A failed spawn leaves both unset, which is what makes Start work
  again.
* `ChildHeld`: while the shell runs, a living child is in `CHILD`, or with the call that will
  store it. Closing the window kills what `CHILD` holds, so that a shell that was closed
  outside a call, and whose kill did not fail, leaves none behind. `ChildHeldInv` adds that
  what a call holds is a child, and a child a daemon that was started. The proof needs
  `OneChildInv`: `CHILD` holds one process.

**DesktopProofs**

* `RunsShell` is the composition: every step of `Desktop` is a step of `ShellNext` or leaves
  the shell's variables alone, so `Spec => ShellSpec`. Shell's theorems then hold in the
  desktop (`ShellKept`, and half of `TypeCorrect`).
* `ConnectionsSingle` and `LeftQuiet`: `HandleInv` says that a handle that is not closed is in
  one of four states: it awaits the token, it has one EventSource and that is the assigned
  one, its timer runs, or it is quiet. The two properties say nothing of a handle before its
  page is opened, nor that `closed` is set exactly when the page was left. Both are needed
  where a handle starts anew: `OpenLogs`, and `Reconnect`, which sets `closed` to false
  again, must find nothing that is still connected.

Only model-checked: the liveness properties (`WorkloadsSettle`, `RunsEnd`, `PublishReturns`,
`CallsEnd`, `RepairPickedUp`, `ExecutionsEnd`, `PageComesUp`, `BackoffEnds`), because fairness and
ENABLED are out of this prover's reach, and the violated properties. Every safety property of a
passing run is a theorem.

## 5. Not modelled

* Progress pushes, job events and attempts: best effort, and nothing reads them for a
  decision. ffmpeg's arguments, the URL and payload checks: a failure each.
* The pairing form, the polling dashboard, and the updater of the UI up to its relaunch;
  release scripts, paths, the IPC server's authentication and JSON. The `-with-ui` path
  of main (`spawnUIOnce`, `ui.pid`).
* Two daemons on one data directory: `Shell` has them as processes, but Scheduler's job
  table and Identity's keystore have one daemon.
* Tool discovery's cache: `Locate` is a step that may fail.
* Windows, where an open file cannot be removed; Execution has the POSIX behaviour.
* A port that another program takes over after its daemon died.
* `reauthRequired`: written beside `paused`; `ReauthRequired()` has no caller and
  `/v1/status` does not report it, although its comment says that the UI should.
* Scheduler, Execution and Identity are separate: `ExecuteReturns` is Execution's
  `Execute` in one step, and `Start` and `Crash` are the takeovers and deaths that
  Scheduler shows; a 401 is a choice in `ClaimUnauthorized`, and the sweep of the
  unpair handler is `UnpairSweep`. Each over-approximates the others.
* Time: leases, session expiry and tickers are choices. Boot's load and save of the
  bundle is one step; the file keystore's write is atomic.

## 6. Where the code departs from its comments

| run | comment | what happens |
|---|---|---|
| sched_two_executors | `scheduler.go:245` "daemon restarted while job was active" | the row of a live run is taken over after its lease expired: in the shortest trace before its heartbeat started, else after a failed heartbeat |
| sched_retry_loop | `scheduler.go:208` "so cloud stops re-issuing this workload to us" | `Fail(retryable)` precedes the status write, and a claim in between re-executes, possibly for ever |
| loghub_closed | `sse.go:105` "Subscriber raced into closed state; skip." | the send panics |
| identity_unpair | `handlers_unpair.go:27` "the daemon has no identity" | a refresh under way saves the bundle back |
| desktop_stale_port | `ipc.ts:22` "caching it is safe" | the first probe caches the port a dead daemon left in `ipc.port`, and the page never finds the next daemon: one started by hand in the shortest trace, or the one setup spawns |

Their passing counterparts state what does hold: rows nobody read earlier are final,
workloads settle if `Execute` stops failing, the page comes up when nothing stale is in
the way.

Some properties carry a condition, because the code does not keep them without it:

* `HistoryInOrder` compares the events of the history with each other. `sse.go:115` says
  "contiguous history then live events", but the replay is pushed after the unlock
  (`:126`), so a live event can enter the channel before the history it follows, and with
  a full channel the replay's drop-oldest may discard it to make room for an older event.
* `QuiescentTerminalIsFinal` is about rows nobody had read when they became terminal: a
  cancel between the lookup and `UpdateStatus(running)` (`scheduler.go:283`) is undone,
  although `store.go:87` says "no further transitions allowed". `JobLifecycle` allows it.
* `RepairPickedUp` needs a cached session that looks fresh: an aged one is refreshed
  inside `BearerToken`, whose `ErrUnauthorized` is not the one `claimWithReauth` looks
  for, and the cache is never dropped.
* `KeystoreIsCurrent` and `RefreshTokenUsedOnce` speak of the registered pairing while the
  keystore holds it, and not of a pairing one of whose rotations was lost. A refresh of the
  old bundle that is under way when the device is paired anew saves the old bundle over the
  new one (`source.go:59`), and the new pairing is gone from the disk.
* `RunningHasOwner` and `NoReexecutionAfterRestart` exclude a status write that was lost
  (`storeFault`): then the row stays running, and the next claim executes it again.
* `UndisturbedOutputsAreGood` excludes overlapping runs and leftover directories: with
  them a clip may be cut from a partial `master.mp4`, and the manifest may have the
  checksum of another content than the stored object.
* `WorkDirIsReaped` excludes a crash and a failed `RemoveAll`, after which nobody removes the
  directory. It does not distinguish success from failure, because `runOne` defers `Cleanup`
  (`scheduler.go:312`), as `extractaudio/executor.go:137` expects ("reaps them on success or
  failure"); the comment at `jobhandle.go:94` ("Called by the scheduler after Execute
  returns successfully") is narrower than the code.
* `NoSecondChild` excludes overlapping calls of `spawn_daemon_once`: then two children, of
  which `CHILD` has one, are real, although `daemon.rs:8` rules them out.
* `ChildIsHeld` speaks of a shell that runs. `docs/RELEASE.md:199` and `:206` promise "no
  orphaned processes" when the window is closed, but a daemon stays behind when calls
  overlapped, when the window is closed during a call, which then puts its child into
  `CHILD` with nobody left to kill it, and when the kill fails (`daemon.rs:145`). After a
  crash, a kill or the updater's `relaunch()` (`updater.ts:47`) of the shell it always
  does: `shutdown_child` runs on `CloseRequested` only.
* `LeftPagesAreQuiet` excludes a page left while `connect` awaits the token: `connect`
  does not look at `closed` again, and its EventSource stays open.
* `PageComesUp` needs `SPAWNED` unset if no daemon is alive: it is never reset, so Start
  does nothing after the spawned daemon died (`docs/RELEASE.md:197` expects it to work).

## 7. Plan

1. Proofs: that `dropped` grows only when the channel was full, that the live events of one
   publisher keep their order, and what `JobLifecycle` promises by itself.
2. Boot's `Set` of Identity in two steps, next to a `-pair` command, and the file
   keystore's write as truncate and fill.
3. Scheduler with Execution in the place of `ExecuteReturns`, once an abstraction of
   Execution is small enough for TLC.
4. The pairing page's modes against the pair and unpair handlers.
