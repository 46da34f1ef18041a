------------------------------- MODULE Shell -------------------------------
(***************************************************************************)
(* The desktop shell around the daemon: daemon.rs (spawn or attach, kill   *)
(* on close), the daemon-not-running page of App.tsx with its probe of     *)
(* /v1/status, and the cached port of ipc.ts.                              *)
(*                                                                         *)
(* A daemon's port is the daemon itself: it listens on a random one, and   *)
(* ipc.port keeps the last one written, across deaths and launches.  The   *)
(* port of a dead daemon is not used by another program.  A user may also  *)
(* start a daemon by hand or as a service.                                 *)
(***************************************************************************)
EXTENDS Naturals, FiniteSets

CONSTANT MaxDaemons  \* bound on the daemon processes ever started

ASSUME ShellAssumption == MaxDaemons \in Nat

\* Numbered in the order in which they are started.
Daemons == 1..MaxDaemons
None == 0

VARIABLES
    daemon,      \* daemon[d]: "unborn", "booting", "serving" or "dead"
    portFile,    \* ipc.port
    shell,       \* the shell process: "off", "on" or "closing"
    spawned,     \* SPAWNED is set
    child,       \* CHILD
    caller,      \* caller[c]: a call of spawn_daemon_once
    ui,          \* daemonState of the page
    cachedPort,  \* cachedPort of ipc.ts
    probe,       \* probe[p]: a probe() of the page
    calm,        \* no failure, death or close any more
    children,    \* history: the daemons spawned since the launch
    overlapped,  \* history: two calls of spawn_daemon_once overlapped
    killFailed   \* history: the kill of the child failed

native == <<daemon, portFile, shell, spawned, child, caller>>
page == <<ui, cachedPort, probe>>
shellGhosts == <<calm, children, overlapped, killFailed>>
shellVars == <<daemon, portFile, shell, spawned, child, caller, ui, cachedPort, probe,
               calm, children, overlapped, killFailed>>

\* setup's blocking thread, and the start_daemon_sidecar command, one at a
\* time because the button is disabled meanwhile.
Callers == {"setup", "command"}

\* The probe of the mount or of Retry, and the one 600 ms after Start.
Probes == {"page", "timer"}

IdleCaller == [pc |-> "idle", d |-> None]
NoCalls == [c \in Callers |-> IdleCaller]
NoProbes == [p \in Probes |-> "idle"]

Alive(d) == d # None /\ daemon[d] \in {"booting", "serving"}
Serves(d) == d # None /\ daemon[d] = "serving"

ShellTypeOK ==
    /\ daemon \in [Daemons -> {"unborn", "booting", "serving", "dead"}]
    /\ portFile \in Daemons \cup {None}
    /\ shell \in {"off", "on", "closing"}
    /\ spawned \in BOOLEAN
    /\ child \in Daemons \cup {None}
    /\ caller \in [Callers -> [pc : {"idle", "check", "alive", "spawn", "store", "mark"},
                               d : Daemons \cup {None}]]
    /\ ui \in {"checking", "up", "down"}
    /\ cachedPort \in Daemons \cup {None}
    /\ probe \in [Probes -> {"idle", "armed", "port", "fetch"}]
    /\ children \in SUBSET Daemons
    /\ calm \in BOOLEAN /\ overlapped \in BOOLEAN /\ killFailed \in BOOLEAN

ShellInit ==
    /\ daemon = [d \in Daemons |-> "unborn"]
    /\ portFile = None
    /\ shell = "off" /\ spawned = FALSE /\ child = None /\ caller = NoCalls
    /\ ui = "checking" /\ cachedPort = None /\ probe = NoProbes
    /\ calm = FALSE
    /\ children = {} /\ overlapped = FALSE /\ killFailed = FALSE

-----------------------------------------------------------------------------
(***************************************************************************)
(* Daemons.                                                                *)
(***************************************************************************)
IsNext(d) == daemon[d] = "unborn" /\ \A e \in Daemons : daemon[e] = "unborn" => d <= e

UserStartsDaemon(d) ==
    /\ ~calm /\ IsNext(d)
    /\ daemon' = [daemon EXCEPT ![d] = "booting"]
    /\ UNCHANGED <<portFile, shell, spawned, child, caller, page, shellGhosts>>

\* Listen of the IPC server: a random port, written to ipc.port.
Listen(d) ==
    /\ daemon[d] = "booting"
    /\ daemon' = [daemon EXCEPT ![d] = "serving"]
    /\ portFile' = d
    /\ UNCHANGED <<shell, spawned, child, caller, page, shellGhosts>>

\* ipc.port stays.
Die(d) ==
    /\ ~calm /\ Alive(d)
    /\ daemon' = [daemon EXCEPT ![d] = "dead"]
    /\ UNCHANGED <<portFile, shell, spawned, child, caller, page, shellGhosts>>

CalmDown ==
    /\ ~calm /\ calm' = TRUE
    /\ UNCHANGED <<native, page, children, overlapped, killFailed>>

-----------------------------------------------------------------------------
(***************************************************************************)
(* The shell process.                                                      *)
(***************************************************************************)

\* A new process and a new page: setup calls spawn_daemon_once, the mounted
\* page probes.
Launch ==
    /\ shell = "off" /\ shell' = "on"
    /\ caller' = [NoCalls EXCEPT !["setup"].pc = "check"]
    /\ probe' = [NoProbes EXCEPT !["page"] = "port"]
    /\ children' = {} /\ overlapped' = FALSE /\ killFailed' = FALSE
    /\ UNCHANGED <<daemon, portFile, spawned, child, ui, cachedPort, calm>>

\* A mutant: the child is killed only if the port file is its own.
CloseWindowKillsServing ==
    /\ ~calm /\ shell = "on"
    /\ shell' = "closing"
    /\ daemon' = [d \in Daemons |-> IF d = child /\ portFile = d THEN "dead" ELSE daemon[d]]
    /\ child' = None
    /\ UNCHANGED <<portFile, spawned, caller, page, shellGhosts>>

\* shutdown_child: what CHILD holds is taken out and killed; an error of the
\* kill is dropped.
CloseWindow ==
    /\ ~calm /\ shell = "on"
    /\ shell' = "closing"
    /\ child' = None
    /\ \/ /\ daemon' = [d \in Daemons |-> IF d = child THEN "dead" ELSE daemon[d]]
          /\ UNCHANGED killFailed
       \/ Alive(child) /\ killFailed' = TRUE /\ UNCHANGED daemon
    /\ UNCHANGED <<portFile, spawned, caller, page, calm, children, overlapped>>

\* The process ends, with its memory, the page and the calls still in it; the
\* daemons go on.
ProcessEnds ==
    /\ shell' = "off"
    /\ spawned' = FALSE /\ child' = None /\ caller' = NoCalls
    /\ ui' = "checking" /\ cachedPort' = None /\ probe' = NoProbes
    /\ UNCHANGED <<daemon, portFile, shellGhosts>>

\* The last window is closed.
Exit == shell = "closing" /\ ProcessEnds

\* No window is closed: the updater relaunches the application (Launch follows),
\* or the process crashes or is killed.  CloseRequested does not come, so that
\* shutdown_child is not called.
Relaunch == ~calm /\ shell = "on" /\ ProcessEnds

\* A mutant: the page is not probed again after the start.
ReturnsWithoutProbe(c, ok) ==
    /\ caller' = [caller EXCEPT ![c] = IdleCaller]
    /\ UNCHANGED probe

\* spawn_daemon_once returns: after Ok, the Start button's handler arms the
\* second probe; after an error it only shows it.
Returns(c, ok) ==
    /\ caller' = [caller EXCEPT ![c] = IdleCaller]
    /\ probe' = IF ok /\ c = "command" THEN [probe EXCEPT !["timer"] = "armed"] ELSE probe

InCall(c, pc) == shell # "off" /\ caller[c].pc = pc

CheckSpawned(c) ==
    /\ InCall(c, "check")
    /\ IF spawned THEN Returns(c, TRUE)
       ELSE caller' = [caller EXCEPT ![c].pc = "alive"] /\ UNCHANGED probe
    /\ UNCHANGED <<daemon, portFile, shell, spawned, child, ui, cachedPort, shellGhosts>>

\* is_daemon_alive on the port file's port: attach, or go on to spawn.  A
\* daemon that answers too late is not alive.
CheckAlive(c) ==
    /\ InCall(c, "alive")
    /\ \/ Serves(portFile) /\ spawned' = TRUE /\ Returns(c, TRUE)
       \/ /\ ~calm \/ ~Serves(portFile)
          /\ caller' = [caller EXCEPT ![c].pc = "spawn"]
          /\ UNCHANGED <<spawned, probe>>
    /\ UNCHANGED <<daemon, portFile, shell, child, ui, cachedPort, shellGhosts>>

\* When all of Daemons are used up, a spawn fails.
Spawn(c) ==
    /\ InCall(c, "spawn")
    /\ \/ \E d \in Daemons :
             /\ IsNext(d)
             /\ daemon' = [daemon EXCEPT ![d] = "booting"]
             /\ caller' = [caller EXCEPT ![c] = [pc |-> "store", d |-> d]]
             /\ children' = children \cup {d}
             /\ UNCHANGED probe
       \/ /\ ~calm \/ \A d \in Daemons : daemon[d] # "unborn"
          /\ Returns(c, FALSE)
          /\ UNCHANGED <<daemon, children>>
    /\ UNCHANGED <<portFile, shell, spawned, child, ui, cachedPort, calm, overlapped, killFailed>>

\* The old value is dropped, not killed.
StoreChild(c) ==
    /\ InCall(c, "store")
    /\ child' = caller[c].d
    /\ caller' = [caller EXCEPT ![c].pc = "mark"]
    /\ UNCHANGED <<daemon, portFile, shell, spawned, page, shellGhosts>>

\* A mutant: the cell is set only when attaching.
MarkSpawnedSkipped(c) ==
    /\ InCall(c, "mark")
    /\ Returns(c, TRUE)
    /\ UNCHANGED <<daemon, portFile, shell, spawned, child, ui, cachedPort, shellGhosts>>

MarkSpawned(c) ==
    /\ InCall(c, "mark")
    /\ spawned' = TRUE
    /\ Returns(c, TRUE)
    /\ UNCHANGED <<daemon, portFile, shell, child, ui, cachedPort, shellGhosts>>

SpawnStep(c) ==
    CheckSpawned(c) \/ CheckAlive(c) \/ Spawn(c) \/ StoreChild(c) \/ MarkSpawned(c)

-----------------------------------------------------------------------------
(***************************************************************************)
(* The page.  At most one probe of each kind is under way.                 *)
(***************************************************************************)
ProbeEnds(p, state) == probe' = [probe EXCEPT ![p] = "idle"] /\ ui' = state

Begins(p) == probe' = [probe EXCEPT ![p] = "port"] /\ ui' = "checking"

Retry ==
    /\ shell = "on" /\ ui = "down" /\ probe["page"] = "idle"
    /\ Begins("page")
    /\ UNCHANGED <<native, cachedPort, shellGhosts>>

TimerFires ==
    /\ shell = "on" /\ probe["timer"] = "armed"
    /\ Begins("timer")
    /\ UNCHANGED <<native, cachedPort, shellGhosts>>

\* handleStartDaemon: the button calls start_daemon_sidecar.
StartDaemon ==
    /\ shell = "on" /\ ui = "down"
    /\ caller["command"].pc = "idle" /\ probe["timer"] = "idle"
    /\ caller' = [caller EXCEPT !["command"].pc = "check"]
    /\ overlapped' = (overlapped \/ caller["setup"].pc # "idle")
    /\ UNCHANGED <<daemon, portFile, shell, spawned, child, page, calm, children, killFailed>>

\* getPort: the cached port, else the port file's, which is cached for good.
GetPort(p) ==
    /\ shell = "on" /\ probe[p] = "port"
    /\ IF cachedPort = None /\ portFile = None
         THEN ProbeEnds(p, "down") /\ UNCHANGED cachedPort
         ELSE /\ cachedPort' = IF cachedPort = None THEN portFile ELSE cachedPort
              /\ probe' = [probe EXCEPT ![p] = "fetch"] /\ UNCHANGED ui
    /\ UNCHANGED <<native, shellGhosts>>

\* fetch of /v1/status; any answer counts.
Fetch(p) ==
    /\ shell = "on" /\ probe[p] = "fetch"
    /\ ProbeEnds(p, IF Serves(cachedPort) THEN "up" ELSE "down")
    /\ UNCHANGED <<native, cachedPort, shellGhosts>>

ProbeStep == TimerFires \/ \E p \in Probes : GetPort(p) \/ Fetch(p)

ShellNext ==
    \/ \E d \in Daemons : UserStartsDaemon(d) \/ Listen(d) \/ Die(d)
    \/ CalmDown \/ Launch \/ CloseWindow \/ Exit \/ Relaunch
    \/ \E c \in Callers : SpawnStep(c)
    \/ Retry \/ StartDaemon \/ ProbeStep

-----------------------------------------------------------------------------
(***************************************************************************)
(* Properties.                                                             *)
(***************************************************************************)

\* What daemon.rs says of setup and start_daemon_sidecar ("never produces two
\* children") holds as long as the two calls do not overlap: the shell starts
\* one daemon in its life, through failed spawns, deaths and repeated clicks.
NoSecondChild ==
    ~overlapped => \A d, e \in children : d = e

\* The shell does not lose a daemon it has started (daemon.rs CHILD, "no
\* orphaned processes" of docs/RELEASE.md): from the spawn until the process
\* ends, a living child is in CHILD, where closing the window finds it, or in
\* the hands of the call that is about to put it there, and nobody takes it out
\* without killing it.  So a close leaves none behind, unless a call outlives
\* it.  Not so when two calls overlapped or the kill failed.
ChildIsHeld ==
    (shell # "off" /\ ~overlapped /\ ~killFailed) => \A d \in children :
        Alive(d) => d = child \/ \E c \in Callers : caller[c] = [pc |-> "store", d |-> d]

\* What ipc.ts says of its cache ("caching it is safe"): when a daemon serves
\* on the port file's port, the cached one leads to a daemon as well.  The code
\* does not keep it.
CachedPortIsSafe ==
    (shell = "on" /\ Serves(portFile) /\ cachedPort # None) => Serves(cachedPort)

\* Nothing stale is on disk or in the cache, and a daemon is there or can be
\* started.
Healthy ==
    /\ calm /\ shell = "on"
    /\ portFile = None \/ Serves(portFile)
    /\ cachedPort = None \/ Serves(cachedPort)
    /\ \/ \E d \in Daemons : Alive(d)
       \/ /\ ~spawned /\ \A c \in Callers : caller[c].pc \notin {"store", "mark"}
          /\ \E d \in Daemons : daemon[d] = "unborn"

\* The page comes up (App.tsx handleStartDaemon) after a failed spawn, a lost
\* race for the port file or a slow daemon, if the user keeps pressing Start
\* and nothing stale is in the way.
PageComesUp == Healthy ~> ui = "up"

-----------------------------------------------------------------------------
(***************************************************************************)
(* The shell without its pages, and the strengthenings that make the two   *)
(* invariants inductive (module ShellProofs).                            *)
(***************************************************************************)
ShellSpec == ShellInit /\ [][ShellNext]_shellVars

InSpawn(c) == caller[c].pc \in {"store", "mark"}

\* While the calls do not overlap, one is under way at most; whoever is past
\* CheckSpawned finds no child, and who has one has said so or is about to.
OneChildInv ==
    ~overlapped =>
        /\ caller["setup"].pc = "idle" \/ caller["command"].pc = "idle"
        /\ \A c \in Callers : caller[c].pc \in {"alive", "spawn"} => children = {}
        /\ (shell # "off" /\ children # {}) => spawned \/ \E c \in Callers : InSpawn(c)
        /\ \A d, e \in children : d = e

\* ChildIsHeld, with what a call holds being a child, and a child a daemon that
\* was started.
ChildHeldInv ==
    /\ \A d \in children : daemon[d] # "unborn"
    /\ ~overlapped => \A c \in Callers : caller[c].pc = "store" => caller[c].d \in children
    /\ ChildIsHeld

=============================================================================
