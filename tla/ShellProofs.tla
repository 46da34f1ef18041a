---------------------------- MODULE ShellProofs ----------------------------
(***************************************************************************)
(* Proofs about Shell, for any number of daemons.                          *)
(***************************************************************************)
EXTENDS Shell, TLAPS

\* Process numbers are positive; 0 stands for no process.
LEMMA DaemonsAreNat == Daemons \subseteq Nat \ {0} /\ None = 0 /\ None \notin Daemons
  BY ShellAssumption DEF Daemons, None

CallerType == caller \in [Callers -> [pc : {"idle", "check", "alive", "spawn", "store", "mark"},
                                      d : Daemons \cup {None}]]
ProbeType == probe \in [Probes -> {"idle", "armed", "port", "fetch"}]
DaemonType == daemon \in [Daemons -> {"unborn", "booting", "serving", "dead"}]

ValueTypes ==
    /\ DaemonType /\ CallerType /\ ProbeType
    /\ portFile \in Daemons \cup {None}
    /\ shell \in {"off", "on", "closing"}
    /\ child \in Daemons \cup {None}
    /\ ui \in {"checking", "up", "down"}
    /\ cachedPort \in Daemons \cup {None}
    /\ children \in SUBSET Daemons

FlagTypes == spawned \in BOOLEAN /\ calm \in BOOLEAN /\ overlapped \in BOOLEAN /\ killFailed \in BOOLEAN

\* The types in two parts: the values and the flags.
LEMMA ShellTypeParts == ShellTypeOK <=> ValueTypes /\ FlagTypes
  BY DEF ShellTypeOK, ValueTypes, FlagTypes, DaemonType, CallerType, ProbeType

\* A caller at a time moves, and a caller that returns is idle.
LEMMA CallerMoves ==
    ASSUME ShellTypeOK, NEW c \in Callers
    PROVE  /\ CallerType
           /\ \A ok : Returns(c, ok) =>
                 caller'[c].pc = "idle" /\ \A x \in Callers : x # c => caller'[x] = caller[x]
  BY DEF ShellTypeOK, CallerType, Returns, IdleCaller

\* The flags stay Boolean in every step.
LEMMA FlagsStep ==
    ASSUME FlagTypes, ShellNext
    PROVE  FlagTypes'
<1> USE DEF FlagTypes, native, page, shellGhosts
<1>1. ASSUME NEW d \in Daemons, UserStartsDaemon(d) \/ Listen(d) \/ Die(d) PROVE FlagTypes'
  BY <1>1 DEF UserStartsDaemon, Listen, Die
<1>2. CASE CalmDown \/ Launch \/ CloseWindow \/ Exit \/ Relaunch
  BY <1>2 DEF CalmDown, Launch, CloseWindow, Exit, Relaunch, ProcessEnds
<1>3. ASSUME NEW c \in Callers, SpawnStep(c) PROVE FlagTypes'
  BY <1>3 DEF SpawnStep, CheckSpawned, CheckAlive, Spawn, StoreChild, MarkSpawned
<1>4. CASE Retry \/ StartDaemon \/ ProbeStep
  BY <1>4 DEF Retry, StartDaemon, ProbeStep, TimerFires, GetPort, Fetch
<1> QED BY <1>1, <1>2, <1>3, <1>4 DEF ShellNext

\* Ports, processes, windows and callers stay in their ranges in every step.
LEMMA ValuesStep ==
    ASSUME ValueTypes, ShellNext
    PROVE  ValueTypes'
<1> USE DaemonsAreNat DEF ValueTypes, native, page, shellGhosts
<1>1. ASSUME NEW d \in Daemons, UserStartsDaemon(d) \/ Listen(d) \/ Die(d) PROVE ValueTypes'
  <2>1. DaemonType' /\ portFile' \in Daemons \cup {None}
    BY <1>1 DEF UserStartsDaemon, Listen, Die, DaemonType
  <2> QED BY <1>1, <2>1 DEF UserStartsDaemon, Listen, Die, CallerType, ProbeType
<1>2. CASE CalmDown
  BY <1>2 DEF CalmDown, DaemonType, CallerType, ProbeType
<1>3. CASE Launch
  <2>1. CallerType' /\ ProbeType'
    BY <1>3 DEF Launch, NoCalls, NoProbes, IdleCaller, CallerType, ProbeType
  <2> QED BY <1>3, <2>1 DEF Launch, DaemonType
<1>4. CASE CloseWindow
  <2>1. DaemonType'
    BY <1>4 DEF CloseWindow, DaemonType
  <2> QED BY <1>4, <2>1 DEF CloseWindow, CallerType, ProbeType
<1>5. CASE Exit \/ Relaunch
  <2>0. ProcessEnds
    BY <1>5 DEF Exit, Relaunch
  <2>1. CallerType' /\ ProbeType'
    BY <2>0 DEF ProcessEnds, NoCalls, NoProbes, IdleCaller, CallerType, ProbeType
  <2> QED BY <2>0, <2>1 DEF ProcessEnds, DaemonType
<1>6. ASSUME NEW c \in Callers, SpawnStep(c) PROVE ValueTypes'
  <2>0. ASSUME NEW ok \in BOOLEAN, Returns(c, ok) PROVE CallerType' /\ ProbeType'
    <3>1. /\ caller' = [caller EXCEPT ![c] = IdleCaller]
          /\ probe' = probe \/ probe' = [probe EXCEPT !["timer"] = "armed"]
      BY <2>0, Zenon DEF Returns
    <3> QED BY <3>1 DEF IdleCaller, CallerType, ProbeType
  <2>1. CASE CheckSpawned(c) \/ CheckAlive(c) \/ MarkSpawned(c)
    <3>1. CallerType' /\ ProbeType'
      <4>1. \/ Returns(c, TRUE)
            \/ probe' = probe /\ \E pc \in {"alive", "spawn"} : caller' = [caller EXCEPT ![c].pc = pc]
        BY <2>1 DEF CheckSpawned, CheckAlive, MarkSpawned
      <4>2. CASE Returns(c, TRUE)
        BY <2>0, <4>2
      <4>3. ASSUME NEW pc \in {"alive", "spawn"}, caller' = [caller EXCEPT ![c].pc = pc], probe' = probe
            PROVE  CallerType' /\ ProbeType'
        BY <4>3 DEF CallerType, ProbeType
      <4> QED BY <4>1, <4>2, <4>3
    <3> QED BY <2>1, <3>1 DEF CheckSpawned, CheckAlive, MarkSpawned, DaemonType
  <2>2. CASE Spawn(c)
    <3>1. CASE Returns(c, FALSE) /\ UNCHANGED <<daemon, children>>
      BY <2>0, <2>2, <3>1 DEF Spawn, DaemonType
    <3>2. ASSUME NEW d \in Daemons, daemon' = [daemon EXCEPT ![d] = "booting"],
                 caller' = [caller EXCEPT ![c] = [pc |-> "store", d |-> d]],
                 children' = children \cup {d}, UNCHANGED probe
          PROVE  ValueTypes'
      <4>1. DaemonType' /\ CallerType' /\ ProbeType'
        BY <3>2 DEF DaemonType, CallerType, ProbeType
      <4> QED BY <2>2, <3>2, <4>1 DEF Spawn
    <3> QED BY <2>2, <3>1, <3>2 DEF Spawn
  <2>3. CASE StoreChild(c)
    <3>1. CallerType' /\ child' \in Daemons \cup {None}
      BY <2>3 DEF StoreChild, CallerType
    <3> QED BY <2>3, <3>1 DEF StoreChild, DaemonType, ProbeType
  <2> QED BY <1>6, <2>1, <2>2, <2>3 DEF SpawnStep
<1>7. CASE Retry \/ StartDaemon \/ TimerFires
  <2>1. CallerType' /\ ProbeType'
    BY <1>7 DEF Retry, TimerFires, StartDaemon, Begins, CallerType, ProbeType
  <2> QED BY <1>7, <2>1 DEF Retry, TimerFires, StartDaemon, Begins, DaemonType
<1>8. ASSUME NEW p \in Probes, GetPort(p) \/ Fetch(p) PROVE ValueTypes'
  <2>1. ProbeType' /\ ui' \in {"checking", "up", "down"}
    BY <1>8 DEF GetPort, Fetch, ProbeEnds, ProbeType
  <2> QED BY <1>8, <2>1 DEF GetPort, Fetch, DaemonType, CallerType
<1> QED BY <1>1, <1>2, <1>3, <1>4, <1>5, <1>6, <1>7, <1>8 DEF ShellNext, ProbeStep

\* The values of the shell's state in every step.
LEMMA ShellTypeStep ==
    ASSUME ShellTypeOK, [ShellNext]_shellVars
    PROVE  ShellTypeOK'
<1>1. CASE ShellNext
  <2>1. ValueTypes' /\ FlagTypes'
    BY <1>1, ShellTypeParts, ValuesStep, FlagsStep
  <2> QED BY <2>1 DEF ShellTypeOK, ValueTypes, FlagTypes, DaemonType, CallerType, ProbeType
<1>2. CASE UNCHANGED shellVars
  BY <1>2 DEF shellVars, ShellTypeOK
<1> QED BY <1>1, <1>2

\* Each spawn was preceded by a look at SPAWNED.
LEMMA OneChildStep ==
    ASSUME ShellTypeOK, OneChildInv, [ShellNext]_shellVars
    PROVE  OneChildInv'
<1> SUFFICES ASSUME ~overlapped'
             PROVE  /\ caller'["setup"].pc = "idle" \/ caller'["command"].pc = "idle"
                    /\ \A c \in Callers : caller'[c].pc \in {"alive", "spawn"} => children' = {}
                    /\ (shell' # "off" /\ children' # {}) => spawned' \/ \E c \in Callers : InSpawn(c)'
                    /\ \A d, e \in children' : d = e
  BY DEF OneChildInv
<1> USE DEF InSpawn
<1>0. Callers = {"setup", "command"}
  BY DEF Callers
<1>1. CASE UNCHANGED <<shell, caller, spawned, children, overlapped>>
  BY <1>1 DEF OneChildInv
<1>2. CASE Launch
  BY <1>0, <1>2 DEF Launch, NoCalls, IdleCaller
<1>3. CASE CloseWindow
  BY <1>3 DEF CloseWindow, OneChildInv
<1>4. CASE Exit \/ Relaunch
  BY <1>0, <1>4 DEF Exit, Relaunch, ProcessEnds, OneChildInv, NoCalls, IdleCaller, shellGhosts
<1>5. ASSUME NEW c \in Callers, SpawnStep(c)
      PROVE  /\ caller'["setup"].pc = "idle" \/ caller'["command"].pc = "idle"
             /\ \A x \in Callers : caller'[x].pc \in {"alive", "spawn"} => children' = {}
             /\ (shell' # "off" /\ children' # {}) => spawned' \/ \E x \in Callers : InSpawn(x)'
             /\ \A d, e \in children' : d = e
  <2>0. /\ ~overlapped /\ shell' = shell /\ shell # "off" /\ caller[c].pc # "idle"
        /\ \A x \in Callers : x # c => caller'[x] = caller[x]
    <3>1. overlapped' = overlapped /\ shell' = shell /\ shell # "off" /\ caller[c].pc # "idle"
      BY <1>5 DEF SpawnStep, CheckSpawned, CheckAlive, Spawn, StoreChild, MarkSpawned, InCall, shellGhosts
    <3>2. \/ \E ok : Returns(c, ok)
          \/ \E pc : caller' = [caller EXCEPT ![c].pc = pc]
          \/ \E k : caller' = [caller EXCEPT ![c] = k]
      BY <1>5 DEF SpawnStep, CheckSpawned, CheckAlive, Spawn, StoreChild, MarkSpawned
    <3> QED BY <3>1, <3>2, CallerMoves DEF CallerType
  <2>1. /\ \A x \in Callers : x # c => caller[x].pc = "idle" /\ caller'[x].pc = "idle"
        /\ caller[c].pc \in {"alive", "spawn"} => children = {}
        /\ children # {} => spawned \/ caller[c].pc \in {"store", "mark"}
        /\ \A d, e \in children : d = e
    BY <1>0, <2>0 DEF OneChildInv
  <2>2. CASE CheckSpawned(c)
    <3>1. children' = children /\ spawned' = spawned /\ caller[c].pc = "check"
      BY <2>2 DEF CheckSpawned, InCall, shellGhosts
    <3>2. CASE spawned
      BY <1>0, <2>0, <2>1, <2>2, <3>1, <3>2, CallerMoves DEF CheckSpawned
    <3>3. CASE ~spawned
      <4>1. caller' = [caller EXCEPT ![c].pc = "alive"]
        BY <2>2, <3>3 DEF CheckSpawned
      <4>2. caller'[c].pc = "alive"
        BY <4>1, CallerMoves DEF CallerType
      <4>3. children = {}
        BY <2>1, <3>1, <3>3
      <4> QED BY <1>0, <2>0, <2>1, <3>1, <4>2, <4>3
    <3> QED BY <3>2, <3>3
  <2>3. CASE CheckAlive(c)
    <3>1. children' = children /\ caller[c].pc = "alive"
      BY <2>3 DEF CheckAlive, InCall, shellGhosts
    <3>2. caller'[c].pc \in {"idle", "spawn"}
      BY <2>3, CallerMoves DEF CheckAlive, CallerType
    <3> QED BY <1>0, <2>0, <2>1, <3>1, <3>2
  <2>4. CASE Spawn(c)
    <3>1. /\ caller[c].pc = "spawn"
          /\ \/ Returns(c, FALSE) /\ children' = children
             \/ \E d \in Daemons : /\ caller' = [caller EXCEPT ![c] = [pc |-> "store", d |-> d]]
                                  /\ children' = children \cup {d}
      BY <2>4 DEF Spawn, InCall
    <3>2. \/ caller'[c].pc = "idle" /\ children' = children
          \/ caller'[c].pc = "store" /\ \E d \in Daemons : children' = children \cup {d}
      <4>1. CASE Returns(c, FALSE) /\ children' = children
        BY <4>1, CallerMoves
      <4>2. ASSUME NEW d \in Daemons, caller' = [caller EXCEPT ![c] = [pc |-> "store", d |-> d]],
                   children' = children \cup {d}
            PROVE  caller'[c].pc = "store"
        BY <4>2, CallerMoves DEF CallerType
      <4> QED BY <3>1, <4>1, <4>2
    <3> QED BY <1>0, <2>0, <2>1, <3>1, <3>2
  <2>5. CASE StoreChild(c)
    <3>1. children' = children /\ caller'[c].pc = "mark"
      BY <2>5, CallerMoves DEF StoreChild, CallerType, shellGhosts
    <3> QED BY <1>0, <2>0, <2>1, <3>1
  <2>6. CASE MarkSpawned(c)
    <3>1. children' = children /\ caller'[c].pc = "idle"
      BY <2>6, CallerMoves DEF MarkSpawned, shellGhosts
    <3>2. spawned'
      BY <2>6 DEF MarkSpawned
    <3> QED BY <1>0, <2>0, <2>1, <3>1, <3>2
  <2> QED BY <1>5, <2>2, <2>3, <2>4, <2>5, <2>6 DEF SpawnStep
<1>6. CASE StartDaemon
  <2>1. UNCHANGED <<shell, spawned, children>> /\ caller["command"].pc = "idle"
    BY <1>6 DEF StartDaemon
  <2>2. ~overlapped /\ caller["setup"].pc = "idle"
    <3>1. overlapped' = (overlapped \/ caller["setup"].pc # "idle")
      BY <1>6 DEF StartDaemon
    <3> QED BY <3>1, Zenon
  <2>3. caller'["command"].pc = "check" /\ caller'["setup"] = caller["setup"]
    BY <1>0, <1>6, CallerMoves DEF StartDaemon, CallerType
  <2> QED BY <1>0, <2>1, <2>2, <2>3 DEF OneChildInv
<1>7. UNCHANGED <<shell, caller, spawned, children, overlapped>> \/ Launch \/ CloseWindow \/ Exit
      \/ Relaunch \/ StartDaemon \/ \E c \in Callers : SpawnStep(c)
  BY DEF ShellNext, ProbeStep, UserStartsDaemon, Listen, Die, CalmDown, Retry, TimerFires, GetPort, Fetch,
     shellVars, native, page, shellGhosts
<1> QED BY <1>1, <1>2, <1>3, <1>4, <1>5, <1>6, <1>7

\* CHILD or the call that spawned it holds the only child, until it is killed.
LEMMA ChildHeldStep ==
    ASSUME ShellTypeOK, OneChildInv, ChildHeldInv, [ShellNext]_shellVars
    PROVE  ChildHeldInv'
<1> DEFINE Holder(d) == d = child \/ \E c \in Callers : caller[c] = [pc |-> "store", d |-> d]
           Born   == \A d \in children : daemon[d] # "unborn"
           Listed == ~overlapped => \A c \in Callers : caller[c].pc = "store" => caller[c].d \in children
           Held   == (shell # "off" /\ ~overlapped /\ ~killFailed) =>
                        \A d \in children : Alive(d) => Holder(d)
<1>a. Born /\ Listed /\ Held
  BY DEF ChildHeldInv, ChildIsHeld
<1>b. SUFFICES Born' /\ Listed' /\ Held'
  BY DEF ChildHeldInv, ChildIsHeld
<1>c. /\ daemon \in [Daemons -> {"unborn", "booting", "serving", "dead"}] /\ children \subseteq Daemons
      /\ shell \in {"off", "on", "closing"}
  BY DEF ShellTypeOK
<1>1. CASE UNCHANGED <<daemon, shell, child, caller, children, overlapped, killFailed>>
  BY <1>1, <1>a DEF Alive
<1>2. ASSUME NEW e \in Daemons, UserStartsDaemon(e) \/ Listen(e) \/ Die(e)
      PROVE  Born' /\ Listed' /\ Held'
  <2>1. UNCHANGED <<shell, child, caller, children, overlapped, killFailed>>
    BY <1>2 DEF UserStartsDaemon, Listen, Die, page, shellGhosts
  <2>2. /\ \A d \in Daemons : d # e => daemon'[d] = daemon[d]
        /\ \/ daemon[e] = "unborn"
           \/ daemon[e] = "booting" /\ daemon'[e] = "serving"
           \/ daemon'[e] = "dead"
    BY <1>2, <1>c DEF UserStartsDaemon, Listen, Die, IsNext
  <2>3. \A d \in children : daemon'[d] # "unborn" /\ (Alive(d)' => Alive(d))
    BY <1>a, <1>c, <2>2 DEF Alive
  <2> QED BY <1>a, <2>1, <2>3
<1>3. CASE Launch
  <2>1. /\ children' = {} /\ shell' = "on"
        /\ \A c \in Callers : caller'[c].pc \in {"idle", "check"}
    BY <1>3 DEF Launch, NoCalls, IdleCaller, Callers
  <2> QED BY <2>1
<1>4. CASE CloseWindow
  <2>1. /\ shell = "on" /\ UNCHANGED <<caller, children, overlapped>>
        /\ \/ /\ daemon' = [d \in Daemons |-> IF d = child THEN "dead" ELSE daemon[d]]
              /\ UNCHANGED killFailed
           \/ UNCHANGED daemon /\ killFailed'
    BY <1>4 DEF CloseWindow
  <2>2. Born' /\ Listed'
    BY <1>a, <1>c, <2>1
  <2>3. ASSUME ~overlapped, ~killFailed', NEW d \in children, Alive(d)'
        PROVE  Holder(d)'
    <3>1. daemon' = [e \in Daemons |-> IF e = child THEN "dead" ELSE daemon[e]] /\ ~killFailed
      BY <2>1, <2>3
    <3>2. d # child /\ Alive(d)
      BY <1>c, <2>3, <3>1 DEF Alive
    <3>3. \E c \in Callers : caller[c] = [pc |-> "store", d |-> d]
      BY <1>a, <2>1, <2>3, <3>1, <3>2
    <3> QED BY <2>1, <3>3
  <2> HIDE DEF Holder
  <2> QED BY <2>1, <2>2, <2>3
<1>5. CASE Exit \/ Relaunch
  <2>1. /\ shell' = "off" /\ UNCHANGED <<daemon, children, overlapped, killFailed>>
        /\ \A c \in Callers : caller'[c].pc = "idle"
    BY <1>5 DEF Exit, Relaunch, ProcessEnds, NoCalls, IdleCaller, shellGhosts
  <2> QED BY <1>a, <2>1
<1>6. CASE StartDaemon
  <2>1. /\ shell = "on" /\ UNCHANGED <<daemon, shell, child, children, killFailed>>
        /\ caller["command"].pc = "idle"
    BY <1>6 DEF StartDaemon
  <2>2. ASSUME ~overlapped' PROVE ~overlapped
    <3>1. overlapped' = (overlapped \/ caller["setup"].pc # "idle")
      BY <1>6 DEF StartDaemon
    <3> QED BY <2>2, <3>1, Zenon
  <2>3. /\ caller'["command"].pc = "check" /\ \A c \in Callers : c # "command" => caller'[c] = caller[c]
    BY <1>6, CallerMoves DEF StartDaemon, CallerType, Callers
  <2>4. \A d : Holder(d) => Holder(d)'
    BY <2>1, <2>3
  <2> HIDE DEF Holder
  <2> QED BY <1>a, <2>1, <2>2, <2>3, <2>4 DEF Alive
<1>7. ASSUME NEW c \in Callers, SpawnStep(c)
      PROVE  Born' /\ Listed' /\ Held'
  <2>0. UNCHANGED <<shell, overlapped, killFailed>> /\ shell # "off" /\ caller[c].pc # "idle"
    BY <1>7 DEF SpawnStep, CheckSpawned, CheckAlive, Spawn, StoreChild, MarkSpawned, InCall, shellGhosts
  <2>2. \A ok : Returns(c, ok) =>
            caller'[c].pc = "idle" /\ \A x \in Callers : x # c => caller'[x] = caller[x]
    BY CallerMoves
  <2>3. CASE CheckSpawned(c) \/ CheckAlive(c) \/ MarkSpawned(c)
    <3>1. UNCHANGED <<daemon, child, children>> /\ caller[c].pc # "store"
      BY <2>3 DEF CheckSpawned, CheckAlive, MarkSpawned, InCall, shellGhosts
    <3>2. caller'[c].pc # "store" /\ \A x \in Callers : x # c => caller'[x] = caller[x]
      <4>1. \/ Returns(c, TRUE)
            \/ \E pc \in {"alive", "spawn"} : caller' = [caller EXCEPT ![c].pc = pc]
        BY <2>3 DEF CheckSpawned, CheckAlive, MarkSpawned
      <4>2. CASE Returns(c, TRUE)
        BY <2>2, <4>2
      <4>3. ASSUME NEW pc \in {"alive", "spawn"}, caller' = [caller EXCEPT ![c].pc = pc]
            PROVE  caller'[c].pc # "store" /\ \A x \in Callers : x # c => caller'[x] = caller[x]
        BY <4>3, CallerMoves DEF CallerType
      <4> QED BY <4>1, <4>2, <4>3
    <3>3. \A d : Holder(d) => Holder(d)'
      BY <3>1, <3>2
    <3> HIDE DEF Holder
    <3> QED BY <1>a, <2>0, <3>1, <3>2, <3>3 DEF Alive
  <2>4. CASE Spawn(c)
    <3>1. caller[c].pc = "spawn" /\ child' = child
      BY <2>4 DEF Spawn, InCall
    <3>2. CASE Returns(c, FALSE) /\ UNCHANGED <<daemon, children>>
      <4>1. caller'[c].pc = "idle" /\ \A x \in Callers : x # c => caller'[x] = caller[x]
        BY <2>2, <3>2
      <4>2. \A d : Holder(d) => Holder(d)'
        BY <3>1, <4>1
      <4> HIDE DEF Holder
      <4> QED BY <1>a, <2>0, <3>2, <4>1, <4>2 DEF Alive
    <3>3. ASSUME NEW e \in Daemons, daemon' = [daemon EXCEPT ![e] = "booting"],
                 caller' = [caller EXCEPT ![c] = [pc |-> "store", d |-> e]], children' = children \cup {e}
          PROVE  Born' /\ Listed' /\ Held'
      <4>1. /\ caller'[c] = [pc |-> "store", d |-> e]
            /\ \A x \in Callers : x # c => caller'[x] = caller[x]
        BY <3>3, CallerMoves DEF CallerType
      <4>2. Born'
        BY <1>a, <1>c, <3>3
      <4>3. ~overlapped => children = {}
        BY <3>1 DEF OneChildInv
      <4>4. Listed'
        BY <1>a, <2>0, <3>3, <4>1
      <4>5. Holder(e)'
        BY <4>1
      <4> HIDE DEF Holder
      <4> QED BY <2>0, <3>3, <4>2, <4>3, <4>4, <4>5
    <3> QED BY <2>4, <3>2, <3>3 DEF Spawn
  <2>5. CASE StoreChild(c)
    <3>1. /\ caller[c].pc = "store" /\ child' = caller[c].d /\ UNCHANGED <<daemon, children>>
          /\ caller'[c].pc = "mark" /\ \A x \in Callers : x # c => caller'[x] = caller[x]
      BY <2>5, CallerMoves DEF StoreChild, InCall, CallerType, shellGhosts
    <3>2. ~overlapped => \A d \in children : d = child'
      BY <1>a, <3>1 DEF OneChildInv
    <3>3. Listed' /\ Held'
      BY <1>a, <2>0, <3>1, <3>2
    <3> QED BY <1>a, <3>1, <3>3
  <2> QED BY <1>7, <2>3, <2>4, <2>5 DEF SpawnStep
<1>8. \/ UNCHANGED <<daemon, shell, child, caller, children, overlapped, killFailed>>
      \/ \E e \in Daemons : UserStartsDaemon(e) \/ Listen(e) \/ Die(e)
      \/ Launch \/ CloseWindow \/ Exit \/ Relaunch \/ StartDaemon
      \/ \E c \in Callers : SpawnStep(c)
  BY DEF ShellNext, ProbeStep, CalmDown, Retry, TimerFires, GetPort, Fetch, shellVars, native, shellGhosts
<1> QED BY <1>1, <1>2, <1>3, <1>4, <1>5, <1>6, <1>7, <1>8

\* The state of the shell keeps its types.
THEOREM ShellTypeCorrect == ShellSpec => []ShellTypeOK
<1>1. ShellInit => ShellTypeOK
  <2>1. ShellInit => FlagTypes
    BY DEF ShellInit, FlagTypes
  <2>2. ShellInit => ValueTypes
    BY DaemonsAreNat DEF ShellInit, ValueTypes, DaemonType, CallerType, ProbeType, NoCalls, NoProbes, IdleCaller
  <2> QED BY <2>1, <2>2, ShellTypeParts
<1> QED BY <1>1, ShellTypeStep, PTL DEF ShellSpec

\* A shell spawns one daemon in its life, as long as the calls of
\* spawn_daemon_once do not overlap (daemon.rs).
THEOREM OneChild == ShellSpec => [](OneChildInv /\ NoSecondChild)
<1>1. ShellInit => OneChildInv
  BY DEF ShellInit, OneChildInv, NoCalls, IdleCaller, Callers
<1>2. OneChildInv => NoSecondChild
  BY DEF OneChildInv, NoSecondChild
<1> QED BY <1>1, <1>2, OneChildStep, ShellTypeCorrect, PTL DEF ShellSpec

\* The shell keeps hold of every living daemon it has spawned until the window
\* is closed and the daemon killed (daemon.rs CHILD and shutdown_child), however
\* the calls, deaths, closes and ends of the process fall, unless two calls
\* overlapped or the kill failed.
THEOREM ChildHeld == ShellSpec => []ChildIsHeld
<1>1. ShellInit => ChildHeldInv
  <2> SUFFICES ASSUME ShellInit PROVE ChildHeldInv
    OBVIOUS
  <2>1. children = {} /\ \A c \in Callers : caller[c].pc = "idle"
    BY DEF ShellInit, NoCalls, IdleCaller
  <2> QED BY <2>1 DEF ChildHeldInv, ChildIsHeld
<1>2. ChildHeldInv => ChildIsHeld
  BY DEF ChildHeldInv
<1> QED BY <1>1, <1>2, ChildHeldStep, OneChild, ShellTypeCorrect, PTL DEF ShellSpec

=============================================================================
