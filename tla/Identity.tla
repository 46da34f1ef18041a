------------------------------ MODULE Identity ------------------------------
(***************************************************************************)
(* Who the daemon is: the session bundle in the keystore                   *)
(* (internal/auth/keystore.go), its cached copy in TokenSource             *)
(* (internal/auth/source.go), the rotation of the refresh token, the loop  *)
(* that recovers from 401 (claimWithReauth, internal/runtime/scheduler.go) *)
(* and the pair and unpair handlers, which write the keystore past the     *)
(* cache (internal/ipc/handlers_pair.go, handlers_unpair.go; runPair of    *)
(* cmd/engine-toold/main.go).  The cloud's device row is external.         *)
(*                                                                         *)
(* A bundle is the pairing it belongs to and the generation of its refresh *)
(* token; its session JWT is fresh until it is in aged (less than          *)
(* refreshGracePeriod left, or expired).  A caller is a goroutine that     *)
(* talks to the cloud: the scheduler loop, or a run with its heartbeat.    *)
(* The flag reauthRequired is written next to paused and read by nobody,   *)
(* so it is left out.                                                      *)
(***************************************************************************)
EXTENDS Naturals

CONSTANTS
    Loop,         \* the scheduler loop
    Others,       \* heartbeats and runs
    Pairers,      \* who may pair: "ipc" (POST /v1/pair), "cli" (the -pair flag)
    None,         \* no holder of the mutex
    MaxPairings,  \* bound on the number of pairing exchanges
    MaxRotations  \* bound on the rotations of one pairing

ASSUME IdentityAssumption ==
    /\ MaxPairings \in Nat
    /\ MaxRotations \in Nat
    /\ None \notin {Loop} \cup Others
    /\ Loop \notin Others
    /\ Pairers \subseteq {"ipc", "cli"}

VARIABLES
    registered,  \* the pairing of the cloud's device row, 0 without one (external)
    cur,         \* the generation of its valid refresh token (external)
    issued,      \* number of pairings the cloud has issued (external)
    aged,        \* bundles whose session is about to expire or has expired
    keystore,    \* the persisted bundle
    cached,      \* TokenSource.cached, NoBundle if not cachedKnown
    lock,        \* TokenSource.mu
    call,        \* call[c]: caller c
    paused,      \* Scheduler.paused
    pairing,     \* pairing[p]: a pairing handler or command
    unpairing,   \* the unpair handler
    calm,        \* the environment has stopped changing (for liveness only)
    lost         \* history: pairings one of whose rotations the device lost

cloudVars == <<registered, cur, issued, aged>>
handlers == <<pairing, unpairing>>
vars == <<registered, cur, issued, aged, keystore, cached, lock, call, paused,
          pairing, unpairing, calm, lost>>

Callers == {Loop} \cup Others

Bundles == [id : 0..MaxPairings, gen : 0..MaxRotations]
NoBundle == [id |-> 0, gen |-> 0]

\* try counts the Claims of one claimWithReauth; the others make one request.
\* via tells the method a refresh was asked by.
Tries == 1..3
IdleCall == [pc |-> "idle", try |-> 1, tok |-> NoBundle, via |-> "BearerToken"]
Calls == [pc : {"idle", "bearer", "request", "invalidate", "force", "refresh", "save", "park"},
          try : Tries, tok : Bundles, via : {"BearerToken", "ForceRefresh"}]

TypeOK ==
    /\ registered \in 0..issued
    /\ issued \in 0..MaxPairings
    /\ cur \in 0..MaxRotations
    /\ aged \in SUBSET Bundles
    /\ keystore \in Bundles
    /\ cached \in Bundles
    /\ lock \in Callers \cup {None}
    /\ call \in [Callers -> Calls]
    /\ paused \in BOOLEAN
    /\ pairing \in [Pairers -> [pc : {"idle", "exchange", "save"}, tok : Bundles]]
    /\ unpairing \in [pc : {"idle", "cloud", "clear"}, tok : Bundles]
    /\ calm \in BOOLEAN
    /\ lost \in SUBSET (0..MaxPairings)

Init ==
    /\ registered = 0 /\ cur = 0 /\ issued = 0 /\ aged = {}
    /\ keystore = NoBundle /\ cached = NoBundle /\ lock = None
    /\ call = [c \in Callers |-> IdleCall]
    /\ paused = FALSE
    /\ pairing = [p \in Pairers |-> [pc |-> "idle", tok |-> NoBundle]]
    /\ unpairing = [pc |-> "idle", tok |-> NoBundle]
    /\ calm = FALSE
    /\ lost = {}

-----------------------------------------------------------------------------
(***************************************************************************)
(* The cloud (external).  It keeps one device row for the installation.  A *)
(* session is good while its pairing is registered; the cloud may turn one *)
(* down that is old or was replaced by a rotation.  Only the newest        *)
(* refresh token of the registered pairing is good.                        *)
(***************************************************************************)
SessionMayPass(b) == b.id # 0 /\ registered = b.id
SessionMayFail(b) == registered # b.id \/ b.gen # cur \/ b \in aged
RefreshPasses(b) == b.id # 0 /\ registered = b.id /\ b.gen = cur

\* The device is revoked in the web UI, or its row is collected.
Revoke ==
    /\ ~calm /\ registered # 0
    /\ registered' = 0
    /\ UNCHANGED <<cur, issued, aged, keystore, cached, lock, call, paused, handlers, calm, lost>>

\* Time passes for the session of a bundle that somebody holds.
Held == {keystore, cached, unpairing.tok} \cup {call[c].tok : c \in Callers}
            \cup {pairing[p].tok : p \in Pairers}

SessionAges(b) ==
    /\ ~calm /\ b \in Held \ {NoBundle} /\ b \notin aged
    /\ aged' = aged \cup {b}
    /\ UNCHANGED <<registered, cur, issued, keystore, cached, lock, call, paused, handlers, calm, lost>>

CalmDown ==
    /\ ~calm /\ calm' = TRUE
    /\ UNCHANGED <<cloudVars, keystore, cached, lock, call, paused, handlers, lost>>

-----------------------------------------------------------------------------
(***************************************************************************)
(* TokenSource and its callers.  A caller needs the mutex for each of the  *)
(* methods and keeps it over the refresh round trip.                       *)
(***************************************************************************)
SetCall(c, pc) == call' = [call EXCEPT ![c].pc = pc]
Done(c) == call' = [call EXCEPT ![c] = IdleCall]

\* A tick starts claimWithReauth, or a run starts a request.
Begin(c) ==
    /\ call[c].pc = "idle" /\ (c = Loop => ~paused)
    /\ SetCall(c, "bearer")
    /\ UNCHANGED <<cloudVars, keystore, cached, lock, paused, handlers, calm, lost>>

\* The bundle the methods work with: the cached one, else the stored one.
Loaded == IF cached # NoBundle THEN cached ELSE keystore

StartRefresh(c, method) ==
    /\ lock' = c
    /\ call' = [call EXCEPT ![c] = [@ EXCEPT !.pc = "refresh", !.tok = Loaded, !.via = method]]

\* A mutant: the mutex is not kept over the refresh round trip.
BearerTokenUnlocked(c) ==
    /\ call[c].pc = "bearer"
    /\ cached' = Loaded
    /\ \/ /\ Loaded = NoBundle /\ Done(c)
       \/ /\ Loaded # NoBundle /\ Loaded \notin aged
          /\ call' = [call EXCEPT ![c] = [@ EXCEPT !.pc = "request", !.tok = Loaded]]
       \/ /\ Loaded # NoBundle /\ Loaded \in aged
          /\ call' = [call EXCEPT ![c] = [@ EXCEPT !.pc = "refresh", !.tok = Loaded]]
    /\ UNCHANGED <<cloudVars, keystore, lock, paused, handlers, calm, lost>>

\* BearerToken: no bundle is an error that is not ErrUnauthorized, a fresh
\* session is used, an aged one refreshed first.
BearerToken(c) ==
    /\ call[c].pc = "bearer" /\ lock = None
    /\ cached' = Loaded
    /\ \/ /\ Loaded = NoBundle /\ Done(c) /\ UNCHANGED lock
       \/ /\ Loaded # NoBundle /\ Loaded \notin aged
          /\ call' = [call EXCEPT ![c] = [@ EXCEPT !.pc = "request", !.tok = Loaded]]
          /\ UNCHANGED lock
       \/ /\ Loaded # NoBundle /\ Loaded \in aged
          /\ StartRefresh(c, "BearerToken")
    /\ UNCHANGED <<cloudVars, keystore, paused, handlers, calm, lost>>

\* ForceRefresh, after the second 401.
ForceRefresh(c) ==
    /\ call[c].pc = "force" /\ lock = None
    /\ cached' = Loaded
    /\ \/ Loaded = NoBundle /\ Done(c) /\ UNCHANGED lock
       \/ Loaded # NoBundle /\ StartRefresh(c, "ForceRefresh")
    /\ UNCHANGED <<cloudVars, keystore, paused, handlers, calm, lost>>

\* A mutant: the cache survives.
InvalidateKeepsCache(c) ==
    /\ call[c].pc = "invalidate" /\ lock = None
    /\ call' = [call EXCEPT ![c] = [@ EXCEPT !.pc = "bearer", !.try = 2]]
    /\ UNCHANGED <<cloudVars, keystore, cached, lock, paused, handlers, calm, lost>>

\* Invalidate, then the second Claim.
Invalidate(c) ==
    /\ call[c].pc = "invalidate" /\ lock = None
    /\ cached' = NoBundle
    /\ call' = [call EXCEPT ![c] = [@ EXCEPT !.pc = "bearer", !.try = 2]]
    /\ UNCHANGED <<cloudVars, keystore, lock, paused, handlers, calm, lost>>

\* A mutant: the error paths return without unlocking.
RefreshFailsLocked(c, pc) ==
    /\ call' = [call EXCEPT ![c] = [IdleCall EXCEPT !.pc = pc]]
    /\ UNCHANGED <<cur, cached, lock, lost>>

\* The error paths of the refresh: the deferred unlock, the cache as it was.
RefreshFails(c, pc) ==
    /\ call' = [call EXCEPT ![c] = [IdleCall EXCEPT !.pc = pc]]
    /\ lock' = None
    /\ UNCHANGED <<cur, cached, lost>>

\* The answer to POST /sessions/refresh: rotated and received, rotated and the
\* answer lost, rejected, or not reached (also when the bound is used up).  A
\* rejection parks the loop after ForceRefresh; inside BearerToken it is an
\* error like any other, because Claim does not turn it into ErrUnauthorized.
RefreshAnswered(c) ==
    /\ call[c].pc = "refresh"
    /\ LET b == call[c].tok IN
       \/ /\ RefreshPasses(b) /\ cur < MaxRotations
          /\ cur' = cur + 1
          /\ cached' = [b EXCEPT !.gen = cur + 1]
          /\ SetCall(c, "save") /\ UNCHANGED <<lock, lost>>
       \/ /\ RefreshPasses(b) /\ cur < MaxRotations /\ ~calm
          /\ cur' = cur + 1
          /\ lost' = lost \cup {b.id}
          /\ Done(c) /\ lock' = None /\ UNCHANGED cached
       \/ ~RefreshPasses(b) /\ RefreshFails(c, IF call[c].via = "ForceRefresh" THEN "park" ELSE "idle")
       \/ (~calm \/ cur = MaxRotations) /\ RefreshFails(c, "idle")
    /\ UNCHANGED <<registered, issued, aged, keystore, paused, handlers, calm>>

\* After the refresh: the request with the new session, or the third Claim.
Refreshed(c) ==
    call' = [call EXCEPT ![c] =
                IF call[c].via = "ForceRefresh" THEN [IdleCall EXCEPT !.pc = "bearer", !.try = 3]
                                  ELSE [@ EXCEPT !.pc = "request", !.tok = cached]]

\* A mutant: the rotated bundle stays in memory.
SaveRotatedSkipped(c) ==
    /\ call[c].pc = "save" /\ lock' = None
    /\ Refreshed(c)
    /\ UNCHANGED <<cloudVars, keystore, cached, paused, handlers, calm, lost>>

\* store.Save of the rotated bundle, and the unlock; its failure is an error.
SaveRotated(c) ==
    /\ call[c].pc = "save" /\ lock' = None
    /\ \/ keystore' = cached /\ Refreshed(c) /\ UNCHANGED lost
       \/ ~calm /\ lost' = lost \cup {cached.id} /\ Done(c) /\ UNCHANGED keystore
    /\ UNCHANGED <<cloudVars, cached, paused, handlers, calm>>

\* A mutant: the last 401 starts over.
AfterUnauthorizedAgain(k) ==
    CASE k.try = 1 -> [k EXCEPT !.pc = "invalidate"]
      [] k.try = 2 -> [k EXCEPT !.pc = "force"]
      [] OTHER     -> [k EXCEPT !.pc = "bearer", !.try = k.try + 1]

\* claimWithReauth on ErrUnauthorized.
AfterUnauthorized(k) ==
    CASE k.try = 1 -> [k EXCEPT !.pc = "invalidate"]
      [] k.try = 2 -> [k EXCEPT !.pc = "force"]
      [] OTHER     -> [k EXCEPT !.pc = "park"]

\* The request: answered, not reached, or 401.
Request(c) ==
    /\ call[c].pc = "request"
    /\ \/ (SessionMayPass(call[c].tok) \/ ~calm) /\ Done(c)
       \/ /\ SessionMayFail(call[c].tok)
          /\ IF c = Loop THEN call' = [call EXCEPT ![c] = AfterUnauthorized(@)] ELSE Done(c)
    /\ UNCHANGED <<cloudVars, keystore, cached, lock, paused, handlers, calm, lost>>

\* tick on ErrUnauthorized: the loop parks itself.
Park ==
    /\ call[Loop].pc = "park"
    /\ paused' = TRUE
    /\ Done(Loop)
    /\ UNCHANGED <<cloudVars, keystore, cached, lock, handlers, calm, lost>>

Pause ==
    /\ ~calm /\ ~paused
    /\ paused' = TRUE
    /\ UNCHANGED <<cloudVars, keystore, cached, lock, call, handlers, calm, lost>>

Resume ==
    /\ ~calm /\ paused
    /\ paused' = FALSE
    /\ UNCHANGED <<cloudVars, keystore, cached, lock, call, handlers, calm, lost>>

-----------------------------------------------------------------------------
(***************************************************************************)
(* Pair and unpair write the keystore and leave the cache alone.           *)
(***************************************************************************)

\* handlePair refuses a daemon that is paired; the -pair command does not look.
PairBegin(p) ==
    /\ ~calm /\ pairing[p].pc = "idle"
    /\ p = "ipc" => keystore = NoBundle
    /\ pairing' = [pairing EXCEPT ![p].pc = "exchange"]
    /\ UNCHANGED <<cloudVars, keystore, cached, lock, call, paused, unpairing, calm, lost>>

\* The cloud takes the code and replaces its row for this installation (and
\* the answer may be lost), or the exchange fails.
Exchange(p) ==
    /\ pairing[p].pc = "exchange"
    /\ \/ /\ issued < MaxPairings
          /\ issued' = issued + 1 /\ registered' = issued + 1 /\ cur' = 0
          /\ pairing' = [pairing EXCEPT ![p] = [pc |-> "save", tok |-> [id |-> issued + 1, gen |-> 0]]]
       \/ /\ issued < MaxPairings
          /\ issued' = issued + 1 /\ registered' = issued + 1 /\ cur' = 0
          /\ pairing' = [pairing EXCEPT ![p].pc = "idle"]
       \/ /\ pairing' = [pairing EXCEPT ![p].pc = "idle"]
          /\ UNCHANGED <<registered, cur, issued>>
    /\ UNCHANGED <<aged, keystore, cached, lock, call, paused, unpairing, calm, lost>>

\* Keystore.Save, or its failure.
PairSave(p) ==
    /\ pairing[p].pc = "save"
    /\ keystore' = pairing[p].tok \/ UNCHANGED keystore
    /\ pairing' = [pairing EXCEPT ![p] = [pc |-> "idle", tok |-> NoBundle]]
    /\ UNCHANGED <<cloudVars, cached, lock, call, paused, unpairing, calm, lost>>

UnpairBegin ==
    /\ ~calm /\ unpairing.pc = "idle"
    /\ keystore # NoBundle
    /\ unpairing' = [pc |-> "cloud", tok |-> keystore]
    /\ UNCHANGED <<cloudVars, keystore, cached, lock, call, paused, pairing, calm, lost>>

UnpairGoto(pc) == unpairing' = [unpairing EXCEPT !.pc = pc]

\* DELETE /devices/self.  The row is deleted; the session gets 401, which
\* counts as success; the cloud is not reached or its answer is lost, which
\* ends the handler unless force is set; any other answer ends it.
UnpairCloud ==
    /\ unpairing.pc = "cloud"
    /\ \/ /\ SessionMayPass(unpairing.tok)
          /\ registered' = 0 /\ (UnpairGoto("clear") \/ UnpairGoto("idle"))
       \/ SessionMayFail(unpairing.tok) /\ UNCHANGED registered /\ UnpairGoto("clear")
       \/ UNCHANGED registered /\ (UnpairGoto("idle") \/ UnpairGoto("clear"))
    /\ UNCHANGED <<cur, issued, aged, keystore, cached, lock, call, paused, pairing, calm, lost>>

\* The sweep of the job table is UnpairSweep of module Scheduler.  Then
\* Keystore.Clear, or its failure; the cache is left alone.
UnpairClear ==
    /\ unpairing.pc = "clear"
    /\ keystore' = NoBundle \/ UNCHANGED keystore
    /\ unpairing' = [pc |-> "idle", tok |-> NoBundle]
    /\ UNCHANGED <<cloudVars, cached, lock, call, paused, pairing, calm, lost>>

\* The process ends and is started again: main loads the keystore into the
\* cache (Set writes the same bundle back, one step here with the load).  A
\* -pair command is another process and goes on.
Restart ==
    /\ ~calm
    /\ cached' = keystore
    /\ lock' = None
    /\ call' = [c \in Callers |-> IdleCall]
    /\ paused' = FALSE
    /\ pairing' = [p \in Pairers |-> IF p = "cli" THEN pairing[p] ELSE [pc |-> "idle", tok |-> NoBundle]]
    /\ unpairing' = [pc |-> "idle", tok |-> NoBundle]
    /\ lost' = lost \cup {call[c].tok.id : c \in {x \in Callers : call[x].pc = "save"}}
    /\ UNCHANGED <<cloudVars, keystore, calm>>

-----------------------------------------------------------------------------
\* The steps that need the mutex, and all steps of a caller.
Acquire(c) == BearerToken(c) \/ ForceRefresh(c) \/ Invalidate(c)

CallerStep(c) ==
    \/ Begin(c) \/ Acquire(c) \/ RefreshAnswered(c) \/ SaveRotated(c) \/ Request(c)
    \/ c = Loop /\ Park

HandlerStep ==
    \/ \E p \in Pairers : PairBegin(p) \/ Exchange(p) \/ PairSave(p)
    \/ UnpairBegin \/ UnpairCloud \/ UnpairClear \/ Pause \/ Resume

EnvStep == Revoke \/ (\E b \in Bundles : SessionAges(b)) \/ CalmDown \/ Restart

Next == (\E c \in Callers : CallerStep(c)) \/ HandlerStep \/ EnvStep

Spec == Init /\ [][Next]_vars

\* Requests have a timeout of 30 s, goroutines are scheduled, and a Go mutex
\* does not starve a waiter.
FairSpec == Spec /\ \A c \in Callers : WF_vars(CallerStep(c)) /\ SF_vars(Acquire(c))

-----------------------------------------------------------------------------
(***************************************************************************)
(* Properties.                                                             *)
(***************************************************************************)

\* A restart does not cost the pairing (source.go BearerToken, ForceRefresh):
\* what the keystore holds of the registered pairing is its newest refresh
\* token, except while a caller is about to save it, or after an answer, a save
\* or the process was lost at that point, whatever pairs, unpairs and restarts
\* come in between.
KeystoreIsCurrent ==
    (keystore.id = registered /\ registered # 0 /\ registered \notin lost) =>
        keystore.gen = cur \/ \E c \in Callers : call[c].pc = "save"

\* A refresh token is presented once (source.go keeps mu over the round trip):
\* when a caller asks for a refresh, no other caller has rotated its token,
\* with the same exceptions.
RefreshTokenUsedOnce ==
    \A c \in Callers :
        LET b == call[c].tok
        IN  (call[c].pc = "refresh" /\ b.id = registered /\ registered # 0
                /\ registered \notin lost) => b.gen = cur

-----------------------------------------------------------------------------
(***************************************************************************)
(* The strengthening that makes the two invariants inductive               *)
(* (module IdentityProofs).                                                *)
(***************************************************************************)

\* The mutex is held over the round trip and the save, by the caller whose
\* bundle is the cached one, and by nobody else.
LockInv ==
    /\ \A c \in Callers : lock = c <=> call[c].pc \in {"refresh", "save"}
    /\ \A c \in Callers : call[c].pc = "refresh" => call[c].tok = cached
    /\ \A c \in Callers : call[c].pc = "save" => call[c].tok.id = cached.id

\* A pairing that is being saved is known to its handler alone.
PairInv ==
    /\ keystore.id <= issued /\ cached.id <= issued
    /\ \A p \in Pairers :
          /\ pairing[p].tok.id <= issued
          /\ pairing[p].pc = "save" =>
                LET b == pairing[p].tok IN
                /\ b.id # 0 /\ b.gen = 0
                /\ keystore.id # b.id /\ cached.id # b.id
                /\ b.id = registered => cur = 0
                /\ \A q \in Pairers : q # p /\ pairing[q].pc = "save" => pairing[q].tok.id # b.id

\* Of the registered pairing the cache has the newest refresh token, and the
\* keystore has it or is about to get it from the cache.
Live(id) == id = registered /\ id # 0 /\ id \notin lost

CurrentInv ==
    /\ Live(cached.id) => cached.gen = cur
    /\ Live(keystore.id) =>
          \/ keystore.gen = cur
          \/ cached.id = keystore.id /\ \E c \in Callers : call[c].pc = "save"

-----------------------------------------------------------------------------
(***************************************************************************)
(* Liveness.                                                               *)
(***************************************************************************)

\* Every call comes back: no path keeps the mutex (the deferred unlocks), and
\* "Retries inside this function are bounded" (claimWithReauth).
CallsEnd == \A c \in Callers : call[c].pc # "idle" ~> call[c].pc = "idle"

\* The keystore holds a good bundle, nobody is changing it, and the loop is
\* about to tick.
Repaired ==
    /\ calm /\ ~paused /\ lock = None /\ call[Loop].pc = "idle"
    /\ RefreshPasses(keystore) /\ keystore \notin aged
    /\ unpairing.pc = "idle" /\ \A p \in Pairers : pairing[p].pc = "idle"

\* A re-pair under a running daemon is picked up (scheduler.go "Drop the
\* in-memory token cache so a freshly-paired bundle on disk gets picked up"):
\* the daemon comes to use the bundle on disk, if the session it has cached
\* still looks fresh.
RepairPickedUp == (Repaired /\ cached \notin aged) ~> cached = keystore

\* What handlers_unpair.go says of the cleared keystore ("After this point the
\* daemon has no identity and AlreadyPaired() returns false on every IPC
\* call"): only a pairing fills it again.  The code does not keep it.
UnpairedUntilPaired ==
    [][(keystore = NoBundle /\ keystore' # NoBundle) =>
            \E p \in Pairers : pairing[p].pc = "save"]_vars

=============================================================================
