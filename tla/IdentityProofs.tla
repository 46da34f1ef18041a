--------------------------- MODULE IdentityProofs ---------------------------
(***************************************************************************)
(* Proofs about Identity, for any number of callers, pairings and          *)
(* rotations.                                                              *)
(***************************************************************************)
EXTENDS Identity, TLAPS

Inv == TypeOK /\ LockInv /\ PairInv /\ CurrentInv

\* Bundles are records of two numbers, and there is an empty one.
LEMMA BundleFacts ==
    /\ NoBundle \in Bundles
    /\ IdleCall \in Calls
    /\ 2 \in Tries /\ 3 \in Tries
    /\ \A b \in Bundles : b.id \in 0..MaxPairings /\ b.gen \in 0..MaxRotations
    /\ \A b \in Bundles : \A g \in 0..MaxRotations : [b EXCEPT !.gen = g] \in Bundles
    /\ \A b \in Bundles : \A g \in 0..MaxRotations :
          [b EXCEPT !.gen = g].id = b.id /\ [b EXCEPT !.gen = g].gen = g
<1>1. NoBundle \in Bundles
  BY IdentityAssumption DEF NoBundle, Bundles
<1>2. IdleCall \in Calls
  BY <1>1 DEF IdleCall, Calls, Tries
<1>3. 2 \in Tries /\ 3 \in Tries
  BY DEF Tries
<1> QED BY <1>1, <1>2, <1>3 DEF Bundles

\* The cache is filled from the cache or from the keystore.
LEMMA LoadedFacts ==
    ASSUME TypeOK
    PROVE  Loaded \in Bundles /\ Loaded \in {cached, keystore}
  BY DEF TypeOK, Loaded

\* A step of a caller moves that caller alone, to a record of the right type.
LEMMA CallerShape ==
    ASSUME TypeOK, NEW c \in Callers, CallerStep(c)
    PROVE  /\ \E k \in Calls : call' = [call EXCEPT ![c] = k]
           /\ UNCHANGED <<registered, issued, aged, pairing, unpairing, calm>>
<1>a. 2 \in Tries /\ 3 \in Tries /\ IdleCall \in Calls /\ NoBundle \in Bundles /\ cached \in Bundles
  BY BundleFacts DEF TypeOK
<1>0. call[c] \in Calls /\ call \in [Callers -> Calls]
  BY DEF TypeOK
<1>1. CASE Begin(c)
  <2>1. [call[c] EXCEPT !.pc = "bearer"] \in Calls
    BY <1>a, <1>0 DEF Calls
  <2> QED BY <1>a, <1>1, <2>1 DEF Begin, SetCall, cloudVars, handlers
<1>2. CASE BearerToken(c)
  <2>1. /\ [call[c] EXCEPT !.pc = "request", !.tok = Loaded] \in Calls
        /\ [call[c] EXCEPT !.pc = "refresh", !.tok = Loaded, !.via = "BearerToken"] \in Calls
    BY <1>0, LoadedFacts DEF Calls
  <2> QED BY <1>a, <1>2, <2>1 DEF BearerToken, StartRefresh, Done, cloudVars, handlers
<1>3. CASE ForceRefresh(c)
  <2>1. [call[c] EXCEPT !.pc = "refresh", !.tok = Loaded, !.via = "ForceRefresh"] \in Calls
    BY <1>0, LoadedFacts DEF Calls
  <2> QED BY <1>a, <1>3, <2>1 DEF ForceRefresh, StartRefresh, Done, cloudVars, handlers
<1>4. CASE Invalidate(c)
  <2>1. [call[c] EXCEPT !.pc = "bearer", !.try = 2] \in Calls
    BY <1>a, <1>0 DEF Calls
  <2> QED BY <1>a, <1>4, <2>1 DEF Invalidate, cloudVars, handlers
<1>5. CASE RefreshAnswered(c)
  <2>1. /\ [call[c] EXCEPT !.pc = "save"] \in Calls
        /\ [IdleCall EXCEPT !.pc = "park"] \in Calls
        /\ [IdleCall EXCEPT !.pc = "idle"] \in Calls
    BY <1>a, <1>0 DEF Calls
  <2> QED BY <1>a, <1>5, <2>1 DEF RefreshAnswered, RefreshFails, SetCall, Done, handlers
<1>6. CASE SaveRotated(c)
  <2>1. /\ [IdleCall EXCEPT !.pc = "bearer", !.try = 3] \in Calls
        /\ [call[c] EXCEPT !.pc = "request", !.tok = cached] \in Calls
    BY <1>a, <1>0 DEF Calls
  <2> QED BY <1>a, <1>6, <2>1 DEF SaveRotated, Refreshed, Done, cloudVars, handlers
<1>7. CASE Request(c)
  <2>1. AfterUnauthorized(call[c]) \in Calls
    BY <1>0 DEF AfterUnauthorized, Calls
  <2> QED BY <1>a, <1>7, <2>1 DEF Request, Done, cloudVars, handlers
<1>8. CASE c = Loop /\ Park
  BY <1>a, <1>8 DEF Park, Done, cloudVars, handlers
<1> QED BY <1>1, <1>2, <1>3, <1>4, <1>5, <1>6, <1>7, <1>8 DEF CallerStep, Acquire

\* Every step keeps the types.
LEMMA TypeStep ==
    ASSUME TypeOK, [Next]_vars
    PROVE  TypeOK'
<1> USE BundleFacts, IdentityAssumption
<1>1. ASSUME NEW c \in Callers, CallerStep(c) PROVE TypeOK'
  <2>1. call' \in [Callers -> Calls]
    BY <1>1, CallerShape DEF TypeOK
  <2>2. UNCHANGED <<registered, issued, aged, pairing, unpairing, calm>>
    BY <1>1, CallerShape
  <2>3. cached' \in Bundles /\ keystore' \in Bundles
    <3>1. cur < MaxRotations => [call[c].tok EXCEPT !.gen = cur + 1] \in Bundles
      <4>1. call[c].tok \in Bundles
        BY DEF TypeOK, Calls
      <4>2. cur < MaxRotations => cur + 1 \in 0..MaxRotations
        BY DEF TypeOK
      <4> QED BY <4>1, <4>2
    <3> QED BY <1>1, <3>1, LoadedFacts DEF TypeOK, CallerStep, Acquire, Begin, BearerToken, ForceRefresh, Invalidate,
       RefreshAnswered, RefreshFails, SaveRotated, Request, Park, Calls
  <2>4. cur' \in 0..MaxRotations
    BY <1>1 DEF TypeOK, CallerStep, Acquire, Begin, BearerToken, ForceRefresh, Invalidate,
       RefreshAnswered, RefreshFails, SaveRotated, Request, Park, cloudVars
  <2>5. lock' \in Callers \cup {None} /\ paused' \in BOOLEAN
    BY <1>1 DEF TypeOK, CallerStep, Acquire, Begin, BearerToken, ForceRefresh, Invalidate, StartRefresh,
       RefreshAnswered, RefreshFails, SaveRotated, Request, Park
  <2>6. lost' \in SUBSET (0..MaxPairings)
    <3>1. call[c].tok.id \in 0..MaxPairings /\ cached.id \in 0..MaxPairings
      BY DEF TypeOK, Calls
    <3> QED BY <1>1, <3>1 DEF TypeOK, CallerStep, Acquire, Begin, BearerToken, ForceRefresh, Invalidate,
       RefreshAnswered, RefreshFails, SaveRotated, Request, Park
  <2> QED BY <2>1, <2>2, <2>3, <2>4, <2>5, <2>6 DEF TypeOK
<1>2. ASSUME NEW p \in Pairers, PairBegin(p) PROVE TypeOK'
  <2>1. pairing' \in [Pairers -> [pc : {"idle", "exchange", "save"}, tok : Bundles]]
    BY <1>2 DEF TypeOK, PairBegin
  <2> QED BY <1>2, <2>1 DEF TypeOK, PairBegin, cloudVars
<1>3. ASSUME NEW p \in Pairers, Exchange(p) PROVE TypeOK'
  <2>1. issued < MaxPairings => [id |-> issued + 1, gen |-> 0] \in Bundles
    BY DEF TypeOK, Bundles
  <2>2. pairing' \in [Pairers -> [pc : {"idle", "exchange", "save"}, tok : Bundles]]
    BY <1>3, <2>1 DEF TypeOK, Exchange
  <2> QED BY <1>3, <2>2 DEF TypeOK, Exchange
<1>4. ASSUME NEW p \in Pairers, PairSave(p) PROVE TypeOK'
  <2>1. pairing' \in [Pairers -> [pc : {"idle", "exchange", "save"}, tok : Bundles]]
    BY <1>4 DEF TypeOK, PairSave
  <2>2. keystore' \in Bundles
    BY <1>4 DEF TypeOK, PairSave
  <2> QED BY <1>4, <2>1, <2>2 DEF TypeOK, PairSave, cloudVars
<1>5. CASE UnpairBegin \/ UnpairCloud \/ UnpairClear
  <2>1. unpairing' \in [pc : {"idle", "cloud", "clear"}, tok : Bundles]
    BY <1>5 DEF TypeOK, UnpairBegin, UnpairCloud, UnpairClear, UnpairGoto
  <2>2. registered' \in 0..issued /\ keystore' \in Bundles
    BY <1>5 DEF TypeOK, UnpairBegin, UnpairCloud, UnpairClear, cloudVars
  <2> QED BY <1>5, <2>1, <2>2 DEF TypeOK, UnpairBegin, UnpairCloud, UnpairClear, cloudVars
<1>5a. CASE Pause \/ Resume
  <2>1. paused' \in BOOLEAN
    BY <1>5a DEF Pause, Resume
  <2> QED BY <1>5a, <2>1 DEF TypeOK, Pause, Resume, cloudVars, handlers
<1>6. CASE Revoke \/ CalmDown
  <2>1. calm' \in BOOLEAN
    BY <1>6 DEF TypeOK, Revoke, CalmDown
  <2>2. registered' \in 0..issued
    BY <1>6 DEF TypeOK, Revoke, CalmDown, cloudVars
  <2> QED BY <1>6, <2>1, <2>2 DEF TypeOK, Revoke, CalmDown, cloudVars, handlers
<1>7. ASSUME NEW b \in Bundles, SessionAges(b) PROVE TypeOK'
  BY <1>7 DEF TypeOK, SessionAges, handlers
<1>8. CASE Restart
  <2>1. \A c \in Callers : call[c].tok.id \in 0..MaxPairings
    BY DEF TypeOK, Calls
  <2>2. lost' \in SUBSET (0..MaxPairings)
    BY <1>8, <2>1 DEF TypeOK, Restart
  <2>3. pairing' \in [Pairers -> [pc : {"idle", "exchange", "save"}, tok : Bundles]]
    BY <1>8 DEF TypeOK, Restart
  <2>4. unpairing' \in [pc : {"idle", "cloud", "clear"}, tok : Bundles]
    BY <1>8 DEF Restart
  <2> QED BY <1>8, <2>2, <2>3, <2>4 DEF TypeOK, Restart, cloudVars
<1>9. CASE UNCHANGED vars
  BY <1>9 DEF TypeOK, vars
<1> QED
  BY <1>1, <1>2, <1>3, <1>4, <1>5, <1>5a, <1>6, <1>7, <1>8, <1>9 DEF Next, HandlerStep, EnvStep

-----------------------------------------------------------------------------
\* What the methods do to the caller, the mutex and the cache, in the words of
\* the invariants.
LEMMA CallerCases ==
    ASSUME TypeOK, NEW c \in Callers, CallerStep(c)
    PROVE  /\ \A d \in Callers : d # c => call'[d] = call[d]
           /\ \/ /\ call[c].pc \notin {"refresh", "save"} /\ call'[c].pc \notin {"refresh", "save"}
                 /\ UNCHANGED <<lock, cur, keystore, lost>>
                 /\ \/ UNCHANGED cached
                    \/ lock = None /\ cached' \in {NoBundle, Loaded}
              \/ /\ call[c].pc # "save" /\ lock = None /\ lock' = c
                 /\ call'[c].pc = "refresh" /\ call'[c].tok = Loaded /\ cached' = Loaded
                 /\ UNCHANGED <<cur, keystore, lost>>
              \/ /\ call[c].pc = "refresh" /\ call'[c].pc = "save"
                 /\ RefreshPasses(call[c].tok)
                 /\ call'[c].tok = call[c].tok
                 /\ cached'.id = call[c].tok.id /\ cached'.gen = cur' /\ cur' = cur + 1
                 /\ UNCHANGED <<lock, keystore, lost>>
              \/ /\ call[c].pc = "refresh" /\ call'[c].pc \notin {"refresh", "save"}
                 /\ lock' = None
                 /\ \/ UNCHANGED <<cur, cached, keystore, lost>>
                    \/ /\ RefreshPasses(call[c].tok) /\ cur' = cur + 1
                       /\ lost' = lost \cup {call[c].tok.id}
                       /\ UNCHANGED <<cached, keystore>>
              \/ /\ call[c].pc = "save" /\ call'[c].pc \notin {"refresh", "save"}
                 /\ lock' = None
                 /\ \/ keystore' = cached /\ UNCHANGED <<cur, cached, lost>>
                    \/ lost' = lost \cup {cached.id} /\ UNCHANGED <<cur, cached, keystore>>
<1>0. call \in [Callers -> Calls] /\ call[c] \in Calls /\ call[c].tok \in Bundles
  BY DEF TypeOK, Calls
<1>a. \A d \in Callers : d # c => call'[d] = call[d]
  BY CallerShape, <1>0
<1>1. CASE Begin(c)
  BY <1>0, <1>a, <1>1 DEF Begin, SetCall, cloudVars
<1>2. CASE BearerToken(c)
  <2>2. CASE Loaded = NoBundle /\ Done(c) /\ UNCHANGED lock
    BY <1>0, <1>a, <1>2, <2>2 DEF BearerToken, Done, IdleCall, cloudVars
  <2>3. CASE /\ call' = [call EXCEPT ![c] = [@ EXCEPT !.pc = "request", !.tok = Loaded]]
             /\ UNCHANGED lock
    BY <1>0, <1>a, <1>2, <2>3 DEF BearerToken, cloudVars
  <2>4. CASE StartRefresh(c, "BearerToken")
    BY <1>0, <1>a, <1>2, <2>4 DEF BearerToken, StartRefresh, cloudVars, Calls
  <2> QED BY <1>2, <2>2, <2>3, <2>4 DEF BearerToken
<1>3. CASE ForceRefresh(c)
  <2>1. CASE Done(c) /\ UNCHANGED lock
    BY <1>0, <1>a, <1>3, <2>1 DEF ForceRefresh, Done, IdleCall, cloudVars
  <2>2. CASE StartRefresh(c, "ForceRefresh")
    BY <1>0, <1>a, <1>3, <2>2 DEF ForceRefresh, StartRefresh, cloudVars, Calls
  <2> QED BY <1>3, <2>1, <2>2 DEF ForceRefresh
<1>4. CASE Invalidate(c)
  BY <1>0, <1>a, <1>4 DEF Invalidate, cloudVars
<1>5. CASE RefreshAnswered(c)
  <2>1. CASE /\ RefreshPasses(call[c].tok) /\ cur < MaxRotations
             /\ cur' = cur + 1
             /\ cached' = [call[c].tok EXCEPT !.gen = cur + 1]
             /\ SetCall(c, "save") /\ UNCHANGED <<lock, lost>>
    <3>1. cached'.id = call[c].tok.id /\ cached'.gen = cur + 1
      BY <1>0, <2>1 DEF Bundles
    <3>2. call'[c].pc = "save" /\ call'[c].tok = call[c].tok
      BY <1>0, <2>1 DEF SetCall, Calls
    <3> QED BY <1>a, <1>5, <2>1, <3>1, <3>2 DEF RefreshAnswered
  <2>2. CASE /\ RefreshPasses(call[c].tok)
             /\ cur' = cur + 1
             /\ lost' = lost \cup {call[c].tok.id}
             /\ Done(c) /\ lock' = None /\ UNCHANGED cached
    <3>1. call'[c].pc = "idle"
      BY <1>0, <2>2 DEF Done, IdleCall
    <3> QED BY <1>a, <1>5, <2>2, <3>1 DEF RefreshAnswered
  <2>3. ASSUME NEW pc \in {"park", "idle"}, RefreshFails(c, pc)
        PROVE  /\ call'[c].pc \notin {"refresh", "save"}
               /\ lock' = None /\ UNCHANGED <<cur, cached, lost>>
    BY <1>0, <2>3 DEF RefreshFails, IdleCall
  <2> QED BY <1>a, <1>5, <2>1, <2>2, <2>3 DEF RefreshAnswered
<1>6. CASE SaveRotated(c)
  <2>1. call'[c].pc \notin {"refresh", "save"}
    <3>1. \/ call' = [call EXCEPT ![c] = [call[c] EXCEPT !.pc = "request", !.tok = cached]]
          \/ call' = [call EXCEPT ![c] = [IdleCall EXCEPT !.pc = "bearer", !.try = 3]]
          \/ call' = [call EXCEPT ![c] = IdleCall]
      BY <1>6 DEF SaveRotated, Refreshed, Done
    <3>2. [call[c] EXCEPT !.pc = "request", !.tok = cached].pc = "request"
      BY <1>0 DEF Calls
    <3>3. [IdleCall EXCEPT !.pc = "bearer", !.try = 3].pc = "bearer" /\ IdleCall.pc = "idle"
      BY DEF IdleCall
    <3> QED BY <1>0, <3>1, <3>2, <3>3
  <2> QED BY <1>a, <1>6, <2>1 DEF SaveRotated, cloudVars
<1>7. CASE Request(c)
  <2>1. AfterUnauthorized(call[c]).pc \in {"invalidate", "force", "park"}
    BY <1>0 DEF AfterUnauthorized, Calls
  <2>2. call'[c].pc \notin {"refresh", "save"}
    <3>1. call' = [call EXCEPT ![c] = IdleCall] \/ call' = [call EXCEPT ![c] = AfterUnauthorized(call[c])]
      BY <1>7 DEF Request, Done
    <3> QED BY <1>0, <2>1, <3>1 DEF IdleCall
  <2> QED BY <1>a, <1>7, <2>2 DEF Request, cloudVars
<1>8. CASE c = Loop /\ Park
  BY <1>0, <1>a, <1>8 DEF Park, Done, IdleCall, cloudVars
<1> QED BY <1>1, <1>2, <1>3, <1>4, <1>5, <1>6, <1>7, <1>8 DEF CallerStep, Acquire

-----------------------------------------------------------------------------
\* The steps of the handlers and of the environment other than Restart leave
\* the token source alone.
LEMMA OutsideSteps ==
    ASSUME [Next]_vars, ~Restart, \A c \in Callers : ~CallerStep(c)
    PROVE  UNCHANGED <<cached, lock, call, lost>>
  BY DEF Next, HandlerStep, EnvStep, PairBegin, Exchange, PairSave, UnpairBegin, UnpairCloud, UnpairClear,
         Pause, Resume, Revoke, SessionAges, CalmDown, vars

\* The mutex protects the round trip and the save.
LEMMA LockStep ==
    ASSUME Inv, [Next]_vars
    PROVE  LockInv'
<1> USE DEF Inv
<1>1. ASSUME NEW c \in Callers, CallerStep(c) PROVE LockInv'
  <2>1. \A d \in Callers : d # c => call'[d] = call[d]
    BY <1>1, CallerCases
  <2>2. None \notin Callers
    BY IdentityAssumption DEF Callers
  <2> QED BY <1>1, <2>1, <2>2, CallerCases DEF LockInv
<1>2. CASE Restart
  <2>1. \A c \in Callers : call'[c].pc = "idle"
    BY <1>2 DEF Restart, IdleCall
  <2> QED BY <1>2, <2>1, IdentityAssumption DEF Restart, LockInv, Callers
<1>3. CASE UNCHANGED <<cached, lock, call, lost>>
  BY <1>3 DEF LockInv
<1> QED BY <1>1, <1>2, <1>3, OutsideSteps

\* A pairing that is being saved is known to its handler alone: the cache and
\* the keystore are filled from each other, a new pairing has a new number.
LEMMA PairStep ==
    ASSUME Inv, [Next]_vars
    PROVE  PairInv'
<1> USE DEF Inv
<1>0. /\ registered \in 0..issued /\ issued \in Nat /\ cur \in Nat
      /\ keystore.id \in Nat /\ cached.id \in Nat
      /\ \A p \in Pairers : pairing[p].tok.id \in Nat
      /\ \A c \in Callers : call[c].tok.id \in Nat
      /\ NoBundle.id = 0
  BY BundleFacts, IdentityAssumption DEF TypeOK, Bundles, Calls, NoBundle
<1>1. ASSUME NEW c \in Callers, CallerStep(c) PROVE PairInv'
  <2>1. UNCHANGED <<registered, issued, pairing>>
    BY <1>1, CallerShape
  <2>2. cached'.id \in {0, cached.id, keystore.id} /\ keystore'.id \in {keystore.id, cached.id}
    BY <1>0, <1>1, CallerCases, LoadedFacts DEF LockInv
  <2>3. cur' # cur => registered = cached.id
    BY <1>1, CallerCases DEF LockInv, RefreshPasses
  <2> QED BY <1>0, <2>1, <2>2, <2>3 DEF PairInv
<1>2. CASE Restart
  <2>1. \A p \in Pairers : pairing'[p] = pairing[p] \/ (pairing'[p].pc = "idle" /\ pairing'[p].tok.id = 0)
    BY <1>0, <1>2 DEF Restart
  <2>2. cached' = keystore /\ UNCHANGED <<registered, issued, cur, keystore>>
    BY <1>2 DEF Restart, cloudVars
  <2> QED BY <1>0, <2>1, <2>2 DEF PairInv
<1>3. ASSUME NEW p \in Pairers, Exchange(p) PROVE PairInv'
  <2>0. \A q \in Pairers : q # p => pairing'[q] = pairing[q]
    BY <1>3 DEF Exchange, TypeOK
  <2>1. CASE /\ issued' = issued + 1 /\ registered' = issued + 1 /\ cur' = 0
             /\ pairing' = [pairing EXCEPT ![p] = [pc |-> "save", tok |-> [id |-> issued + 1, gen |-> 0]]]
    <3>1. pairing'[p].pc = "save" /\ pairing'[p].tok.id = issued + 1 /\ pairing'[p].tok.gen = 0
      BY <2>1 DEF TypeOK
    <3> QED BY <1>0, <1>3, <2>0, <2>1, <3>1 DEF PairInv, Exchange
  <2>2. CASE pairing' = [pairing EXCEPT ![p].pc = "idle"]
    <3>1. pairing'[p].pc = "idle" /\ pairing'[p].tok = pairing[p].tok
      BY <2>2 DEF TypeOK
    <3>2. UNCHANGED <<keystore, cached>>
      BY <1>3 DEF Exchange
    <3>3. \/ UNCHANGED <<registered, cur, issued>>
          \/ issued' = issued + 1 /\ registered' = issued + 1 /\ cur' = 0
      BY <1>3 DEF Exchange
    <3> QED BY <1>0, <2>0, <3>1, <3>2, <3>3 DEF PairInv
  <2> QED BY <1>3, <2>1, <2>2 DEF Exchange
<1>4. ASSUME NEW p \in Pairers, PairSave(p) PROVE PairInv'
  <2>1. /\ \A q \in Pairers : q # p => pairing'[q] = pairing[q]
        /\ pairing'[p].pc = "idle" /\ pairing'[p].tok.id = 0
    BY <1>0, <1>4 DEF PairSave, TypeOK
  <2>2. keystore' \in {keystore, pairing[p].tok} /\ UNCHANGED <<registered, cur, issued, cached>>
    BY <1>4 DEF PairSave, cloudVars
  <2> QED BY <1>0, <1>4, <2>1, <2>2 DEF PairInv, PairSave
<1>5. ASSUME NEW p \in Pairers, PairBegin(p) PROVE PairInv'
  <2>1. /\ \A q \in Pairers : q # p => pairing'[q] = pairing[q]
        /\ pairing'[p].pc = "exchange" /\ pairing'[p].tok = pairing[p].tok
    BY <1>5 DEF PairBegin, TypeOK
  <2> QED BY <1>0, <1>5, <2>1 DEF PairInv, PairBegin, cloudVars
<1>6. CASE UnpairCloud \/ Revoke
  BY <1>0, <1>6 DEF PairInv, UnpairCloud, Revoke, handlers
<1>7. CASE UnpairClear
  BY <1>0, <1>7 DEF PairInv, UnpairClear, cloudVars
<1>8. CASE UNCHANGED <<registered, cur, issued, keystore, cached, pairing>>
  BY <1>8 DEF PairInv
<1>9. \/ \E c \in Callers : CallerStep(c)
      \/ \E p \in Pairers : Exchange(p) \/ PairSave(p) \/ PairBegin(p)
      \/ Restart \/ UnpairCloud \/ Revoke \/ UnpairClear
      \/ UNCHANGED <<registered, cur, issued, keystore, cached, pairing>>
  BY DEF Next, HandlerStep, EnvStep, UnpairBegin, Pause, Resume, SessionAges, CalmDown, cloudVars, handlers, vars
<1> QED BY <1>1, <1>2, <1>3, <1>4, <1>5, <1>6, <1>7, <1>8, <1>9

\* Every step keeps the newest refresh token in the cache, and in the keystore
\* or on its way there.
LEMMA CurrentStep ==
    ASSUME Inv, [Next]_vars
    PROVE  CurrentInv'
<1> USE DEF Inv, CurrentInv, Live
<1>0. /\ registered \in 0..issued /\ issued \in Nat /\ cur \in Nat
      /\ keystore.id \in Nat /\ cached.id \in Nat
      /\ \A p \in Pairers : pairing[p].tok.id \in Nat
      /\ NoBundle.id = 0
  BY BundleFacts, IdentityAssumption DEF TypeOK, Bundles, Calls, NoBundle
<1>1. ASSUME NEW c \in Callers, CallerStep(c) PROVE CurrentInv'
  <2>0. /\ \A d \in Callers : d # c => call'[d] = call[d]
        /\ UNCHANGED registered
        /\ None \notin Callers
    BY <1>1, CallerShape, CallerCases, IdentityAssumption DEF Callers
  <2>1. lock = None => ~\E d \in Callers : call[d].pc = "save"
    BY <2>0 DEF LockInv
  <2>2. \A d \in Callers : call[d].pc = "save" => lock = d
    BY DEF LockInv
  <2>3. call[c].pc = "refresh" => call[c].tok = cached
    BY DEF LockInv
  <2> QED BY <1>0, <1>1, <2>0, <2>1, <2>2, <2>3, CallerCases, LoadedFacts DEF RefreshPasses
<1>2. CASE Restart
  <2>1. cached' = keystore /\ UNCHANGED <<registered, cur, keystore>>
    BY <1>2 DEF Restart, cloudVars
  <2>2. \A c \in Callers : call[c].pc = "save" => cached.id \in lost'
    BY <1>2 DEF Restart, LockInv
  <2>3. lost \subseteq lost'
    BY <1>2 DEF Restart
  <2> QED BY <2>1, <2>2, <2>3
<1>3. ASSUME NEW p \in Pairers, Exchange(p) PROVE CurrentInv'
  BY <1>0, <1>3 DEF Exchange, PairInv
<1>4. ASSUME NEW p \in Pairers, PairSave(p) PROVE CurrentInv'
  BY <1>0, <1>4 DEF PairSave, PairInv, cloudVars
<1>5. CASE UnpairCloud \/ Revoke
  BY <1>0, <1>5 DEF UnpairCloud, Revoke
<1>6. CASE UnpairClear
  BY <1>0, <1>6 DEF UnpairClear, cloudVars
<1>7. CASE UNCHANGED <<registered, cur, keystore, cached, call, lost>>
  BY <1>7
<1>8. \/ \E c \in Callers : CallerStep(c)
      \/ \E p \in Pairers : Exchange(p) \/ PairSave(p)
      \/ Restart \/ UnpairCloud \/ Revoke \/ UnpairClear
      \/ UNCHANGED <<registered, cur, keystore, cached, call, lost>>
  BY DEF Next, HandlerStep, EnvStep, PairBegin, UnpairBegin, Pause, Resume, SessionAges, CalmDown, cloudVars,
         handlers, vars
<1> QED BY <1>1, <1>2, <1>3, <1>4, <1>5, <1>6, <1>7, <1>8

-----------------------------------------------------------------------------
\* The inductive invariant.
LEMMA IdentityInvariant == Spec => []Inv
<1>1. Init => Inv
  <2> SUFFICES ASSUME Init PROVE Inv
    OBVIOUS
  <2>1. TypeOK
    <3>1. NoBundle \in Bundles /\ IdleCall \in Calls
      BY BundleFacts
    <3>2. /\ pairing \in [Pairers -> [pc : {"idle", "exchange", "save"}, tok : Bundles]]
          /\ unpairing \in [pc : {"idle", "cloud", "clear"}, tok : Bundles]
          /\ call \in [Callers -> Calls]
      BY <3>1 DEF Init
    <3>3. paused \in BOOLEAN /\ calm \in BOOLEAN
      BY DEF Init
    <3>4. registered \in 0..issued /\ issued \in 0..MaxPairings /\ cur \in 0..MaxRotations
      BY IdentityAssumption DEF Init
    <3> QED BY <3>1, <3>2, <3>3, <3>4 DEF Init, TypeOK
  <2>2. LockInv
    BY IdentityAssumption DEF Init, LockInv, IdleCall, Callers
  <2>3. PairInv /\ CurrentInv
    BY DEF Init, PairInv, CurrentInv, Live, NoBundle
  <2> QED BY <2>1, <2>2, <2>3 DEF Inv
<1>2. Inv /\ [Next]_vars => Inv'
  BY TypeStep, LockStep, PairStep, CurrentStep DEF Inv
<1> QED BY <1>1, <1>2, PTL DEF Spec

\* The state of the token source, the cloud's device row and the handlers keep
\* their types; claimWithReauth makes at most three Claims.
THEOREM TypeCorrect == Spec => []TypeOK
<1>1. Inv => TypeOK
  BY DEF Inv
<1> QED BY <1>1, IdentityInvariant, PTL

\* A restart does not cost the pairing: the keystore holds the newest refresh
\* token of the registered pairing, except in the window between the cloud's
\* rotation and store.Save (source.go BearerToken and ForceRefresh).
THEOREM KeystoreCurrent == Spec => []KeystoreIsCurrent
<1>1. Inv => KeystoreIsCurrent
  BY DEF Inv, CurrentInv, Live, KeystoreIsCurrent
<1> QED BY <1>1, IdentityInvariant, PTL

\* No caller presents a refresh token that another one has rotated, because
\* TokenSource.mu is held over the round trip (source.go).
THEOREM UsedOnce == Spec => []RefreshTokenUsedOnce
<1>1. Inv => RefreshTokenUsedOnce
  BY DEF Inv, LockInv, CurrentInv, Live, RefreshTokenUsedOnce
<1> QED BY <1>1, IdentityInvariant, PTL

=============================================================================
