---------------------------- MODULE LogHubProofs ----------------------------
(***************************************************************************)
(* Proofs about LogHub, for any ring size and any number of publishers,    *)
(* subscribers and events.                                                 *)
(***************************************************************************)
EXTENDS LogHub, SequenceTheorems, TLAPS

\* Of all steps only Publish touches the ring.
LEMMA RingSteps ==
    ASSUME [Next]_vars
    PROVE  (\E p \in Publishers : Publish(p)) \/ UNCHANGED ringVars
  BY ZenonT(60) DEF Next, PublisherStep, SubscriberStep, PublishNext, PublishSend, PublishDrop, PublishResend,
         Subscribe, ReplaySend, ReplayDrop, ReplayResend, Receive, Disconnect, CancelUnregister,
         CancelMark, CancelClose, ringVars, vars

\* The next index modulo the ring size: the one after it, or back to 0.
LEMMA WrapAround ==
    ASSUME NEW n \in Nat \ {0}, NEW h \in 0..(n - 1)
    PROVE  (h + 1) % n = IF h + 1 < n THEN h + 1 ELSE 0
<1>1. ASSUME NEW x \in 0..(n - 1) PROVE x % n = x
  BY <1>1, SMT
<1>2. n % n = 0
  BY SMT
<1>3. CASE h + 1 < n
  BY <1>1, <1>3
<1>4. CASE ~(h + 1 < n)
  <2>1. h + 1 = n
    BY <1>4
  <2> QED BY <1>2, <1>4, <2>1
<1> QED BY <1>3, <1>4

\* Publish keeps the order of the slots: while the ring fills, when the last
\* slot is taken, when head moves on and when it wraps.
LEMMA RingStep ==
    ASSUME RingInv, [Next]_vars
    PROVE  RingInv'
<1>1. CASE UNCHANGED ringVars
  BY <1>1 DEF RingInv, RingTypes, Filling, Wrapping, ringVars
<1>2. ASSUME NEW p \in Publishers, Publish(p) PROVE RingInv'
  <2>0. published' = published + 1 /\ RingAppend(published + 1) /\ RingSize \in Nat \ {0}
    BY <1>2, LogHubAssumption DEF Publish
  <2>1. CASE ~full
    <3>0. Filling /\ RingTypes
      BY <2>1 DEF RingInv
    <3>1. ring' = Append(ring, published + 1) /\ head' = 0 /\ full' = (Len(ring) + 1 = RingSize)
      BY <2>0, <2>1 DEF RingAppend
    <3>2. ring' \in Seq(Nat) /\ Len(ring') = published + 1
      BY <3>0, <3>1 DEF RingTypes, Filling
    <3>3. \A i \in 1..(published + 1) : ring'[i] = i
      BY <3>0, <3>1 DEF RingTypes, Filling
    <3>4. RingTypes'
      BY <2>0, <3>0, <3>1, <3>2 DEF RingTypes
    <3>5. ASSUME published + 1 < RingSize PROVE Filling'
      BY <2>0, <3>0, <3>1, <3>2, <3>3, <3>5 DEF RingTypes, Filling
    <3>6. ASSUME published + 1 = RingSize PROVE Wrapping'
      BY <2>0, <3>0, <3>1, <3>2, <3>3, <3>6 DEF RingTypes, Wrapping
    <3>7. full' \in BOOLEAN /\ (full' <=> published + 1 = RingSize)
      BY <3>0, <3>1 DEF Filling
    <3>8. published + 1 < RingSize \/ published + 1 = RingSize
      BY <2>0, <3>0 DEF Filling, RingTypes
    <3> QED BY <3>4, <3>5, <3>6, <3>7, <3>8 DEF RingInv
  <2>2. CASE full
    <3>0. Wrapping /\ RingTypes
      BY <2>2 DEF RingInv
    <3>1. /\ ring' = [ring EXCEPT ![head + 1] = published + 1]
          /\ head' = (head + 1) % RingSize /\ full' = full
      BY <2>0, <2>2 DEF RingAppend
    <3>2. head + 1 \in 1..RingSize /\ Len(ring) = RingSize
      BY <2>0, <3>0 DEF RingTypes, Wrapping
    <3>3. ring' \in Seq(Nat) /\ Len(ring') = RingSize
      BY <3>0, <3>1, <3>2 DEF RingTypes
    <3>4. \A i \in 1..RingSize : ring'[i] = IF i = head + 1 THEN published + 1 ELSE ring[i]
      BY <3>0, <3>1, <3>2 DEF RingTypes
    <3>5. head' = IF head + 1 < RingSize THEN head + 1 ELSE 0
      BY <2>0, <3>0, <3>1, WrapAround DEF RingTypes
    <3>6. RingTypes'
      BY <2>0, <3>0, <3>3, <3>5 DEF RingTypes
    <3>7. Wrapping'
      <4>1. ASSUME NEW i \in 1..RingSize
            PROVE  ring'[i] = published' - head' + i - (IF i <= head' THEN 0 ELSE RingSize)
        <5>1. ring[i] = published - head + i - (IF i <= head THEN 0 ELSE RingSize)
          BY <3>0 DEF Wrapping
        <5>2. ring'[i] = IF i = head + 1 THEN published + 1 ELSE ring[i]
          BY <3>4
        <5>3. published \in Nat /\ head \in 0..(RingSize - 1) /\ i \in 1..RingSize
          BY <3>0 DEF RingTypes
        <5> QED BY <2>0, <3>5, <5>1, <5>2, <5>3
      <4> QED BY <2>0, <3>0, <3>3, <4>1 DEF Wrapping, RingTypes
    <3> QED BY <2>2, <3>1, <3>6, <3>7 DEF RingInv
  <2> QED BY <2>1, <2>2
<1> QED BY <1>1, <1>2, RingSteps

\* snapshotLocked unrolls the ring from head on.
LEMMA SnapshotOrder ==
    ASSUME RingInv
    PROVE  RingHoldsNewest
<1>0. RingSize \in Nat \ {0}
  BY LogHubAssumption
<1>1. CASE ~full
  <2>1. Snapshot = ring /\ published < RingSize
    BY <1>1 DEF Snapshot, RingInv, Filling
  <2>2. ring = [i \in 1..published |-> published - published + i]
    BY <1>1 DEF RingInv, RingTypes, Filling
  <2> QED BY <2>1, <2>2 DEF RingHoldsNewest
<1>2. CASE full
  <2> DEFINE old == SubSeq(ring, head + 1, RingSize)
             new == SubSeq(ring, 1, head)
  <2>0. /\ head \in Nat /\ head < RingSize /\ Len(ring) = RingSize /\ ring \in Seq(Nat)
        /\ published \in Nat /\ published >= RingSize
    BY <1>0, <1>2 DEF RingInv, RingTypes, Wrapping
  <2>1. /\ old \in Seq(Nat) /\ Len(old) = RingSize - head
        /\ \A i \in 1..(RingSize - head) : old[i] = ring[head + i]
    BY <1>0, <2>0
  <2>2. /\ new \in Seq(Nat) /\ Len(new) = head
        /\ \A i \in 1..head : new[i] = ring[i]
    BY <1>0, <2>0
  <2>3. \A i \in 1..RingSize : ring[i] = published - head + i - (IF i <= head THEN 0 ELSE RingSize)
    BY <1>2 DEF RingInv, Wrapping
  <2> HIDE DEF old, new
  <2>4. /\ Len(old \o new) = RingSize /\ old \o new \in Seq(Nat)
        /\ \A i \in 1..RingSize :
              (old \o new)[i] = IF i <= RingSize - head THEN old[i] ELSE new[i - (RingSize - head)]
    <3>1. Len(old) + Len(new) = RingSize /\ Len(old) = RingSize - head
      BY <1>0, <2>0, <2>1, <2>2
    <3>2. /\ old \o new \in Seq(Nat)
          /\ Len(old \o new) = Len(old) + Len(new)
          /\ \A i \in 1..(Len(old) + Len(new)) :
                (old \o new)[i] = IF i <= Len(old) THEN old[i] ELSE new[i - Len(old)]
      BY <2>1, <2>2, ConcatProperties
    <3> QED BY <3>1, <3>2
  <2>5. ASSUME NEW i \in 1..RingSize PROVE (old \o new)[i] = published - RingSize + i
    <3>1. CASE i <= RingSize - head
      <4>1. (old \o new)[i] = old[i]
        BY <2>4, <3>1
      <4>2. old[i] = ring[head + i] /\ head + i \in 1..RingSize /\ ~(head + i <= head)
        BY <1>0, <2>0, <2>1, <3>1
      <4>3. ring[head + i] = published - head + (head + i) - RingSize
        BY <2>3, <4>2
      <4> QED BY <1>0, <2>0, <4>1, <4>2, <4>3
    <3>2. CASE i > RingSize - head
      <4>1. (old \o new)[i] = new[i - (RingSize - head)]
        BY SMTT(30), <1>0, <2>0, <2>4, <3>2
      <4> DEFINE j == i - (RingSize - head)
      <4>2. j \in 1..head /\ j \in 1..RingSize /\ j <= head
        BY <1>0, <2>0, <3>2
      <4> HIDE DEF j
      <4>3. new[j] = published - head + j
        <5>1. new[j] = ring[j]
          BY <2>2, <4>2
        <5>2. ring[j] = published - head + j - 0
          BY <2>3, <4>2
        <5>3. j \in Nat
          BY <4>2
        <5> QED BY <2>0, <5>1, <5>2, <5>3
      <4>4. published - head + j = published - RingSize + i
        BY <1>0, <2>0 DEF j
      <4>5. (old \o new)[i] = new[j]
        BY <4>1 DEF j
      <4> QED BY <4>3, <4>4, <4>5
    <3>3. i <= RingSize - head \/ i > RingSize - head
      BY <1>0, <2>0
    <3> QED BY <3>1, <3>2, <3>3
  <2>6. old \o new = [i \in 1..RingSize |-> published - RingSize + i]
    <3> DEFINE f == [i \in 1..RingSize |-> published - RingSize + i]
    <3>1. f \in Seq(Nat) /\ Len(f) = RingSize
      BY <1>0, <2>0
    <3> QED BY <2>4, <2>5, <3>1, SeqEqual
  <2>7. Snapshot = old \o new
    BY <1>2 DEF Snapshot, old, new
  <2> QED BY <1>0, <2>0, <2>6, <2>7 DEF RingHoldsNewest
<1> QED BY <1>1, <1>2

\* An empty ring.
LEMMA RingStart == Init => RingInv
<1> SUFFICES ASSUME Init PROVE RingInv
  OBVIOUS
<1>1. 0 \in 0..(RingSize - 1) /\ 0 < RingSize
  BY LogHubAssumption
<1>2. ring \in Seq(Nat) /\ Len(ring) = 0 /\ full = FALSE
  BY DEF Init
<1>3. RingTypes /\ Filling
  BY <1>1, <1>2 DEF Init, RingTypes, Filling
<1> QED BY <1>2, <1>3 DEF RingInv

\* The replay a subscriber gets is the newest events, oldest first, however
\* often head has wrapped (sse.go publish and snapshotLocked).
THEOREM RingNewest == Spec => []RingHoldsNewest
<1>1. Init => RingInv
  BY RingStart
<1>2. RingInv /\ [Next]_vars => RingInv'
  BY RingStep
<1>3. RingInv => RingHoldsNewest
  BY SnapshotOrder
<1> QED BY <1>1, <1>2, <1>3, PTL DEF Spec

-----------------------------------------------------------------------------
(***************************************************************************)
(* Sequences and what is in them.                                          *)
(***************************************************************************)

\* Append adds one element; the sequence stays distinct if it is a new one.
LEMMA AppendSet ==
    ASSUME NEW S, NEW q \in Seq(S), NEW e \in S
    PROVE  /\ Append(q, e) \in Seq(S) /\ Len(Append(q, e)) = Len(q) + 1
           /\ SetOf(Append(q, e)) = SetOf(q) \cup {e}
           /\ Distinct(q) /\ e \notin SetOf(q) => Distinct(Append(q, e))
<1> DEFINE r == Append(q, e)
<1>1. /\ r \in Seq(S) /\ Len(r) = Len(q) + 1 /\ Len(q) \in Nat
      /\ \A i \in 1..Len(q) : r[i] = q[i]
      /\ r[Len(q) + 1] = e
  OBVIOUS
<1> HIDE DEF r
<1>2. SetOf(r) = SetOf(q) \cup {e}
  <2>1. \A i \in 1..Len(r) : i \in 1..Len(q) \/ i = Len(q) + 1
    BY <1>1
  <2>2. \A i \in 1..Len(q) : i \in 1..Len(r)
    BY <1>1
  <2>3. Len(q) + 1 \in 1..Len(r)
    BY <1>1
  <2> QED BY <1>1, <2>1, <2>2, <2>3 DEF SetOf
<1>3. ASSUME Distinct(q), e \notin SetOf(q) PROVE Distinct(r)
  BY <1>1, <1>3 DEF Distinct, SetOf
<1> QED BY <1>1, <1>2, <1>3 DEF r

\* A sequence is its head and its tail; a distinct one has its head only once.
LEMMA TailSet ==
    ASSUME NEW S, NEW q \in Seq(S), q # <<>>
    PROVE  /\ Head(q) \in S /\ Tail(q) \in Seq(S) /\ Len(Tail(q)) = Len(q) - 1
           /\ SetOf(q) = SetOf(Tail(q)) \cup {Head(q)}
           /\ Distinct(q) => Distinct(Tail(q)) /\ Head(q) \notin SetOf(Tail(q))
<1> DEFINE r == Tail(q)
<1>1. /\ r \in Seq(S) /\ Len(q) \in Nat \ {0} /\ Len(r) = Len(q) - 1
      /\ \A i \in 1..Len(r) : r[i] = q[i + 1]
      /\ Head(q) = q[1] /\ Head(q) \in S
  OBVIOUS
<1> HIDE DEF r
<1>2. \A i \in 1..Len(r) : i + 1 \in 1..Len(q) /\ i + 1 # 1
  BY <1>1
<1>3. \A i \in 1..Len(q) : i = 1 \/ (i - 1 \in 1..Len(r) /\ q[i] = r[i - 1])
  BY <1>1
<1>4. 1 \in 1..Len(q)
  BY <1>1
<1>5. SetOf(q) = SetOf(r) \cup {Head(q)}
  <2>1. ASSUME NEW i \in 1..Len(q) PROVE q[i] \in SetOf(r) \cup {Head(q)}
    <3>1. \A j \in 1..Len(r) : r[j] \in SetOf(r)
      BY DEF SetOf
    <3> QED BY <1>1, <1>3, <3>1
  <2>2. SetOf(r) \subseteq SetOf(q) /\ Head(q) \in SetOf(q)
    BY <1>1, <1>2, <1>4 DEF SetOf
  <2>3. SetOf(q) \subseteq SetOf(r) \cup {Head(q)}
    BY <2>1 DEF SetOf
  <2> QED BY <2>2, <2>3
<1>6. ASSUME Distinct(q) PROVE Distinct(r) /\ Head(q) \notin SetOf(r)
  <2>1. Distinct(r)
    BY <1>1, <1>2, <1>6 DEF Distinct
  <2>2. Head(q) \notin SetOf(r)
    BY <1>1, <1>2, <1>4, <1>6 DEF Distinct, SetOf
  <2> QED BY <2>1, <2>2
<1> QED BY <1>1, <1>5, <1>6 DEF r

\* Two distinct sequences with nothing in common are distinct end to end.
LEMMA ConcatSet ==
    ASSUME NEW S, NEW q \in Seq(S), NEW r \in Seq(S)
    PROVE  /\ q \o r \in Seq(S)
           /\ SetOf(q \o r) = SetOf(q) \cup SetOf(r)
           /\ Distinct(q) /\ Distinct(r) /\ SetOf(q) \cap SetOf(r) = {} => Distinct(q \o r)
<1> DEFINE t == q \o r
<1>0. /\ t \in Seq(S) /\ Len(t) = Len(q) + Len(r) /\ Len(q) \in Nat /\ Len(r) \in Nat
      /\ \A i \in 1..(Len(q) + Len(r)) : t[i] = IF i <= Len(q) THEN q[i] ELSE r[i - Len(q)]
  BY ConcatProperties
<1> HIDE DEF t
<1>1. \A i \in 1..Len(t) : \/ i \in 1..Len(q) /\ t[i] = q[i]
                           \/ i - Len(q) \in 1..Len(r) /\ t[i] = r[i - Len(q)]
  BY <1>0
<1>2. \A i \in 1..Len(q) : i \in 1..Len(t) /\ t[i] = q[i]
  BY <1>0
<1>3. \A i \in 1..Len(r) : i + Len(q) \in 1..Len(t) /\ t[i + Len(q)] = r[i]
  BY <1>0
<1>4. SetOf(t) = SetOf(q) \cup SetOf(r)
  <2>1. SetOf(t) \subseteq SetOf(q) \cup SetOf(r)
    BY <1>1 DEF SetOf
  <2>2. SetOf(q) \subseteq SetOf(t)
    BY <1>2 DEF SetOf
  <2>3. SetOf(r) \subseteq SetOf(t)
    BY <1>3 DEF SetOf
  <2> QED BY <2>1, <2>2, <2>3
<1>5. ASSUME Distinct(q), Distinct(r), SetOf(q) \cap SetOf(r) = {} PROVE Distinct(t)
  <2>1. SUFFICES ASSUME NEW i \in 1..Len(t), NEW j \in 1..Len(t), t[i] = t[j] PROVE i = j
    BY DEF Distinct
  <2>2. CASE i \in 1..Len(q) /\ j \in 1..Len(q)
    BY <1>2, <1>5, <2>1, <2>2 DEF Distinct
  <2>3. CASE ~(i \in 1..Len(q)) /\ ~(j \in 1..Len(q))
    <3>1. /\ i - Len(q) \in 1..Len(r) /\ t[i] = r[i - Len(q)]
          /\ j - Len(q) \in 1..Len(r) /\ t[j] = r[j - Len(q)]
      BY <1>1, <2>3
    <3>2. i - Len(q) = j - Len(q)
      BY <1>5, <2>1, <3>1 DEF Distinct
    <3> QED BY <1>0, <3>2
  <2>4. CASE i \in 1..Len(q) /\ ~(j \in 1..Len(q))
    <3>1. t[i] \in SetOf(q)
      BY <1>2, <2>4 DEF SetOf
    <3>2. t[j] \in SetOf(r)
      BY <1>1, <2>4 DEF SetOf
    <3> QED BY <1>5, <2>1, <3>1, <3>2
  <2>5. CASE ~(i \in 1..Len(q)) /\ j \in 1..Len(q)
    <3>1. t[j] \in SetOf(q)
      BY <1>2, <2>5 DEF SetOf
    <3>2. t[i] \in SetOf(r)
      BY <1>1, <2>5 DEF SetOf
    <3> QED BY <1>5, <2>1, <3>1, <3>2
  <2> QED BY <2>2, <2>3, <2>4, <2>5
<1> QED BY <1>0, <1>4, <1>5 DEF t

\* The replay is the newest events, each one once and in order.
LEMMA SnapshotEvents ==
    ASSUME RingInv, published \in 0..MaxEvents
    PROVE  /\ Snapshot \in Seq(Events) /\ Distinct(Snapshot)
           /\ Len(Snapshot) \in 0..published
           /\ Len(Snapshot) = IF published < RingSize THEN published ELSE RingSize
           /\ SetOf(Snapshot) = (published + 1 - Len(Snapshot))..published
           /\ Sorted(Snapshot, published)
<1> DEFINE n == IF published < RingSize THEN published ELSE RingSize
           f == [i \in 1..n |-> published - n + i]
<1>0. n \in 0..published /\ published \in Nat /\ published <= MaxEvents /\ MaxEvents \in Nat
  BY LogHubAssumption
<1>1. Snapshot = f
  BY SnapshotOrder DEF RingHoldsNewest
<1> HIDE DEF n
<1>2. f \in Seq(Events) /\ Len(f) = n /\ \A i \in 1..n : f[i] = published - n + i
  BY <1>0 DEF Events
<1> HIDE DEF f
<1>3. Distinct(f)
  BY <1>0, <1>2 DEF Distinct
<1>4. SetOf(f) = (published + 1 - n)..published
  <2>1. ASSUME NEW i \in 1..n PROVE f[i] \in (published + 1 - n)..published
    BY <1>0, <1>2
  <2>2. ASSUME NEW e \in (published + 1 - n)..published PROVE \E i \in 1..n : f[i] = e
    <3>1. e - published + n \in 1..n /\ f[e - published + n] = e
      BY <1>0, <1>2
    <3> QED BY <3>1
  <2> QED BY <1>2, <2>1, <2>2 DEF SetOf
<1>5. Sorted(f, published)
  BY <1>0, <1>2 DEF Sorted
<1> QED BY <1>0, <1>1, <1>2, <1>3, <1>4, <1>5 DEF n

-----------------------------------------------------------------------------
(***************************************************************************)
(* The queue of a subscriber: nothing is in it twice, and the history is   *)
(* in order.                                                               *)
(***************************************************************************)

\* publish adds an event that is nowhere yet; fewer pending ones do no harm.
LEMMA ApartPublish ==
    ASSUME NEW g, NEW c, NEW r, NEW P, NEW n \in Nat, Apart(g, c, r, P, n)
    PROVE  /\ \A Q \in SUBSET P : Apart(g, c, r, Q, n)
           /\ Apart(g, c, r, P, n + 1) /\ Apart(g, c, r, P \cup {n + 1}, n + 1)
<1>1. 1..n \subseteq 1..(n + 1) /\ n + 1 \notin 1..n
  OBVIOUS
<1> QED BY <1>1 DEF Apart

\* An event goes from a publisher to the channel.
LEMMA ApartSend ==
    ASSUME NEW g, NEW c \in Seq(Events), NEW r, NEW P, NEW n \in Nat, Apart(g, c, r, P, n),
           NEW e \in P, e \in Events, e \in 1..n
    PROVE  Apart(g, Append(c, e), r, P \ {e}, n)
<1>1. SetOf(Append(c, e)) = SetOf(c) \cup {e} /\ e \notin SetOf(c)
  BY AppendSet DEF Apart
<1>2. Distinct(Append(c, e))
  BY <1>1, AppendSet DEF Apart
<1> QED BY <1>1, <1>2 DEF Apart

\* The oldest event leaves the channel: it is dropped, or received.
LEMMA ApartReceive ==
    ASSUME NEW g \in Seq(Events), NEW c \in Seq(Events), NEW r, NEW P, NEW n, Apart(g, c, r, P, n),
           c # <<>>
    PROVE  Apart(g, Tail(c), r, P, n) /\ Apart(Append(g, Head(c)), Tail(c), r, P, n)
<1>1. /\ SetOf(c) = SetOf(Tail(c)) \cup {Head(c)} /\ Head(c) \in Events
      /\ Distinct(Tail(c)) /\ Head(c) \notin SetOf(Tail(c))
  BY TailSet DEF Apart
<1>2. Head(c) \notin SetOf(g)
  BY <1>1 DEF Apart
<1>3. SetOf(Append(g, Head(c))) = SetOf(g) \cup {Head(c)} /\ Distinct(Append(g, Head(c)))
  BY <1>1, <1>2, AppendSet DEF Apart
<1> QED BY <1>1, <1>3 DEF Apart

\* The replay loop puts the next event into the channel, or gives it up.
LEMMA ApartReplay ==
    ASSUME NEW g, NEW c \in Seq(Events), NEW r \in Seq(Events), NEW P, NEW n, Apart(g, c, r, P, n),
           r # <<>>
    PROVE  Apart(g, c, Tail(r), P, n) /\ Apart(g, Append(c, Head(r)), Tail(r), P, n)
<1>1. /\ SetOf(r) = SetOf(Tail(r)) \cup {Head(r)} /\ Head(r) \in Events
      /\ Distinct(Tail(r)) /\ Head(r) \notin SetOf(Tail(r))
  BY TailSet DEF Apart
<1>2. Head(r) \notin SetOf(c)
  BY <1>1 DEF Apart
<1>3. SetOf(Append(c, Head(r))) = SetOf(c) \cup {Head(r)} /\ Distinct(Append(c, Head(r)))
  BY <1>1, <1>2, AppendSet DEF Apart
<1> QED BY <1>1, <1>3 DEF Apart

\* The order of the history in a queue: a new last element must not be older
\* than what is in it.
LEMMA SortedAppend ==
    ASSUME NEW q \in Seq(Events), NEW e \in Events, NEW j \in Nat, Sorted(q, j),
           \A f \in SetOf(q) : (f <= j /\ e <= j) => f < e
    PROVE  Sorted(Append(q, e), j)
<1> DEFINE r == Append(q, e)
<1>1. /\ Len(r) = Len(q) + 1 /\ Len(q) \in Nat
      /\ \A i \in 1..Len(q) : r[i] = q[i]
      /\ r[Len(q) + 1] = e
  OBVIOUS
<1> HIDE DEF r
<1>2. SUFFICES ASSUME NEW i \in 1..Len(r), NEW k \in 1..Len(r), i < k, r[i] <= j, r[k] <= j
               PROVE  r[i] < r[k]
  BY DEF Sorted, r
<1>3. i \in 1..Len(q) /\ r[i] = q[i] /\ q[i] \in SetOf(q)
  BY <1>1, <1>2 DEF SetOf
<1>4. CASE k \in 1..Len(q)
  BY <1>1, <1>2, <1>3, <1>4 DEF Sorted
<1>5. CASE k = Len(q) + 1
  BY <1>1, <1>2, <1>3, <1>5
<1> QED BY <1>1, <1>4, <1>5

\* What comes first is older than the rest.
LEMMA SortedTail ==
    ASSUME NEW q \in Seq(Events), q # <<>>, NEW j \in Nat, Sorted(q, j)
    PROVE  /\ Sorted(Tail(q), j)
           /\ \A f \in SetOf(Tail(q)) : (Head(q) <= j /\ f <= j) => Head(q) < f
<1> DEFINE r == Tail(q)
<1>1. /\ Len(q) \in Nat \ {0} /\ Len(r) = Len(q) - 1 /\ Head(q) = q[1]
      /\ \A i \in 1..Len(r) : r[i] = q[i + 1]
  OBVIOUS
<1> HIDE DEF r
<1>2. 1 \in 1..Len(q) /\ \A i \in 1..Len(r) : i + 1 \in 1..Len(q) /\ 1 < i + 1
  BY <1>1
<1>3. Sorted(r, j)
  <2>1. SUFFICES ASSUME NEW i \in 1..Len(r), NEW k \in 1..Len(r), i < k, r[i] <= j, r[k] <= j
                 PROVE  r[i] < r[k]
    BY DEF Sorted
  <2>2. r[i] = q[i + 1] /\ r[k] = q[k + 1] /\ i + 1 < k + 1
    BY <1>1, <2>1
  <2>3. i + 1 \in 1..Len(q) /\ k + 1 \in 1..Len(q)
    BY <1>2
  <2> QED BY <2>1, <2>2, <2>3 DEF Sorted
<1>4. \A i \in 1..Len(r) : (Head(q) <= j /\ r[i] <= j) => Head(q) < r[i]
  BY <1>1, <1>2 DEF Sorted
<1> QED BY <1>3, <1>4 DEF SetOf, r

\* Two queues in order, one before the other, are in order end to end.
LEMMA SortedConcat ==
    ASSUME NEW q \in Seq(Events), NEW r \in Seq(Events), NEW j \in Nat,
           Sorted(q, j), Sorted(r, j), Before(q, r, j)
    PROVE  Sorted(q \o r, j)
<1> DEFINE t == q \o r
<1>1. /\ Len(q) \in Nat /\ Len(r) \in Nat /\ Len(t) = Len(q) + Len(r)
      /\ \A i \in 1..Len(q) : t[i] = q[i]
      /\ \A i \in (Len(q) + 1)..Len(t) : t[i] = r[i - Len(q)]
  OBVIOUS
<1> HIDE DEF t
<1>2. \A i \in 1..Len(t) : \/ i \in 1..Len(q) /\ t[i] = q[i] /\ t[i] \in SetOf(q)
                           \/ /\ i > Len(q) /\ i - Len(q) \in 1..Len(r)
                              /\ t[i] = r[i - Len(q)] /\ t[i] \in SetOf(r)
  <2>1. ASSUME NEW i \in 1..Len(t), i > Len(q)
        PROVE  i \in (Len(q) + 1)..Len(t) /\ i - Len(q) \in 1..Len(r)
    BY <1>1, <2>1
  <2>2. \A i \in 1..Len(t) : i \in 1..Len(q) \/ i > Len(q)
    BY <1>1
  <2> QED BY <1>1, <2>1, <2>2 DEF SetOf
<1>3. SUFFICES ASSUME NEW i \in 1..Len(t), NEW k \in 1..Len(t), i < k, t[i] <= j, t[k] <= j
               PROVE  t[i] < t[k]
  BY DEF Sorted, t
<1>4. CASE k \in 1..Len(q)
  <2>1. i \in 1..Len(q) /\ t[i] = q[i] /\ t[k] = q[k]
    BY <1>1, <1>3, <1>4
  <2> QED BY <1>3, <1>4, <2>1 DEF Sorted
<1>5. CASE i \in 1..Len(q) /\ k > Len(q)
  <2>1. t[i] \in SetOf(q) /\ t[k] \in SetOf(r)
    BY <1>1, <1>2, <1>5
  <2> QED BY <1>3, <2>1 DEF Before
<1>6. CASE i > Len(q) /\ k > Len(q)
  <2>1. /\ i - Len(q) \in 1..Len(r) /\ t[i] = r[i - Len(q)]
        /\ k - Len(q) \in 1..Len(r) /\ t[k] = r[k - Len(q)] /\ i - Len(q) < k - Len(q)
    BY <1>1, <1>2, <1>3, <1>6
  <2> QED BY <1>3, <2>1 DEF Sorted
<1> QED BY <1>1, <1>3, <1>4, <1>5, <1>6

\* A publisher's event is newer than the history.
LEMMA QueuePublish ==
    ASSUME NEW g, NEW c, NEW r, NEW P, NEW n \in Nat, NEW j \in Nat, QueueOK(g, c, r, P, n, j)
    PROVE  /\ \A Q \in SUBSET P : QueueOK(g, c, r, Q, n, j)
           /\ QueueOK(g, c, r, P, n + 1, j) /\ QueueOK(g, c, r, P \cup {n + 1}, n + 1, j)
<1>1. Apart(g, c, r, P, n) /\ InOrder(g, c, r, P, j) /\ j <= n
  BY DEF QueueOK
<1>2. n + 1 > j /\ j <= n + 1
  BY <1>1
<1>3. InOrder(g, c, r, P \cup {n + 1}, j) /\ \A Q \in SUBSET P : InOrder(g, c, r, Q, j)
  BY <1>1, <1>2 DEF InOrder
<1> QED BY <1>1, <1>2, <1>3, ApartPublish DEF QueueOK

\* So it may enter the channel before what is still to be replayed.
LEMMA QueueSend ==
    ASSUME NEW g \in Seq(Events), NEW c \in Seq(Events), NEW r \in Seq(Events), NEW P,
           NEW n \in Nat, NEW j \in Nat, QueueOK(g, c, r, P, n, j),
           NEW e \in P, e \in Events, e \in 1..n
    PROVE  QueueOK(g, Append(c, e), r, P \ {e}, n, j)
<1>1. Apart(g, c, r, P, n) /\ InOrder(g, c, r, P, j) /\ j <= n
  BY DEF QueueOK
<1>2. SetOf(Append(c, e)) = SetOf(c) \cup {e}
  BY AppendSet
<1>3. ~(e <= j)
  <2>1. e > j /\ e \in Nat
    BY <1>1 DEF InOrder
  <2> QED BY <2>1
<1>4. Sorted(Append(c, e), j)
  BY <1>1, <1>3, SortedAppend DEF InOrder
<1>5. Before(g, Append(c, e), j) /\ Before(Append(c, e), r, j)
  BY <1>1, <1>2, <1>3 DEF InOrder, Before
<1>6. InOrder(g, Append(c, e), r, P \ {e}, j)
  BY <1>1, <1>4, <1>5 DEF InOrder
<1> QED BY <1>1, <1>6, ApartSend DEF QueueOK

\* Nothing overtakes the oldest event of the channel when it is received.
LEMMA QueueReceive ==
    ASSUME NEW g \in Seq(Events), NEW c \in Seq(Events), NEW r, NEW P, NEW n, NEW j \in Nat,
           QueueOK(g, c, r, P, n, j), c # <<>>
    PROVE  /\ QueueOK(g, Tail(c), r, P, n, j)
           /\ QueueOK(Append(g, Head(c)), Tail(c), r, P, n, j)
<1>1. Apart(g, c, r, P, n) /\ InOrder(g, c, r, P, j) /\ j <= n
  BY DEF QueueOK
<1>2. SetOf(c) = SetOf(Tail(c)) \cup {Head(c)} /\ Head(c) \in Events
  BY TailSet
<1>3. /\ Sorted(Tail(c), j)
      /\ \A f \in SetOf(Tail(c)) : (Head(c) <= j /\ f <= j) => Head(c) < f
  BY <1>1, SortedTail DEF InOrder
<1>4. InOrder(g, Tail(c), r, P, j)
  BY <1>1, <1>2, <1>3 DEF InOrder, Before
<1>5. SetOf(Append(g, Head(c))) = SetOf(g) \cup {Head(c)}
  BY <1>2, AppendSet
<1>6. Sorted(Append(g, Head(c)), j)
  BY <1>1, <1>2, SortedAppend DEF InOrder, Before
<1>7. Before(Append(g, Head(c)), Tail(c), j) /\ Before(Append(g, Head(c)), r, j)
  BY <1>1, <1>2, <1>3, <1>5 DEF InOrder, Before
<1>8. InOrder(Append(g, Head(c)), Tail(c), r, P, j)
  BY <1>4, <1>6, <1>7 DEF InOrder
<1> QED BY <1>1, <1>4, <1>8, ApartReceive DEF QueueOK

\* The next event of the replay is older than the rest of it.
LEMMA QueueReplay ==
    ASSUME NEW g, NEW c \in Seq(Events), NEW r \in Seq(Events), NEW P, NEW n, NEW j \in Nat,
           QueueOK(g, c, r, P, n, j), r # <<>>
    PROVE  /\ QueueOK(g, c, Tail(r), P, n, j)
           /\ QueueOK(g, Append(c, Head(r)), Tail(r), P, n, j)
<1>1. Apart(g, c, r, P, n) /\ InOrder(g, c, r, P, j) /\ j <= n
  BY DEF QueueOK
<1>2. SetOf(r) = SetOf(Tail(r)) \cup {Head(r)} /\ Head(r) \in Events
  BY TailSet
<1>3. /\ Sorted(Tail(r), j)
      /\ \A f \in SetOf(Tail(r)) : (Head(r) <= j /\ f <= j) => Head(r) < f
  BY <1>1, SortedTail DEF InOrder
<1>4. InOrder(g, c, Tail(r), P, j)
  BY <1>1, <1>2, <1>3 DEF InOrder, Before
<1>5. SetOf(Append(c, Head(r))) = SetOf(c) \cup {Head(r)}
  BY <1>2, AppendSet
<1>6. Sorted(Append(c, Head(r)), j)
  BY <1>1, <1>2, SortedAppend DEF InOrder, Before
<1>7. Before(g, Append(c, Head(r)), j) /\ Before(Append(c, Head(r)), Tail(r), j)
  BY <1>1, <1>2, <1>3, <1>5 DEF InOrder, Before
<1>8. InOrder(g, Append(c, Head(r)), Tail(r), P, j)
  BY <1>4, <1>6, <1>7 DEF InOrder
<1> QED BY <1>1, <1>4, <1>8, ApartReplay DEF QueueOK

\* A subscriber starts with nothing but its replay.
LEMMA EmptyQueue ==
    ASSUME NEW r, Distinct(r), NEW n, NEW j, Sorted(r, j), j <= n, SetOf(r) \subseteq 1..n
    PROVE  QueueOK(<<>>, <<>>, r, {}, n, j)
<1>1. SetOf(<<>>) = {} /\ Distinct(<<>>) /\ Sorted(<<>>, j)
  BY DEF SetOf, Distinct, Sorted
<1> QED BY <1>1 DEF QueueOK, Apart, InOrder, Before

-----------------------------------------------------------------------------
(***************************************************************************)
(* The publishers.                                                         *)
(***************************************************************************)
PublisherTypes == pub \in [Publishers -> PubTypes]

\* What a step of p does to its own variables.
PubSets(p, c, e, t, u) ==
    pub' = [pub EXCEPT ![p] = [pc |-> c, ev |-> e, todo |-> t, cur |-> u]]

\* The publishers' invariant holds after a step of one of them, if its event is
\* nobody else's.
LEMMA PublisherMove ==
    ASSUME PublisherTypes, PublisherInv, published \in Nat, published' \in {published, published + 1},
           NEW p \in Publishers, NEW c \in {"idle", "next", "send", "drop", "resend"},
           NEW e \in Events \cup {0}, NEW t \in SUBSET Subscribers, NEW u \in SUBSET Subscribers,
           PubSets(p, c, e, t, u),
           t \cap u = {}, c = "idle" => t = {}, c \in {"idle", "next"} => u = {},
           c # "idle" => e \in 1..published',
           \A q \in Publishers \ {p} : (c # "idle" /\ pub[q].pc # "idle") => pub[q].ev # e
    PROVE  PublisherTypes' /\ PublisherInv'
<1> DEFINE x == [pc |-> c, ev |-> e, todo |-> t, cur |-> u]
<1>1. pub'[p] = x /\ \A q \in Publishers \ {p} : pub'[q] = pub[q]
  BY DEF PubSets, PublisherTypes
<1>2. x \in PubTypes
  BY DEF PubTypes
<1>3. x.pc = c /\ x.ev = e /\ x.todo = t /\ x.cur = u
  OBVIOUS
<1>4. 1..published \subseteq 1..published'
  OBVIOUS
<1> HIDE DEF x
<1>5. PublisherTypes'
  BY <1>2 DEF PublisherTypes, PubSets, x
<1>6. ASSUME NEW q \in Publishers
      PROVE  /\ pub'[q].pc = "idle" => pub'[q].todo = {}
             /\ pub'[q].pc \in {"idle", "next"} => pub'[q].cur = {}
             /\ pub'[q].pc # "idle" => pub'[q].ev \in 1..published'
             /\ pub'[q].todo \cap pub'[q].cur = {}
  <2>1. CASE q = p
    BY <1>1, <1>3, <2>1
  <2>2. CASE q # p
    BY <1>1, <1>4, <2>2 DEF PublisherInv
  <2> QED BY <2>1, <2>2
<1>7. ASSUME NEW q \in Publishers, NEW r \in Publishers,
             pub'[q].pc # "idle", pub'[r].pc # "idle", pub'[q].ev = pub'[r].ev
      PROVE  q = r
  BY <1>1, <1>3, <1>7 DEF PublisherInv
<1> QED BY <1>5, <1>6, <1>7 DEF PublisherInv

\* A publisher that goes on keeps its event.
LEMMA PublisherGoesOn ==
    ASSUME PublisherTypes, PublisherInv, published \in Nat, published' = published,
           NEW p \in Publishers, pub[p].pc # "idle",
           NEW c \in {"next", "send", "drop", "resend"},
           NEW t \in SUBSET pub[p].todo, NEW u \in SUBSET Subscribers,
           PubGoesOn(p, c, t, u), t \cap u = {}, c = "next" => u = {}
    PROVE  PublisherTypes' /\ PublisherInv'
<1>1. pub[p].ev \in Events \cup {0} /\ t \in SUBSET Subscribers
  BY DEF PublisherTypes, PubTypes
<1>2. pub[p].ev \in 1..published /\ \A q \in Publishers \ {p} : pub[q].pc # "idle" => pub[q].ev # pub[p].ev
  BY DEF PublisherInv
<1>3. PubSets(p, c, pub[p].ev, t, u)
  BY DEF PubSets, PubGoesOn
<1> QED BY <1>1, <1>2, <1>3, PublisherMove

\* The subscribers' steps leave the publishers and the ring alone.
LEMMA SubscriberFrame ==
    ASSUME NEW s \in Subscribers, SubscriberStep(s)
    PROVE  UNCHANGED <<published, ring, head, full, pub, panicked>>
  BY ZenonT(60) DEF SubscriberStep, Subscribe, ReplaySend, ReplayDrop, ReplayResend, Receive, Disconnect,
         CancelUnregister, CancelMark, CancelClose, ringVars

\* The publishers' invariant is inductive.
LEMMA PublisherInvStep ==
    ASSUME PublisherTypes, PublisherInv, published \in 0..MaxEvents, subs \in SUBSET Subscribers,
           [Next]_vars
    PROVE  PublisherTypes' /\ PublisherInv'
<1>0. published \in Nat /\ \A p \in Publishers : pub[p] \in PubTypes
  BY LogHubAssumption DEF PublisherTypes
<1>f. ASSUME UNCHANGED <<published, pub>> PROVE PublisherTypes' /\ PublisherInv'
  BY <1>f DEF PublisherTypes, PublisherInv
<1>1. CASE UNCHANGED vars
  BY <1>1, <1>f DEF vars
<1>2. ASSUME NEW p \in Publishers, Publish(p) PROVE PublisherTypes' /\ PublisherInv'
  <2>1. published' = published + 1 /\ published + 1 \in Events /\ PubSets(p, "next", published + 1, subs, {})
    BY <1>0, <1>2, LogHubAssumption DEF Publish, PubSets, Events
  <2>2. published + 1 \in 1..published'
    BY <1>0, <2>1
  <2>3. ASSUME NEW q \in Publishers \ {p}, pub[q].pc # "idle" PROVE pub[q].ev # published + 1
    <3>1. pub[q].ev \in 1..published
      BY <2>3 DEF PublisherInv
    <3> QED BY <1>0, <3>1
  <2> QED BY <1>0, <2>1, <2>2, <2>3, PublisherMove
<1>3. ASSUME NEW p \in Publishers, PublishNext(p) PROVE PublisherTypes' /\ PublisherInv'
  <2>0. pub[p].pc = "next" /\ published' = published
    BY <1>3 DEF PublishNext, ringVars
  <2>1. ASSUME NEW s \in pub[p].todo, PubGoesOn(p, "next", pub[p].todo \ {s}, {})
        PROVE  PublisherTypes' /\ PublisherInv'
    <3>1. pub[p].todo \ {s} \in SUBSET pub[p].todo /\ {} \in SUBSET Subscribers
      OBVIOUS
    <3> QED BY <1>0, <2>0, <2>1, <3>1, PublisherGoesOn
  <2>2. ASSUME NEW s \in pub[p].todo, PubGoesOn(p, "send", pub[p].todo \ {s}, {s})
        PROVE  PublisherTypes' /\ PublisherInv'
    <3>1. pub[p].todo \ {s} \in SUBSET pub[p].todo /\ {s} \in SUBSET Subscribers
      BY <1>0 DEF PubTypes
    <3>2. (pub[p].todo \ {s}) \cap {s} = {}
      OBVIOUS
    <3> QED BY <1>0, <2>0, <2>2, <3>1, <3>2, PublisherGoesOn
  <2>3. ASSUME pub' = [pub EXCEPT ![p] = PubIdle] PROVE PublisherTypes' /\ PublisherInv'
    <3>1. PubSets(p, "idle", 0, {}, {})
      BY <2>3 DEF PubSets, PubIdle
    <3> QED BY <1>0, <2>0, <3>1, PublisherMove
  <2> QED BY <1>3, <2>1, <2>2, <2>3 DEF PublishNext
<1>4. ASSUME NEW p \in Publishers, NEW s \in Subscribers,
             PublishSend(p, s) \/ PublishDrop(p, s) \/ PublishResend(p, s)
      PROVE  PublisherTypes' /\ PublisherInv'
  <2>0. pub[p].pc \in {"send", "drop", "resend"} /\ pub[p].cur = {s} /\ published' = published
    BY <1>4 DEF PublishSend, PublishDrop, PublishResend, ringVars
  <2>1. \/ UNCHANGED pub
        \/ PubGoesOn(p, "next", pub[p].todo, {})
        \/ PubGoesOn(p, "drop", pub[p].todo, {s}) \/ PubGoesOn(p, "resend", pub[p].todo, {s})
    BY <1>4, Zenon DEF PublishSend, PublishDrop, PublishResend, PubDone
  <2>2. pub[p].todo \in SUBSET pub[p].todo /\ {s} \in SUBSET Subscribers /\ {} \in SUBSET Subscribers
    OBVIOUS
  <2>3. pub[p].todo \cap {s} = {}
    BY <2>0 DEF PublisherInv
  <2> QED BY <1>0, <1>f, <2>0, <2>1, <2>2, <2>3, PublisherGoesOn
<1>5. ASSUME NEW s \in Subscribers, SubscriberStep(s) PROVE PublisherTypes' /\ PublisherInv'
  BY <1>5, <1>f, SubscriberFrame
<1> QED BY <1>1, <1>2, <1>3, <1>4, <1>5 DEF Next, PublisherStep

-----------------------------------------------------------------------------
(***************************************************************************)
(* The events that publishers still have to hand to a subscriber.          *)
(***************************************************************************)
OthersPending(p, s) ==
    {pub[q].ev : q \in {x \in Publishers \ {p} : s \in pub[x].todo \cup pub[x].cur}}

\* What one publisher contributes.
LEMMA PendingSplit ==
    ASSUME NEW p \in Publishers, NEW s
    PROVE  /\ s \in pub[p].todo \cup pub[p].cur => Pending(s) = OthersPending(p, s) \cup {pub[p].ev}
           /\ s \notin pub[p].todo \cup pub[p].cur => Pending(s) = OthersPending(p, s)
  BY DEF Pending, OthersPending

\* A step of p changes its part.
LEMMA PendingMove ==
    ASSUME PublisherTypes, NEW p \in Publishers, NEW c, NEW e, NEW t, NEW u, PubSets(p, c, e, t, u),
           NEW s
    PROVE  /\ s \in t \cup u => Pending(s)' = OthersPending(p, s) \cup {e}
           /\ s \notin t \cup u => Pending(s)' = OthersPending(p, s)
<1>1. /\ pub'[p].todo = t /\ pub'[p].cur = u /\ pub'[p].ev = e
      /\ \A q \in Publishers \ {p} : pub'[q] = pub[q]
  BY DEF PubSets, PublisherTypes
<1>2. OthersPending(p, s)' = OthersPending(p, s)
  BY <1>1 DEF OthersPending
<1>3. /\ s \in pub'[p].todo \cup pub'[p].cur => Pending(s)' = OthersPending(p, s)' \cup {pub'[p].ev}
      /\ s \notin pub'[p].todo \cup pub'[p].cur => Pending(s)' = OthersPending(p, s)'
  BY DEF Pending, OthersPending
<1> QED BY <1>1, <1>2, <1>3

\* publish adds its event for the subscribers of the list.
LEMMA PendingPublish ==
    ASSUME PublisherTypes, PublisherInv, NEW p \in Publishers, Publish(p), NEW s
    PROVE  /\ s \in subs => Pending(s)' = Pending(s) \cup {published + 1}
           /\ s \notin subs => Pending(s)' = Pending(s)
<1>1. PubSets(p, "next", published + 1, subs, {})
  BY DEF Publish, PubSets
<1>2. pub[p].todo = {} /\ pub[p].cur = {}
  BY DEF Publish, PublisherInv
<1> QED BY <1>1, <1>2, PendingSplit, PendingMove

\* Who leaves the list of p has nothing more to expect from it; for the others
\* nothing changes.
LEMMA PendingGoesOn ==
    ASSUME PublisherTypes, PublisherInv, NEW p \in Publishers, pub[p].pc # "idle",
           NEW c, NEW t, NEW u, PubGoesOn(p, c, t, u), t \cup u \subseteq pub[p].todo \cup pub[p].cur,
           NEW s
    PROVE  Pending(s)' = IF s \in (pub[p].todo \cup pub[p].cur) \ (t \cup u)
                           THEN Pending(s) \ {pub[p].ev} ELSE Pending(s)
<1>1. PubSets(p, c, pub[p].ev, t, u)
  BY DEF PubGoesOn, PubSets
<1>2. pub[p].ev \notin OthersPending(p, s)
  <2>1. ASSUME NEW q \in Publishers \ {p}, s \in pub[q].todo \cup pub[q].cur PROVE pub[q].ev # pub[p].ev
    <3>1. pub[q].pc # "idle"
      BY <2>1 DEF PublisherInv
    <3> QED BY <3>1 DEF PublisherInv
  <2> QED BY <2>1 DEF OthersPending
<1> DEFINE o == OthersPending(p, s)
           before == pub[p].todo \cup pub[p].cur
           after == t \cup u
<1>3. (s \in before => Pending(s) = o \cup {pub[p].ev}) /\ (s \notin before => Pending(s) = o)
  BY PendingSplit
<1>4. (s \in after => Pending(s)' = o \cup {pub[p].ev}) /\ (s \notin after => Pending(s)' = o)
  BY <1>1, PendingMove
<1>5. after \subseteq before /\ pub[p].ev \notin o
  BY <1>2
<1> HIDE DEF o, before, after
<1>6. Pending(s)' = IF s \in before \ after THEN Pending(s) \ {pub[p].ev} ELSE Pending(s)
  BY <1>3, <1>4, <1>5
<1> QED BY <1>6 DEF before, after

\* The end of the loop changes nothing.
LEMMA PendingEnd ==
    ASSUME PublisherTypes, PublisherInv, NEW p \in Publishers, pub[p].pc = "next", pub[p].todo = {},
           pub' = [pub EXCEPT ![p] = PubIdle], NEW s
    PROVE  Pending(s)' = Pending(s)
<1>1. PubSets(p, "idle", 0, {}, {})
  BY DEF PubSets, PubIdle
<1>2. pub[p].cur = {}
  BY DEF PublisherInv
<1> QED BY <1>1, <1>2, PendingSplit, PendingMove

-----------------------------------------------------------------------------
(***************************************************************************)
(* The types of the subscribers and their channels.                        *)
(***************************************************************************)
SubscriberPcs == {"new", "send", "drop", "resend", "live", "unregister", "mark", "close", "done"}

SubscriberTypes == sub \in [Subscribers -> SubTypes]
ChannelTypes ==
    /\ ch \in [Subscribers -> Seq(Events)] /\ \A s \in Subscribers : Len(ch[s]) <= SubBuf
    /\ got \in [Subscribers -> Seq(Events)]
    /\ dropped \in [Subscribers -> SUBSET Events]
    /\ joined \in [Subscribers -> Nat]

\* Only s moves: it is at c, with r to be replayed.
SubBecomes(s, c, r) ==
    /\ SubscriberTypes' /\ sub'[s].pc = c /\ sub'[s].replay = r
    /\ \A t \in Subscribers \ {s} : sub'[t] = sub[t]

\* The two ways in which sub changes.
LEMMA SubscriberMoves ==
    ASSUME SubscriberTypes, NEW s \in Subscribers, NEW c \in SubscriberPcs
    PROVE  /\ sub' = [sub EXCEPT ![s].pc = c] => SubBecomes(s, c, sub[s].replay)
           /\ \A r \in Seq(Events) :
                 sub' = [sub EXCEPT ![s] = [pc |-> c, replay |-> r]] => SubBecomes(s, c, r)
<1>1. ASSUME NEW x \in SubTypes, sub' = [sub EXCEPT ![s] = x] PROVE SubBecomes(s, x.pc, x.replay)
  BY <1>1 DEF SubBecomes, SubscriberTypes
<1>2. ASSUME sub' = [sub EXCEPT ![s].pc = c] PROVE SubBecomes(s, c, sub[s].replay)
  <2> DEFINE x == [sub[s] EXCEPT !.pc = c]
  <2>1. x \in SubTypes /\ x.pc = c /\ x.replay = sub[s].replay
    BY DEF SubscriberTypes, SubTypes, SubscriberPcs
  <2>2. sub' = [sub EXCEPT ![s] = x]
    BY <1>2
  <2> HIDE DEF x
  <2>3. SubBecomes(s, x.pc, x.replay)
    BY <1>1, <2>1, <2>2
  <2> QED BY <2>1, <2>3
<1>3. ASSUME NEW r \in Seq(Events), sub' = [sub EXCEPT ![s] = [pc |-> c, replay |-> r]]
      PROVE  SubBecomes(s, c, r)
  <2> DEFINE x == [pc |-> c, replay |-> r]
  <2>1. x \in SubTypes /\ x.pc = c /\ x.replay = r
    BY DEF SubTypes, SubscriberPcs
  <2> HIDE DEF x
  <2>2. SubBecomes(s, x.pc, x.replay)
    BY <1>1, <1>3, <2>1 DEF x
  <2> QED BY <2>1, <2>2
<1> QED BY <1>2, <1>3

\* An event enters the channel of s.
ChanPushes(s, e) ==
    /\ ch' \in [Subscribers -> Seq(Events)] /\ \A t \in Subscribers : Len(ch'[t]) <= SubBuf
    /\ ch'[s] = Append(ch[s], e)
    /\ \A t \in Subscribers \ {s} : ch'[t] = ch[t]

\* The oldest event leaves the channel of s.
ChanPops(s) ==
    /\ ch' \in [Subscribers -> Seq(Events)] /\ \A t \in Subscribers : Len(ch'[t]) <= SubBuf
    /\ ch'[s] = Tail(ch[s])
    /\ \A t \in Subscribers \ {s} : ch'[t] = ch[t]

\* There is room, so the buffer does not grow past its capacity.
LEMMA ChannelMoves ==
    ASSUME ChannelTypes, NEW s \in Subscribers
    PROVE  /\ \A e \in Events :
                 Len(ch[s]) < SubBuf /\ ch' = [ch EXCEPT ![s] = Append(@, e)] => ChanPushes(s, e)
           /\ ch[s] # <<>> /\ ch' = [ch EXCEPT ![s] = Tail(@)] => ChanPops(s)
<1>0. ch \in [Subscribers -> Seq(Events)] /\ ch[s] \in Seq(Events) /\ SubBuf \in Nat /\ Len(ch[s]) \in Nat
  BY LogHubAssumption DEF ChannelTypes
<1>a. ASSUME NEW q \in Seq(Events), Len(q) <= SubBuf, ch' = [ch EXCEPT ![s] = q]
      PROVE  /\ ch' \in [Subscribers -> Seq(Events)] /\ \A t \in Subscribers : Len(ch'[t]) <= SubBuf
             /\ ch'[s] = q
             /\ \A t \in Subscribers \ {s} : ch'[t] = ch[t]
  <2>1. ch' \in [Subscribers -> Seq(Events)] /\ ch'[s] = q
    BY <1>0, <1>a
  <2>2. \A t \in Subscribers \ {s} : ch'[t] = ch[t]
    BY <1>0, <1>a
  <2>3. \A t \in Subscribers : Len(ch'[t]) <= SubBuf
    BY <1>a, <2>1, <2>2 DEF ChannelTypes
  <2> QED BY <2>1, <2>2, <2>3
<1>1. ASSUME NEW e \in Events, Len(ch[s]) < SubBuf, ch' = [ch EXCEPT ![s] = Append(@, e)]
      PROVE  ChanPushes(s, e)
  <2> DEFINE q == Append(ch[s], e)
  <2>1. q \in Seq(Events) /\ Len(q) = Len(ch[s]) + 1
    BY <1>0, AppendSet
  <2>2. Len(q) <= SubBuf /\ ch' = [ch EXCEPT ![s] = q]
    BY <1>0, <1>1, <2>1
  <2> HIDE DEF q
  <2>3. /\ ch' \in [Subscribers -> Seq(Events)] /\ \A t \in Subscribers : Len(ch'[t]) <= SubBuf
        /\ ch'[s] = q
        /\ \A t \in Subscribers \ {s} : ch'[t] = ch[t]
    BY <1>a, <2>1, <2>2
  <2> QED BY <2>3 DEF q, ChanPushes
<1>2. ASSUME ch[s] # <<>>, ch' = [ch EXCEPT ![s] = Tail(@)] PROVE ChanPops(s)
  <2> DEFINE q == Tail(ch[s])
  <2>1. q \in Seq(Events) /\ Len(q) = Len(ch[s]) - 1
    BY <1>0, <1>2, TailSet
  <2>2. Len(q) <= SubBuf /\ ch' = [ch EXCEPT ![s] = q]
    BY <1>0, <1>2, <2>1 DEF ChannelTypes
  <2> HIDE DEF q
  <2>3. /\ ch' \in [Subscribers -> Seq(Events)] /\ \A t \in Subscribers : Len(ch'[t]) <= SubBuf
        /\ ch'[s] = q
        /\ \A t \in Subscribers \ {s} : ch'[t] = ch[t]
    BY <1>a, <2>1, <2>2
  <2> QED BY <2>3 DEF q, ChanPops
<1> QED BY <1>1, <1>2

\* An event is given up on behalf of s.
DropsFor(s, e) ==
    /\ dropped' \in [Subscribers -> SUBSET Events]
    /\ dropped'[s] = dropped[s] \cup {e}
    /\ \A t \in Subscribers \ {s} : dropped'[t] = dropped[t]

\* What is dropped is an event.
LEMMA DropMoves ==
    ASSUME ChannelTypes, NEW s \in Subscribers, NEW e \in Events,
           dropped' = [dropped EXCEPT ![s] = @ \cup {e}]
    PROVE  DropsFor(s, e)
  BY DEF ChannelTypes, DropsFor

\* The second select of publish and of the replay loop.
LEMMA DropOldestMoves ==
    ASSUME ChannelTypes, NEW s \in Subscribers, DropOldest(s)
    PROVE  \/ ch[s] # <<>> /\ ChanPops(s) /\ DropsFor(s, Head(ch[s])) /\ Head(ch[s]) \in Events
           \/ UNCHANGED <<ch, dropped>>
<1>1. CASE ch[s] # <<>> /\ ch' = [ch EXCEPT ![s] = Tail(@)]
           /\ dropped' = [dropped EXCEPT ![s] = @ \cup {Head(ch[s])}]
  <2>1. Head(ch[s]) \in Events
    BY <1>1, TailSet DEF ChannelTypes
  <2> QED BY <1>1, <2>1, ChannelMoves, DropMoves
<1>2. CASE UNCHANGED <<ch, dropped>>
  BY <1>2
<1> QED BY <1>1, <1>2 DEF DropOldest

-----------------------------------------------------------------------------
(***************************************************************************)
(* Every step, seen by the subscribers.                                    *)
(***************************************************************************)
Flow == ChannelTypes /\ SubscriberTypes /\ SubscriberInv
Actors == PublisherTypes /\ PublisherInv /\ published \in 0..MaxEvents /\ subs \in SUBSET Subscribers

\* The queues of a subscriber are sequences of events.
LEMMA QueueTypes ==
    ASSUME ChannelTypes, SubscriberTypes, NEW s \in Subscribers
    PROVE  /\ got[s] \in Seq(Events) /\ ch[s] \in Seq(Events) /\ sub[s].replay \in Seq(Events)
           /\ joined[s] \in Nat
  BY DEF ChannelTypes, SubscriberTypes, SubTypes

\* Nothing that SubscriberOK(t) speaks of changes.
Untouched(t) ==
    /\ sub'[t] = sub[t] /\ ch'[t] = ch[t] /\ got'[t] = got[t] /\ dropped'[t] = dropped[t]
    /\ joined'[t] = joined[t] /\ (t \in subs' <=> t \in subs) /\ Pending(t)' = Pending(t)

\* A step that concerns s alone.
LEMMA OnlyOne ==
    ASSUME SubscriberInv, published' = published, NEW s \in Subscribers,
           \A t \in Subscribers \ {s} : Untouched(t), Untouched(s) \/ SubscriberOK(s)'
    PROVE  SubscriberInv'
<1>1. ASSUME NEW t \in Subscribers, Untouched(t) PROVE SubscriberOK(t)'
  <2>1. Accounted(t)' = Accounted(t)
    BY <1>1 DEF Untouched, Accounted
  <2> QED BY <1>1, <2>1 DEF Untouched, SubscriberOK, SubscriberInv, Subscribed, Oldest
<1> QED BY <1>1 DEF SubscriberInv

\* A step of a subscriber, or on its behalf, that loses nothing.
LEMMA LosesNothing ==
    ASSUME NEW s \in Subscribers, SubscriberOK(s), published' = published,
           sub[s].pc # "new", sub'[s].pc # "new",
           sub'[s].pc \in {"drop", "resend"} => sub'[s].replay # <<>>,
           Subscribed(s)' => /\ Subscribed(s) /\ (s \in subs' <=> s \in subs) /\ joined'[s] = joined[s]
                             /\ Accounted(s) \subseteq Accounted(s)',
           QueueOK(got'[s], ch'[s], sub'[s].replay, Pending(s)', published, joined'[s])
    PROVE  SubscriberOK(s)'
  BY DEF SubscriberOK, Oldest

\* publish under the lock.
LEMMA PublishFlow ==
    ASSUME Flow, Actors, NEW p \in Publishers, Publish(p)
    PROVE  Flow'
<1>0. /\ UNCHANGED <<subs, sub, ch, got, joined, dropped>> /\ joined \in [Subscribers -> Nat]
      /\ published' = published + 1 /\ published \in Nat
  BY LogHubAssumption DEF Publish, Actors, Flow, ChannelTypes
<1>1. ASSUME NEW t \in Subscribers PROVE SubscriberOK(t)'
  <2>0. SubscriberOK(t)
    BY DEF Flow, SubscriberInv
  <2>1. CASE t \in subs
    <3>1. Pending(t)' = Pending(t) \cup {published + 1}
      BY <2>1, PendingPublish DEF Actors
    <3>2. QueueOK(got'[t], ch'[t], sub'[t].replay, Pending(t)', published', joined'[t])
      BY <1>0, <2>0, <3>1, QueuePublish DEF SubscriberOK
    <3>3. Accounted(t)' = Accounted(t) \cup {published + 1}
      BY <1>0, <3>1 DEF Accounted
    <3>4. ASSUME Subscribed(t) PROVE Oldest(t)..(published + 1) \subseteq Accounted(t)'
      <4>1. Oldest(t)..published \subseteq Accounted(t)
        BY <2>0, <3>4 DEF SubscriberOK
      <4>2. \A e \in Oldest(t)..(published + 1) : e \in Oldest(t)..published \/ e = published + 1
        BY <1>0
      <4> QED BY <3>3, <4>1, <4>2
    <3>5. Subscribed(t)' => Subscribed(t)
      BY <1>0 DEF Subscribed
    <3>6. /\ sub'[t] = sub[t] /\ sub[t].pc # "new" /\ t \in subs'
          /\ sub[t].pc \in {"drop", "resend"} => sub[t].replay # <<>>
          /\ Oldest(t)' = Oldest(t)
      BY <1>0, <2>0, <2>1 DEF SubscriberOK, Oldest
    <3> QED BY <1>0, <3>2, <3>4, <3>5, <3>6 DEF SubscriberOK
  <2>2. CASE t \notin subs
    <3>1. Pending(t)' = Pending(t)
      BY <2>2, PendingPublish DEF Actors
    <3>2. QueueOK(got'[t], ch'[t], sub'[t].replay, Pending(t)', published', joined'[t])
      <4>1. joined[t] \in Nat /\ QueueOK(got[t], ch[t], sub[t].replay, Pending(t), published, joined[t])
        BY <1>0, <2>0 DEF SubscriberOK
      <4>2. QueueOK(got[t], ch[t], sub[t].replay, Pending(t), published + 1, joined[t])
        BY <1>0, <4>1, QueuePublish
      <4> QED BY <1>0, <3>1, <4>2
    <3>3. ~Subscribed(t)'
      BY <1>0, <2>0, <2>2 DEF SubscriberOK, Subscribed
    <3> QED BY <1>0, <2>0, <2>2, <3>1, <3>2, <3>3 DEF SubscriberOK
  <2> QED BY <2>1, <2>2
<1>2. ChannelTypes' /\ SubscriberTypes'
  BY <1>0 DEF Flow, ChannelTypes, SubscriberTypes
<1> QED BY <1>1, <1>2 DEF Flow, SubscriberInv

\* The head of publish's loop: only a subscriber whose flag is set is skipped.
LEMMA PublishNextFlow ==
    ASSUME Flow, Actors, NEW p \in Publishers, PublishNext(p)
    PROVE  Flow'
<1>0. /\ UNCHANGED <<published, subs, sub, ch, got, joined, dropped>>
      /\ pub[p].pc = "next" /\ pub[p].cur = {} /\ pub[p] \in PubTypes
  BY DEF PublishNext, ringVars, Actors, PublisherInv, PublisherTypes
<1>1. ASSUME NEW t \in Subscribers, Pending(t)' = Pending(t) PROVE Untouched(t)
  BY <1>0, <1>1 DEF Untouched
<1>2. ASSUME NEW s \in pub[p].todo, Closed(s), PubGoesOn(p, "next", pub[p].todo \ {s}, {})
      PROVE  SubscriberInv'
  <2>1. \A t \in Subscribers : Pending(t)' = IF t = s THEN Pending(t) \ {pub[p].ev} ELSE Pending(t)
    BY <1>0, <1>2, PendingGoesOn DEF Actors
  <2>2. s \in Subscribers /\ SubscriberOK(s)
    BY <1>0 DEF PubTypes, Flow, SubscriberInv
  <2>3. QueueOK(got'[s], ch'[s], sub'[s].replay, Pending(s)', published, joined'[s])
    <3>1. Pending(s)' \in SUBSET Pending(s) /\ published \in Nat
      BY <2>1, <2>2, LogHubAssumption DEF Actors
    <3>2. joined[s] \in Nat /\ QueueOK(got[s], ch[s], sub[s].replay, Pending(s), published, joined[s])
      BY <2>2, QueueTypes DEF SubscriberOK, Flow
    <3>3. QueueOK(got[s], ch[s], sub[s].replay, Pending(s)', published, joined[s])
      BY <3>1, <3>2, QueuePublish
    <3> QED BY <1>0, <3>3
  <2>4. sub[s].pc # "new" /\ sub[s].pc \notin {"drop", "resend"} /\ ~Subscribed(s)'
    BY <1>0, <1>2 DEF Closed, Subscribed
  <2>5. SubscriberOK(s)'
    BY <1>0, <2>2, <2>3, <2>4, LosesNothing
  <2> QED BY <1>0, <1>1, <2>1, <2>2, <2>5, OnlyOne DEF Flow
<1>3. ASSUME NEW s \in pub[p].todo, PubGoesOn(p, "send", pub[p].todo \ {s}, {s})
      PROVE  SubscriberInv'
  <2>1. \A t \in Subscribers : Pending(t)' = Pending(t)
    BY <1>0, <1>3, PendingGoesOn DEF Actors
  <2>2. s \in Subscribers
    BY <1>0 DEF PubTypes
  <2> QED BY <1>0, <1>1, <2>1, <2>2, OnlyOne DEF Flow
<1>4. ASSUME pub[p].todo = {}, pub' = [pub EXCEPT ![p] = PubIdle]
      PROVE  SubscriberInv'
  <2>1. \A t \in Subscribers : Pending(t)' = Pending(t)
    BY <1>0, <1>4, PendingEnd DEF Actors
  <2> QED BY <1>0, <1>1, <2>1, OnlyOne DEF Flow, SubscriberInv
<1>5. SubscriberInv'
  BY <1>2, <1>3, <1>4 DEF PublishNext
<1>6. ChannelTypes' /\ SubscriberTypes'
  BY <1>0 DEF Flow, ChannelTypes, SubscriberTypes
<1> QED BY <1>5, <1>6 DEF Flow

\* A publisher that has s in hand: its event is pending, and s is not new.
LEMMA InHand ==
    ASSUME Flow, Actors, NEW p \in Publishers, NEW s \in Subscribers,
           pub[p].pc \in {"send", "drop", "resend"}, pub[p].cur = {s}
    PROVE  /\ pub[p].ev \in Pending(s) /\ pub[p].ev \in Events /\ pub[p].ev \in 1..published
           /\ sub[s].pc # "new" /\ SubscriberOK(s)
           /\ UNCHANGED pub => \A t \in Subscribers : Pending(t)' = Pending(t)
           /\ PubDone(p) => \A t \in Subscribers :
                 Pending(t)' = IF t = s THEN Pending(t) \ {pub[p].ev} ELSE Pending(t)
           /\ \A c : PubGoesOn(p, c, pub[p].todo, {s}) =>
                 \A t \in Subscribers : Pending(t)' = Pending(t)
<1>0. PublisherTypes /\ PublisherInv /\ pub[p].pc # "idle" /\ SubscriberOK(s)
  BY DEF Actors, Flow, SubscriberInv
<1>1. pub[p].ev \in 1..published /\ s \notin pub[p].todo /\ pub[p].ev \in Events
  <2>1. pub[p].ev \in 1..published /\ pub[p].todo \cap {s} = {}
    BY <1>0 DEF PublisherInv
  <2>2. published \in Nat /\ published <= MaxEvents /\ MaxEvents \in Nat
    BY LogHubAssumption DEF Actors
  <2> QED BY <2>1, <2>2 DEF Events
<1>2. pub[p].ev \in Pending(s)
  BY DEF Pending
<1>3. sub[s].pc # "new"
  BY <1>0, <1>2 DEF SubscriberOK
<1>4. UNCHANGED pub => \A t \in Subscribers : Pending(t)' = Pending(t)
  BY DEF Pending
<1>5. PubDone(p) => \A t \in Subscribers :
          Pending(t)' = IF t = s THEN Pending(t) \ {pub[p].ev} ELSE Pending(t)
  BY <1>0, <1>1, PendingGoesOn DEF PubDone
<1>6. \A c : PubGoesOn(p, c, pub[p].todo, {s}) => \A t \in Subscribers : Pending(t)' = Pending(t)
  BY <1>0, PendingGoesOn
<1> QED BY <1>0, <1>1, <1>2, <1>3, <1>4, <1>5, <1>6

\* The event in hand is delivered, or given up.
LEMMA HandsOver ==
    ASSUME Flow, Actors, NEW p \in Publishers, NEW s \in Subscribers,
           pub[p].pc \in {"send", "drop", "resend"}, pub[p].cur = {s},
           PubDone(p), UNCHANGED <<published, subs, sub, got, joined>>,
           \/ ChanPushes(s, pub[p].ev) /\ UNCHANGED dropped
           \/ UNCHANGED ch /\ DropsFor(s, pub[p].ev)
    PROVE  Flow'
<1> DEFINE e == pub[p].ev
<1>0. /\ e \in Pending(s) /\ e \in Events /\ e \in 1..published /\ sub[s].pc # "new" /\ SubscriberOK(s)
      /\ \A t \in Subscribers : Pending(t)' = IF t = s THEN Pending(t) \ {e} ELSE Pending(t)
  BY InHand
<1>1. /\ published \in Nat /\ joined[s] \in Nat
      /\ got[s] \in Seq(Events) /\ ch[s] \in Seq(Events) /\ sub[s].replay \in Seq(Events)
  BY LogHubAssumption, QueueTypes DEF Actors, Flow
<1> HIDE DEF e
<1>2. \A t \in Subscribers \ {s} : Untouched(t)
  BY <1>0 DEF Untouched, ChanPushes, DropsFor
<1>3. SubscriberOK(s)'
  <2>0. QueueOK(got[s], ch[s], sub[s].replay, Pending(s), published, joined[s])
    BY <1>0 DEF SubscriberOK
  <2>1. ASSUME ChanPushes(s, e), UNCHANGED dropped PROVE SubscriberOK(s)'
    <3>1. QueueOK(got[s], Append(ch[s], e), sub[s].replay, Pending(s) \ {e}, published, joined[s])
      BY <1>0, <1>1, <2>0, QueueSend
    <3>2. SetOf(ch'[s]) = SetOf(ch[s]) \cup {e}
      BY <1>0, <1>1, <2>1, AppendSet DEF ChanPushes
    <3>3. Accounted(s) \subseteq Accounted(s)'
      BY <1>0, <2>1, <3>2 DEF Accounted
    <3>4. ch'[s] = Append(ch[s], e) /\ (Subscribed(s)' => Subscribed(s))
      BY <2>1 DEF ChanPushes, Subscribed
    <3>5. sub'[s].pc \in {"drop", "resend"} => sub'[s].replay # <<>>
      BY <1>0 DEF SubscriberOK
    <3> QED BY <1>0, <3>1, <3>3, <3>4, <3>5, LosesNothing
  <2>2. ASSUME UNCHANGED ch, DropsFor(s, e) PROVE SubscriberOK(s)'
    <3>1. QueueOK(got[s], ch[s], sub[s].replay, Pending(s) \ {e}, published, joined[s])
      BY <1>1, <2>0, QueuePublish
    <3>2. Accounted(s) \subseteq Accounted(s)'
      BY <1>0, <2>2 DEF Accounted, DropsFor
    <3>3. Subscribed(s)' => Subscribed(s)
      BY DEF Subscribed
    <3>4. sub'[s].pc \in {"drop", "resend"} => sub'[s].replay # <<>>
      BY <1>0 DEF SubscriberOK
    <3> QED BY <1>0, <2>2, <3>1, <3>2, <3>3, <3>4, LosesNothing
  <2> QED BY <2>1, <2>2 DEF e
<1>4. SubscriberInv'
  BY <1>2, <1>3, OnlyOne DEF Flow
<1>5. ChannelTypes' /\ SubscriberTypes'
  BY DEF Flow, ChannelTypes, SubscriberTypes, ChanPushes, DropsFor
<1> QED BY <1>4, <1>5 DEF Flow

\* The oldest event makes room: for the publisher's event or for the replay's.
LEMMA MakesRoom ==
    ASSUME Flow, Actors, NEW s \in Subscribers, sub[s].pc # "new",
           UNCHANGED <<published, subs, got, joined>>,
           \A t \in Subscribers : Pending(t)' = Pending(t),
           UNCHANGED sub \/ (sub[s].pc = "drop" /\ SubBecomes(s, "resend", sub[s].replay)),
           DropOldest(s)
    PROVE  Flow'
<1>0. SubscriberOK(s) /\ ChannelTypes /\ SubscriberTypes /\ SubscriberInv
  BY DEF Flow, SubscriberInv
<1>1. /\ SubscriberTypes' /\ sub'[s].pc # "new" /\ sub'[s].replay = sub[s].replay
      /\ sub'[s].pc \in {"drop", "resend"} => sub'[s].replay # <<>>
      /\ Subscribed(s)' => Subscribed(s)
      /\ \A t \in Subscribers \ {s} : sub'[t] = sub[t]
  BY <1>0 DEF SubBecomes, SubscriberTypes, SubscriberOK, Subscribed
<1>2. ASSUME ch[s] # <<>>, ChanPops(s), DropsFor(s, Head(ch[s])) PROVE Flow'
  <2>0. /\ got[s] \in Seq(Events) /\ ch[s] \in Seq(Events) /\ ch'[s] = Tail(ch[s])
        /\ joined[s] \in Nat
    BY <1>0, <1>2 DEF ChannelTypes, ChanPops
  <2>1. \A t \in Subscribers \ {s} : Untouched(t)
    BY <1>1, <1>2 DEF Untouched, ChanPops, DropsFor
  <2>2. QueueOK(got[s], Tail(ch[s]), sub[s].replay, Pending(s), published, joined[s])
    BY <1>0, <1>2, <2>0, QueueReceive DEF SubscriberOK
  <2>3. SetOf(ch[s]) = SetOf(ch'[s]) \cup {Head(ch[s])}
    BY <1>2, <2>0, TailSet
  <2>4. Accounted(s) \subseteq Accounted(s)'
    BY <1>1, <1>2, <2>3 DEF Accounted, DropsFor
  <2>5. SubscriberOK(s)'
    BY <1>0, <1>1, <2>0, <2>2, <2>4, LosesNothing
  <2>6. ChannelTypes'
    BY <1>0, <1>2 DEF ChannelTypes, ChanPops, DropsFor
  <2> QED BY <1>0, <1>1, <2>1, <2>5, <2>6, OnlyOne DEF Flow
<1>3. ASSUME UNCHANGED <<ch, dropped>> PROVE Flow'
  <2>1. \A t \in Subscribers \ {s} : Untouched(t)
    BY <1>1, <1>3 DEF Untouched
  <2>2. Accounted(s) \subseteq Accounted(s)'
    BY <1>1, <1>3 DEF Accounted
  <2>3. QueueOK(got'[s], ch'[s], sub'[s].replay, Pending(s)', published, joined'[s])
    BY <1>0, <1>1, <1>3 DEF SubscriberOK
  <2>4. SubscriberOK(s)'
    BY <1>0, <1>1, <2>2, <2>3, LosesNothing
  <2>5. ChannelTypes'
    BY <1>0, <1>3 DEF ChannelTypes
  <2> QED BY <1>0, <1>1, <2>1, <2>4, <2>5, OnlyOne DEF Flow
<1> QED BY <1>0, <1>2, <1>3, DropOldestMoves

\* publish after the unlock: three selects.
LEMMA PublishFlowStep ==
    ASSUME Flow, Actors, NEW p \in Publishers, NEW s \in Subscribers,
           PublishSend(p, s) \/ PublishDrop(p, s) \/ PublishResend(p, s)
    PROVE  Flow'
<1>0. /\ pub[p].pc \in {"send", "drop", "resend"} /\ pub[p].cur = {s}
      /\ UNCHANGED <<published, subs, sub, got, joined>>
  BY DEF PublishSend, PublishDrop, PublishResend, ringVars
<1>1. /\ pub[p].ev \in Events /\ sub[s].pc # "new" /\ ChannelTypes
      /\ UNCHANGED pub => \A t \in Subscribers : Pending(t)' = Pending(t)
      /\ \A c : PubGoesOn(p, c, pub[p].todo, {s}) =>
            \A t \in Subscribers : Pending(t)' = Pending(t)
  BY <1>0, InHand DEF Flow
<1>2. ASSUME UNCHANGED <<ch, dropped>>, \A t \in Subscribers : Pending(t)' = Pending(t) PROVE Flow'
  <2>1. \A t \in Subscribers : Untouched(t)
    BY <1>0, <1>2 DEF Untouched
  <2>2. ChannelTypes' /\ SubscriberTypes'
    BY <1>0, <1>2 DEF Flow, ChannelTypes, SubscriberTypes
  <2> QED BY <1>0, <2>1, <2>2, OnlyOne DEF Flow
<1>3. ASSUME PubDone(p), Len(ch[s]) < SubBuf, ch' = [ch EXCEPT ![s] = Append(@, pub[p].ev)],
             UNCHANGED dropped
      PROVE  Flow'
  BY <1>0, <1>1, <1>3, ChannelMoves, HandsOver
<1>4. ASSUME PubDone(p), UNCHANGED ch, dropped' = [dropped EXCEPT ![s] = @ \cup {pub[p].ev}]
      PROVE  Flow'
  BY <1>0, <1>1, <1>4, DropMoves, HandsOver
<1>5. CASE PublishSend(p, s)
  BY <1>1, <1>2, <1>3, <1>5 DEF PublishSend
<1>6. CASE PublishDrop(p, s)
  <2>1. DropOldest(s) /\ PubGoesOn(p, "resend", pub[p].todo, {s})
    BY <1>6 DEF PublishDrop
  <2> QED BY <1>0, <1>1, <2>1, MakesRoom
<1>7. CASE PublishResend(p, s)
  BY <1>1, <1>2, <1>3, <1>4, <1>7 DEF PublishResend
<1> QED BY <1>5, <1>6, <1>7

\* Snapshot and registration: the replay and the list begin at one moment.
LEMMA SubscribeFlow ==
    ASSUME Flow, Actors, RingInv, NEW s \in Subscribers, Subscribe(s)
    PROVE  Flow'
<1>0. /\ sub[s].pc = "new" /\ subs' = subs \cup {s} /\ UNCHANGED <<published, pub, ch, got, dropped>>
      /\ joined' = [joined EXCEPT ![s] = published]
      /\ sub' = [sub EXCEPT ![s] = [pc |-> "send", replay |-> Snapshot]]
      /\ ChannelTypes /\ SubscriberTypes /\ SubscriberOK(s)
  BY DEF Subscribe, ringVars, Flow, SubscriberInv
<1>1. got[s] = <<>> /\ ch[s] = <<>> /\ Pending(s) = {}
  BY <1>0 DEF SubscriberOK
<1>2. /\ Snapshot \in Seq(Events) /\ Distinct(Snapshot) /\ published \in Nat
      /\ Len(Snapshot) \in 0..published
      /\ Len(Snapshot) = IF published < RingSize THEN published ELSE RingSize
      /\ Sorted(Snapshot, published)
      /\ SetOf(Snapshot) = (published + 1 - Len(Snapshot))..published
  BY SnapshotEvents, LogHubAssumption DEF Actors
<1>3. SubBecomes(s, "send", Snapshot)
  BY <1>0, <1>2, SubscriberMoves DEF SubscriberPcs
<1>4. \A t \in Subscribers : Pending(t)' = Pending(t)
  BY <1>0 DEF Pending
<1>5. /\ joined' \in [Subscribers -> Nat] /\ joined'[s] = published
      /\ \A t \in Subscribers \ {s} : joined'[t] = joined[t]
  BY <1>0, <1>2 DEF ChannelTypes
<1>6. Oldest(s)' = published + 1 - Len(Snapshot)
  BY <1>2, <1>5 DEF Oldest
<1>7. QueueOK(got'[s], ch'[s], sub'[s].replay, Pending(s)', published, joined'[s])
  <2>1. SetOf(Snapshot) \subseteq 1..published /\ published <= published
    BY <1>2
  <2>2. QueueOK(<<>>, <<>>, Snapshot, {}, published, published)
    BY <1>2, <2>1, EmptyQueue
  <2>3. got'[s] = <<>> /\ ch'[s] = <<>> /\ Pending(s)' = {} /\ sub'[s].replay = Snapshot
    BY <1>0, <1>1, <1>3, <1>4 DEF SubBecomes
  <2> QED BY <1>5, <2>2, <2>3
<1>8. SubscriberOK(s)'
  <2>1. Oldest(s)'..published \subseteq Accounted(s)'
    BY <1>2, <1>3, <1>6 DEF Accounted, SubBecomes
  <2> QED BY <1>0, <1>3, <1>7, <2>1 DEF SubscriberOK, SubBecomes
<1>9. \A t \in Subscribers \ {s} : Untouched(t)
  BY <1>0, <1>3, <1>4, <1>5 DEF Untouched, SubBecomes
<1>10. SubscriberInv'
  BY <1>0, <1>8, <1>9, OnlyOne DEF Flow
<1>11. ChannelTypes' /\ SubscriberTypes'
  BY <1>0, <1>3, <1>5 DEF ChannelTypes, SubBecomes
<1> QED BY <1>10, <1>11 DEF Flow

\* The next event of the replay goes into the channel, or is given up.
LEMMA Replays ==
    ASSUME Flow, Actors, NEW s \in Subscribers, sub[s].pc \in {"send", "resend"},
           sub[s].replay # <<>>, Replayed(s),
           UNCHANGED <<published, subs, pub, got, joined>>,
           \/ /\ Len(ch[s]) < SubBuf /\ ch' = [ch EXCEPT ![s] = Append(@, Head(sub[s].replay))]
              /\ UNCHANGED dropped
           \/ /\ dropped' = [dropped EXCEPT ![s] = @ \cup {Head(sub[s].replay)}]
              /\ UNCHANGED ch
    PROVE  Flow'
<1> DEFINE r == sub[s].replay
<1>0. /\ ChannelTypes /\ SubscriberTypes /\ SubscriberInv /\ SubscriberOK(s)
      /\ r \in Seq(Events) /\ r # <<>> /\ ch[s] \in Seq(Events) /\ joined[s] \in Nat
  BY DEF Flow, SubscriberInv, ChannelTypes, SubscriberTypes, SubTypes
<1>1. Head(r) \in Events /\ Tail(r) \in Seq(Events) /\ SetOf(r) = SetOf(Tail(r)) \cup {Head(r)}
  BY <1>0, TailSet
<1>2. SubBecomes(s, "send", Tail(r))
  BY <1>0, <1>1, SubscriberMoves DEF Replayed, SubscriberPcs
<1>3. \A t \in Subscribers : Pending(t)' = Pending(t)
  BY DEF Pending
<1>4. \/ ChanPushes(s, Head(r)) /\ UNCHANGED dropped
      \/ DropsFor(s, Head(r)) /\ UNCHANGED ch
  BY <1>0, <1>1, ChannelMoves, DropMoves
<1> HIDE DEF r
<1>5. \A t \in Subscribers \ {s} : Untouched(t)
  BY <1>2, <1>3, <1>4 DEF Untouched, SubBecomes, ChanPushes, DropsFor
<1>6. /\ sub'[s].pc = "send" /\ sub'[s].replay = Tail(r) /\ Subscribed(s)
      /\ QueueOK(got[s], ch[s], r, Pending(s), published, joined[s])
  BY <1>0, <1>2 DEF SubBecomes, Subscribed, SubscriberOK, r
<1>7. QueueOK(got'[s], ch'[s], sub'[s].replay, Pending(s)', published, joined'[s])
  <2>1. QueueOK(got[s], ch[s], Tail(r), Pending(s), published, joined[s])
    BY <1>0, <1>6, QueueReplay
  <2>2. QueueOK(got[s], Append(ch[s], Head(r)), Tail(r), Pending(s), published, joined[s])
    BY <1>0, <1>6, QueueReplay
  <2>3. ch'[s] = Append(ch[s], Head(r)) \/ ch'[s] = ch[s]
    BY <1>4 DEF ChanPushes
  <2>4. got'[s] = got[s] /\ Pending(s)' = Pending(s)
    BY <1>3
  <2> QED BY <1>6, <2>1, <2>2, <2>3, <2>4
<1>8. Accounted(s) \subseteq Accounted(s)'
  <2>1. CASE ChanPushes(s, Head(r)) /\ UNCHANGED dropped
    <3>1. SetOf(ch'[s]) = SetOf(ch[s]) \cup {Head(r)}
      BY <1>0, <1>1, <2>1, AppendSet DEF ChanPushes
    <3> QED BY <1>1, <1>3, <1>6, <2>1, <3>1 DEF Accounted, r
  <2>2. CASE DropsFor(s, Head(r)) /\ UNCHANGED ch
    BY <1>1, <1>3, <1>6, <2>2 DEF Accounted, DropsFor, r
  <2> QED BY <1>4, <2>1, <2>2
<1>9. SubscriberOK(s)'
  BY <1>0, <1>6, <1>7, <1>8, LosesNothing
<1>10. SubscriberInv'
  BY <1>0, <1>5, <1>9, OnlyOne
<1>11. ChannelTypes' /\ SubscriberTypes'
  BY <1>0, <1>2, <1>4 DEF ChannelTypes, SubBecomes, ChanPushes, DropsFor
<1> QED BY <1>10, <1>11 DEF Flow

\* A step that moves only the subscriber's control.
LEMMA MovesOn ==
    ASSUME Flow, Actors, NEW s \in Subscribers, sub[s].pc # "new",
           NEW c \in SubscriberPcs \ {"new"}, sub' = [sub EXCEPT ![s].pc = c],
           UNCHANGED <<published, pub, ch, got, joined, dropped>>,
           c \in {"drop", "resend"} => sub[s].replay # <<>>,
           c \in {"send", "drop", "resend", "live"} => Subscribed(s) /\ UNCHANGED subs,
           \A t \in Subscribers \ {s} : t \in subs' <=> t \in subs
    PROVE  Flow'
<1>0. ChannelTypes /\ SubscriberTypes /\ SubscriberInv /\ SubscriberOK(s)
  BY DEF Flow, SubscriberInv
<1>1. SubBecomes(s, c, sub[s].replay)
  BY <1>0, SubscriberMoves
<1>2. \A t \in Subscribers : Pending(t)' = Pending(t)
  BY DEF Pending
<1>3. \A t \in Subscribers \ {s} : Untouched(t)
  BY <1>1, <1>2 DEF Untouched, SubBecomes
<1>4. sub'[s].pc = c /\ sub'[s].replay = sub[s].replay /\ (Subscribed(s)' => Subscribed(s) /\ UNCHANGED subs)
  BY <1>1 DEF SubBecomes, Subscribed
<1>5. Accounted(s)' = Accounted(s)
  BY <1>2, <1>4 DEF Accounted
<1>6. QueueOK(got'[s], ch'[s], sub'[s].replay, Pending(s)', published, joined'[s])
  BY <1>0, <1>2, <1>4 DEF SubscriberOK
<1>7. SubscriberOK(s)'
  BY <1>0, <1>4, <1>5, <1>6, LosesNothing
<1>8. ChannelTypes' /\ SubscriberTypes'
  BY <1>0, <1>1 DEF ChannelTypes, SubBecomes
<1> QED BY <1>0, <1>3, <1>7, <1>8, OnlyOne DEF Flow

\* The client receives the oldest event of its channel.
LEMMA ReceiveFlow ==
    ASSUME Flow, Actors, NEW s \in Subscribers, Receive(s)
    PROVE  Flow'
<1>0. /\ ChannelTypes /\ SubscriberTypes /\ SubscriberInv /\ SubscriberOK(s)
      /\ UNCHANGED <<published, subs, pub, sub, joined, dropped>>
      /\ sub[s].pc \in {"live", "unregister", "mark", "close", "done"} /\ ch[s] # <<>>
      /\ got' = [got EXCEPT ![s] = Append(@, Head(ch[s]))]
      /\ ch' = [ch EXCEPT ![s] = Tail(@)]
  BY DEF Flow, SubscriberInv, Receive, ringVars
<1>1. ch[s] \in Seq(Events) /\ got[s] \in Seq(Events) /\ joined[s] \in Nat
  BY <1>0 DEF ChannelTypes
<1>2. Head(ch[s]) \in Events /\ SetOf(ch[s]) = SetOf(Tail(ch[s])) \cup {Head(ch[s])}
  BY <1>0, <1>1, TailSet
<1>3. /\ Append(got[s], Head(ch[s])) \in Seq(Events)
      /\ SetOf(Append(got[s], Head(ch[s]))) = SetOf(got[s]) \cup {Head(ch[s])}
  BY <1>1, <1>2, AppendSet
<1>4. ChanPops(s)
  BY <1>0, ChannelMoves
<1>5. /\ got' \in [Subscribers -> Seq(Events)] /\ got'[s] = Append(got[s], Head(ch[s]))
      /\ \A t \in Subscribers \ {s} : got'[t] = got[t]
  BY <1>0, <1>3 DEF ChannelTypes
<1>6. \A t \in Subscribers : Pending(t)' = Pending(t)
  BY <1>0 DEF Pending
<1>7. \A t \in Subscribers \ {s} : Untouched(t)
  BY <1>0, <1>4, <1>5, <1>6 DEF Untouched, ChanPops
<1>8. QueueOK(got'[s], ch'[s], sub'[s].replay, Pending(s)', published, joined'[s])
  BY <1>0, <1>1, <1>4, <1>5, <1>6, QueueReceive DEF SubscriberOK, ChanPops
<1>9. Accounted(s) \subseteq Accounted(s)'
  BY <1>0, <1>2, <1>3, <1>4, <1>5, <1>6 DEF Accounted, ChanPops
<1>10. Subscribed(s)' => Subscribed(s)
  BY <1>0 DEF Subscribed
<1>11. SubscriberOK(s)'
  BY <1>0, <1>8, <1>9, <1>10, LosesNothing
<1>12. ChannelTypes' /\ SubscriberTypes'
  BY <1>0, <1>4, <1>5 DEF ChannelTypes, SubscriberTypes, ChanPops
<1> QED BY <1>0, <1>7, <1>11, <1>12, OnlyOne DEF Flow

\* Every step leaves every subscriber with each event once and none missing.
LEMMA FlowStep ==
    ASSUME Flow, Actors, RingInv, [Next]_vars
    PROVE  Flow'
<1>1. CASE UNCHANGED vars
  <2>1. UNCHANGED <<published, subs, pub, sub, ch, got, joined, dropped>>
    BY <1>1 DEF vars
  <2>2. \A t \in Subscribers : Untouched(t)
    BY <2>1 DEF Untouched, Pending
  <2>3. ChannelTypes' /\ SubscriberTypes'
    BY <2>1 DEF Flow, ChannelTypes, SubscriberTypes
  <2> QED BY <2>1, <2>2, <2>3, OnlyOne DEF Flow, SubscriberInv
<1>2. ASSUME NEW p \in Publishers, Publish(p) \/ PublisherStep(p) PROVE Flow'
  BY <1>2, PublishFlow, PublishNextFlow, PublishFlowStep DEF PublisherStep
<1>3. ASSUME NEW s \in Subscribers, SubscriberStep(s) PROVE Flow'
  <2>0. UNCHANGED <<published, pub>> /\ \A t \in Subscribers : Pending(t)' = Pending(t)
    BY <1>3, SubscriberFrame DEF Pending
  <2>c. SubscriberOK(s) /\ SubscriberTypes
    BY DEF Flow, SubscriberInv
  <2>1. CASE Subscribe(s)
    BY <2>1, SubscribeFlow
  <2>2. CASE ReplaySend(s)
    <3>0. /\ sub[s].pc = "send" /\ UNCHANGED <<subs, got, joined, dropped>>
          /\ Subscribed(s)
      BY <2>2 DEF ReplaySend, Subscribed
    <3>1. CASE sub[s].replay # <<>> /\ Replayed(s)
               /\ Len(ch[s]) < SubBuf /\ ch' = [ch EXCEPT ![s] = Append(@, Head(sub[s].replay))]
      BY <2>0, <3>0, <3>1, Replays
    <3>2. CASE sub[s].replay # <<>> /\ sub' = [sub EXCEPT ![s].pc = "drop"] /\ UNCHANGED ch
      BY <2>0, <3>0, <3>2, MovesOn DEF SubscriberPcs
    <3>3. CASE sub' = [sub EXCEPT ![s].pc = "live"] /\ UNCHANGED ch
      BY <2>0, <3>0, <3>3, MovesOn DEF SubscriberPcs
    <3> QED BY <2>2, <3>1, <3>2, <3>3 DEF ReplaySend
  <2>3. CASE ReplayDrop(s)
    <3>1. /\ sub[s].pc = "drop" /\ DropOldest(s) /\ UNCHANGED <<subs, got, joined>>
          /\ sub' = [sub EXCEPT ![s].pc = "resend"]
      BY <2>3 DEF ReplayDrop
    <3>2. SubBecomes(s, "resend", sub[s].replay)
      BY <2>c, <3>1, SubscriberMoves DEF SubscriberPcs
    <3> QED BY <2>0, <3>1, <3>2, MakesRoom
  <2>4. CASE ReplayResend(s)
    <3>1. /\ sub[s].pc = "resend" /\ Replayed(s) /\ UNCHANGED <<subs, got, joined>>
          /\ sub[s].replay # <<>>
      BY <2>c, <2>4 DEF ReplayResend, SubscriberOK
    <3>2. \/ /\ Len(ch[s]) < SubBuf /\ ch' = [ch EXCEPT ![s] = Append(@, Head(sub[s].replay))]
             /\ UNCHANGED dropped
          \/ /\ dropped' = [dropped EXCEPT ![s] = @ \cup {Head(sub[s].replay)}]
             /\ UNCHANGED ch
      BY <2>4 DEF ReplayResend
    <3> QED BY <2>0, <3>1, <3>2, Replays
  <2>5. CASE Receive(s)
    BY <2>5, ReceiveFlow
  <2>6. CASE Disconnect(s) \/ CancelUnregister(s) \/ CancelMark(s) \/ CancelClose(s)
    <3>1. /\ sub[s].pc \in {"live", "unregister", "mark", "close"}
          /\ UNCHANGED <<ch, got, joined, dropped>>
          /\ subs' \in {subs, subs \ {s}}
      BY <2>6 DEF Disconnect, CancelUnregister, CancelMark, CancelClose
    <3>2. \E c \in {"unregister", "mark", "close", "done"} : sub' = [sub EXCEPT ![s].pc = c]
      BY <2>6 DEF Disconnect, CancelUnregister, CancelMark, CancelClose
    <3> QED BY <2>0, <3>1, <3>2, MovesOn DEF SubscriberPcs
  <2> QED BY <1>3, <2>1, <2>2, <2>3, <2>4, <2>5, <2>6 DEF SubscriberStep
<1> QED BY <1>1, <1>2, <1>3 DEF Next

-----------------------------------------------------------------------------
(***************************************************************************)
(* The theorems.                                                           *)
(***************************************************************************)
LogTypes ==
    /\ published \in 0..MaxEvents /\ ring \in Seq(Events)
    /\ subs \in SUBSET Subscribers /\ panicked \in BOOLEAN

\* The ring holds events, and only subscribers register.
LEMMA LogTypeStep ==
    ASSUME LogTypes, RingInv, [Next]_vars
    PROVE  LogTypes'
<1>1. published' \in 0..MaxEvents /\ ring' \in Seq(Events)
  <2>1. CASE UNCHANGED ringVars
    BY <2>1 DEF LogTypes, ringVars
  <2>2. ASSUME NEW p \in Publishers, Publish(p) PROVE published' \in 0..MaxEvents /\ ring' \in Seq(Events)
    <3>1. published' = published + 1 /\ published' \in 0..MaxEvents /\ published + 1 \in Events
      BY <2>2, LogHubAssumption DEF Publish, LogTypes, Events
    <3>2. CASE ring' = Append(ring, published + 1)
      BY <3>1, <3>2, AppendSet DEF LogTypes
    <3>3. CASE full /\ ring' = [ring EXCEPT ![head + 1] = published + 1]
      <4>1. head + 1 \in 1..Len(ring)
        BY <3>3, LogHubAssumption DEF RingInv, RingTypes, Wrapping
      <4> QED BY <3>1, <3>3, <4>1, ExceptSeq DEF LogTypes
    <3> QED BY <2>2, <3>1, <3>2, <3>3 DEF Publish, RingAppend
  <2> QED BY <2>1, <2>2, RingSteps
<1>2. subs' \in SUBSET Subscribers /\ panicked' \in BOOLEAN
  <2>0. subs \in SUBSET Subscribers /\ panicked \in BOOLEAN
    BY DEF LogTypes
  <2>1. CASE UNCHANGED vars
    BY <2>0, <2>1 DEF vars
  <2>2. ASSUME NEW p \in Publishers, Publish(p) \/ PublisherStep(p)
        PROVE  subs' \in SUBSET Subscribers /\ panicked' \in BOOLEAN
    BY <2>0, <2>2 DEF Publish, PublisherStep, PublishNext, PublishSend, PublishDrop, PublishResend
  <2>3. ASSUME NEW s \in Subscribers, SubscriberStep(s)
        PROVE  subs' \in SUBSET Subscribers /\ panicked' \in BOOLEAN
    <3>1. subs' \in {subs, subs \cup {s}, subs \ {s}}
      BY <2>3 DEF SubscriberStep, Subscribe, ReplaySend, ReplayDrop, ReplayResend, Receive,
                  Disconnect, CancelUnregister, CancelMark, CancelClose
    <3> QED BY <2>0, <2>3, <3>1, SubscriberFrame
  <2> QED BY <2>1, <2>2, <2>3 DEF Next
<1> QED BY <1>1, <1>2 DEF LogTypes

HubInv == RingInv /\ LogTypes /\ PublisherTypes /\ PublisherInv /\ Flow

\* The inductive invariant of the hub.
LEMMA HubCorrect == Spec => []HubInv
<1>1. Init => HubInv
  <2> SUFFICES ASSUME Init PROVE HubInv
    OBVIOUS
  <2>1. LogTypes
    <3>1. 0 \in 0..MaxEvents /\ <<>> \in Seq(Events) /\ {} \in SUBSET Subscribers
      BY LogHubAssumption
    <3> QED BY <3>1 DEF Init, LogTypes
  <2>2. PublisherTypes /\ PublisherInv
    <3>1. PubIdle \in PubTypes /\ \A p \in Publishers : pub[p] = PubIdle
      BY DEF Init, PubIdle, PubTypes
    <3>2. pub \in [Publishers -> PubTypes]
      BY <3>1 DEF Init
    <3> QED BY <3>1, <3>2 DEF PublisherTypes, PublisherInv, PubIdle
  <2>3. ChannelTypes /\ SubscriberTypes
    <3>1. <<>> \in Seq(Events) /\ Len(<<>>) = 0 /\ 0 <= SubBuf
      BY LogHubAssumption
    <3>2. [pc |-> "new", replay |-> <<>>] \in SubTypes
      BY <3>1 DEF SubTypes
    <3> QED BY <3>1, <3>2 DEF Init, ChannelTypes, SubscriberTypes
  <2>4. ASSUME NEW s \in Subscribers PROVE SubscriberOK(s)
    <3>1. sub[s].pc = "new" /\ sub[s].replay = <<>> /\ got[s] = <<>> /\ ch[s] = <<>> /\ s \notin subs
      BY DEF Init
    <3>2. Pending(s) = {}
      BY DEF Init, Pending, PubIdle
    <3>3. published = 0 /\ joined[s] = 0 /\ 0 <= 0 /\ SetOf(<<>>) \subseteq 1..0
          /\ Distinct(<<>>) /\ Sorted(<<>>, 0)
      BY DEF Init, SetOf, Distinct, Sorted
    <3>4. QueueOK(got[s], ch[s], sub[s].replay, Pending(s), published, joined[s])
      BY <3>1, <3>2, <3>3, EmptyQueue
    <3> QED BY <3>1, <3>2, <3>4 DEF SubscriberOK, Subscribed
  <2>5. RingInv
    BY RingStart
  <2> QED BY <2>1, <2>2, <2>3, <2>4, <2>5 DEF HubInv, Flow, SubscriberInv
<1>2. HubInv /\ [Next]_vars => HubInv'
  <2> SUFFICES ASSUME HubInv, [Next]_vars PROVE HubInv'
    OBVIOUS
  <2>1. RingInv /\ LogTypes /\ PublisherTypes /\ PublisherInv /\ Flow /\ Actors
    BY DEF HubInv, LogTypes, Actors
  <2>2. PublisherTypes' /\ PublisherInv'
    BY <2>1, PublisherInvStep DEF Actors
  <2> QED BY <2>1, <2>2, RingStep, LogTypeStep, FlowStep DEF HubInv
<1> QED BY <1>1, <1>2, PTL DEF Spec

\* The ring never outgrows ringSize and head stays one of its slots (sse.go
\* publish), and ring and channels hold published events only, in every order of
\* the channel operations of publishers, replay and reader.
THEOREM TypeCorrect == Spec => []TypeOK
<1>1. ASSUME HubInv PROVE TypeOK
  <2>1. Len(ring) <= RingSize
    BY <1>1, LogHubAssumption DEF HubInv, RingInv, RingTypes, Filling, Wrapping
  <2> QED BY <1>1, <2>1 DEF HubInv, RingInv, RingTypes, LogTypes, PublisherTypes, Flow, ChannelTypes,
             SubscriberTypes, TypeOK
<1> QED BY <1>1, HubCorrect, PTL

\* No event slips between the snapshot and the registration, and none is lost
\* without being dropped for lack of room (sse.go Subscribe and publish),
\* whatever publishers and subscribers do in between.
THEOREM NothingSlips == Spec => []NoEventSlips
<1>1. HubInv => NoEventSlips
  BY DEF HubInv, Flow, SubscriberInv, SubscriberOK, NoEventSlips
<1> QED BY <1>1, HubCorrect, PTL

\* The history reaches a subscriber in order (sse.go Subscribe), although
\* publishers send into its channel, and drop from it, between its events.
THEOREM HistoryOrdered == Spec => []HistoryInOrder
<1>1. ASSUME HubInv PROVE HistoryInOrder
  <2>1. SUFFICES ASSUME NEW s \in Subscribers
                 PROVE  Sorted(got[s] \o ch[s] \o sub[s].replay, joined[s])
    BY DEF HistoryInOrder
  <2> DEFINE g == got[s]
             c == ch[s]
             r == sub[s].replay
             j == joined[s]
             gc == g \o c
  <2>2. /\ g \in Seq(Events) /\ c \in Seq(Events) /\ r \in Seq(Events) /\ j \in Nat
        /\ InOrder(g, c, r, Pending(s), j)
        /\ SetOf(g) \cap SetOf(c) = {} /\ Distinct(g) /\ Distinct(c)
    BY <1>1, QueueTypes DEF HubInv, Flow, SubscriberInv, SubscriberOK, QueueOK, Apart
  <2> HIDE DEF g, c, r, j
  <2>3. gc \in Seq(Events) /\ SetOf(gc) = SetOf(g) \cup SetOf(c)
    BY <2>2, ConcatSet
  <2>4. Sorted(gc, j)
    BY <2>2, SortedConcat DEF InOrder
  <2> HIDE DEF gc
  <2>5. Before(gc, r, j) /\ Sorted(r, j)
    BY <2>2, <2>3 DEF InOrder, Before
  <2>6. Sorted(gc \o r, j)
    BY <2>2, <2>3, <2>4, <2>5, SortedConcat
  <2> QED BY <2>6 DEF gc, g, c, r, j
<1> QED BY <1>1, HubCorrect, PTL

\* No subscriber gets an event from the replay and live as well, or twice from
\* a resend (sse.go Subscribe and publish).
THEOREM NothingTwice == Spec => []NoEventTwice
<1>1. ASSUME HubInv PROVE NoEventTwice
  <2>1. SUFFICES ASSUME NEW s \in Subscribers
                 PROVE  /\ Distinct(got[s] \o ch[s] \o sub[s].replay)
                        /\ Pending(s) \cap SetOf(got[s] \o ch[s] \o sub[s].replay) = {}
    BY DEF NoEventTwice
  <2> DEFINE g == got[s]
             c == ch[s]
             r == sub[s].replay
  <2>2. /\ g \in Seq(Events) /\ c \in Seq(Events) /\ r \in Seq(Events)
        /\ Apart(g, c, r, Pending(s), published)
    BY <1>1 DEF HubInv, Flow, ChannelTypes, SubscriberTypes, SubTypes, SubscriberInv, SubscriberOK, QueueOK
  <2> HIDE DEF g, c, r
  <2>3. /\ g \o c \in Seq(Events) /\ SetOf(g \o c) = SetOf(g) \cup SetOf(c)
        /\ Distinct(g \o c)
    BY <2>2, ConcatSet DEF Apart
  <2>4. SetOf(g \o c) \cap SetOf(r) = {} /\ Distinct(r)
    BY <2>2, <2>3 DEF Apart
  <2>5. Distinct(g \o c \o r) /\ SetOf(g \o c \o r) = SetOf(g) \cup SetOf(c) \cup SetOf(r)
    <3> DEFINE gc == g \o c
    <3> HIDE DEF gc
    <3>1. gc \in Seq(Events) /\ r \in Seq(Events) /\ Distinct(gc) /\ Distinct(r) /\ SetOf(gc) \cap SetOf(r) = {}
      BY <2>2, <2>3, <2>4 DEF gc
    <3>2. Distinct(gc \o r) /\ SetOf(gc \o r) = SetOf(gc) \cup SetOf(r)
      BY <3>1, ConcatSet
    <3> QED BY <2>3, <3>2 DEF gc
  <2> QED BY <2>2, <2>5 DEF Apart, g, c, r
<1> QED BY <1>1, HubCorrect, PTL

=============================================================================
