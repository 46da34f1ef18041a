------------------------------ MODULE LogHub ------------------------------
(***************************************************************************)
(* The log fan-out of engine-toold (internal/observability/sse.go) and its *)
(* SSE endpoint (internal/ipc/handlers_logs.go).  Every goroutine that     *)
(* logs is a publisher; every open /v1/logs/stream request is a            *)
(* subscriber.  Events are numbered in the order in which they enter the   *)
(* ring.  The sections under hub.mu are one step; everything publish and   *)
(* Subscribe do after the unlock is one step per channel operation.  The   *)
(* publishers are the daemon's own goroutines (the loop, the runs, the     *)
(* heartbeats), which nothing shields from a panic.                        *)
(***************************************************************************)
EXTENDS Naturals, Sequences, FiniteSets

CONSTANTS
    Publishers,   \* goroutines that call slog
    Subscribers,  \* log stream requests, each used once
    RingSize,     \* ringSize, 256 in the code
    SubBuf,       \* subBuf, 64 in the code
    MaxEvents     \* bound on the number of events published

ASSUME LogHubAssumption ==
    /\ RingSize \in Nat \ {0}
    /\ SubBuf \in Nat \ {0}
    /\ MaxEvents \in Nat

VARIABLES
    published,  \* number of events that entered the ring
    ring,       \* hub.ring
    head,       \* hub.head
    full,       \* hub.full
    subs,       \* hub.subs
    pub,        \* pub[p]: publisher p inside publish
    sub,        \* sub[s]: subscriber s, from Subscribe to cancel
    ch,         \* ch[s]: the buffered channel of s
    panicked,   \* a send on a closed channel took the process down
    got,        \* history: what s received, in order
    joined,     \* history: how many events there were when s subscribed
    dropped     \* history: events discarded on behalf of s

ringVars == <<published, ring, head, full>>
vars == <<published, ring, head, full, subs, pub, sub, ch, panicked, got, joined, dropped>>

Events == 1..MaxEvents

\* A publisher works through the subscribers it saw under the lock (todo),
\* one after the other (cur), with at most three channel operations each.
PubIdle == [pc |-> "idle", ev |-> 0, todo |-> {}, cur |-> {}]
PubTypes == [pc : {"idle", "next", "send", "drop", "resend"}, ev : Events \cup {0},
             todo : SUBSET Subscribers, cur : SUBSET Subscribers]

\* A subscriber pushes its replay into its own channel, then it is live, then
\* cancel unregisters it, sets closed, and closes the channel.
SubTypes == [pc : {"new", "send", "drop", "resend", "live", "unregister", "mark", "close", "done"},
             replay : Seq(Events)]

TypeOK ==
    /\ published \in 0..MaxEvents
    /\ ring \in Seq(Events) /\ Len(ring) <= RingSize
    /\ head \in 0..(RingSize - 1)
    /\ full \in BOOLEAN
    /\ subs \in SUBSET Subscribers
    /\ pub \in [Publishers -> PubTypes]
    /\ sub \in [Subscribers -> SubTypes]
    /\ ch \in [Subscribers -> Seq(Events)]
    /\ \A s \in Subscribers : Len(ch[s]) <= SubBuf
    /\ panicked \in BOOLEAN
    /\ got \in [Subscribers -> Seq(Events)]
    /\ joined \in [Subscribers -> Nat]
    /\ dropped \in [Subscribers -> SUBSET Events]

Init ==
    /\ published = 0 /\ ring = <<>> /\ head = 0 /\ full = FALSE
    /\ subs = {}
    /\ pub = [p \in Publishers |-> PubIdle]
    /\ sub = [s \in Subscribers |-> [pc |-> "new", replay |-> <<>>]]
    /\ ch = [s \in Subscribers |-> <<>>]
    /\ panicked = FALSE
    /\ got = [s \in Subscribers |-> <<>>]
    /\ joined = [s \in Subscribers |-> 0]
    /\ dropped = [s \in Subscribers |-> {}]

-----------------------------------------------------------------------------
(***************************************************************************)
(* The ring.                                                               *)
(***************************************************************************)

\* A mutant: head advances without wrapping to the slot that was written.
RingAppendSkipsHead(ev) ==
    IF ~full
    THEN /\ ring' = Append(ring, ev)
         /\ full' = (Len(ring) + 1 = RingSize)
         /\ head' = 0
    ELSE /\ ring' = [ring EXCEPT ![head + 1] = ev]
         /\ head' = (head + 2) % RingSize
         /\ UNCHANGED full

\* A mutant: the ring counts as full one event late.
RingFullLate(ev) ==
    IF ~full
    THEN /\ ring' = Append(ring, ev)
         /\ full' = (Len(ring) + 1 > RingSize)
         /\ head' = 0
    ELSE /\ ring' = [ring EXCEPT ![head + 1] = ev]
         /\ head' = (head + 1) % RingSize
         /\ UNCHANGED full

RingAppend(ev) ==
    IF ~full
    THEN /\ ring' = Append(ring, ev)
         /\ full' = (Len(ring) + 1 = RingSize)
         /\ head' = 0
    ELSE /\ ring' = [ring EXCEPT ![head + 1] = ev]
         /\ head' = (head + 1) % RingSize
         /\ UNCHANGED full

\* A mutant: the slots are copied in their own order, head is forgotten.
SnapshotFromZero == ring

\* snapshotLocked: oldest event first.
Snapshot ==
    IF ~full THEN ring ELSE SubSeq(ring, head + 1, RingSize) \o SubSeq(ring, 1, head)

\* hub.publish up to the unlock.
Publish(p) ==
    /\ ~panicked /\ pub[p].pc = "idle"
    /\ published < MaxEvents
    /\ published' = published + 1
    /\ RingAppend(published + 1)
    /\ pub' = [pub EXCEPT ![p] = [pc |-> "next", ev |-> published + 1, todo |-> subs, cur |-> {}]]
    /\ UNCHANGED <<subs, sub, ch, panicked, got, joined, dropped>>

-----------------------------------------------------------------------------
(***************************************************************************)
(* publish after the unlock, for one subscriber of the copied list at a    *)
(* time.  A send to a closed channel panics, also inside a select.         *)
(***************************************************************************)
Closed(s) == sub[s].pc \in {"close", "done"}  \* s.closed.Load()
ChanClosed(s) == sub[s].pc = "done"           \* close(s.ch) has happened

\* p stays with its event, at c, with the subscribers of t to do and u in hand.
PubGoesOn(p, c, t, u) ==
    pub' = [pub EXCEPT ![p] = [pc |-> c, ev |-> pub[p].ev, todo |-> t, cur |-> u]]
PubDone(p) == PubGoesOn(p, "next", pub[p].todo, {})

\* The next subscriber of the list, skipped if its closed flag is set, or the
\* end of the loop.
PublishNext(p) ==
    /\ ~panicked /\ pub[p].pc = "next"
    /\ \/ \E s \in pub[p].todo :
             IF Closed(s) THEN PubGoesOn(p, "next", pub[p].todo \ {s}, {})
                          ELSE PubGoesOn(p, "send", pub[p].todo \ {s}, {s})
       \/ pub[p].todo = {} /\ pub' = [pub EXCEPT ![p] = PubIdle]
    /\ UNCHANGED <<ringVars, subs, sub, ch, panicked, got, joined, dropped>>

\* A mutant: the publisher waits for room in the channel.
PublishSendBlocks(p, s) ==
    /\ ~panicked /\ pub[p].pc = "send" /\ pub[p].cur = {s}
    /\ ~ChanClosed(s) /\ Len(ch[s]) < SubBuf
    /\ ch' = [ch EXCEPT ![s] = Append(@, pub[p].ev)] /\ PubDone(p)
    /\ UNCHANGED <<ringVars, subs, sub, panicked, got, joined, dropped>>

\* The first select: delivered, or the channel is full.
PublishSend(p, s) ==
    /\ ~panicked /\ pub[p].pc = "send" /\ pub[p].cur = {s}
    /\ \/ ChanClosed(s) /\ panicked' = TRUE /\ UNCHANGED <<ch, pub>>
       \/ /\ ~ChanClosed(s) /\ Len(ch[s]) < SubBuf
          /\ ch' = [ch EXCEPT ![s] = Append(@, pub[p].ev)]
          /\ PubDone(p) /\ UNCHANGED panicked
       \/ /\ ~ChanClosed(s) /\ Len(ch[s]) = SubBuf
          /\ PubGoesOn(p, "drop", pub[p].todo, {s}) /\ UNCHANGED <<ch, panicked>>
    /\ UNCHANGED <<ringVars, subs, sub, got, joined, dropped>>

\* The second select takes the oldest event out, if there is one.
DropOldest(s) ==
    \/ /\ ch[s] # <<>>
       /\ ch' = [ch EXCEPT ![s] = Tail(@)]
       /\ dropped' = [dropped EXCEPT ![s] = @ \cup {Head(ch[s])}]
    \/ ch[s] = <<>> /\ UNCHANGED <<ch, dropped>>

PublishDrop(p, s) ==
    /\ ~panicked /\ pub[p].pc = "drop" /\ pub[p].cur = {s}
    /\ DropOldest(s)
    /\ PubGoesOn(p, "resend", pub[p].todo, {s})
    /\ UNCHANGED <<ringVars, subs, sub, panicked, got, joined>>

\* The third select: delivered, or the new event itself is given up.
PublishResend(p, s) ==
    /\ ~panicked /\ pub[p].pc = "resend" /\ pub[p].cur = {s}
    /\ \/ ChanClosed(s) /\ panicked' = TRUE /\ UNCHANGED <<ch, pub, dropped>>
       \/ /\ ~ChanClosed(s) /\ Len(ch[s]) < SubBuf
          /\ ch' = [ch EXCEPT ![s] = Append(@, pub[p].ev)]
          /\ PubDone(p) /\ UNCHANGED <<panicked, dropped>>
       \/ /\ ~ChanClosed(s) /\ Len(ch[s]) = SubBuf
          /\ dropped' = [dropped EXCEPT ![s] = @ \cup {pub[p].ev}]
          /\ PubDone(p) /\ UNCHANGED <<ch, panicked>>
    /\ UNCHANGED <<ringVars, subs, sub, got, joined>>

-----------------------------------------------------------------------------
(***************************************************************************)
(* Subscribe, the request handler that reads the channel, and cancel.      *)
(***************************************************************************)

\* A mutant: the subscriber registers in a second critical section.
SubscribeRegistersLater(s) ==
    /\ ~panicked /\ sub[s].pc = "new"
    /\ \/ /\ sub[s].replay = <<>> /\ Snapshot # <<>>
          /\ sub' = [sub EXCEPT ![s].replay = Snapshot]
          /\ joined' = [joined EXCEPT ![s] = published]
          /\ UNCHANGED subs
       \/ /\ sub[s].replay # <<>>
          /\ sub' = [sub EXCEPT ![s].pc = "send"]
          /\ subs' = subs \cup {s}
          /\ UNCHANGED joined
    /\ UNCHANGED <<ringVars, pub, ch, panicked, got, dropped>>

\* Snapshot and registration under the lock.
Subscribe(s) ==
    /\ ~panicked /\ sub[s].pc = "new"
    /\ sub' = [sub EXCEPT ![s] = [pc |-> "send", replay |-> Snapshot]]
    /\ subs' = subs \cup {s}
    /\ joined' = [joined EXCEPT ![s] = published]
    /\ UNCHANGED <<ringVars, pub, ch, panicked, got, dropped>>

Replayed(s) == sub' = [sub EXCEPT ![s] = [pc |-> "send", replay |-> Tail(@.replay)]]

\* A mutant: an event that found room on the second try is pushed once more.
ReplayResendTwice(s) ==
    /\ ~panicked /\ sub[s].pc = "resend"
    /\ Len(ch[s]) < SubBuf
    /\ ch' = [ch EXCEPT ![s] = Append(@, Head(sub[s].replay))]
    /\ sub' = [sub EXCEPT ![s].pc = "send"]
    /\ UNCHANGED <<ringVars, subs, pub, panicked, got, joined, dropped>>

\* The replay loop: the same three selects, after the unlock.
ReplaySend(s) ==
    /\ ~panicked /\ sub[s].pc = "send"
    /\ \/ /\ sub[s].replay # <<>> /\ Len(ch[s]) < SubBuf
          /\ ch' = [ch EXCEPT ![s] = Append(@, Head(sub[s].replay))]
          /\ Replayed(s)
       \/ /\ sub[s].replay # <<>> /\ Len(ch[s]) = SubBuf
          /\ sub' = [sub EXCEPT ![s].pc = "drop"] /\ UNCHANGED ch
       \/ /\ sub[s].replay = <<>>
          /\ sub' = [sub EXCEPT ![s].pc = "live"] /\ UNCHANGED ch
    /\ UNCHANGED <<ringVars, subs, pub, panicked, got, joined, dropped>>

ReplayDrop(s) ==
    /\ ~panicked /\ sub[s].pc = "drop"
    /\ DropOldest(s)
    /\ sub' = [sub EXCEPT ![s].pc = "resend"]
    /\ UNCHANGED <<ringVars, subs, pub, panicked, got, joined>>

ReplayResend(s) ==
    /\ ~panicked /\ sub[s].pc = "resend"
    /\ Replayed(s)
    /\ \/ /\ Len(ch[s]) < SubBuf
          /\ ch' = [ch EXCEPT ![s] = Append(@, Head(sub[s].replay))]
          /\ UNCHANGED dropped
       \/ /\ Len(ch[s]) = SubBuf
          /\ dropped' = [dropped EXCEPT ![s] = @ \cup {Head(sub[s].replay)}]
          /\ UNCHANGED ch
    /\ UNCHANGED <<ringVars, subs, pub, panicked, got, joined>>

\* handleLogsStream writes the next event to the client.  It may still do so
\* while the context's goroutine cancels, and from the closed channel; when it
\* has returned it takes this step no more.
Receive(s) ==
    /\ ~panicked /\ sub[s].pc \in {"live", "unregister", "mark", "close", "done"}
    /\ ch[s] # <<>>
    /\ got' = [got EXCEPT ![s] = Append(@, Head(ch[s]))]
    /\ ch' = [ch EXCEPT ![s] = Tail(@)]
    /\ UNCHANGED <<ringVars, subs, pub, sub, panicked, joined, dropped>>

\* The client went away or a write failed: cancel runs, once, called by the
\* handler's defer or by the context's goroutine, whichever is first.
Disconnect(s) ==
    /\ ~panicked /\ sub[s].pc = "live"
    /\ sub' = [sub EXCEPT ![s].pc = "unregister"]
    /\ UNCHANGED <<ringVars, subs, pub, ch, panicked, got, joined, dropped>>

CancelUnregister(s) ==
    /\ ~panicked /\ sub[s].pc = "unregister"
    /\ subs' = subs \ {s}
    /\ sub' = [sub EXCEPT ![s].pc = "mark"]
    /\ UNCHANGED <<ringVars, pub, ch, panicked, got, joined, dropped>>

\* s.closed.Store(true), then close(s.ch).
CancelMark(s) ==
    /\ ~panicked /\ sub[s].pc = "mark"
    /\ sub' = [sub EXCEPT ![s].pc = "close"]
    /\ UNCHANGED <<ringVars, subs, pub, ch, panicked, got, joined, dropped>>

CancelClose(s) ==
    /\ ~panicked /\ sub[s].pc = "close"
    /\ sub' = [sub EXCEPT ![s].pc = "done"]
    /\ UNCHANGED <<ringVars, subs, pub, ch, panicked, got, joined, dropped>>

-----------------------------------------------------------------------------
PublisherStep(p) ==
    \/ PublishNext(p)
    \/ \E s \in Subscribers : PublishSend(p, s) \/ PublishDrop(p, s) \/ PublishResend(p, s)

SubscriberStep(s) ==
    \/ Subscribe(s) \/ ReplaySend(s) \/ ReplayDrop(s) \/ ReplayResend(s) \/ Receive(s)
    \/ Disconnect(s) \/ CancelUnregister(s) \/ CancelMark(s) \/ CancelClose(s)

Next ==
    \/ \E p \in Publishers : Publish(p) \/ PublisherStep(p)
    \/ \E s \in Subscribers : SubscriberStep(s)

Spec == Init /\ [][Next]_vars

-----------------------------------------------------------------------------
SetOf(q) == {q[i] : i \in 1..Len(q)}
Distinct(q) == \A i, j \in 1..Len(q) : q[i] = q[j] => i = j

\* The events a publisher still has to hand to s.
Pending(s) == {pub[p].ev : p \in {x \in Publishers : s \in pub[x].todo \cup pub[x].cur}}

\* snapshotLocked returns the newest events, oldest first, across every wrap
\* of head: the last min(published, RingSize) ones, in order.
RingHoldsNewest ==
    LET n == IF published < RingSize THEN published ELSE RingSize
    IN  Snapshot = [i \in 1..n |-> published - n + i]

\* Its strengthening, over the slots of the ring (module LogHubProofs): until it
\* is full the ring is the log; then slot head + 1 holds the oldest event.
RingTypes == published \in Nat /\ ring \in Seq(Nat) /\ head \in 0..(RingSize - 1)

Filling ==
    /\ Len(ring) = published /\ published < RingSize /\ head = 0
    /\ \A i \in 1..published : ring[i] = i

Wrapping ==
    /\ Len(ring) = RingSize /\ published >= RingSize
    /\ \A i \in 1..RingSize : ring[i] = published - head + i - (IF i <= head THEN 0 ELSE RingSize)

RingInv == RingTypes /\ full \in BOOLEAN /\ (~full => Filling) /\ (full => Wrapping)

\* What became of the events for s, until cancel runs.
Subscribed(s) == sub[s].pc \in {"send", "drop", "resend", "live"}
Accounted(s) ==
    SetOf(sub[s].replay) \cup Pending(s) \cup SetOf(ch[s]) \cup SetOf(got[s]) \cup dropped[s]

\* The oldest event a subscriber is promised: the ring held this many.
Oldest(s) == joined[s] + 1 - (IF joined[s] < RingSize THEN joined[s] ELSE RingSize)

\* "no live event slips between them" (Subscribe): of the events from the
\* oldest the ring held on, each one is still to be replayed or published to
\* the subscriber, in its channel, received, or was dropped for lack of room.
\* None is skipped between the snapshot and the registration.
NoEventSlips ==
    \A s \in Subscribers :
        Subscribed(s) => \A e \in Oldest(s)..published : e \in Accounted(s)

\* No subscriber sees an event twice, once from the replay and once live.
NoEventTwice ==
    \A s \in Subscribers :
        LET q == got[s] \o ch[s] \o sub[s].replay
        IN  Distinct(q) /\ Pending(s) \cap SetOf(q) = {}

\* The events up to n keep their order in q.
Sorted(q, n) == \A i, j \in 1..Len(q) : (i < j /\ q[i] <= n /\ q[j] <= n) => q[i] < q[j]

\* "contiguous history" (Subscribe): although the replay is pushed after the
\* unlock, into a channel that publishers send to and drop from, the history
\* reaches the subscriber in its order.  (It need not precede the live events.)
HistoryInOrder == \A s \in Subscribers : Sorted(got[s] \o ch[s] \o sub[s].replay, joined[s])

\* "Small on purpose - once full we drop oldest, never block": a publisher gets
\* out of publish although no subscriber reads its channel.
PublishReturns == \A p \in Publishers : pub[p].pc # "idle" ~> (pub[p].pc = "idle" \/ panicked)

FairSpec == Spec /\ \A p \in Publishers : WF_vars(PublisherStep(p))

\* publish's "Subscriber raced into closed state; skip.": a publisher that
\* meets a closing subscriber skips it.  The code does not keep it: it panics.
ClosingSubscriberSkipped == ~panicked

-----------------------------------------------------------------------------
(***************************************************************************)
(* The strengthening that makes NoEventSlips, NoEventTwice and             *)
(* HistoryInOrder inductive (module LogHubProofs).                         *)
(***************************************************************************)
\* Nobody else publishes the event a publisher is busy with, and a subscriber
\* is on its list once.
PublisherInv ==
    /\ \A p \in Publishers :
          /\ pub[p].pc = "idle" => pub[p].todo = {}
          /\ pub[p].pc \in {"idle", "next"} => pub[p].cur = {}
          /\ pub[p].pc # "idle" => pub[p].ev \in 1..published
          /\ pub[p].todo \cap pub[p].cur = {}
    /\ \A p, q \in Publishers :
          (pub[p].pc # "idle" /\ pub[q].pc # "idle" /\ pub[p].ev = pub[q].ev) => p = q

\* What was received (g), what is in the channel (c), what is to be replayed (r)
\* and what is to be published to a subscriber (P), of n events, have nothing
\* in common.
Apart(g, c, r, P, n) ==
    /\ Distinct(g) /\ Distinct(c) /\ Distinct(r)
    /\ SetOf(g) \cap SetOf(c) = {} /\ SetOf(g) \cap SetOf(r) = {} /\ SetOf(c) \cap SetOf(r) = {}
    /\ P \cap (SetOf(g) \cup SetOf(c) \cup SetOf(r)) = {}
    /\ SetOf(g) \cup SetOf(c) \cup SetOf(r) \subseteq 1..n

\* Of the events up to j, what is closer to the client is older; those to be
\* published are newer.
Before(a, b, j) == \A e \in SetOf(a), f \in SetOf(b) : (e <= j /\ f <= j) => e < f

InOrder(g, c, r, P, j) ==
    /\ Sorted(g, j) /\ Sorted(c, j) /\ Sorted(r, j)
    /\ Before(g, c, j) /\ Before(g, r, j) /\ Before(c, r, j)
    /\ \A e \in P : e > j

QueueOK(g, c, r, P, n, j) == Apart(g, c, r, P, n) /\ InOrder(g, c, r, P, j) /\ j <= n

\* No publisher knows a subscriber before it subscribes; until cancel it is
\* registered, and no event is missing.
SubscriberOK(s) ==
    /\ sub[s].pc = "new" => s \notin subs /\ got[s] = <<>> /\ ch[s] = <<>> /\ Pending(s) = {}
    /\ sub[s].pc \in {"drop", "resend"} => sub[s].replay # <<>>
    /\ Subscribed(s) => s \in subs /\ Oldest(s)..published \subseteq Accounted(s)
    /\ QueueOK(got[s], ch[s], sub[s].replay, Pending(s), published, joined[s])

SubscriberInv == \A s \in Subscribers : SubscriberOK(s)

=============================================================================
