--------------------------- MODULE DesktopProofs ---------------------------
(***************************************************************************)
(* Proofs about Desktop, for any number of daemons, pages, attempts and    *)
(* EventSources.                                                           *)
(***************************************************************************)
EXTENDS Desktop, ShellProofs, FiniteSetTheorems

\* A step of the desktop is a step of the shell or leaves the shell alone.
LEMMA ShellSteps == [Next]_vars => [ShellNext]_shellVars
  BY DEF Next, OpenLogs, LeaveLogs, Reconnect, Callback, Awaited, RetryTimer, OnOpen, OnError, vars

\* The desktop runs the shell of module Shell.
LEMMA RunsShell == Spec => ShellSpec
  BY ShellSteps, PTL DEF Spec, Init, ShellSpec

-----------------------------------------------------------------------------
(***************************************************************************)
(* The handles.                                                            *)
(***************************************************************************)
StreamTypes ==
    /\ handle \in [Handles -> HandleStates]
    /\ live \in [Handles -> SUBSET EventSources]

Showing == {"connecting", "open", "reconnecting", "give-up"}

\* Each variable of a handle may be set on its own.
LEMMA HandleFields ==
    ASSUME NEW x \in HandleStates
    PROVE  /\ \A v \in {"none", "mounted", "left"} : [x EXCEPT !.mount = v] \in HandleStates
           /\ \A v \in 0..MaxAttempts : [x EXCEPT !.attempt = v] \in HandleStates
           /\ \A v \in BOOLEAN : [x EXCEPT !.closed = v] \in HandleStates
           /\ \A v \in BOOLEAN : [x EXCEPT !.timer = v] \in HandleStates
           /\ \A v \in Nat : [x EXCEPT !.awaiting = v] \in HandleStates
           /\ \A v \in {0} \cup EventSources : [x EXCEPT !.source = v] \in HandleStates
           /\ \A v \in Showing : [x EXCEPT !.shows = v] \in HandleStates
  BY DEF HandleStates, Showing

\* The functions inside openLogStream return a handle's variables.
LEMMA HandleFunctions ==
    ASSUME NEW x \in HandleStates
    PROVE  /\ Connect(x) \in HandleStates /\ ScheduleRetry(x) \in HandleStates
           /\ Cleanup(x) \in HandleStates /\ Closed(x) \in HandleStates
<1>1. x.attempt \in 0..MaxAttempts /\ MaxAttempts \in Nat /\ x.awaiting \in Nat
  BY DesktopAssumption DEF HandleStates
<1>2. Connect(x) \in HandleStates
  <2>1. CASE x.closed
    BY <2>1 DEF Connect
  <2>2. CASE ~x.closed
    <3> DEFINE y == [x EXCEPT !.awaiting = x.awaiting + 1]
               v == IF x.attempt = 0 THEN "connecting" ELSE "reconnecting"
    <3>1. y \in HandleStates
      <4>1. x.awaiting + 1 \in Nat
        BY <1>1
      <4> QED BY <4>1, HandleFields, Zenon
    <3>2. v \in Showing
      BY DEF Showing
    <3>3. Connect(x) = [y EXCEPT !.shows = v]
      BY <2>2 DEF Connect
    <3> HIDE DEF y, v
    <3> QED BY <3>1, <3>2, <3>3, HandleFields
  <2> QED BY <2>1, <2>2
<1>3. ScheduleRetry(x) \in HandleStates
  <2>1. CASE x.closed
    BY <2>1 DEF ScheduleRetry
  <2>2. CASE ~x.closed /\ x.attempt >= MaxAttempts
    BY <2>2, HandleFields DEF ScheduleRetry, Showing
  <2>3. CASE ~x.closed /\ ~(x.attempt >= MaxAttempts)
    <3> DEFINE y == [x EXCEPT !.attempt = x.attempt + 1]
    <3>1. y \in HandleStates
      <4>1. x.attempt + 1 \in 0..MaxAttempts
        BY <1>1, <2>3
      <4> QED BY <4>1, HandleFields, Zenon
    <3>2. ScheduleRetry(x) = [y EXCEPT !.timer = TRUE]
      BY <2>3 DEF ScheduleRetry
    <3> HIDE DEF y
    <3> QED BY <3>1, <3>2, HandleFields
  <2> QED BY <2>1, <2>2, <2>3
<1>4. Cleanup(x) \in HandleStates
  BY DEF Cleanup, HandleStates
<1>5. Closed(x) \in HandleStates
  <2>1. CASE x.mount # "mounted"
    BY <2>1 DEF Closed
  <2>2. CASE x.mount = "mounted"
    <3>1. Closed(x) = [mount |-> "left", attempt |-> 0, closed |-> TRUE, timer |-> FALSE,
                       awaiting |-> x.awaiting, source |-> 0, shows |-> "connecting",
                       interrupted |-> x.awaiting > 0]
      BY <2>2 DEF Closed, NewHandle
    <3> QED BY <1>1, <3>1 DEF HandleStates
  <2> QED BY <2>1, <2>2
<1> QED BY <1>2, <1>3, <1>4, <1>5

\* A new handle is one, whether mounted or not.
LEMMA NewHandles ==
    /\ NewHandle \in HandleStates
    /\ [NewHandle EXCEPT !.mount = "mounted"] \in HandleStates
<1>1. 0 \in 0..MaxAttempts /\ 0 \in Nat
  BY DesktopAssumption
<1>2. NewHandle \in HandleStates
  BY <1>1 DEF NewHandle, HandleStates
<1> QED BY <1>2, HandleFields

\* Every step leaves handles and sets of EventSources of their types.
LEMMA StreamTypeStep ==
    ASSUME StreamTypes, [Next]_vars
    PROVE  StreamTypes'
<1> USE DEF StreamTypes
<1>0. ASSUME NEW h \in Handles, NEW x \in HandleStates, Set(h, x) PROVE handle' \in [Handles -> HandleStates]
  BY <1>0 DEF Set
<1>1. CASE UNCHANGED vars
  BY <1>1 DEF vars, streamVars
<1>2. CASE PagesFollow
  <2>1. CASE NoStreams
    BY <2>1, NewHandles DEF NoStreams
  <2>2. CASE UNCHANGED streamVars
    BY <2>2 DEF streamVars
  <2>3. CASE /\ handle' = [h \in Handles |-> Closed(handle[h])]
             /\ live' = [h \in Handles |-> IF handle[h].mount = "mounted"
                                             THEN live[h] \ {handle[h].source} ELSE live[h]]
    BY <2>3, HandleFunctions
  <2> QED BY <1>2, <2>1, <2>2, <2>3 DEF PagesFollow
<1>3. ASSUME NEW h \in Handles, OpenLogs(h) \/ LeaveLogs(h) \/ Reconnect(h) PROVE StreamTypes'
  <2>1. CASE OpenLogs(h)
    BY <1>0, <2>1, HandleFunctions, NewHandles DEF OpenLogs
  <2>2. CASE LeaveLogs(h)
    BY <1>0, <2>2, HandleFunctions DEF LeaveLogs
  <2>3. CASE Reconnect(h)
    <3>1. [Cleanup(handle[h]) EXCEPT !.attempt = 0, !.closed = FALSE] \in HandleStates
      <4> DEFINE y == [Cleanup(handle[h]) EXCEPT !.attempt = 0]
      <4>1. y \in HandleStates
        <5>1. Cleanup(handle[h]) \in HandleStates /\ 0 \in 0..MaxAttempts
          BY HandleFunctions, DesktopAssumption
        <5> QED BY <5>1, HandleFields, Zenon
      <4>2. [Cleanup(handle[h]) EXCEPT !.attempt = 0, !.closed = FALSE] = [y EXCEPT !.closed = FALSE]
        OBVIOUS
      <4> HIDE DEF y
      <4> QED BY <4>1, <4>2, HandleFields
    <3> QED BY <1>0, <2>3, <3>1, HandleFunctions DEF Reconnect
  <2> QED BY <1>3, <2>1, <2>2, <2>3
<1>4. ASSUME NEW h \in Handles, Awaited(h) PROVE StreamTypes'
  <2> DEFINE x == [handle[h] EXCEPT !.awaiting = @ - 1]
  <2>1. x \in HandleStates
    <3>1. handle[h].awaiting \in Nat /\ handle[h].awaiting > 0
      BY <1>4 DEF Awaited, HandleStates
    <3>2. handle[h].awaiting - 1 \in Nat /\ handle[h] \in HandleStates
      BY <3>1
    <3> QED BY <3>2, HandleFields, Zenon
  <2>2. CASE \E e \in EventSources \ live[h] :
                Set(h, [x EXCEPT !.source = e]) /\ live' = [live EXCEPT ![h] = @ \cup {e}]
    <3>1. PICK e \in EventSources : Set(h, [x EXCEPT !.source = e]) /\ live' = [live EXCEPT ![h] = @ \cup {e}]
      BY <2>2
    <3>2. [x EXCEPT !.source = e] \in HandleStates
      BY <2>1 DEF HandleStates
    <3> HIDE DEF x
    <3> QED BY <1>0, <3>1, <3>2
  <2>3. CASE Set(h, ScheduleRetry(x)) /\ UNCHANGED live
    BY <1>0, <2>1, <2>3, HandleFunctions
  <2> QED BY <1>4, <2>2, <2>3 DEF Awaited
<1>5. ASSUME NEW h \in Handles, NEW e \in EventSources, OnOpen(h, e) PROVE StreamTypes'
  <2>1. \A y \in HandleStates : [y EXCEPT !.attempt = 0] \in HandleStates
                                /\ [y EXCEPT !.attempt = 0, !.shows = "open"] \in HandleStates
    <3> SUFFICES ASSUME NEW y \in HandleStates
                 PROVE  /\ [y EXCEPT !.attempt = 0] \in HandleStates
                        /\ [y EXCEPT !.attempt = 0, !.shows = "open"] \in HandleStates
      OBVIOUS
    <3> DEFINE z == [y EXCEPT !.attempt = 0]
    <3>1. z \in HandleStates
      <4>1. 0 \in 0..MaxAttempts
        BY DesktopAssumption
      <4> QED BY <4>1, HandleFields, Zenon
    <3>2. [y EXCEPT !.attempt = 0, !.shows = "open"] = [z EXCEPT !.shows = "open"]
      OBVIOUS
    <3>3. [z EXCEPT !.shows = "open"] \in HandleStates
      <4> HIDE DEF z
      <4> QED BY <3>1, HandleFields DEF Showing
    <3> QED BY <3>1, <3>2, <3>3
  <2>2. \/ Set(h, [handle[h] EXCEPT !.attempt = 0, !.shows = "open"])
        \/ Set(h, [handle[h] EXCEPT !.attempt = 0])
    BY <1>5 DEF OnOpen, HandleStates
  <2> QED BY <1>0, <1>5, <2>1, <2>2 DEF OnOpen
<1>6. ASSUME NEW h \in Handles, NEW e \in EventSources, OnError(h, e) PROVE StreamTypes'
  <2>1. [handle[h] EXCEPT !.source = 0] \in HandleStates
    BY DEF HandleStates
  <2> QED BY <1>0, <1>6, <2>1, HandleFunctions DEF OnError
<1>7. ASSUME NEW h \in Handles, RetryTimer(h) PROVE StreamTypes'
  <2>1. [handle[h] EXCEPT !.timer = FALSE] \in HandleStates
    BY DEF HandleStates
  <2> QED BY <1>0, <1>7, <2>1, HandleFunctions DEF RetryTimer
<1> QED BY <1>1, <1>2, <1>3, <1>4, <1>5, <1>6, <1>7 DEF Next, Callback

-----------------------------------------------------------------------------
(***************************************************************************)
(* One connection per page.                                                *)
(***************************************************************************)

\* What a callback leaves when it calls connect or scheduleRetry: nothing is
\* under way for the page, or it was left and connect had been awaiting.
Between(x, s) ==
    /\ x \in HandleStates /\ x.mount # "none"
    /\ x.closed <=> x.mount = "left"
    /\ x.closed => x.interrupted
    /\ ~x.closed => Quiet(x, s)

\* connect and scheduleRetry start one thing.
LEMMA StartsOne ==
    ASSUME NEW x, NEW s, Between(x, s)
    PROVE  /\ HandleOK(Connect(x), s)
           /\ (~x.closed => x.shows # "give-up") => HandleOK(ScheduleRetry(x), s)
<1>1. CASE x.closed
  BY <1>1 DEF Between, Connect, ScheduleRetry, HandleOK
<1>2. CASE ~x.closed
  <2>0. x.mount \in {"mounted", "left"} /\ x.awaiting = 0 /\ s = {} /\ ~x.timer /\ x.mount # "left"
    BY <1>2 DEF Between, HandleStates, Quiet
  <2>1. HandleOK(Connect(x), s)
    <3> DEFINE y == Connect(x)
    <3>1. y.mount = "mounted" /\ y.awaiting = 1 /\ y.shows # "give-up"
      BY <1>2, <2>0 DEF Connect, Between, HandleStates
    <3>2. ~y.closed /\ ~y.timer
      BY <1>2, <2>0 DEF Connect, Between, HandleStates
    <3> HIDE DEF y
    <3> QED BY <2>0, <3>1, <3>2 DEF HandleOK, Connecting, y
  <2>2. ASSUME x.shows # "give-up" PROVE HandleOK(ScheduleRetry(x), s)
    <3> DEFINE y == ScheduleRetry(x)
    <3>1. CASE x.attempt >= MaxAttempts
      <4>1. y.mount = "mounted" /\ y.awaiting = 0
        BY <1>2, <2>0, <3>1 DEF ScheduleRetry, Between, HandleStates
      <4>2. ~y.closed /\ ~y.timer
        BY <1>2, <2>0, <3>1 DEF ScheduleRetry, Between, HandleStates
      <4> HIDE DEF y
      <4> QED BY <2>0, <4>1, <4>2 DEF HandleOK, Quiet, y
    <3>2. CASE ~(x.attempt >= MaxAttempts)
      <4>1. y.mount = "mounted" /\ y.awaiting = 0 /\ y.shows = x.shows
        BY <1>2, <2>0, <3>2 DEF ScheduleRetry, Between, HandleStates
      <4>2. ~y.closed /\ y.timer
        BY <1>2, <2>0, <3>2 DEF ScheduleRetry, Between, HandleStates
      <4> HIDE DEF y
      <4>3. HandleOK(y, s)
        BY <2>0, <2>2, <4>1, <4>2 DEF HandleOK, BackingOff
      <4> QED BY <4>3 DEF y
    <3> QED BY <3>1, <3>2
  <2> QED BY <1>2, <2>1, <2>2
<1> QED BY <1>1, <1>2

\* close() reaches what is under way, except the awaited token.
LEMMA CloseReachesAll ==
    ASSUME NEW x \in HandleStates, NEW s, HandleOK(x, s)
    PROVE  HandleOK(Closed(x), IF x.mount = "mounted" THEN s \ {x.source} ELSE s)
<1>1. CASE x.mount # "mounted"
  BY <1>1 DEF Closed
<1>2. CASE x.mount = "mounted"
  <2> DEFINE y == Closed(x)
             t == s \ {x.source}
  <2>1. y.mount = "left" /\ y.awaiting = x.awaiting
    BY <1>2 DEF Closed, NewHandle
  <2>2. y.closed /\ ~y.timer
    BY <1>2 DEF Closed, NewHandle
  <2>3. y.interrupted <=> x.awaiting > 0
    BY <1>2 DEF Closed, NewHandle
  <2>4. t = {} /\ x.awaiting \in Nat
    BY <1>2 DEF HandleOK, HandleStates, Connecting, Connected, BackingOff, Quiet
  <2> HIDE DEF y, t
  <2>5. HandleOK(y, t)
    BY <2>1, <2>2, <2>3, <2>4 DEF HandleOK, Quiet
  <2> QED BY <1>2, <2>5 DEF y, t
<1> QED BY <1>1, <1>2

\* What has something under way is a page in one of the three busy shapes, or
\* one that was left while connect awaited.
LEMMA Busy ==
    ASSUME NEW x \in HandleStates, NEW s, HandleOK(x, s), ~Quiet(x, s)
    PROVE  /\ x.mount # "none"
           /\ ~x.closed => Connecting(x, s) \/ Connected(x, s) \/ BackingOff(x, s)
           /\ ~x.closed => x.shows # "give-up"
           /\ x.closed => x.interrupted
           /\ x.closed <=> x.mount = "left"
<1>1. /\ x.mount = "none" => Quiet(x, s)
      /\ ~x.closed => Connecting(x, s) \/ Connected(x, s) \/ BackingOff(x, s) \/ Quiet(x, s)
      /\ (~x.closed /\ x.shows = "give-up") => Quiet(x, s)
      /\ (x.closed /\ ~x.interrupted) => Quiet(x, s)
      /\ x.closed <=> x.mount = "left"
  BY DEF HandleOK
<1> QED BY <1>1

\* A handle that is not used has nothing under way.
LEMMA NewIsOK == HandleOK(NewHandle, {})
  BY DEF HandleOK, NewHandle, Quiet

\* Every callback and every button keeps the shape of each handle.
LEMMA HandleStep ==
    ASSUME StreamTypes, HandleInv, [Next]_vars
    PROVE  HandleInv'
<1>0. \A h \in Handles : handle[h] \in HandleStates /\ HandleOK(handle[h], live[h])
  BY DEF StreamTypes, HandleInv
<1>a. ASSUME NEW h \in Handles, NEW x, NEW s, Set(h, x), live' = [live EXCEPT ![h] = s], HandleOK(x, s)
      PROVE  HandleInv'
  <2>1. handle'[h] = x /\ live'[h] = s
    BY <1>a DEF Set, StreamTypes
  <2>2. \A g \in Handles : g # h => handle'[g] = handle[g] /\ live'[g] = live[g]
    BY <1>a DEF Set, StreamTypes
  <2> QED BY <1>0, <1>a, <2>1, <2>2 DEF HandleInv
<1>b. \A h \in Handles : UNCHANGED live => live' = [live EXCEPT ![h] = live[h]]
  BY DEF StreamTypes
<1>1. CASE UNCHANGED vars
  BY <1>1 DEF vars, streamVars, HandleInv
<1>2. CASE PagesFollow
  <2>1. CASE NoStreams
    BY <2>1, NewIsOK DEF NoStreams, HandleInv
  <2>2. CASE UNCHANGED streamVars
    BY <2>2 DEF streamVars, HandleInv
  <2>3. CASE /\ handle' = [h \in Handles |-> Closed(handle[h])]
             /\ live' = [h \in Handles |-> IF handle[h].mount = "mounted"
                                             THEN live[h] \ {handle[h].source} ELSE live[h]]
    BY <1>0, <2>3, CloseReachesAll DEF HandleInv
  <2> QED BY <1>2, <2>1, <2>2, <2>3 DEF PagesFollow
<1>3. ASSUME NEW h \in Handles, OpenLogs(h) PROVE HandleInv'
  <2> DEFINE x == [NewHandle EXCEPT !.mount = "mounted"]
  <2>1. live[h] = {}
    BY <1>0, <1>3 DEF OpenLogs, HandleOK, Quiet
  <2>2. Between(x, live[h])
    <3>1. x.mount = "mounted" /\ x.awaiting = 0
      BY DEF NewHandle
    <3>2. ~x.closed /\ ~x.timer
      BY DEF NewHandle
    <3>3. x \in HandleStates
      BY NewHandles
    <3> HIDE DEF x
    <3> QED BY <2>1, <3>1, <3>2, <3>3 DEF Between, Quiet
  <2>3. Set(h, Connect(x)) /\ live' = [live EXCEPT ![h] = live[h]]
    BY <1>3, <1>b DEF OpenLogs
  <2> HIDE DEF x
  <2> QED BY <1>a, <2>2, <2>3, StartsOne
<1>4. ASSUME NEW h \in Handles, LeaveLogs(h) PROVE HandleInv'
  <2>1. /\ Set(h, Closed(handle[h])) /\ live' = [live EXCEPT ![h] = live[h] \ {handle[h].source}]
        /\ handle[h].mount = "mounted"
    BY <1>4 DEF LeaveLogs, Mounted
  <2>2. HandleOK(Closed(handle[h]), live[h] \ {handle[h].source})
    BY <1>0, <2>1, CloseReachesAll
  <2> QED BY <1>a, <2>1, <2>2
<1>5. ASSUME NEW h \in Handles, Reconnect(h) PROVE HandleInv'
  <2> DEFINE x == [Cleanup(handle[h]) EXCEPT !.attempt = 0, !.closed = FALSE]
             s == live[h] \ {handle[h].source}
  <2>1. handle[h].mount = "mounted" /\ Quiet(handle[h], live[h])
    BY <1>0, <1>5 DEF Reconnect, Mounted, HandleOK
  <2>2. x.mount = "mounted" /\ x.awaiting = 0
    BY <1>0, <2>1 DEF Cleanup, HandleStates, Quiet
  <2>3. ~x.closed /\ ~x.timer
    BY <1>0, <2>1 DEF Cleanup, HandleStates
  <2>4. x \in HandleStates
    <3> DEFINE y == [Cleanup(handle[h]) EXCEPT !.attempt = 0]
    <3>1. y \in HandleStates
      <4>1. Cleanup(handle[h]) \in HandleStates /\ 0 \in 0..MaxAttempts
        BY <1>0, HandleFunctions, DesktopAssumption
      <4> QED BY <4>1, HandleFields, Zenon
    <3>2. x = [y EXCEPT !.closed = FALSE]
      OBVIOUS
    <3> HIDE DEF x, y
    <3> QED BY <3>1, <3>2, HandleFields
  <2>5. Between(x, s)
    <3> HIDE DEF x
    <3> QED BY <2>1, <2>2, <2>3, <2>4 DEF Between, Quiet
  <2>6. Set(h, Connect(x)) /\ live' = [live EXCEPT ![h] = s]
    BY <1>5 DEF Reconnect
  <2> HIDE DEF x, s
  <2> QED BY <1>a, <2>5, <2>6, StartsOne
<1>6. ASSUME NEW h \in Handles, Awaited(h) PROVE HandleInv'
  <2> DEFINE x == [handle[h] EXCEPT !.awaiting = @ - 1]
  <2>a. handle[h].awaiting \in Nat /\ handle[h].awaiting > 0
    BY <1>0, <1>6 DEF Awaited, HandleStates
  <2>b. ~Quiet(handle[h], live[h])
    BY <2>a DEF Quiet
  <2>0. /\ handle[h].mount # "none"
        /\ ~handle[h].closed => Connecting(handle[h], live[h]) /\ handle[h].shows # "give-up"
        /\ handle[h].closed => handle[h].interrupted
        /\ handle[h].closed <=> handle[h].mount = "left"
    BY <1>0, <2>a, <2>b, Busy DEF Connected, BackingOff
  <2>1. x.awaiting = handle[h].awaiting - 1 /\ x.mount = handle[h].mount /\ x.shows = handle[h].shows
    BY <1>0 DEF HandleStates
  <2>2. (x.closed <=> handle[h].closed) /\ (x.timer <=> handle[h].timer)
        /\ (x.interrupted <=> handle[h].interrupted)
    BY <1>0 DEF HandleStates
  <2>3. x \in HandleStates
    <3>1. handle[h].awaiting - 1 \in Nat
      BY <2>a
    <3> QED BY <1>0, <3>1, HandleFields, Zenon
  <2> HIDE DEF x
  <2>4. Between(x, live[h])
    BY <2>0, <2>1, <2>2, <2>3 DEF Between, Quiet, Connecting
  <2>5. CASE Set(h, ScheduleRetry(x)) /\ UNCHANGED live
    <3>1. HandleOK(ScheduleRetry(x), live[h])
      BY <2>0, <2>1, <2>2, <2>4, StartsOne
    <3> QED BY <1>a, <1>b, <2>5, <3>1
  <2>6. ASSUME NEW e \in EventSources, Set(h, [x EXCEPT !.source = e]),
               live' = [live EXCEPT ![h] = live[h] \cup {e}]
        PROVE  HandleInv'
    <3> DEFINE y == [x EXCEPT !.source = e]
    <3>1. y.awaiting = x.awaiting /\ y.mount = x.mount /\ y.shows = x.shows /\ y.source = e
      BY <2>3 DEF HandleStates
    <3>2. (y.closed <=> x.closed) /\ (y.timer <=> x.timer) /\ (y.interrupted <=> x.interrupted)
      BY <2>3 DEF HandleStates
    <3> HIDE DEF y
    <3>3. HandleOK(y, live[h] \cup {e})
      BY <2>0, <2>1, <2>2, <2>4, <3>1, <3>2 DEF HandleOK, Between, Quiet, Connected
    <3> QED BY <1>a, <2>6, <3>3 DEF y
  <2> QED BY <1>6, <2>5, <2>6 DEF Awaited, x
<1>7. ASSUME NEW h \in Handles, NEW e \in EventSources, OnOpen(h, e) PROVE HandleInv'
  <2> DEFINE y == [handle[h] EXCEPT !.attempt = 0, !.shows = IF Mounted(h) THEN "open" ELSE @]
  <2>a. /\ e \in live[h] /\ ~Quiet(handle[h], live[h])
        /\ Mounted(h) <=> handle[h].mount = "mounted"
    BY <1>7 DEF OnOpen, Mounted, Quiet
  <2>0. /\ handle[h].mount # "none" /\ handle[h].mount \in {"mounted", "left"}
        /\ ~handle[h].closed => Connected(handle[h], live[h])
        /\ handle[h].closed => handle[h].interrupted
        /\ handle[h].closed <=> handle[h].mount = "left"
    <3>1. handle[h].mount \in {"none", "mounted", "left"}
      BY <1>0 DEF HandleStates
    <3> QED BY <1>0, <2>a, <3>1, Busy DEF Connecting, BackingOff
  <2>1. y.awaiting = handle[h].awaiting /\ y.mount = handle[h].mount /\ y.source = handle[h].source
    BY <1>0 DEF HandleStates
  <2>2. (y.closed <=> handle[h].closed) /\ (y.timer <=> handle[h].timer)
        /\ (y.interrupted <=> handle[h].interrupted)
    BY <1>0 DEF HandleStates
  <2>3. Mounted(h) => y.shows = "open"
    BY <1>0 DEF HandleStates
  <2>4. Set(h, y) /\ live' = [live EXCEPT ![h] = live[h]]
    BY <1>7, <1>b DEF OnOpen
  <2> HIDE DEF y
  <2>5. HandleOK(y, live[h])
    BY <2>0, <2>a, <2>1, <2>2, <2>3 DEF HandleOK, Connected
  <2> QED BY <1>a, <2>4, <2>5
<1>8. ASSUME NEW h \in Handles, NEW e \in EventSources, OnError(h, e) PROVE HandleInv'
  <2> DEFINE x == [handle[h] EXCEPT !.source = 0]
  <2>a. e \in live[h] /\ ~Quiet(handle[h], live[h])
    BY <1>8 DEF OnError, Quiet
  <2>0. /\ handle[h].mount # "none"
        /\ ~handle[h].closed => Connected(handle[h], live[h]) /\ handle[h].shows # "give-up"
        /\ handle[h].closed => handle[h].interrupted
        /\ handle[h].closed <=> handle[h].mount = "left"
    BY <1>0, <2>a, Busy DEF Connecting, BackingOff
  <2>1. x.awaiting = handle[h].awaiting /\ x.mount = handle[h].mount /\ x.shows = handle[h].shows
    BY <1>0 DEF HandleStates
  <2>2. (x.closed <=> handle[h].closed) /\ (x.timer <=> handle[h].timer)
        /\ (x.interrupted <=> handle[h].interrupted)
    BY <1>0 DEF HandleStates
  <2>3. x \in HandleStates
    BY <1>0, HandleFields
  <2>4. Set(h, ScheduleRetry(x)) /\ live' = [live EXCEPT ![h] = live[h] \ {e}]
    BY <1>8 DEF OnError
  <2> HIDE DEF x
  <2>5. Between(x, live[h] \ {e})
    BY <2>0, <2>a, <2>1, <2>2, <2>3 DEF Between, Quiet, Connected
  <2>6. HandleOK(ScheduleRetry(x), live[h] \ {e})
    BY <2>0, <2>1, <2>2, <2>5, StartsOne
  <2> QED BY <1>a, <2>4, <2>6
<1>9. ASSUME NEW h \in Handles, RetryTimer(h) PROVE HandleInv'
  <2> DEFINE x == [handle[h] EXCEPT !.timer = FALSE]
  <2>a. handle[h].timer /\ ~Quiet(handle[h], live[h])
    BY <1>9 DEF RetryTimer, Quiet
  <2>0. /\ handle[h].mount # "none"
        /\ ~handle[h].closed => BackingOff(handle[h], live[h])
        /\ handle[h].closed => handle[h].interrupted
        /\ handle[h].closed <=> handle[h].mount = "left"
    BY <1>0, <2>a, Busy DEF Connecting, Connected
  <2>1. x.awaiting = handle[h].awaiting /\ x.mount = handle[h].mount
    BY <1>0 DEF HandleStates
  <2>2. (x.closed <=> handle[h].closed) /\ ~x.timer /\ (x.interrupted <=> handle[h].interrupted)
    BY <1>0 DEF HandleStates
  <2>3. x \in HandleStates
    BY <1>0, HandleFields
  <2>4. Set(h, Connect(x)) /\ live' = [live EXCEPT ![h] = live[h]]
    BY <1>9, <1>b DEF RetryTimer
  <2> HIDE DEF x
  <2>5. Between(x, live[h])
    BY <2>0, <2>1, <2>2, <2>3 DEF Between, Quiet, BackingOff
  <2> QED BY <1>a, <2>4, <2>5, StartsOne
<1> QED BY <1>1, <1>2, <1>3, <1>4, <1>5, <1>6, <1>7, <1>8, <1>9 DEF Next, Callback

-----------------------------------------------------------------------------
(***************************************************************************)
(* Theorems.                                                               *)
(***************************************************************************)

\* Shell and pages keep to their types: the attempts never pass the table of
\* delays (ipc.ts BACKOFF_MS), a handle never awaits less than zero tokens.
THEOREM TypeCorrect == Spec => []TypeOK
<1>1. Init => StreamTypes
  BY NewHandles DEF Init, StreamTypes
<1>2. StreamTypes /\ [Next]_vars => StreamTypes'
  BY StreamTypeStep
<1>3. Spec => []StreamTypes
  BY <1>1, <1>2, PTL DEF Spec
<1>4. StreamTypes /\ ShellTypeOK => TypeOK
  BY DEF StreamTypes, TypeOK
<1> QED BY <1>3, <1>4, RunsShell, ShellTypeCorrect, PTL

\* The pages take nothing from the shell: in the desktop, too, it spawns no
\* second child (daemon.rs spawn_daemon_once) and keeps hold of the one it has
\* (CHILD), outside overlapping calls and failed kills.
THEOREM ShellKept == Spec => [](NoSecondChild /\ ChildIsHeld)
<1>1. ShellSpec => [](NoSecondChild /\ ChildIsHeld)
  <2>1. OneChildInv /\ NoSecondChild => NoSecondChild
    OBVIOUS
  <2> QED BY <2>1, OneChild, ChildHeld, PTL
<1> QED BY <1>1, RunsShell, PTL

\* Whatever the order of the callbacks, the shape of every handle is kept.
LEMMA HandlesCorrect == Spec => []HandleInv
<1>1. Init => StreamTypes /\ HandleInv
  BY NewHandles, NewIsOK DEF Init, StreamTypes, HandleInv
<1>2. StreamTypes /\ HandleInv /\ [Next]_vars => StreamTypes' /\ HandleInv'
  BY StreamTypeStep, HandleStep
<1> QED BY <1>1, <1>2, PTL DEF Spec

\* A page has at most one connection, token request or timer under way, and it
\* is the one its variables hold (ipc.ts openLogStream), for any number of
\* pages and any length of the table of delays.
THEOREM ConnectionsSingle == Spec => []OneConnection
<1>1. ASSUME HandleInv PROVE OneConnection
  <2>1. SUFFICES ASSUME NEW h \in Handles, ~handle[h].closed
                 PROVE  /\ handle[h].awaiting + Cardinality(live[h]) + (IF handle[h].timer THEN 1 ELSE 0) <= 1
                        /\ live[h] \subseteq {handle[h].source}
                        /\ handle[h].shows = "give-up" =>
                              handle[h].awaiting = 0 /\ live[h] = {} /\ ~handle[h].timer
    BY DEF OneConnection
  <2>2. HandleOK(handle[h], live[h])
    BY <1>1 DEF HandleInv
  <2>3. Cardinality({}) = 0 /\ Cardinality({handle[h].source}) = 1
    BY FS_EmptySet, FS_Singleton
  <2>4. handle[h].shows = "give-up" => Quiet(handle[h], live[h])
    BY <2>1, <2>2 DEF HandleOK
  <2>5. CASE Connecting(handle[h], live[h])
    BY <2>3, <2>4, <2>5 DEF Connecting, Quiet
  <2>6. CASE Connected(handle[h], live[h])
    BY <2>3, <2>4, <2>6 DEF Connected, Quiet
  <2>7. CASE BackingOff(handle[h], live[h])
    BY <2>3, <2>4, <2>7 DEF BackingOff, Quiet
  <2>8. CASE Quiet(handle[h], live[h])
    BY <2>3, <2>8 DEF Quiet
  <2> QED BY <2>1, <2>2, <2>5, <2>6, <2>7, <2>8 DEF HandleOK
<1> QED BY <1>1, HandlesCorrect, PTL

\* A page that was left has no stream, unless it was left while connect awaited
\* the token (ipc.ts close(), connect).
THEOREM LeftQuiet == Spec => []LeftPagesAreQuiet
<1>1. ASSUME HandleInv PROVE LeftPagesAreQuiet
  BY <1>1 DEF HandleInv, HandleOK, Quiet, LeftPagesAreQuiet
<1> QED BY <1>1, HandlesCorrect, PTL

=============================================================================
