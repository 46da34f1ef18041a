------------------------------ MODULE Desktop ------------------------------
(***************************************************************************)
(* The desktop application: the shell of module Shell with the Logs page   *)
(* and its log stream (openLogStream of ipc.ts, Logs.tsx).                 *)
(*                                                                         *)
(* The callbacks of a stream (the awaited token, the timer, onopen,        *)
(* onerror, the Reconnect button, the unmount) come in any order in which  *)
(* they are possible; nothing in the code ties them to one another except  *)
(* the variables of the handle.                                            *)
(***************************************************************************)
EXTENDS Shell

CONSTANTS
    Handles,     \* calls of openLogStream, one per mount of the Logs page
    MaxAttempts, \* BACKOFF_MS.length
    MaxStreams   \* bound on the EventSources of one handle at a time

ASSUME DesktopAssumption ==
    /\ MaxAttempts \in Nat
    /\ MaxStreams \in Nat \ {0}

VARIABLES
    handle,  \* handle[h]: the variables of openLogStream
    live     \* live[h]: the EventSources of h that are not closed

streamVars == <<handle, live>>
vars == <<shellVars, streamVars>>

EventSources == 1..MaxStreams

\* mount: "none", "mounted" or "left"; awaiting: calls of connect that await the
\* token; source: 0 for null; shows: the connection state the page shows;
\* interrupted (history): the page was left while connect awaited.
NewHandle == [mount |-> "none", attempt |-> 0, closed |-> FALSE, timer |-> FALSE,
              awaiting |-> 0, source |-> 0, shows |-> "connecting", interrupted |-> FALSE]

HandleStates == [mount : {"none", "mounted", "left"}, attempt : 0..MaxAttempts,
                 closed : BOOLEAN, timer : BOOLEAN, awaiting : Nat,
                 source : {0} \cup EventSources,
                 shows : {"connecting", "open", "reconnecting", "give-up"},
                 interrupted : BOOLEAN]

TypeOK ==
    /\ ShellTypeOK
    /\ handle \in [Handles -> HandleStates]
    /\ live \in [Handles -> SUBSET EventSources]

NoStreams ==
    /\ handle' = [h \in Handles |-> NewHandle]
    /\ live' = [h \in Handles |-> {}]

Init ==
    /\ ShellInit
    /\ handle = [h \in Handles |-> NewHandle]
    /\ live = [h \in Handles |-> {}]

-----------------------------------------------------------------------------
(***************************************************************************)
(* The functions inside openLogStream, on the variables x of a handle.     *)
(***************************************************************************)
Connect(x) ==
    IF x.closed THEN x
    ELSE [x EXCEPT !.awaiting = @ + 1,
                   !.shows = IF x.attempt = 0 THEN "connecting" ELSE "reconnecting"]

\* A mutant: one attempt too many.
ScheduleRetryOffByOne(x) ==
    IF x.closed THEN x
    ELSE IF x.attempt > MaxAttempts THEN [x EXCEPT !.shows = "give-up"]
    ELSE [x EXCEPT !.attempt = @ + 1, !.timer = TRUE]

\* A mutant: the attempts are not counted.
ScheduleRetryUncounted(x) ==
    IF x.closed THEN x
    ELSE IF x.attempt >= MaxAttempts THEN [x EXCEPT !.shows = "give-up"]
    ELSE [x EXCEPT !.timer = TRUE]

ScheduleRetry(x) ==
    IF x.closed THEN x
    ELSE IF x.attempt >= MaxAttempts THEN [x EXCEPT !.shows = "give-up"]
    ELSE [x EXCEPT !.attempt = @ + 1, !.timer = TRUE]

\* cleanup: the timer is cleared and the assigned EventSource closed.
Cleanup(x) == [x EXCEPT !.timer = FALSE, !.source = 0]

Set(h, x) == handle' = [handle EXCEPT ![h] = x]
Mounted(h) == shell = "on" /\ handle[h].mount = "mounted"

-----------------------------------------------------------------------------
(***************************************************************************)
(* The Logs page.                                                          *)
(***************************************************************************)

\* The page is mounted and openLogStream connects.
OpenLogs(h) ==
    /\ shell = "on" /\ ui = "up"
    /\ handle[h].mount = "none"
    /\ \A g \in Handles : handle[g].mount # "mounted"
    /\ Set(h, Connect([NewHandle EXCEPT !.mount = "mounted"]))
    /\ UNCHANGED <<shellVars, live>>

\* What close() of a handle that is mounted leaves behind; nothing reads the
\* attempts or the state shown any more.
Closed(x) ==
    IF x.mount # "mounted" THEN x
    ELSE [NewHandle EXCEPT !.mount = "left", !.closed = TRUE, !.awaiting = x.awaiting,
                           !.interrupted = x.awaiting > 0]

\* A mutant: closed is set, the EventSource stays.
LeaveLogsOnlyFlags(h) ==
    /\ Mounted(h)
    /\ Set(h, Closed(handle[h]))
    /\ UNCHANGED <<shellVars, live>>

LeaveLogs(h) ==
    /\ Mounted(h)
    /\ Set(h, Closed(handle[h]))
    /\ live' = [live EXCEPT ![h] = @ \ {handle[h].source}]
    /\ UNCHANGED shellVars

\* A mutant: the button is there in every state that is not open.
ReconnectAnyTime(h) ==
    /\ Mounted(h) /\ handle[h].shows # "open"
    /\ Set(h, Connect([Cleanup(handle[h]) EXCEPT !.attempt = 0, !.closed = FALSE]))
    /\ live' = [live EXCEPT ![h] = @ \ {handle[h].source}]
    /\ UNCHANGED shellVars

\* The Reconnect button, shown after give-up.
Reconnect(h) ==
    /\ Mounted(h) /\ handle[h].shows = "give-up"
    /\ Set(h, Connect([Cleanup(handle[h]) EXCEPT !.attempt = 0, !.closed = FALSE]))
    /\ live' = [live EXCEPT ![h] = @ \ {handle[h].source}]
    /\ UNCHANGED shellVars

-----------------------------------------------------------------------------
(***************************************************************************)
(* The callbacks of a stream; they come after an unmount, too.             *)
(***************************************************************************)

\* connect goes on when token and port are there, or were not readable; closed
\* is not looked at again.
Awaited(h) ==
    LET x == [handle[h] EXCEPT !.awaiting = @ - 1] IN
    /\ shell = "on" /\ handle[h].awaiting > 0
    /\ \/ \E e \in EventSources \ live[h] :
             /\ \A f \in EventSources \ live[h] : e <= f
             /\ Set(h, [x EXCEPT !.source = e])
             /\ live' = [live EXCEPT ![h] = @ \cup {e}]
       \/ ~calm /\ Set(h, ScheduleRetry(x)) /\ UNCHANGED live
    /\ UNCHANGED shellVars

OnOpen(h, e) ==
    /\ shell = "on" /\ e \in live[h] /\ Serves(cachedPort)
    /\ Set(h, [handle[h] EXCEPT !.attempt = 0, !.shows = IF Mounted(h) THEN "open" ELSE @])
    /\ UNCHANGED <<shellVars, live>>

\* The daemon is not there, or the connection broke.
OnError(h, e) ==
    /\ shell = "on" /\ e \in live[h] /\ (~calm \/ ~Serves(cachedPort))
    /\ Set(h, ScheduleRetry([handle[h] EXCEPT !.source = 0]))
    /\ live' = [live EXCEPT ![h] = @ \ {e}]
    /\ UNCHANGED shellVars

RetryTimer(h) ==
    /\ shell = "on" /\ handle[h].timer
    /\ Set(h, Connect([handle[h] EXCEPT !.timer = FALSE]))
    /\ UNCHANGED <<shellVars, live>>

Callback(h) ==
    \/ Awaited(h) \/ RetryTimer(h)
    \/ \E e \in EventSources : OnOpen(h, e) \/ OnError(h, e)

-----------------------------------------------------------------------------
(***************************************************************************)
(* The composition: a step of the shell that takes the page away unmounts  *)
(* it, and a new launch has no streams.                                    *)
(***************************************************************************)
PagesFollow ==
    IF shell' # "on" THEN NoStreams
    ELSE IF ui' = "up" THEN UNCHANGED streamVars
    ELSE /\ handle' = [h \in Handles |-> Closed(handle[h])]
         /\ live' = [h \in Handles |-> IF handle[h].mount = "mounted"
                                         THEN live[h] \ {handle[h].source} ELSE live[h]]

Next ==
    \/ ShellNext /\ PagesFollow
    \/ \E h \in Handles : OpenLogs(h) \/ LeaveLogs(h) \/ Reconnect(h) \/ Callback(h)

Spec == Init /\ [][Next]_vars

\* Processes and callbacks are scheduled, requests end, and the user presses
\* Start whenever the page keeps offering it.
FairSpec ==
    /\ Spec
    /\ \A d \in Daemons : WF_vars(Listen(d) /\ PagesFollow)
    /\ \A c \in Callers : WF_vars(SpawnStep(c) /\ PagesFollow)
    /\ WF_vars(ProbeStep /\ PagesFollow)
    /\ SF_vars(StartDaemon /\ PagesFollow)
    /\ \A h \in Handles : WF_vars(Callback(h))

-----------------------------------------------------------------------------
(***************************************************************************)
(* Properties.                                                             *)
(***************************************************************************)

\* One connection per page (ipc.ts openLogStream: source and timer hold one
\* thing each): an open handle is in one of connect, EventSource, backoff or
\* give-up, however its callbacks and the button interleave, so that close()
\* and cleanup() reach everything it has started.
OneConnection ==
    \A h \in Handles :
        LET x == handle[h] IN
        ~x.closed =>
            /\ x.awaiting + Cardinality(live[h]) + (IF x.timer THEN 1 ELSE 0) <= 1
            /\ live[h] \subseteq {x.source}
            /\ x.shows = "give-up" => x.awaiting = 0 /\ live[h] = {} /\ ~x.timer

\* A page that was left has no stream (ipc.ts close()), unless it was left
\* while connect awaited the token: connect does not look again.
LeftPagesAreQuiet ==
    \A h \in Handles :
        LET x == handle[h] IN
        (x.mount = "left" /\ ~x.interrupted) => x.awaiting = 0 /\ live[h] = {} /\ ~x.timer

\* Bounded backoff (ipc.ts scheduleRetry): a page that connects comes to show
\* open or give-up, if it is not left.
BackoffEnds ==
    \A h \in Handles :
        handle[h].mount = "mounted" ~>
            (handle[h].mount # "mounted" \/ handle[h].shows \in {"open", "give-up"})

-----------------------------------------------------------------------------
(***************************************************************************)
(* The strengthening that makes OneConnection and LeftPagesAreQuiet        *)
(* inductive (module DesktopProofs), on the variables x of a handle and    *)
(* its EventSources s.                                                     *)
(***************************************************************************)
Connecting(x, s) == x.awaiting = 1 /\ s = {} /\ ~x.timer
Connected(x, s)  == x.awaiting = 0 /\ s = {x.source} /\ ~x.timer
BackingOff(x, s) == x.awaiting = 0 /\ s = {} /\ x.timer
Quiet(x, s)      == x.awaiting = 0 /\ s = {} /\ ~x.timer

HandleOK(x, s) ==
    /\ x.mount = "none" => x = NewHandle /\ Quiet(x, s)
    /\ x.closed <=> x.mount = "left"
    /\ ~x.closed => Connecting(x, s) \/ Connected(x, s) \/ BackingOff(x, s) \/ Quiet(x, s)
    /\ (~x.closed /\ x.shows = "give-up") => Quiet(x, s)
    /\ (x.closed /\ ~x.interrupted) => Quiet(x, s)

HandleInv == \A h \in Handles : HandleOK(handle[h], live[h])

=============================================================================
