----------------------------- MODULE StatusTracker -----------------------------
(***************************************************************************)
(* TransactionStatusTracker.tsx: a tracked transaction moves along its     *)
(* statuses, and the screen learns of it from a polling interval, from the *)
(* refresh button and from a WebSocket that reconnects.                    *)
(*                                                                         *)
(* React runs the effects of a changed localStatus with the render that    *)
(* shows it: the interval is set again with the `refresh` of that render,  *)
(* which for ever sees the isRefreshing and the localStatus of that        *)
(* render.  The default refresh (no onRefresh) is modelled.                *)
(*                                                                         *)
(* The API answers the words of transaction-state.ts as they are; a parent *)
(* and a socket may also use the component's words. Only "completed" is a  *)
(* word of both: what the API calls refunded, expired or error is none of  *)
(* the TERMINAL_STATES, which say failed and cancelled.                    *)
(***************************************************************************)
EXTENDS Naturals

CONSTANTS
    Asks,            \* requests in flight at a time
    LastStatus,      \* completed; the others are numbered in the order they happen
    MaxReconnects,   \* maxReconnectAttempts
    MaxSockets,      \* sockets being closed and timers lost sight of are counted up to this
    MaxLost          \* bound on failed requests

TrackerAssumption ==
    /\ LastStatus \in Nat \ {0} /\ MaxReconnects \in Nat
    /\ MaxSockets \in Nat /\ MaxLost \in Nat

VARIABLES
    remote,     \* the transaction's status, in the API's word
    local,      \* localStatus, in a word of either
    refreshing, \* isRefreshing
    interval,   \* off, or set by a render that was not (polls) or was (deaf) refreshing
    seen,       \* the localStatus the interval's refresh sees
    asked,      \* asked[a]: a request to /api/remittance/:id under way
    lostAsks,
    mounted,
    socket,     \* webSocketRef and its timer, what close events and timers are due
    timerLost   \* a reconnect timer's handle was overwritten while it was due

vars == <<remote, local, refreshing, interval, seen, asked, lostAsks, mounted, socket, timerLost>>

OtherEnd == LastStatus + 1
Statuses == 0..OtherEnd
Over(status) == status >= LastStatus
\* The component's word for a status of the API.
Own(status) == IF status = LastStatus THEN status ELSE status + OtherEnd + 1
Words == Statuses \cup {Own(status) : status \in Statuses}
Terminal(word) == word \in {LastStatus, Own(OtherEnd)}
NoAsk == [busy |-> FALSE, since |-> 0, against |-> 0]
Refs == {"none", "open", "dropped"}

\* Mistaken variant: a status change stops the interval and does not set it again.
IntervalForFirst(l, r) == IF l = Own(0) THEN "polls" ELSE "off"
\* startPolling of the render that shows status l while refreshing is r.
IntervalFor(l, r) == IF Terminal(l) THEN "off" ELSE IF r THEN "deaf" ELSE "polls"

(* The socket. *)
OneMore(n) == IF n < MaxSockets THEN n + 1 ELSE n

\* Mistaken variant: leaves the reconnect timer running.
ClosedKeepingTimer(s) ==
    [s EXCEPT !.ref = "none",
              !.closing = IF s.ref = "open" THEN OneMore(s.closing) ELSE s.closing]
\* closeWebSocket: a live socket's close event is still to come.
Closed(s) ==
    [s EXCEPT !.ref = "none", !.timer = FALSE,
              !.closing = IF s.ref = "open" THEN OneMore(s.closing) ELSE s.closing]
\* connectWebSocket.
Connected(s) == [Closed(s) EXCEPT !.ref = "open"]

\* The effect of a status shown on the socket.
SocketFor(l, s) == IF Terminal(l) THEN Closed(s) ELSE Connected(s)

\* scheduleReconnect, with the status and the attempts of that moment.
MayReconnect(s) == ~Terminal(local) /\ s.attempts < MaxReconnects
Reconnecting(s) ==
    IF MayReconnect(s)
    THEN [s EXCEPT !.attempts = @ + 1, !.timer = TRUE,
                   !.lost = IF s.timer THEN OneMore(@) ELSE @]
    ELSE s

Init ==
    /\ remote = 0 /\ local = Own(0)
    /\ refreshing = FALSE
    /\ interval = "polls" /\ seen = Own(0)
    /\ asked = [a \in Asks |-> NoAsk] /\ lostAsks = 0
    /\ mounted = TRUE
    /\ socket = [ref |-> "open", timer |-> FALSE, lost |-> 0, closing |-> 0, attempts |-> 0]
    /\ timerLost = FALSE

\* The transaction moves on.
Advance ==
    /\ ~Over(remote) /\ remote' \in remote + 1..OtherEnd
    /\ UNCHANGED <<local, refreshing, interval, seen, asked, lostAsks, mounted, socket, timerLost>>

\* The render and the effects of setLocalStatus(s), s a word, while isRefreshing is r.
Shows(s, r) ==
    /\ local' = s
    /\ refreshing' = r
    /\ IF s = local
       THEN UNCHANGED <<interval, seen, socket>>
       ELSE /\ interval' = IntervalFor(s, r) /\ seen' = s
            /\ socket' = SocketFor(s, socket)

\* refresh: the request goes out, comparing with the status `against`.
Asking(a, against) ==
    /\ ~asked[a].busy
    /\ asked' = [asked EXCEPT ![a] = [busy |-> TRUE, since |-> remote, against |-> against]]
    /\ refreshing' = TRUE
    /\ UNCHANGED <<remote, local, interval, seen, lostAsks, mounted, socket, timerLost>>

\* The interval calls the refresh it was set with.
Tick(a) == mounted /\ interval = "polls" /\ Asking(a, seen)

\* The refresh button, disabled while isRefreshing.
Button(a) == mounted /\ ~refreshing /\ Asking(a, local)

\* The answer, read at some moment since the question, and the `finally`.
Answered(a, read) ==
    /\ asked[a].busy /\ read \in asked[a].since..remote
    /\ Over(read) => read = remote
    /\ asked' = [asked EXCEPT ![a] = NoAsk]
    /\ IF mounted
       THEN Shows(IF read # asked[a].against THEN read ELSE local, FALSE)
       ELSE UNCHANGED <<local, refreshing, interval, seen, socket>>
    /\ UNCHANGED <<remote, lostAsks, mounted, timerLost>>

Unanswered(a) ==
    /\ asked[a].busy /\ lostAsks < MaxLost /\ lostAsks' = lostAsks + 1
    /\ asked' = [asked EXCEPT ![a] = NoAsk]
    /\ refreshing' = (refreshing /\ ~mounted)
    /\ UNCHANGED <<remote, local, interval, seen, mounted, socket, timerLost>>

\* handleWebSocketMessage, or a new currentStatus from the parent.
Message ==
    /\ mounted /\ socket.ref = "open"
    /\ \E word \in {remote, Own(remote)} : word # local /\ Shows(word, refreshing)
    /\ UNCHANGED <<remote, asked, lostAsks, mounted, timerLost>>

SocketOpens ==
    /\ socket.ref = "open" /\ socket.attempts > 0
    /\ socket' = [socket EXCEPT !.attempts = 0]
    /\ UNCHANGED <<remote, local, refreshing, interval, seen, asked, lostAsks, mounted, timerLost>>

SocketChanges(s, overwrites) ==
    /\ socket' = s
    /\ timerLost' = (timerLost \/ overwrites)
    /\ UNCHANGED <<remote, local, refreshing, interval, seen, asked, lostAsks, mounted>>

\* The current socket drops.
SocketDrops ==
    socket.ref = "open" /\ SocketChanges(Reconnecting([socket EXCEPT !.ref = "dropped"]), socket.timer /\ MayReconnect(socket))

\* The close event of a socket closed on purpose: it too asks to reconnect.
CloseEvent ==
    socket.closing > 0 /\ SocketChanges(Reconnecting([socket EXCEPT !.closing = @ - 1]), socket.timer /\ MayReconnect(socket))

\* A reconnect timer fires: the one on record, or one whose handle was overwritten.
TimerFires == socket.timer /\ SocketChanges(Connected([socket EXCEPT !.timer = FALSE]), FALSE)

LostTimerFires ==
    socket.lost > 0 /\ SocketChanges(Connected([socket EXCEPT !.lost = @ - 1]), FALSE)

Unmount ==
    /\ mounted /\ mounted' = FALSE
    /\ interval' = "off"
    /\ socket' = IF Terminal(local) THEN socket ELSE Closed(socket)
    /\ UNCHANGED <<remote, local, refreshing, seen, asked, lostAsks, timerLost>>

Next ==
    \/ Advance \/ Message \/ Unmount
    \/ \E a \in Asks :
        \/ Tick(a) \/ Button(a) \/ Unanswered(a)
        \/ \E read \in Statuses : Answered(a, read)
    \/ SocketOpens \/ SocketDrops \/ CloseEvent \/ TimerFires \/ LostTimerFires

Spec == Init /\ [][Next]_vars

\* The interval keeps ticking, and the requests do not all wait for ever: fetch has no
\* timeout, and one that hangs does not keep the next tick from asking.
Ticks == \E a \in Asks : Tick(a)
SomeAnswer == \E a \in Asks, read \in Statuses : Answered(a, read)
FairSpec == Spec /\ WF_vars(Ticks) /\ WF_vars(SomeAnswer)

-----------------------------------------------------------------------------
TypeOK ==
    /\ remote \in Statuses /\ local \in Words /\ seen \in Words
    /\ {refreshing, mounted, timerLost} \subseteq BOOLEAN
    /\ interval \in {"off", "polls", "deaf"}
    /\ asked \in [Asks -> [busy : BOOLEAN, since : Statuses, against : Words]]
    /\ lostAsks \in 0..MaxLost
    /\ socket \in [ref : Refs, timer : BOOLEAN, lost : 0..MaxSockets,
                   closing : 0..MaxSockets, attempts : 0..MaxReconnects]

(***************************************************************************)
(* A screen that shows a terminal status holds a socket open only if some  *)
(* reconnect timer was set over another that was still due.                *)
(***************************************************************************)
OpenAfterEndOnlyByLostTimer ==
    mounted /\ Terminal(local) /\ socket.ref = "open" => timerLost

(***************************************************************************)
(* With no socket to help it, polling alone brings the end of the          *)
(* transaction to the screen, as long as it is not deaf: a completed one,  *)
(* with which polling stops, and another end in the API's word, for which  *)
(* the interval goes on.                                                   *)
(***************************************************************************)
EndToShow == Over(remote) /\ interval = "polls"
EndShown ==
    \/ local \in {remote, Own(remote)} /\ (interval = "off" <=> Terminal(local))
    \/ ~mounted \/ interval = "deaf"
PollingBringsTheEnd == EndToShow ~> EndShown

(***************************************************************************)
(* What every step keeps: a timer is lost sight of only where that is      *)
(* recorded, and otherwise the end leaves no socket and no timer.          *)
(***************************************************************************)
LostIsRecorded == socket.lost > 0 => timerLost
EndLeavesNothing ==
    mounted /\ Terminal(local) /\ ~timerLost => socket.ref # "open" /\ ~socket.timer
IInv == TypeOK /\ LostIsRecorded /\ EndLeavesNothing
=============================================================================
