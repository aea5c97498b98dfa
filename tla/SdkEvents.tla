------------------------------ MODULE SdkEvents ------------------------------
(***************************************************************************)
(* subscribeToRemittanceEvents of the TypeScript SDK (client.ts), which on *)
(* and onAny wrap: it pages through the contract's events while events     *)
(* arrive, calls fail and callbacks throw.  It reads the second topic of   *)
(* every event as a number; of the contract's events few carry one there   *)
(* (settlement_done, partial_payout, remittance_failed, the escrows and    *)
(* the receipts), the others carry a symbol or no second topic (events.rs).*)
(***************************************************************************)
EXTENDS Naturals, Sequences

CONSTANTS
    MaxEvents,      \* bound on the contract's events
    PageSize,       \* events the RPC node returns at a time
    HasCursor       \* the subscriber passes a cursor to start from

SdkEventsAssumption ==
    MaxEvents \in Nat /\ PageSize \in Nat \ {0} /\ HasCursor \in BOOLEAN

\* What an event is to the subscriber: readable and asked for, readable and
\* filtered out, or without a number where the SDK reads one.
Topics == {"asked", "other", "symbols"}

VARIABLES
    events,     \* the contract's events, what each is to the subscriber
    reader,     \* the subscription: cursor, the page in hand, its progress
    called      \* the callbacks made, in order

eventVars == <<events, reader, called>>

Init ==
    /\ events = <<>>
    /\ reader = [step |-> "idle", cursor |-> 0, page |-> <<>>, active |-> FALSE]
    /\ called = <<>>

Emit(topic) ==
    /\ Len(events) < MaxEvents
    /\ events' = Append(events, topic)
    /\ UNCHANGED <<reader, called>>

Subscribe ==
    /\ reader.step = "idle"
    /\ reader' = [reader EXCEPT !.step = "fetch", !.active = TRUE, !.cursor = Len(events)]
    /\ UNCHANGED <<events, called>>

Unsubscribe ==
    /\ reader.active
    /\ reader' = [reader EXCEPT !.active = FALSE]
    /\ UNCHANGED <<events, called>>

\* getEvents from the cursor; without one the node refuses the request.
Fetch ==
    LET last == IF reader.cursor + PageSize < Len(events) THEN reader.cursor + PageSize ELSE Len(events)
    IN
    /\ reader.step = "fetch" /\ reader.active /\ HasCursor
    /\ reader' = [reader EXCEPT !.step = "page",
                                !.page = [i \in 1..(last - reader.cursor) |-> reader.cursor + i]]
    /\ UNCHANGED <<events, called>>

FetchFails ==
    /\ reader.step = "fetch" /\ reader.active
    /\ UNCHANGED eventVars

\* Mistaken variant: the cursor moves only when the page is done.
CursorAfterPage(e) == IF Len(reader.page) = 1 THEN e ELSE reader.cursor
\* Mistaken variant: the cursor moves to the page's end at once.
CursorPastPage(e) == reader.page[Len(reader.page)]
\* Mistaken variant: one event further.
CursorAfterNext(e) == e + 1
CursorAfter(e) == e

\* The filters of the subscription, of on and of onAny.
Asked(e) == events[e] = "asked"

\* BigInt throws on a symbol and the XDR reader on a topic that is not there,
\* both after the cursor moved.
Unreadable(e) == events[e] = "symbols"

\* The loop over a page: an event that cannot be read abandons the page, one of
\* another remittance is passed over, any other goes to the callback, whose throw
\* abandons the page as well.
HandleEvent(throws) ==
    LET e == Head(reader.page) IN
    /\ reader.step = "page" /\ reader.page # <<>>
    /\ Unreadable(e) => throws
    /\ throws => Unreadable(e) \/ Asked(e)
    /\ called' = IF Asked(e) THEN Append(called, e) ELSE called
    /\ reader' = [reader EXCEPT !.cursor = CursorAfter(e),
                                !.page = IF throws THEN <<>> ELSE Tail(@)]
    /\ UNCHANGED <<events>>

\* The page is done or abandoned; after a pause the loop looks at active.
EndPage ==
    /\ reader.step = "page" /\ reader.page = <<>>
    /\ reader' = [reader EXCEPT !.step = "fetch"]
    /\ UNCHANGED <<events, called>>

Next ==
    \/ \E topic \in Topics : Emit(topic)
    \/ \E throws \in BOOLEAN : HandleEvent(throws)
    \/ Subscribe \/ Unsubscribe \/ Fetch \/ FetchFails \/ EndPage

\* The subscription's loop goes on by itself, and getEvents does not fail
\* for ever; nothing makes events, throws or an end of it happen.
Handles == \E throws \in BOOLEAN : HandleEvent(throws)
Fairness == WF_eventVars(Fetch) /\ WF_eventVars(EndPage) /\ WF_eventVars(Handles)

Spec == Init /\ [][Next]_eventVars /\ Fairness

-----------------------------------------------------------------------------
EventsTypeOK ==
    /\ events \in Seq(Topics)
    /\ reader \in [step : {"idle", "fetch", "page"}, cursor : 0..MaxEvents,
                    page : Seq(1..MaxEvents), active : BOOLEAN]
    /\ called \in Seq(1..MaxEvents)

(***************************************************************************)
(* The callback sees every event at most once and in the contract's order, *)
(* though fetches fail, callbacks throw and subscribers leave.             *)
(***************************************************************************)
CalledInOrderOnce == \A i, j \in DOMAIN called : i < j => called[i] < called[j]

(***************************************************************************)
(* An event that can be read and was asked for reaches its callback, while *)
(* the subscriber stays and the node answers now and then, whatever events *)
(* that cannot be read and throws of the callback cut the pages short      *)
(* before it.                                                              *)
(***************************************************************************)
Ahead(e) == reader.active /\ e > reader.cursor /\ e <= Len(events)
Reached(e) == ~reader.active \/ e \in {called[i] : i \in DOMAIN called}
EveryReadableCalled == \A e \in 1..MaxEvents : Ahead(e) /\ Asked(e) ~> Reached(e)

(***************************************************************************)
(* What the doc of on says, callback function called when an event of this *)
(* type is emitted, of the events with two symbols, 'created' among them.  *)
(***************************************************************************)
CalledWhenEmitted ==
    \A e \in 1..MaxEvents : Ahead(e) /\ Unreadable(e) ~> Reached(e)

(***************************************************************************)
(* What every step keeps: the page in hand holds the events that follow    *)
(* the cursor, and no event past the cursor was handed to the callback.    *)
(***************************************************************************)
PageFollowsCursor ==
    /\ reader.step = "idle" => reader.page = <<>>
    /\ reader.cursor + Len(reader.page) <= Len(events)
    /\ \A i \in 1..Len(reader.page) : reader.page[i] = reader.cursor + i
CalledUpToCursor == \A i \in DOMAIN called : called[i] <= reader.cursor
EventsBounded == Len(events) <= MaxEvents
IInv ==
    EventsTypeOK /\ EventsBounded /\ PageFollowsCursor /\ CalledUpToCursor /\ CalledInOrderOnce
=============================================================================
