----------------------------- MODULE WebhookRegistry -----------------------------
(***************************************************************************)
(* Subscriptions of the outgoing webhooks: registering reads how many      *)
(* there are and inserts after that, so registrations overlap; a           *)
(* subscription that is ended is deleted by the store in memory and only   *)
(* switched off by the one in PostgreSQL, where its URL stays taken.       *)
(* A remittance's new status is announced to those subscribed to it.       *)
(***************************************************************************)
EXTENDS Naturals, FiniteSets

CONSTANTS
    Urls,         \* one subscription each
    Kinds,        \* sets of events that a subscription may be for
    Callers,      \* registrations under way at a time
    Limit         \* MAX_WEBHOOKS_PER_ACCOUNT

RegistryAssumption == Limit \in Nat \ {0} /\ IsFiniteSet(Urls) /\ IsFiniteSet(Callers)

VARIABLES
    inDatabase, \* the store is PostgresWebhookStore: createWebhookStore was given a pool
    sub,      \* sub[u]: "none", "active" or "inactive", and its events
    caller,   \* caller[c]: the URL it has passed the limit with, or NoUrl
    crowded,  \* two registrations were past the limit at once since there was room for both
    heard     \* heard[u]: events announced to u since it was registered

vars == <<inDatabase, sub, caller, crowded, heard>>

NoUrl == "none"
NoSub == [state |-> "none", events |-> {}]
Active == {u \in Urls : sub[u].state = "active"}
Past == {c \in Callers : caller[c] # NoUrl}

Init ==
    /\ inDatabase \in BOOLEAN
    /\ sub = [u \in Urls |-> NoSub]
    /\ caller = [c \in Callers |-> NoUrl]
    /\ crowded = FALSE
    /\ heard = [u \in Urls |-> {}]

\* Mistaken variant: one more.
RoomForOneMore(n) == n <= Limit
Room(n) == n < Limit

\* An HTTPS URL, known events, and the number of active subscriptions is read.
CheckLimit(c, u) ==
    /\ caller[c] = NoUrl /\ Room(Cardinality(Active))
    /\ caller' = [caller EXCEPT ![c] = u]
    /\ crowded' = (crowded \/ (Past # {} /\ Cardinality(Active) + Cardinality(Past) >= Limit))
    /\ UNCHANGED <<inDatabase, sub, heard>>

Done(c) == caller' = [caller EXCEPT ![c] = NoUrl] /\ UNCHANGED <<inDatabase, crowded>>

Added(u, events) ==
    /\ sub' = [sub EXCEPT ![u] = [state |-> "active", events |-> events]]
    /\ heard' = [heard EXCEPT ![u] = {}]

\* PostgresWebhookStore: the row is inserted unless there is one of this URL, active or not.
InsertRow(c, events) ==
    /\ inDatabase /\ caller[c] # NoUrl
    /\ IF sub[caller[c]].state = "none" THEN Added(caller[c], events) ELSE UNCHANGED <<sub, heard>>
    /\ Done(c)

\* InMemoryWebhookStore: a URL there is refused.
InsertInMemory(c, events) ==
    /\ ~inDatabase /\ caller[c] # NoUrl
    /\ IF sub[caller[c]].state = "none" THEN Added(caller[c], events) ELSE UNCHANGED <<sub, heard>>
    /\ Done(c)

\* The row stays, and with it the URL is taken for ever.
Deactivate(u) ==
    /\ inDatabase /\ sub[u].state # "none"
    /\ sub' = [sub EXCEPT ![u].state = "inactive"]
    /\ UNCHANGED <<inDatabase, caller, crowded, heard>>

Remove(u) ==
    /\ ~inDatabase /\ sub[u].state # "none"
    /\ sub' = [sub EXCEPT ![u] = NoSub]
    /\ UNCHANGED <<inDatabase, caller, crowded, heard>>

\* onRemittanceStatusChange.
EventOf(status) ==
    CASE status = "pending" -> "remittance.created"
      [] status = "processing" -> "remittance.updated"
      [] status = "completed" -> "remittance.completed"
      [] status = "failed" -> "remittance.failed"
      [] status = "cancelled" -> "remittance.cancelled"

\* Mistaken variant: whoever has a row is a subscriber.
SubscribersOfAnyState(event) == {u \in Urls : event \in sub[u].events}
Subscribers(event) == {u \in Active : event \in sub[u].events}

\* emitStatusChange: a status changes, and its event goes to its subscribers.
Announce(status) ==
    /\ heard' = [u \in Urls |-> IF u \in Subscribers(EventOf(status))
                                  THEN heard[u] \cup {[event |-> EventOf(status), to |-> sub[u].state]}
                                  ELSE heard[u]]
    /\ UNCHANGED <<inDatabase, sub, caller, crowded>>

Next ==
    \/ \E c \in Callers :
        \/ \E u \in Urls : CheckLimit(c, u)
        \/ \E events \in Kinds : InsertRow(c, events) \/ InsertInMemory(c, events)
    \/ \E u \in Urls : Deactivate(u) \/ Remove(u)
    \/ \E status \in {"pending", "processing", "completed", "failed", "cancelled"} : Announce(status)

Spec == Init /\ [][Next]_vars

-----------------------------------------------------------------------------
TypeOK ==
    /\ inDatabase \in BOOLEAN /\ crowded \in BOOLEAN
    /\ sub \in [Urls -> [state : {"none", "active", "inactive"}, events : {{}} \cup Kinds]]
    /\ caller \in [Callers -> Urls \cup {NoUrl}]

(***************************************************************************)
(* No more subscriptions are active than the limit allows, unless          *)
(* registrations overlapped at the limit, and nothing is announced to one  *)
(* that was not active.                                                    *)
(***************************************************************************)
ActiveWithinLimit ==
    /\ Cardinality(Active) <= Limit \/ crowded
    /\ \A u \in Urls : \A h \in heard[u] : h.to = "active"

\* The inductive invariant: registrations past the limit count as well.
Heard == [event : {"remittance.created", "remittance.updated", "remittance.completed",
                   "remittance.failed", "remittance.cancelled"}, to : {"active"}]
IInv ==
    /\ TypeOK /\ heard \in [Urls -> SUBSET Heard]
    /\ crowded \/ Cardinality(Active) + Cardinality(Past) <= Limit
=============================================================================
