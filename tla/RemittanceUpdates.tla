--------------------------- MODULE RemittanceUpdates ---------------------------
(***************************************************************************)
(* The API's own record of one remittance (remittanceService.ts over       *)
(* remittanceStore.ts) and those who watch it over WebSocket.  updateStatus *)
(* reads, validates and writes in separate queries of a pool, so that two  *)
(* updates may cross, and announces each change once its write is answered. *)
(***************************************************************************)
EXTENDS Naturals, FiniteSets

CONSTANTS
    Updates,    \* updates under way at a time
    MaxUpdates, \* bound on updates
    MaxFaults   \* bound on failed queries and restarts

UpdatesAssumption == MaxUpdates \in Nat /\ MaxFaults \in Nat

VARIABLES
    status,    \* the row
    update,    \* update[u]: where it is, what it read, what it is to write
    announced, \* the last status announced
    watcher,   \* a socket: whether it is in the room, and the status it was last told
    path,      \* every change was a valid transition
    crossed,   \* a write came between the reading and the writing of another
    overtaken, \* a write came between another write and its announcement
    begun, faults

vars == <<status, update, announced, watcher, path, crossed, overtaken, begun, faults>>

Statuses == {"Pending", "Processing", "Completed", "Cancelled", "Failed", "Disputed"}
Idle == [at |-> "idle", read |-> "Pending", to |-> "Pending"]
At(u, step) == update[u].at = step
Unheard == "unheard"

\* VALID_TRANSITIONS.
Transitions ==
    [s \in Statuses |->
        CASE s = "Pending" -> {"Processing", "Cancelled", "Failed"}
          [] s = "Processing" -> {"Completed", "Cancelled", "Failed"}
          [] s = "Failed" -> {"Disputed"}
          [] OTHER -> {}]

\* Mistaken variant: a closed remittance may still fail.
MayBecomeFailed(from, to) == to \in Transitions[from] \/ to = "Failed"
MayBecome(from, to) == to \in Transitions[from]

Init ==
    /\ status = "Pending" /\ announced = "Pending"
    /\ update = [u \in Updates |-> Idle]
    /\ watcher = [joined |-> FALSE, told |-> Unheard]
    /\ path = TRUE /\ crossed = FALSE /\ overtaken = FALSE
    /\ begun = 0 /\ faults = 0

Ends(u) == update' = [update EXCEPT ![u] = Idle]

Begin(u, to) ==
    /\ At(u, "idle") /\ begun < MaxUpdates /\ begun' = begun + 1
    /\ update' = [update EXCEPT ![u] = [at |-> "read", read |-> "Pending", to |-> to]]
    /\ UNCHANGED <<status, announced, watcher, path, crossed, overtaken, faults>>

\* getById; the same status is answered at once, and an invalid transition refused.
Read(u) ==
    LET to == update[u].to IN
    /\ At(u, "read")
    /\ IF status # to /\ MayBecome(status, to)
       THEN update' = [update EXCEPT ![u] = [at |-> "write", read |-> status, to |-> to]]
       ELSE Ends(u)
    /\ UNCHANGED <<status, announced, watcher, path, crossed, overtaken, begun, faults>>

\* The UPDATE by id, whatever the row says by now.
Write(u) ==
    LET to == update[u].to IN
    /\ At(u, "write")
    /\ status' = to
    /\ path' = (path /\ (status = to \/ to \in Transitions[status]))
    /\ crossed' = (crossed \/ status # update[u].read)
    /\ update' = [update EXCEPT ![u].at = "announce"]
    /\ UNCHANGED <<announced, watcher, overtaken, begun, faults>>

Hears(w, s) == IF w.joined THEN [w EXCEPT !.told = s] ELSE w

\* Mistaken variant: announces in a finally block.
AnnouncedAfterFailureTo(to) == to
\* A write that fails announces nothing.
AnnouncedAfterFailure(to) == announced

QueryFails(u) ==
    LET said == AnnouncedAfterFailure(update[u].to) IN
    /\ (At(u, "read") \/ At(u, "write")) /\ faults < MaxFaults /\ faults' = faults + 1
    /\ Ends(u)
    /\ announced' = said
    /\ watcher' = IF said = announced THEN watcher ELSE Hears(watcher, said)
    /\ UNCHANGED <<status, path, crossed, overtaken, begun>>

\* emitStatusChange, and broadcastStatusUpdate to the room.
Announce(u) ==
    LET to == update[u].to IN
    /\ At(u, "announce")
    /\ announced' = to /\ watcher' = Hears(watcher, to)
    /\ overtaken' = (overtaken \/ status # to)
    /\ Ends(u)
    /\ UNCHANGED <<status, path, crossed, begun, faults>>

\* remittance:join, remittance:leave or a lost connection.  Joining tells nothing.
Join ==
    /\ ~watcher.joined
    /\ watcher' = [joined |-> TRUE, told |-> Unheard]
    /\ UNCHANGED <<status, update, announced, path, crossed, overtaken, begun, faults>>

Leave ==
    /\ watcher.joined
    /\ watcher' = [joined |-> FALSE, told |-> Unheard]
    /\ UNCHANGED <<status, update, announced, path, crossed, overtaken, begun, faults>>

\* The process restarts: updates and sockets are gone, the row stays.
Restart ==
    /\ faults < MaxFaults /\ faults' = faults + 1
    /\ update' = [u \in Updates |-> Idle]
    /\ watcher' = [joined |-> FALSE, told |-> Unheard]
    /\ UNCHANGED <<status, announced, path, crossed, overtaken, begun>>

Next ==
    \/ \E u \in Updates :
        \/ Read(u) \/ Write(u) \/ QueryFails(u) \/ Announce(u)
        \/ \E to \in Statuses : Begin(u, to)
    \/ Join \/ Leave \/ Restart

Spec == Init /\ [][Next]_vars

-----------------------------------------------------------------------------
TypeOK ==
    /\ {status, announced} \subseteq Statuses
    /\ update \in [Updates -> [at : {"idle", "read", "write", "announce"}, read : Statuses, to : Statuses]]
    /\ watcher \in [joined : BOOLEAN, told : Statuses \cup {Unheard}]
    /\ {path, crossed, overtaken} \subseteq BOOLEAN
    /\ begun \in 0..MaxUpdates /\ faults \in 0..MaxFaults

(***************************************************************************)
(* The record leaves the state machine only when two updates cross: the    *)
(* validation looks at a status that the write does not check again.       *)
(***************************************************************************)
PathLeftOnlyByCrossing == ~crossed => path

(***************************************************************************)
(* Once no update is under way a watcher's last word is the status of the  *)
(* record, unless announcements came in another order than the writes.     *)
(***************************************************************************)
WatcherHearsTheLast ==
    (\A u \in Updates : At(u, "idle")) /\ ~overtaken => watcher.told \in {status, Unheard}

\* The inductive invariant: what is to be written is a transition from what was read, and
\* whoever is still to announce the present status has it in hand.
WritesAreTransitions == \A u \in Updates : At(u, "write") => update[u].to \in Transitions[update[u].read]
LastIsAnnounced ==
    /\ ~watcher.joined => watcher.told = Unheard
    /\ ~overtaken => \/ watcher.told \in {status, Unheard}
                     \/ \E u \in Updates : At(u, "announce") /\ update[u].to = status
IInv == TypeOK /\ PathLeftOnlyByCrossing /\ WritesAreTransitions /\ LastIsAnnounced
=============================================================================
