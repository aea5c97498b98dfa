--------------------------------- MODULE Pages ---------------------------------
(***************************************************************************)
(* Lists that a client reads page by page, newest first, while they grow.  *)
(*                                                                         *)
(* "remittances"  GET /api/remittances (remittances.ts, queryWithCursor of *)
(*                remittanceStore.ts) goes on from a cursor.  The database *)
(*                keeps a creation time finer than the cursor does: a row  *)
(*                reads it back in milliseconds.                           *)
(* "audit log"    the export of the audit log (api.ts, admin-audit-log.ts) *)
(*                goes on from a number of rows, and leaves rows of one    *)
(*                instant in any order.                                    *)
(* "events"       so do the contract events (api.ts, database.ts), which   *)
(*                are stored under the instant they happened.              *)
(***************************************************************************)
EXTENDS Naturals, FiniteSets

CONSTANTS
    Listings,  \* the lists looked at
    Ids,       \* of rows, numbers (compared as the database compares them)
    Fine,      \* instants the database tells apart in a millisecond
    MaxTime,   \* bound on instants
    PageLimit, \* rows of a page
    MaxPages   \* bound on the pages read by number of rows

PagesAssumption ==
    /\ Ids \subseteq Nat /\ Fine \in Nat \ {0} /\ MaxTime \in Nat /\ PageLimit \in Nat \ {0}
    /\ Listings \subseteq {"remittances", "audit log", "events"} /\ MaxPages \in Nat

VARIABLES
    listing,  \* the list
    rows,     \* its rows: id and instant of creation
    clock,    \* the database's
    cursor,   \* what the client goes on from
    seen,     \* how often the client received an id
    owed,     \* the rows there were when the client began
    offset,   \* the number of rows the client goes on from
    grown,    \* rows came after it began
    done,     \* the last page is in
    cut       \* a page ended among rows that the cursor, or the order, does not tell apart

vars == <<listing, rows, clock, cursor, offset, grown, seen, owed, done, cut>>
paging == <<listing, cursor, offset, seen, done, cut>>

Row == [id : Ids, at : 0..MaxTime]
NoCursor == [ms |-> 0, id |-> 0, from |-> "start"]

\* created_at as the API reads it: a Date of milliseconds.
Milli(at) == at \div Fine
Instant(ms) == ms * Fine

\* created_at DESC, then by id: descending for remittances, which the other lists leave open.
Ties == {"ascending", "descending"}
Before(a, b, ties) ==
    a.at > b.at \/ (a.at = b.at /\ IF ties = "ascending" THEN a.id < b.id ELSE a.id > b.id)

\* A row's index in a list of them, from 0.
Place(list, r, ties) == Cardinality({q \in list : Before(q, r, ties)})

Init ==
    /\ listing \in Listings
    /\ rows = {} /\ clock = 0
    /\ cursor = NoCursor /\ offset = 0 /\ grown = FALSE /\ seen = [id \in Ids |-> 0] /\ owed = {}
    /\ done = FALSE /\ cut = FALSE

Begun == \E id \in Ids : seen[id] > 0

Receives(items) ==
    seen' = [id \in Ids |-> seen[id] + IF \E r \in items : r.id = id THEN 1 ELSE 0]

New(id, at) ==
    /\ \A r \in rows : r.id # id
    /\ rows' = rows \cup {[id |-> id, at |-> at]}
    /\ grown' = (grown \/ Begun)
    /\ UNCHANGED <<clock, owed, paging>>

Create(id) == listing = "remittances" /\ New(id, clock)

\* log, of an administrator's action.
LogEntry(id) == listing = "audit log" /\ New(id, clock)

\* onStatusChange and saveContractEvent: an event may be stored late.
SaveContractEvent(id, at) == listing = "events" /\ at <= clock /\ New(id, at)

\* purgeOlderThan.
Purge(at) ==
    /\ listing = "audit log"
    /\ rows' = {r \in rows : r.at >= at}
    /\ owed' = owed \cap rows'
    /\ UNCHANGED <<clock, grown, paging>>

Tick ==
    /\ clock < MaxTime /\ clock' = clock + 1
    /\ UNCHANGED <<rows, owed, grown, paging>>

\* Mistaken variant: goes on with the last row itself.
AfterCursorInclusive(r, c) ==
    c.from = "start" \/ r.at < Instant(c.ms) \/ (r.at = Instant(c.ms) /\ r.id <= c.id)
\* The WHERE clause: the cursor's millisecond stands for its first instant.
AfterCursor(r, c) ==
    c.from = "start" \/ r.at < Instant(c.ms) \/ (r.at = Instant(c.ms) /\ r.id < c.id)

CursorAt(r) == [ms |-> Milli(r.at), id |-> r.id, from |-> "row"]

LastOf(items) == CHOOSE r \in items : \A q \in items : q = r \/ Before(q, r, "descending")

\* queryWithCursor: a row more is asked for, to know whether there is another page.
QueryWithCursor(c) ==
    LET left == {r \in rows : AfterCursor(r, c)} IN
    [items |-> {r \in left : Place(left, r, "descending") < PageLimit}, more |-> Cardinality(left) > PageLimit]

\* GET /api/remittances from the cursor of the page before.
Page ==
    LET result == QueryWithCursor(cursor)
        last == LastOf(result.items) IN
    /\ listing = "remittances" /\ ~done
    /\ owed' = IF cursor = NoCursor THEN rows ELSE owed
    /\ Receives(result.items)
    /\ done' = ~result.more
    /\ cursor' = IF result.more THEN CursorAt(last) ELSE cursor
    /\ cut' = (cut \/ (result.more /\ \E r \in rows :
                  Before(last, r, "descending") /\ Milli(r.at) = Milli(last.at)))
    /\ UNCHANGED <<listing, rows, clock, offset, grown>>

\* LIMIT and OFFSET, in one of the orders that newest first allows.
QueryByOffset(ties) ==
    {r \in rows : offset <= Place(rows, r, ties) /\ Place(rows, r, ties) < offset + PageLimit}

\* The first n rows end among rows of one instant.
AmongEqual(ties, n) == \E a, b \in rows :
    a.at = b.at /\ Place(rows, a, ties) < n /\ n <= Place(rows, b, ties)

\* Goes on until a page is not full: the export by itself, GET /api/events at each request.
PageByOffset == \E ties \in Ties :
    LET items == QueryByOffset(ties)
        next == offset + PageLimit IN
    /\ listing # "remittances" /\ ~done /\ next <= MaxPages * PageLimit
    /\ owed' = IF offset = 0 THEN rows ELSE owed
    /\ Receives(items)
    /\ done' = (Cardinality(items) < PageLimit)
    /\ offset' = next
    /\ cut' = (cut \/ AmongEqual(ties, next))
    /\ UNCHANGED <<listing, rows, clock, cursor, grown>>

Next ==
    \/ Tick \/ Page \/ PageByOffset
    \/ \E id \in Ids : Create(id) \/ LogEntry(id) \/ \E at \in 0..MaxTime : SaveContractEvent(id, at)
    \/ \E at \in 1..MaxTime : Purge(at)

Spec == Init /\ [][Next]_vars

-----------------------------------------------------------------------------
TypeOK ==
    /\ listing \in Listings /\ offset \in 0..(MaxPages * PageLimit)
    /\ rows \in SUBSET Row /\ owed \subseteq rows
    /\ clock \in 0..MaxTime
    /\ cursor \in [ms : Nat, id : Ids \cup {0}, from : {"start", "row"}]
    /\ seen \in [Ids -> Nat]
    /\ done \in BOOLEAN /\ cut \in BOOLEAN /\ grown \in BOOLEAN

(***************************************************************************)
(* However a list grows meanwhile, a client that reads to the end receives *)
(* all there was when it began and is still there, unless a page ended     *)
(* among rows that its cursor or its order does not tell apart; and no row *)
(* twice, unless the list is read by numbers of rows and it grew.          *)
(***************************************************************************)
PagesCoverOnce ==
    /\ listing = "remittances" \/ ~(grown \/ cut) => \A id \in Ids : seen[id] <= 1
    /\ done /\ ~cut => \A r \in owed : seen[r.id] > 0
-----------------------------------------------------------------------------
\* The rows newer than an instant, and those at least as new.
Newer(at) == {q \in rows : q.at > at}
AsNew(at) == {q \in rows : q.at >= at}

\* By cursor: what was received stands before the cursor, what is owed was received or
\* stands behind it.
CursorInv ==
    /\ \A id \in Ids : seen[id] \in 0..1 /\ (seen[id] = 1 => \E r \in rows : r.id = id)
    /\ ~done => \A r \in rows : seen[r.id] = 1 => ~AfterCursor(r, cursor)
    /\ ~cut => \A r \in owed : seen[r.id] = 1 \/ (~done /\ AfterCursor(r, cursor))

\* By number of rows: a row that is owed has at least as many newer ones as were skipped;
\* if the list does not grow, what was received is among the rows skipped, with all as new.
OffsetInv ==
    /\ ~cut => \A r \in owed : seen[r.id] > 0 \/ (~done /\ offset <= Cardinality(Newer(r.at)))
    /\ ~grown /\ ~cut =>
          /\ \A id \in Ids : seen[id] \in 0..1
          /\ \A r \in rows : seen[r.id] = 1 => Cardinality(AsNew(r.at)) <= offset

\* What every step keeps, in every list.
IInv ==
    /\ TypeOK /\ IsFiniteSet(rows)
    /\ \A r, q \in rows : r.id = q.id => r = q
    /\ IF listing = "remittances" THEN CursorInv ELSE OffsetInv
=============================================================================
