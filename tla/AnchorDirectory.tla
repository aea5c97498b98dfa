---------------------------- MODULE AnchorDirectory ----------------------------
(***************************************************************************)
(* The API's directory of anchors: administrators create, change, switch   *)
(* off and delete rows while a client reads the list page by page.  An     *)
(* anchor is its place in the order of the ids; of its contents only       *)
(* whether the client's filter (status and currencies) fits it matters.    *)
(***************************************************************************)
EXTENDS Integers, FiniteSets

CONSTANTS
    Anchors,          \* 1..n
    PageSize,         \* the client's limit
    DependentTables,  \* the tables delete empties first exist; the schemas of this
                      \* repository create neither webhook_subscriptions nor
                      \* kyc_configurations
    MaxEdits          \* bound on the administrators' changes

DirectoryAssumption ==
    /\ Anchors \subseteq Nat \ {0} /\ IsFiniteSet(Anchors) /\ PageSize \in 1..100
    /\ DependentTables \in BOOLEAN /\ MaxEdits \in Nat

VARIABLES
    rows,      \* rows[a]: "absent", "enabled" or "disabled", and whether the filter fits
    position,  \* the client's cursor: NoCursor, an anchor's id, or Listed at the end
    listed,    \* how often the client was given an id
    steady,    \* anchors that were listed without a break since the listing began
    strayed,   \* a page was asked for with the cursor of an anchor not listed any more
    edits

vars == <<rows, position, listed, steady, strayed, edits>>

Absent == [state |-> "absent", fits |-> FALSE]
NoCursor == 0
Listed == -1

\* list(): the rows that are enabled and fit the filter, by id.
Shown(rs) == {a \in Anchors : rs[a].state = "enabled" /\ rs[a].fits}

\* Index in that list, from 0.
Place(list, a) == Cardinality({b \in list : b < a})

Init ==
    /\ rows \in [Anchors -> {Absent} \cup [state : {"enabled"}, fits : BOOLEAN]]
    /\ position = NoCursor /\ listed = [a \in Anchors |-> 0]
    /\ steady = Shown(rows)
    /\ strayed = FALSE /\ edits = 0

Edit(a, row) ==
    /\ edits < MaxEdits /\ edits' = edits + 1
    /\ rows' = [rows EXCEPT ![a] = row]
    /\ steady' = steady \cap Shown(rows')
    /\ UNCHANGED <<position, listed, strayed>>

\* A second row of the same id breaks the primary key: 500, and nothing changes.
Create(a, fits) == rows[a].state = "absent" /\ Edit(a, [state |-> "enabled", fits |-> fits])

\* Changes a disabled row too, and then answers that there is none.
Update(a, fits) == rows[a].state # "absent" /\ Edit(a, [rows[a] EXCEPT !.fits = fits])

\* Its status becomes inactive as well; nothing enables it again.
Deactivate(a) == rows[a].state # "absent" /\ Edit(a, [state |-> "disabled", fits |-> FALSE])

\* All in one transaction, which the first missing table rolls back.
Delete(a) ==
    /\ rows[a].state # "absent"
    /\ Edit(a, IF DependentTables THEN Absent ELSE rows[a])

\* findIndex, then the index after it: -1 when the cursor's row is not in the list.
FromCursor(list, cursor) ==
    IF cursor = NoCursor THEN 0 ELSE IF cursor \in list THEN Place(list, cursor) + 1 ELSE -1

\* slice(from, from + PageSize), which counts a negative index from the list's end.
Slice(list, from) ==
    LET n == Cardinality(list)
        first == IF from >= 0 THEN from ELSE IF n + from > 0 THEN n + from ELSE 0
    IN {a \in list : first <= Place(list, a) /\ Place(list, a) < from + PageSize}

LastOf(page) == CHOOSE a \in page : \A b \in page : b <= a

\* The next page; without a next_cursor the client has the whole list.
ReadPage ==
    LET list == Shown(rows)
        from == FromCursor(list, position)
        page == Slice(list, from)
    IN /\ position # Listed
       /\ listed' = [a \in Anchors |-> listed[a] + IF a \in page THEN 1 ELSE 0]
       /\ position' = IF from + PageSize < Cardinality(list) /\ page # {}
                      THEN LastOf(page) ELSE Listed
       /\ strayed' = (strayed \/ (position # NoCursor /\ position \notin list))
       /\ UNCHANGED <<rows, steady, edits>>

ListAgain ==
    /\ position = Listed
    /\ position' = NoCursor /\ listed' = [a \in Anchors |-> 0]
    /\ steady' = Shown(rows) /\ strayed' = FALSE
    /\ UNCHANGED <<rows, edits>>

Next ==
    \/ \E a \in Anchors :
        \/ \E fits \in BOOLEAN : Create(a, fits) \/ Update(a, fits)
        \/ Deactivate(a) \/ Delete(a)
    \/ ReadPage
    \/ ListAgain

Spec == Init /\ [][Next]_vars

-----------------------------------------------------------------------------
TypeOK ==
    /\ rows \in [Anchors -> [state : {"absent", "enabled", "disabled"}, fits : BOOLEAN]]
    /\ position \in Anchors \cup {NoCursor, Listed} /\ listed \in [Anchors -> Nat]
    /\ steady \subseteq Anchors /\ strayed \in BOOLEAN /\ edits \in 0..MaxEdits

(***************************************************************************)
(* However the administrators' changes fall between the pages, the client  *)
(* is given no anchor twice, and at the end every anchor that was there    *)
(* throughout, unless a page was asked for with the cursor of an anchor    *)
(* that had left the list (the index -1 then shows the list's last anchor, *)
(* or nothing, and ends the list early).                                   *)
(***************************************************************************)
DirectoryListedOnce ==
    strayed \/ /\ \A a \in Anchors : listed[a] <= 1
               /\ position = Listed => \A a \in steady : listed[a] = 1
-----------------------------------------------------------------------------
\* While no page was asked for with a cursor that had left the list: what was given
\* stands up to the cursor, and what was there throughout and stands there was given.
Given ==
    /\ \A a \in Anchors : listed[a] \in 0..1
    /\ position = NoCursor => \A a \in Anchors : listed[a] = 0
    /\ position \in Anchors => \A a \in Anchors : listed[a] = 1 => a <= position
    /\ position \in Anchors => \A a \in steady : a <= position => listed[a] = 1
    /\ position = Listed => \A a \in steady : listed[a] = 1

IInv == TypeOK /\ steady \subseteq Shown(rows) /\ (strayed \/ Given)
=============================================================================
