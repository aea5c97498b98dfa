------------------------------ MODULE AddressBook ------------------------------
(***************************************************************************)
(* The address book: each tab shows the list it loaded from localStorage   *)
(* when it opened and writes the whole of it back with every change.  A    *)
(* recipient is an id with the number of the change that wrote it.         *)
(***************************************************************************)
EXTENDS Naturals, Functions

CONSTANTS Tabs, MaxEdits  \* bound on changes; ids are taken from their numbers

BookAssumption == MaxEdits \in Nat

VARIABLES
    stored,   \* what localStorage holds: recipients by id
    list,     \* list[b]: what tab b shows
    editing,  \* editing[b]: the id its form edits, or NoId
    wanted,   \* stored, had every change of the user been applied to it
    excused,  \* a tab saved over a list that it did not show, a save failed, or the
              \* recipient that a form was editing had been deleted
    edits

vars == <<stored, list, editing, wanted, excused, edits>>

NoId == 0
Empty == [i \in {} |-> 0]
Put(book, i, n) == [j \in DOMAIN book \cup {i} |-> IF j = i THEN n ELSE book[j]]
Omit(book, i) == Restrict(book, DOMAIN book \ {i})

Init ==
    /\ stored = Empty /\ wanted = Empty
    /\ list = [b \in Tabs |-> Empty]
    /\ editing = [b \in Tabs |-> NoId]
    /\ excused = FALSE /\ edits = 0

\* The tab is opened, or loaded again.
Open(b) ==
    /\ list' = [list EXCEPT ![b] = stored]
    /\ editing' = [editing EXCEPT ![b] = NoId]
    /\ UNCHANGED <<stored, wanted, excused, edits>>

\* Mistaken variant: the state is written before it has changed.
WrittenTooSoon(shown, book) == shown
Written(shown, book) == book

\* saveRecipients: the storage may be full, and the tab then keeps what it showed.
Save(b, book, whole) ==
    \/ /\ stored' = Written(list[b], book) /\ list' = [list EXCEPT ![b] = book]
       /\ excused' = (excused \/ list[b] # stored \/ ~whole)
    \/ UNCHANGED <<stored, list>> /\ excused' = TRUE

Change == edits < MaxEdits /\ edits' = edits + 1

Add(b) ==
    /\ Change /\ editing[b] = NoId
    /\ Save(b, Put(list[b], edits', edits'), TRUE)
    /\ wanted' = Put(wanted, edits', edits')
    /\ UNCHANGED editing

StartEdit(b, i) ==
    /\ i \in DOMAIN list[b]
    /\ editing' = [editing EXCEPT ![b] = i]
    /\ UNCHANGED <<stored, list, wanted, excused, edits>>

\* The list is mapped: an id that is not in it any more is lost, and the list written
\* back as the tab shows it.
SaveEdit(b) ==
    LET i == editing[b]
        there == i \in DOMAIN list[b]
    IN
    /\ i # NoId /\ Change
    /\ wanted' = Put(wanted, i, edits')
    /\ Save(b, IF there THEN Put(list[b], i, edits') ELSE list[b], there)
    /\ editing' = [editing EXCEPT ![b] = NoId]

Cancel(b) ==
    /\ editing' = [editing EXCEPT ![b] = NoId]
    /\ UNCHANGED <<stored, list, wanted, excused, edits>>

\* Leaves a form that edits the recipient open.
Delete(b, i) ==
    /\ i \in DOMAIN list[b] /\ Change
    /\ Save(b, Omit(list[b], i), TRUE)
    /\ wanted' = Omit(wanted, i)
    /\ UNCHANGED editing

Next == \E b \in Tabs :
    \/ Open(b) \/ Add(b) \/ SaveEdit(b) \/ Cancel(b)
    \/ \E i \in 1..MaxEdits : StartEdit(b, i) \/ Delete(b, i)

Spec == Init /\ [][Next]_vars

-----------------------------------------------------------------------------
TypeOK ==
    /\ \A book \in {stored, wanted} \cup {list[b] : b \in Tabs} : DOMAIN book \subseteq 1..MaxEdits /\ \A i \in DOMAIN book : book[i] \in 1..MaxEdits
    /\ editing \in [Tabs -> 0..MaxEdits]
    /\ excused \in BOOLEAN /\ edits \in 0..MaxEdits

(***************************************************************************)
(* The storage holds just what the user's changes in all the tabs amount   *)
(* to, unless a tab saved over a list it did not show, a save failed, or a *)
(* deleted recipient was edited.                                           *)
(***************************************************************************)
BookIsAsWanted == stored = wanted \/ excused

(***************************************************************************)
(* What every step keeps is the property itself, with the types: a tab     *)
(* that saves without an excuse showed what was stored, and wanted.        *)
(***************************************************************************)
Books == UNION {[ids -> 1..MaxEdits] : ids \in SUBSET (1..MaxEdits)}
IInv ==
    /\ stored \in Books /\ wanted \in Books /\ list \in [Tabs -> Books]
    /\ editing \in [Tabs -> 0..MaxEdits]
    /\ excused \in BOOLEAN /\ edits \in 0..MaxEdits
    /\ BookIsAsWanted
=============================================================================
