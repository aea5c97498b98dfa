----------------------------- MODULE HistoryScreen -----------------------------
(***************************************************************************)
(* TransactionHistory.tsx keeping its own page: the search text (taken     *)
(* over 300 ms after the last key), the filters and the page shown are     *)
(* mirrored in the address of the page, and the browser's Back and Forward *)
(* bring them back.                                                        *)
(*                                                                         *)
(* React runs the effects after the render that changed what they watch;   *)
(* an effect that sets the page causes another render, whose effects run   *)
(* before the next event.  A step is an event with all these effects.      *)
(***************************************************************************)
EXTENDS Naturals, Sequences

CONSTANTS
    MaxPages,    \* pages of the whole list
    FirstPage,   \* the page in the address the screen is opened with
    MaxEntries,  \* bound on the browser's history
    MaxShrinks   \* bound on replacements of the list by a shorter one

HistoryAssumption ==
    /\ MaxPages \in Nat \ {0} /\ FirstPage \in 1..MaxPages /\ MaxEntries \in Nat \ {0}
    /\ MaxShrinks \in Nat

VARIABLES
    typed,     \* searchText
    search,    \* debouncedSearch
    status,    \* filterStatus, standing for the other filters too
    page,      \* uncontrolledPage
    entries,   \* the browser's history: what each address says
    pos,       \* where in it the screen is
    syncing,   \* syncPageFromHistoryRef
    pages,     \* pages of the unfiltered list
    shrinks, opened,
    overtyped  \* a search brought back from the history was typed over within the 300 ms

vars == <<typed, search, status, page, entries, pos, syncing, pages, shrinks, opened, overtyped>>

Texts == {"", "x"}
Entry == [q : Texts, status : Texts, page : Nat \ {0}]
Address == entries[pos]

\* totalPages: each filter leaves a page less.
TotalPages(q, s) ==
    LET fewer == IF q # "" /\ s # "" THEN 2 ELSE IF q # "" \/ s # "" THEN 1 ELSE 0 IN
    IF pages > fewer THEN pages - fewer ELSE 1

(* The effects, over what the browser and the screen hold. *)
Held == [entries |-> entries, pos |-> pos, page |-> page, syncing |-> syncing]

Replace(h, entry) == [h EXCEPT !.entries[h.pos] = entry]
Push(h, entry) ==
    [h EXCEPT !.entries = Append(SubSeq(h.entries, 1, h.pos), entry), !.pos = h.pos + 1]

\* The filters go to the address.
FilterEffect(h, q, s) == Replace(h, [h.entries[h.pos] EXCEPT !.q = q, !.status = s])

\* Mistaken variant: writes only a page that is not the first.
PageEffectKeepsParam(h, p) ==
    LET shown == [h EXCEPT !.page = p]
        here == h.entries[h.pos] IN
    IF p = h.page THEN h
    ELSE IF h.syncing THEN [shown EXCEPT !.syncing = FALSE]
    ELSE IF here.page # p /\ p > 1 THEN Push(shown, [here EXCEPT !.page = p])
    ELSE shown
\* The page goes to the address, in place when it came from there.
PageEffect(h, p) ==
    LET shown == [h EXCEPT !.page = p]
        here == h.entries[h.pos] IN
    IF p = h.page THEN h
    ELSE IF h.syncing THEN [Replace(shown, [here EXCEPT !.page = p]) EXCEPT !.syncing = FALSE]
    ELSE IF here.page # p THEN Push(shown, [here EXCEPT !.page = p])
    ELSE shown

\* Changed filters, a changed list, or mounting reset the page to the first.
ResetEffect(h, changed) == IF changed THEN PageEffect(h, 1) ELSE h

Becomes(h) ==
    /\ Len(h.entries) <= MaxEntries
    /\ entries' = h.entries /\ pos' = h.pos /\ page' = h.page /\ syncing' = h.syncing

\* A render with page p, search q and filter s, and what its effects lead to.
Renders(h, p, q, s) ==
    LET changed == q # search \/ s # status
        filtered == IF changed THEN FilterEffect(h, q, s) ELSE h IN
    /\ search' = q /\ status' = s
    /\ Becomes(ResetEffect(PageEffect(filtered, p), changed))

Init ==
    /\ typed = "" /\ search = "" /\ status = ""
    /\ page = FirstPage
    /\ entries = <<[q |-> "", status |-> "", page |-> FirstPage]>> /\ pos = 1
    /\ syncing = FALSE
    /\ pages = MaxPages
    /\ shrinks = 0 /\ opened = FALSE /\ overtyped = FALSE

\* The effects of mounting.
Open ==
    /\ ~opened /\ opened' = TRUE
    /\ Becomes(ResetEffect(Held, TRUE))
    /\ UNCHANGED <<typed, search, status, pages, shrinks, overtyped>>

\* The text changes while that of the address is still to be taken over.
OverTypes(text) == overtyped' = (overtyped \/ (Address.q # search /\ text # Address.q))

Type(text) ==
    /\ opened /\ typed' = text /\ OverTypes(text)
    /\ UNCHANGED <<search, status, page, entries, pos, syncing, pages, shrinks, opened>>

Debounced ==
    /\ opened /\ search # typed
    /\ Renders(Held, page, typed, status)
    /\ UNCHANGED <<typed, pages, shrinks, opened, overtyped>>

Filter(s) ==
    /\ opened /\ s # status
    /\ Renders(Held, page, search, s)
    /\ UNCHANGED <<typed, pages, shrinks, opened, overtyped>>

\* clearFilters.
Clear ==
    /\ opened /\ (typed # "" \/ status # "")
    /\ typed' = "" /\ OverTypes("")
    /\ Renders(Held, page, search, "")
    /\ UNCHANGED <<pages, shrinks, opened>>

\* handlePageChange, by Previous or Next.
ChangePage(p) ==
    /\ opened /\ p \in 1..TotalPages(search, status) /\ p # page
    /\ Renders(Held, p, search, status)
    /\ UNCHANGED <<typed, pages, shrinks, opened, overtyped>>

\* Back or Forward, and popstate.
Go(to) ==
    /\ opened /\ to \in DOMAIN entries /\ to # pos
    /\ typed' = entries[to].q
    /\ Renders([Held EXCEPT !.pos = to, !.syncing = TRUE], entries[to].page, search, entries[to].status)
    /\ UNCHANGED <<pages, shrinks, opened, overtyped>>

\* The list is replaced by a shorter one.
Shrink ==
    /\ opened /\ shrinks < MaxShrinks /\ pages > 1
    /\ pages' = pages - 1 /\ shrinks' = shrinks + 1
    /\ Becomes(ResetEffect(Held, TRUE))
    /\ UNCHANGED <<typed, search, status, opened, overtyped>>

Next ==
    \/ Open \/ Debounced \/ Clear \/ Shrink
    \/ \E text \in Texts : Type(text) \/ Filter(text)
    \/ \E p \in 1..pages : ChangePage(p)
    \/ \E to \in 1..MaxEntries : Go(to)

Spec == Init /\ [][Next]_vars

-----------------------------------------------------------------------------
TypeOK ==
    /\ {typed, search, status} \subseteq Texts
    /\ page \in Nat \ {0} /\ pages \in 1..MaxPages
    /\ entries \in Seq(Entry) /\ Len(entries) \in 1..MaxEntries /\ pos \in DOMAIN entries
    /\ {syncing, opened, overtyped} \subseteq BOOLEAN
    /\ shrinks \in 0..MaxShrinks

(***************************************************************************)
(* Once the typed text is taken over, the address says what the screen     *)
(* shows, the search, the filter and the page, unless a search the history  *)
(* brought back was typed over before it was taken over.                   *)
(***************************************************************************)
AddressIsShown ==
    opened /\ typed = search /\ ~overtyped => Address = [q |-> search, status |-> status, page |-> page]

(***************************************************************************)
(* What every step keeps: the address has the filter and the page shown,   *)
(* and the search, or one brought back that is still to be taken over.     *)
(***************************************************************************)
AddressFollows == Address.status = status /\ Address.page = page
SearchFollows == Address.q = search \/ Address.q = typed \/ overtyped
IInv == TypeOK /\ AddressFollows /\ SearchFollows
=============================================================================
