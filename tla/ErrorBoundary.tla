----------------------------- MODULE ErrorBoundary -----------------------------
(***************************************************************************)
(* The boundary around the web client (ErrorBoundary.jsx and .tsx).  It    *)
(* catches what its children throw, shows it in their place, and reports   *)
(* it to the backend without waiting.  The answer to a report sets a flag  *)
(* of whatever is shown by then, and catching an error does not reset it.  *)
(***************************************************************************)
EXTENDS Naturals, FiniteSets

CONSTANT MaxErrors  \* bound on the errors thrown

BoundaryAssumption == MaxErrors \in Nat

VARIABLES
    file,       \* which of the two components it is
    state,      \* hasError (the error, by its errorId, 0 when there is none) and reportedToBackend
    thrown,     \* errors so far
    reports,    \* errors whose report is under way
    received,   \* errors whose report the backend took
    copied,     \* the error whose details were copied last
    late        \* an answer came when the error it was about was not shown

vars == <<file, state, thrown, reports, received, copied, late>>

Clear == [error |-> 0, reported |-> FALSE]
Errors == 1..MaxErrors

Init ==
    /\ file \in {"jsx", "tsx"}
    /\ state = Clear
    /\ thrown = 0 /\ reports = {} /\ received = {} /\ copied = 0
    /\ late = FALSE

\* What is rendered: the error with its buttons, or the children.
RendersError == state.error # 0
RendersErrorTyped == file = "tsx" /\ RendersError

\* reportErrorToBackend, up to its await.
SendReport(error) == reports' = reports \cup {error}

\* getDerivedStateFromError and componentDidCatch: the children are there to throw.
Catch ==
    /\ ~RendersError /\ thrown < MaxErrors
    /\ thrown' = thrown + 1
    /\ state' = [state EXCEPT !.error = thrown + 1]
    /\ SendReport(thrown + 1)
    /\ UNCHANGED <<file, received, copied, late>>

\* Mistaken variant: any answer will do.
ReportedByAnyAnswer(ok) == TRUE
\* response.ok; a request that fails has no response.
Reported(ok) == ok

Answered(error, ok) ==
    /\ error \in reports /\ reports' = reports \ {error}
    /\ received' = IF ok THEN received \cup {error} ELSE received
    /\ state' = [state EXCEPT !.reported = @ \/ Reported(ok)]
    /\ late' = (late \/ state.error # error)
    /\ UNCHANGED <<file, thrown, copied>>

\* The children are rendered again.
Retry ==
    /\ RendersError
    /\ state' = Clear
    /\ UNCHANGED <<file, thrown, reports, received, copied, late>>

\* The page is loaded again: a report under way may have arrived, and its answer is lost.
Reload ==
    /\ RendersError
    /\ state' = Clear
    /\ reports' = {}
    /\ \E arrived \in SUBSET reports : received' = received \cup arrived
    /\ UNCHANGED <<file, thrown, copied, late>>

\* handleReportError, of the one component: the details are copied or prompted.
CopyDetails ==
    /\ RendersError /\ ~RendersErrorTyped
    /\ copied' = state.error
    /\ UNCHANGED <<file, state, thrown, reports, received, late>>

Next ==
    \/ Catch \/ Retry \/ Reload \/ CopyDetails
    \/ \E error \in Errors, ok \in BOOLEAN : Answered(error, ok)

Spec == Init /\ [][Next]_vars

-----------------------------------------------------------------------------
TypeOK ==
    /\ file \in {"jsx", "tsx"}
    /\ thrown \in 0..MaxErrors
    /\ state \in [error : 0..thrown, reported : BOOLEAN]
    /\ reports \subseteq 1..thrown /\ received \subseteq 1..thrown
    /\ copied \in 0..thrown /\ late \in BOOLEAN

(***************************************************************************)
(* An error shown as reported was received by the backend, unless the      *)
(* answer about an earlier one came after it was gone from the screen.     *)
(***************************************************************************)
ReportedWasReceived ==
    RendersError /\ state.reported /\ ~late => state.error \in received

(***************************************************************************)
(* What every step keeps: without a late answer the flag is about the      *)
(* error of the state, which is not cleared without it.                    *)
(***************************************************************************)
FlagIsOfTheError == state.reported /\ ~late => state.error \in received
IInv == TypeOK /\ FlagIsOfTheError
=============================================================================
