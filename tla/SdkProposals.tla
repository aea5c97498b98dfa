---------------------------- MODULE SdkProposals ----------------------------
(***************************************************************************)
(* getActiveProposals of the TypeScript SDK (client.ts): it asks the       *)
(* contract for one proposal after the other while proposals are made,     *)
(* approved, executed and, expired or executed, deleted.                   *)
(***************************************************************************)
EXTENDS Naturals, FiniteSets

CONSTANTS
    MaxProposals,   \* bound on the proposals made
    FirstId,        \* the identifier the contract gives its first proposal
    Limit           \* proposals asked for at most

SdkProposalsAssumption == {MaxProposals, FirstId, Limit} \subseteq Nat

VARIABLES
    proposals,  \* by identifier, those given out: the state, "Deleted" when not stored
    scan,       \* the next identifier, what was collected, how it is doing
    steady      \* the proposals active ever since the scan began

scanVars == <<proposals, scan, steady>>

Ids == FirstId..(FirstId + MaxProposals - 1)
Stored == {id \in DOMAIN proposals : proposals[id] # "Deleted"}
Active == {id \in DOMAIN proposals : proposals[id] \in {"Pending", "Approved"}}

Init ==
    /\ proposals = [id \in {} |-> "Pending"]
    /\ scan = [step |-> "idle", id |-> 0, found |-> {}, lost |-> FALSE, gap |-> FALSE]
    /\ steady = {}

\* The identifier comes from a counter, and is not given out again.
Propose ==
    LET id == FirstId + Cardinality(DOMAIN proposals) IN
    /\ id \in Ids
    /\ proposals' = [i \in DOMAIN proposals \cup {id} |-> IF i = id THEN "Pending" ELSE proposals[i]]
    /\ UNCHANGED <<scan, steady>>

\* Votes and executions; expire deletes an open proposal, the cleanup an executed one.
ProposalMoves(id, to) ==
    /\ <<proposals[id], to>> \in
         {<<"Pending", "Approved">>, <<"Approved", "Executed">>,
          <<"Pending", "Deleted">>, <<"Approved", "Deleted">>, <<"Executed", "Deleted">>}
    /\ proposals' = [proposals EXCEPT ![id] = to]
    /\ steady' = IF to = "Approved" THEN steady ELSE steady \ {id}
    /\ UNCHANGED <<scan>>

StartScan(offset) ==
    /\ scan.step = "idle"
    /\ scan' = [step |-> "ask", id |-> offset, found |-> {}, lost |-> FALSE, gap |-> FALSE]
    /\ steady' = {id \in Active : id >= offset}
    /\ UNCHANGED <<proposals>>

\* Mistaken variant: a proposal that is not active ends the scan.
NextToAskIfActive(id) == IF id \in Active THEN id + 1 ELSE FirstId + MaxProposals
NextToAsk(id) == id + 1

AskProposal ==
    /\ scan.step = "ask" /\ Cardinality(scan.found) < Limit
    /\ scan.id \in Stored
    /\ scan' = [scan EXCEPT !.id = NextToAsk(@),
                            !.found = @ \cup ({scan.id} \cap Active)]
    /\ UNCHANGED <<proposals, steady>>

\* The limit is reached.
ScanIsFull ==
    /\ scan.step = "ask" /\ Cardinality(scan.found) >= Limit
    /\ scan' = [scan EXCEPT !.step = "answered"]
    /\ UNCHANGED <<proposals, steady>>

\* ProposalNotFound ends the scan, past the last proposal or, in the gap that a
\* deleted one left, before it.
ScanFindsNone ==
    /\ scan.step = "ask" /\ scan.id \notin Stored
    /\ scan' = [scan EXCEPT !.step = "answered", !.gap = scan.id \in DOMAIN proposals]
    /\ UNCHANGED <<proposals, steady>>

\* So does any other error, the retries of the read policy spent.
ScanFails ==
    /\ scan.step = "ask"
    /\ scan' = [scan EXCEPT !.step = "answered", !.lost = TRUE]
    /\ UNCHANGED <<proposals, steady>>

ScanAgain ==
    /\ scan.step = "answered"
    /\ scan' = [scan EXCEPT !.step = "idle"]
    /\ UNCHANGED <<proposals, steady>>

Next ==
    \/ Propose \/ AskProposal \/ ScanIsFull \/ ScanFindsNone \/ ScanFails \/ ScanAgain
    \/ \E id \in DOMAIN proposals, to \in {"Approved", "Executed", "Deleted"} : ProposalMoves(id, to)
    \/ \E offset \in {0} \cup Ids : StartScan(offset)

Spec == Init /\ [][Next]_scanVars

-----------------------------------------------------------------------------
ProposalsTypeOK ==
    /\ DOMAIN proposals \subseteq Ids
    /\ scan \in [step : {"idle", "ask", "answered"}, id : Nat, found : SUBSET Ids,
                 lost : BOOLEAN, gap : BOOLEAN]
    /\ steady \subseteq Ids

(***************************************************************************)
(* A scan that starts at an identifier the contract gave out, fails        *)
(* nowhere and stays below its limit finds every proposal that was active  *)
(* all along and is before the one it ended at, whatever was executed,     *)
(* expired or cleaned up while it asked; and every one there is, unless it *)
(* ended at the identifier of a deleted proposal.                          *)
(***************************************************************************)
ScanFindsSteady ==
    scan.step = "answered" /\ ~scan.lost /\ Cardinality(scan.found) < Limit
        /\ scan.id >= FirstId
    => /\ \A id \in steady : id < scan.id => id \in scan.found
       /\ ~scan.gap => steady \subseteq scan.found

(***************************************************************************)
(* What every step keeps: identifiers follow one another, and a scan has   *)
(* found of the steady proposals those below the next it asks for.         *)
(***************************************************************************)
Made == Cardinality(DOMAIN proposals)
ProposalsFollow ==
    /\ IsFiniteSet(DOMAIN proposals) /\ Made \in 0..MaxProposals
    /\ DOMAIN proposals = FirstId..(FirstId + Made - 1)
SteadyIsActive == steady \subseteq Active
FoundSoFar == scan.step = "ask" => \A id \in steady : id < scan.id => id \in scan.found
IInv == ProposalsTypeOK /\ ProposalsFollow /\ SteadyIsActive /\ FoundSoFar /\ ScanFindsSteady
=============================================================================
