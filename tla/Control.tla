------------------------------ MODULE Control -------------------------------
(***************************************************************************)
(* Everything that controls the contract, together: the admins' own entry  *)
(* points, the circuit breaker, governance proposals and multi-signature   *)
(* operations all change the same admins, pause flag and fee rate.         *)
(***************************************************************************)
EXTENDS MultiSig

vars == <<adminVars, breakerVars, govVars, multisigVars>>

Init == AdminInit /\ BreakerInit /\ GovernanceInit /\ MultiSigInit

Next ==
    \/ AdminStep /\ UNCHANGED <<breakerVars, govVars, multisigVars>>
    \/ BreakerStep /\ UNCHANGED <<adminVars, govVars, multisigVars>>
    \/ GovernanceStep /\ UNCHANGED <<breakerVars, multisigVars>>
    \/ MultiSigStep

Spec == Init /\ [][Next]_vars

-----------------------------------------------------------------------------
(***************************************************************************)
(* Each component's state has its type; in particular the stored admin     *)
(* count never reaches zero, which the guards of remove_admin and of a     *)
(* RemoveAdmin proposal, checked at different times, must ensure together. *)
(***************************************************************************)
TypeOK == AdminTypeOK /\ BreakerTypeOK /\ GovernanceTypeOK /\ MultiSigTypeOK

Executes(kind, a) ==
    \E id \in ProposalIds \cap DOMAIN proposals' :
        /\ proposals[id].state = "Approved" /\ proposals'[id].state = "Executed"
        /\ proposals[id].action = [kind |-> kind, arg |-> a]

(***************************************************************************)
(* The stored admin count and the number of admins move together, except   *)
(* when a transfer is accepted by an address that is an admin already or   *)
(* made by one that no longer is, and when a RemoveAdmin proposal executes *)
(* on an address that was removed since it was proposed.                   *)
(***************************************************************************)
CountDriftsOnlyThere ==
    [][Drifts =>
         \/ AcceptAdmin /\ (pendingAdmin \in admins \/ legacy \notin admins)
         \/ \E a \in Addresses \ admins : Executes("RemoveAdmin", a)]_vars

(***************************************************************************)
(* The legacy admin stops being an admin only by removing itself, directly *)
(* or as the executor of the proposal that removes it.                     *)
(***************************************************************************)
LegacyLostOnlyBySelfRemoval ==
    [][LegacyIsAdmin /\ legacy' \notin admins' =>
         \/ RemoveAdmin(legacy, legacy)
         \/ \E id \in ProposalIds : Execute(legacy, id) /\ Executes("RemoveAdmin", legacy)]_vars

(***************************************************************************)
(* Governance never puts its own quorum out of the admins' reach: only the *)
(* direct remove_admin, which does not look at the quorum, does.           *)
(***************************************************************************)
QuorumLostOnlyByDirectRemoval ==
    [][govQuorum <= adminCount /\ govQuorum' > adminCount' =>
         \E caller, a \in Addresses : RemoveAdmin(caller, a)]_vars

(***************************************************************************)
(* A pause that was recorded (by pause or emergency_pause) and whose flag  *)
(* no multi-signature operation has touched since is ended by vote only    *)
(* after enough different admins voted since it began, and only when the   *)
(* timelock has run since it began: votes on earlier pauses do not count.  *)
(***************************************************************************)
RecordedPauseEarnsItsEnd == [][UnpausedByVote /\ pause.recorded => Earned]_vars
=============================================================================
