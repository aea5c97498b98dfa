------------------------------ MODULE MultiSig ------------------------------
(***************************************************************************)
(* Multi-signature operations (multisig.rs): an admin proposes, others     *)
(* approve, and the approval that reaches the threshold executes.  Pause   *)
(* and Unpause write the shared flag without a pause record; UpdateFee     *)
(* sets the platform rate; WithdrawFees only moves accumulated fees, which *)
(* module Remittance keeps.                                                *)
(***************************************************************************)
EXTENDS Governance

CONSTANTS
    OpTypes,            \* operation types in use
    OpFees,             \* rates UpdateFee operations carry
    Thresholds,         \* thresholds set_multisig_config is called with
    OpTtls,             \* lifetimes it is called with
    DefaultOpTtl,       \* lifetime before it is called
    MaxOps              \* bound on the number of operations

ASSUME MultiSigAssumption ==
    /\ OpTypes \subseteq {"UpdateFee", "WithdrawFees", "Pause", "Unpause"}
    /\ OpFees \subseteq Nat
    /\ Thresholds \subseteq Nat \ {0}
    /\ OpTtls \subseteq Nat \ {0} /\ DefaultOpTtl \in Nat \ {0}
    /\ MaxOps \in Nat

VARIABLES
    threshold, opTtl,   \* configuration
    opCount,            \* the last operation id given out
    ops                 \* the pending operation of each id, while it is pending

multisigVars == <<threshold, opTtl, opCount, ops>>
OpIds == DOMAIN ops

MultiSigInit ==
    /\ threshold = 1 /\ opTtl = DefaultOpTtl
    /\ opCount = 0
    /\ ops = <<>>

\* The flag alone; the history of the pause begins when the flag goes up.
SetPausedFlag(flag) ==
    /\ paused' = flag
    /\ pause' = IF flag /\ ~paused
                THEN [since |-> now, votes |-> {}, recorded |-> FALSE]
                ELSE [pause EXCEPT !.recorded = FALSE]
    /\ UNCHANGED <<now, pauseSeq, activeSeq, pausedAt, voters, voteCount,
                   pauseTimelock, unpauseQuorum, platformBps>>

ExecuteOperation(op) ==
    \/ op.type = "Pause" /\ SetPausedFlag(TRUE)
    \/ op.type = "Unpause" /\ SetPausedFlag(FALSE)
    \/ op.type = "UpdateFee" /\ platformBps' = op.fee /\ UNCHANGED breakerVars
    \/ op.type = "WithdrawFees" /\ UNCHANGED <<breakerVars, platformBps>>

SetMultisigConfig(caller, needed, ttl) ==
    /\ caller \in admins
    /\ threshold' = needed /\ opTtl' = ttl
    /\ UNCHANGED <<opCount, ops, breakerVars, platformBps>>

\* The threshold in force is kept with the operation, and the proposer is its
\* first approver; with a threshold of 1 it executes and is never stored.
ProposeOperation(proposer, type, fee) ==
    LET id == opCount + 1
        op == [type |-> type, fee |-> fee, approvers |-> {proposer},
               threshold |-> threshold, deadline |-> now + opTtl]
    IN  /\ proposer \in admins
        /\ id <= MaxOps
        /\ opCount' = id
        /\ IF threshold = 1
           THEN ExecuteOperation(op) /\ UNCHANGED ops
           ELSE /\ ops' = [i \in OpIds \cup {id} |-> IF i = id THEN op ELSE ops[i]]
                /\ UNCHANGED <<breakerVars, platformBps>>
        /\ UNCHANGED <<threshold, opTtl>>

Forget(id) == ops' = [i \in OpIds \ {id} |-> ops[i]]

\* Mistaken variant: needs one approval more than the threshold.
EnoughApproversOffByOne(approvers, op) == Cardinality(approvers) > op.threshold
EnoughApprovers(approvers, op) == Cardinality(approvers) >= op.threshold

\* Approving an expired operation fails, which rolls its removal back.
ApproveOperation(approver, id) ==
    LET op == ops[id]
        approvers == op.approvers \cup {approver}
    IN  /\ approver \in admins
        /\ now <= op.deadline
        /\ approver \notin op.approvers
        /\ IF EnoughApprovers(approvers, op)
           THEN ExecuteOperation(op) /\ Forget(id)
           ELSE /\ ops' = [ops EXCEPT ![id].approvers = approvers]
                /\ UNCHANGED <<breakerVars, platformBps>>
        /\ UNCHANGED <<threshold, opTtl, opCount>>

ExpireOperation(id) ==
    /\ now > ops[id].deadline
    /\ Forget(id)
    /\ UNCHANGED <<threshold, opTtl, opCount, breakerVars, platformBps>>

MultiSigStep ==
    /\ \/ \E caller \in Addresses :
            \/ \E needed \in Thresholds, ttl \in OpTtls : SetMultisigConfig(caller, needed, ttl)
            \/ \E type \in OpTypes, fee \in OpFees : ProposeOperation(caller, type, fee)
            \/ \E id \in OpIds : ApproveOperation(caller, id)
       \/ \E id \in OpIds : ExpireOperation(id)
    /\ UNCHANGED <<adminVars, configVars, proposalVars, agents, executions>>

-----------------------------------------------------------------------------
MultiSigTypeOK ==
    /\ threshold \in Nat \ {0} /\ opTtl \in Nat \ {0}
    /\ opCount \in 0..MaxOps
    /\ OpIds \subseteq 1..opCount
    /\ \A id \in OpIds :
         ops[id] \in [type : OpTypes, fee : OpFees, approvers : SUBSET Addresses,
                      threshold : Nat \ {0}, deadline : Nat]

(***************************************************************************)
(* An operation waits only while it has fewer approvers than the threshold *)
(* it was proposed under: the approval that reaches the threshold executes *)
(* it, whatever the configuration became in between.                       *)
(***************************************************************************)
WaitingOperationsNeedApproval ==
    \A id \in OpIds : Cardinality(ops[id].approvers) \in 1..(ops[id].threshold - 1)
=============================================================================
