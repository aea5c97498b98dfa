----------------------------- MODULE Governance -----------------------------
(***************************************************************************)
(* Governance proposals (governance.rs): propose, vote, execute after a    *)
(* timelock, or expire.  They change the admins and the quorum they are    *)
(* themselves decided by.  An action is a record [kind, arg];              *)
(* UpdateCooldownPeriod, WhitelistAsset and AdjustReputationThreshold are  *)
(* all of kind "Other": they change settings that nothing here reads.  Nor *)
(* does anything but a report read the list kept for get_admin_list, which *)
(* is left out.                                                            *)
(***************************************************************************)
EXTENDS CircuitBreaker

CONSTANTS
    NamedAdmins, NamedAgents, FeeRates, Quorums, Timelocks, Others,
                        \* what admins may propose actions with
    GovTimelocks,       \* timelocks migrate_to_governance may set
    ProposalTtls,       \* proposal lifetimes it may set, and the default
    DefaultTtl,         \* lifetime before migrate_to_governance
    MaxProposals        \* bound on the number of proposals

\* The actions of each kind that admins may propose.
Actions ==
    [kind : {"AddAdmin", "RemoveAdmin"}, arg : NamedAdmins] \cup
    [kind : {"RegisterAgent", "RemoveAgent"}, arg : NamedAgents] \cup
    [kind : {"UpdateFee"}, arg : FeeRates] \cup
    [kind : {"UpdateQuorum"}, arg : Quorums] \cup
    [kind : {"UpdateTimelock"}, arg : Timelocks] \cup
    [kind : {"Other"}, arg : Others]

ASSUME GovernanceAssumption ==
    /\ NamedAdmins \subseteq Addresses
    /\ FeeRates \subseteq Nat /\ Quorums \subseteq Nat /\ Timelocks \subseteq Nat
    /\ GovTimelocks \subseteq Nat
    /\ ProposalTtls \subseteq Nat /\ DefaultTtl \in Nat
    /\ MaxProposals \in Nat

VARIABLES
    initialized,    \* whether migrate_to_governance has run
    govQuorum, govTimelock, proposalTtl,
    proposalCount,  \* the last proposal id given out
    proposals,      \* the stored proposal of each id, while it is stored
    govVoters,      \* who voted on each id
    activeFee,      \* the id of the active fee proposal, or 0
    agents,         \* registered agents
    platformBps,    \* the platform fee rate
    executions      \* history: how often each id was executed

configVars == <<initialized, govQuorum, govTimelock, proposalTtl>>
proposalVars == <<proposalCount, proposals, govVoters, activeFee>>
effectVars == <<agents, platformBps>>
govVars == <<configVars, proposalVars, effectVars, executions>>

ProposalIds == DOMAIN proposals

GovernanceInit ==
    /\ initialized = FALSE
    /\ govQuorum = 1 /\ govTimelock = 0 /\ proposalTtl = DefaultTtl
    /\ proposalCount = 0
    /\ proposals = <<>>
    /\ govVoters = [id \in 1..MaxProposals |-> {}]
    /\ activeFee = 0
    /\ agents = {} /\ platformBps = 0
    /\ executions = [id \in 1..MaxProposals |-> 0]

MigrateToGovernance(quorum, timelock, ttl) ==
    /\ ~initialized
    /\ quorum \in 1..adminCount
    /\ initialized' = TRUE
    /\ govQuorum' = quorum /\ govTimelock' = timelock /\ proposalTtl' = ttl
    /\ UNCHANGED <<adminVars, proposalVars, effectVars, executions>>

(***************************************************************************)
(* What an action needs, checked when it is proposed and, but for the      *)
(* first of these and AdminNotFound, again when it is executed.            *)
(***************************************************************************)
\* Mistaken variant: the removal's quorum check compares the count before it.
EnoughAdminsBeforeRemoval == adminCount > 1 /\ adminCount >= govQuorum
EnoughAdmins == adminCount > 1 /\ adminCount - 1 >= govQuorum

Proposable(action) ==
    /\ action.kind = "UpdateFee" => activeFee = 0
    /\ action.kind = "RegisterAgent" => action.arg \notin agents
    /\ action.kind = "RemoveAgent" => action.arg \in agents
    /\ action.kind = "AddAdmin" => action.arg \notin admins
    /\ action.kind = "RemoveAdmin" => EnoughAdmins /\ action.arg \in admins
    /\ action.kind = "UpdateQuorum" => action.arg \in 1..adminCount

Propose(proposer, action) ==
    LET id == proposalCount + 1 IN
    /\ proposer \in admins
    /\ ~paused
    /\ Proposable(action)
    /\ id <= MaxProposals
    /\ proposalCount' = id
    /\ proposals' = [i \in ProposalIds \cup {id} |->
                        IF i = id
                        THEN [action |-> action, state |-> "Pending", approvals |-> 0,
                              expiry |-> now + proposalTtl, executeAfter |-> 0]
                        ELSE proposals[i]]
    /\ activeFee' = IF action.kind = "UpdateFee" THEN id ELSE activeFee
    /\ UNCHANGED <<adminVars, configVars, govVoters, effectVars, executions>>

Vote(voter, id) ==
    LET approvals == proposals[id].approvals + 1 IN
    /\ voter \in admins
    /\ proposals[id].state = "Pending"
    /\ voter \notin govVoters[id]
    /\ govVoters' = [govVoters EXCEPT ![id] = @ \cup {voter}]
    /\ proposals' =
         [proposals EXCEPT ![id] =
            IF approvals >= govQuorum
            THEN [@ EXCEPT !.approvals = approvals, !.state = "Approved",
                           !.executeAfter = now + govTimelock]
            ELSE [@ EXCEPT !.approvals = approvals]]
    /\ UNCHANGED <<adminVars, configVars, proposalCount, activeFee, effectVars, executions>>

-----------------------------------------------------------------------------
(***************************************************************************)
(* The effect of each kind of action.                                      *)
(***************************************************************************)
\* Mistaken variant: forgets the guard of the active fee proposal.
ApplyFeeKeepingGuard(bps) ==
    /\ platformBps' = bps
    /\ UNCHANGED <<adminVars, govQuorum, govTimelock, activeFee, agents>>

ApplyFee(bps) ==
    /\ platformBps' = bps
    /\ activeFee' = 0
    /\ UNCHANGED <<adminVars, govQuorum, govTimelock, agents>>

ApplyRegisterAgent(agent) ==
    /\ agent \notin agents
    /\ agents' = agents \cup {agent}
    /\ UNCHANGED <<adminVars, govQuorum, govTimelock, activeFee, platformBps>>

ApplyRemoveAgent(agent) ==
    /\ agent \in agents
    /\ agents' = agents \ {agent}
    /\ UNCHANGED <<adminVars, govQuorum, govTimelock, activeFee, platformBps>>

ApplyAddAdmin(executor, a) ==
    /\ a \notin admins
    /\ adminCount < MaxAdminCount
    /\ admins' = admins \cup {a}
    /\ roleAdmins' = roleAdmins \cup {a}
    /\ adminCount' = adminCount + 1
    /\ UNCHANGED <<legacy, pendingAdmin, govQuorum, govTimelock, activeFee, agents, platformBps>>

\* Whether a is still an admin is not asked again.
ApplyRemoveAdmin(executor, a) ==
    /\ EnoughAdmins
    /\ DropAdmin(executor, a)
    /\ UNCHANGED <<govQuorum, govTimelock, activeFee, agents, platformBps>>

ApplyQuorum(quorum) ==
    /\ quorum \in 1..adminCount
    /\ govQuorum' = quorum
    /\ UNCHANGED <<adminVars, govTimelock, activeFee, effectVars>>

ApplyTimelock(seconds) ==
    /\ govTimelock' = seconds
    /\ UNCHANGED <<adminVars, govQuorum, activeFee, effectVars>>

Dispatch(executor, action) ==
    \/ action.kind = "UpdateFee" /\ ApplyFee(action.arg)
    \/ action.kind = "RegisterAgent" /\ ApplyRegisterAgent(action.arg)
    \/ action.kind = "RemoveAgent" /\ ApplyRemoveAgent(action.arg)
    \/ action.kind = "AddAdmin" /\ ApplyAddAdmin(executor, action.arg)
    \/ action.kind = "RemoveAdmin" /\ ApplyRemoveAdmin(executor, action.arg)
    \/ action.kind = "UpdateQuorum" /\ ApplyQuorum(action.arg)
    \/ action.kind = "UpdateTimelock" /\ ApplyTimelock(action.arg)
    \/ /\ action.kind = "Other"
       /\ UNCHANGED <<adminVars, govQuorum, govTimelock, activeFee, effectVars>>

\* Mistaken variant: an executed proposal stays approved.
StateAfterExecutionForgotten == "Approved"
StateAfterExecution == "Executed"

\* The timelock is looked at, the expiry is not.
Execute(executor, id) ==
    /\ executor \in admins
    /\ proposals[id].state = "Approved"
    /\ now >= proposals[id].executeAfter
    /\ Dispatch(executor, proposals[id].action)
    /\ proposals' = [proposals EXCEPT ![id].state = StateAfterExecution]
    /\ executions' = [executions EXCEPT ![id] = @ + 1]
    /\ UNCHANGED <<initialized, proposalTtl, proposalCount, govVoters>>

\* Deleting proposals; the guard goes with the active fee proposal.
Delete(ids) ==
    /\ proposals' = [i \in ProposalIds \ ids |-> proposals[i]]
    /\ activeFee' = IF activeFee \in {i \in ids : proposals[i].action.kind = "UpdateFee"}
                    THEN 0 ELSE activeFee
    /\ UNCHANGED <<adminVars, configVars, proposalCount, govVoters, effectVars, executions>>

Expire(id) ==
    /\ proposals[id].state \in {"Pending", "Approved"}
    /\ now >= proposals[id].expiry
    /\ Delete({id})

\* Of the ids given, those not stored or not executed are skipped.
CleanupProposals(caller, ids) ==
    /\ caller \in admins
    /\ Delete({i \in ids \cap ProposalIds : proposals[i].state = "Executed"})

GovernanceStep ==
    \/ \E quorum \in 1..MaxAdminCount, timelock \in GovTimelocks, ttl \in ProposalTtls :
         MigrateToGovernance(quorum, timelock, ttl)
    \/ \E caller \in Addresses :
         \/ \E action \in Actions : Propose(caller, action)
         \/ \E id \in ProposalIds : Vote(caller, id) \/ Execute(caller, id)
         \/ \E ids \in SUBSET (1..MaxProposals) : CleanupProposals(caller, ids)
    \/ \E id \in ProposalIds : Expire(id)

-----------------------------------------------------------------------------
ProposalRecord ==
    [action : Actions, state : {"Pending", "Approved", "Executed"},
     approvals : Nat, expiry : Nat, executeAfter : Nat]

GovernanceTypeOK ==
    /\ initialized \in BOOLEAN
    /\ govQuorum \in Nat \ {0} /\ govTimelock \in Nat /\ proposalTtl \in Nat
    /\ proposalCount \in 0..MaxProposals
    /\ ProposalIds \subseteq 1..proposalCount
    /\ \A id \in ProposalIds : proposals[id] \in ProposalRecord
    /\ govVoters \in [1..MaxProposals -> SUBSET Addresses]
    /\ activeFee \in 0..MaxProposals
    /\ platformBps \in Nat
    /\ executions \in [1..MaxProposals -> Nat]

(***************************************************************************)
(* ActiveFeeProposal names the one open proposal to update the fee, and    *)
(* nothing when there is none: a fee proposal that is executed, expired or *)
(* cleaned up never blocks the next one.                                   *)
(***************************************************************************)
FeeGuardIsOpenProposal ==
    {id \in ProposalIds : /\ proposals[id].action.kind = "UpdateFee"
                          /\ proposals[id].state # "Executed"}
        = {activeFee} \ {0}

(***************************************************************************)
(* A proposal is executed at most once, whatever is deleted in between,    *)
(* and only with as many different admins' votes as it counts approvals.   *)
(***************************************************************************)
ExecutedOnce ==
    /\ \A id \in 1..MaxProposals : executions[id] <= 1
    /\ \A id \in ProposalIds :
         /\ executions[id] = 1 <=> proposals[id].state = "Executed"
         /\ proposals[id].approvals = Cardinality(govVoters[id])
=============================================================================
