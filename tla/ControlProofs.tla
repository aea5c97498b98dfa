--------------------------- MODULE ControlProofs ----------------------------
(***************************************************************************)
(* Proofs about Control: for any addresses, actions, thresholds and bounds *)
(* the safety invariants of ControlGovernance.cfg and ControlPause.cfg     *)
(* hold, a recorded pause is ended by vote only when it has earned it, and *)
(* only the direct remove_admin puts the quorum out of reach.              *)
(*                                                                         *)
(* The inductive invariant adds three facts to those invariants.  Sequence *)
(* numbers: the active pause is one that was recorded, without which a     *)
(* vote could wait under a number still to come.  The record of a pause:   *)
(* while a recorded pause lasts, the votes and the time stored under its   *)
(* number are its own.  Ids to come: nothing is stored under a proposal id *)
(* that was not given out yet.                                             *)
(***************************************************************************)
EXTENDS Control, FiniteSetTheorems, TLAPS

ActiveWasRecorded == activeSeq <= pauseSeq

RecordIsOfThisPause ==
    pause.recorded /\ paused =>
        /\ activeSeq # 0
        /\ pausedAt[activeSeq] = pause.since
        /\ voters[activeSeq] = pause.votes

NothingUnderIdsToCome ==
    \A id \in 1..MaxProposals :
        id > proposalCount => executions[id] = 0 /\ govVoters[id] = {}

BreakerInv ==
    BreakerTypeOK /\ VoteCountIsVoters /\ ActiveWasRecorded /\ RecordIsOfThisPause

GovernanceInv ==
    GovernanceTypeOK /\ FeeGuardIsOpenProposal /\ ExecutedOnce /\ NothingUnderIdsToCome

MultiSigInv == MultiSigTypeOK /\ WaitingOperationsNeedApproval

IInv == AdminTypeOK /\ BreakerInv /\ GovernanceInv /\ MultiSigInv

\* What the arguments of actions are.
LEMMA ActionsFit ==
    \A a \in Actions :
        /\ a = [kind |-> a.kind, arg |-> a.arg]
        /\ a.kind \in {"AddAdmin", "RemoveAdmin"} => a.arg \in Addresses
        /\ a.kind \in {"UpdateFee", "UpdateQuorum", "UpdateTimelock"} => a.arg \in Nat
<1> SUFFICES ASSUME NEW a \in Actions
             PROVE  /\ a = [kind |-> a.kind, arg |-> a.arg]
                    /\ a.kind \in {"AddAdmin", "RemoveAdmin"} => a.arg \in Addresses
                    /\ a.kind \in {"UpdateFee", "UpdateQuorum", "UpdateTimelock"} => a.arg \in Nat
    OBVIOUS
<1>1. CASE a \in [kind : {"AddAdmin", "RemoveAdmin"}, arg : NamedAdmins]
    BY <1>1, GovernanceAssumption DEF GovernanceAssumption
<1>2. CASE a \in [kind : {"RegisterAgent", "RemoveAgent"}, arg : NamedAgents]
    BY <1>2
<1>3. CASE a \in [kind : {"UpdateFee"}, arg : FeeRates]
    BY <1>3, GovernanceAssumption DEF GovernanceAssumption
<1>4. CASE a \in [kind : {"UpdateQuorum"}, arg : Quorums]
    BY <1>4, GovernanceAssumption DEF GovernanceAssumption
<1>5. CASE a \in [kind : {"UpdateTimelock"}, arg : Timelocks]
    BY <1>5, GovernanceAssumption DEF GovernanceAssumption
<1>6. CASE a \in [kind : {"Other"}, arg : Others]
    BY <1>6
<1> QED
    BY <1>1, <1>2, <1>3, <1>4, <1>5, <1>6 DEF Actions

-----------------------------------------------------------------------------
(***************************************************************************)
(* A component whose variables a step leaves alone keeps its invariant.    *)
(***************************************************************************)
LEMMA AdminFrame == AdminTypeOK /\ UNCHANGED adminVars => AdminTypeOK'
BY DEF AdminTypeOK, adminVars

LEMMA BreakerFrame == BreakerInv /\ UNCHANGED breakerVars => BreakerInv'
BY DEF BreakerInv, BreakerTypeOK, VoteCountIsVoters, ActiveWasRecorded,
       RecordIsOfThisPause, breakerVars, pauseVars

LEMMA GovernanceFrame ==
    GovernanceInv /\ UNCHANGED <<configVars, proposalVars, executions>> /\ platformBps' \in Nat
        => GovernanceInv'
BY DEF GovernanceInv, GovernanceTypeOK, FeeGuardIsOpenProposal, ExecutedOnce,
       NothingUnderIdsToCome, ProposalIds, configVars, proposalVars

LEMMA MultiSigFrame == MultiSigInv /\ UNCHANGED multisigVars => MultiSigInv'
BY DEF MultiSigInv, MultiSigTypeOK, WaitingOperationsNeedApproval, OpIds, multisigVars

-----------------------------------------------------------------------------
(***************************************************************************)
(* The admins' own entry points.                                           *)
(***************************************************************************)
LEMMA DropAdminKeepsTypes ==
    AdminTypeOK =>
        \A remover \in Addresses : \A a :
            adminCount > 1 /\ DropAdmin(remover, a) => AdminTypeOK'
BY DEF AdminTypeOK, DropAdmin

LEMMA AdminStepKeepsTypes == AdminTypeOK /\ AdminStep => AdminTypeOK'
<1> SUFFICES ASSUME AdminTypeOK, AdminStep PROVE AdminTypeOK'
    OBVIOUS
<1> USE AdminAssumption
<1>1. CASE \E caller, a \in Addresses : AddAdmin(caller, a)
    BY <1>1 DEF AdminTypeOK, AddAdmin
<1>2. CASE \E caller, a \in Addresses : RemoveAdmin(caller, a)
    BY <1>2, DropAdminKeepsTypes DEF RemoveAdmin
<1>3. CASE \E caller \in Addresses, a \in RoleTargets :
              AssignAdminRole(caller, a) \/ RemoveAdminRole(caller, a)
    BY <1>3 DEF AdminTypeOK, AdminAssumption, AssignAdminRole, RemoveAdminRole
<1>4. CASE \E a \in TransferTargets : ProposeAdmin(a)
    BY <1>4 DEF AdminTypeOK, AdminAssumption, ProposeAdmin
<1>5. CASE AcceptAdmin
    BY <1>5 DEF AdminTypeOK, AcceptAdmin
<1> QED
    BY <1>1, <1>2, <1>3, <1>4, <1>5 DEF AdminStep

-----------------------------------------------------------------------------
(***************************************************************************)
(* The circuit breaker.                                                    *)
(***************************************************************************)
LEMMA FinitelyMany == \A S \in SUBSET Addresses : IsFiniteSet(S)
BY AdminAssumption, FS_Subset DEF AdminAssumption

LEMMA OneMoreMember ==
    \A S \in SUBSET Addresses, a \in Addresses :
        /\ Cardinality(S) \in Nat
        /\ a \notin S => Cardinality(S \cup {a}) = Cardinality(S) + 1
BY FinitelyMany, FS_AddElement, FS_CardinalityType

\* Recording a pause starts a number nobody has voted under.
LEMMA RecordPauseKeepsInv ==
    BreakerInv /\ RecordPause /\ UNCHANGED <<now, pauseTimelock, unpauseQuorum>>
        => BreakerInv'
<1> SUFFICES ASSUME BreakerInv, RecordPause,
                    UNCHANGED <<now, pauseTimelock, unpauseQuorum>>
             PROVE  BreakerInv'
    OBVIOUS
<1> USE BreakerAssumption DEF BreakerAssumption, BreakerInv
<1>1. /\ pauseSeq + 1 \in 1..MaxPauses /\ pauseSeq' = pauseSeq + 1
      /\ activeSeq' = pauseSeq + 1 /\ voters' = voters
    BY DEF BreakerTypeOK, RecordPause
<1>2. BreakerTypeOK'
    BY <1>1 DEF BreakerTypeOK, RecordPause
<1>3. voters[pauseSeq + 1] = {}
    BY <1>1 DEF VoteCountIsVoters, BreakerTypeOK
<1>4. VoteCountIsVoters'
  <2> SUFFICES ASSUME NEW s \in 0..MaxPauses
               PROVE  /\ voteCount'[s] = Cardinality(voters[s])
                      /\ s > pauseSeq + 1 => voters[s] = {}
      BY <1>1 DEF VoteCountIsVoters
  <2>1. voteCount' = [voteCount EXCEPT ![pauseSeq + 1] = 0]
      BY <1>1 DEF RecordPause
  <2>2. CASE s = pauseSeq + 1
      BY <2>1, <2>2, <1>1, <1>3, FS_EmptySet DEF BreakerTypeOK
  <2>3. CASE s # pauseSeq + 1
      BY <2>1, <2>3, <1>1 DEF VoteCountIsVoters, BreakerTypeOK
  <2> QED
      BY <2>2, <2>3
<1>5. ActiveWasRecorded' /\ RecordIsOfThisPause'
    BY <1>1, <1>3 DEF ActiveWasRecorded, RecordIsOfThisPause, BreakerTypeOK, RecordPause
<1> QED
    BY <1>2, <1>4, <1>5

\* Lifting a pause without a vote.
LEMMA LiftKeepsInv ==
    BreakerInv /\ Lift
    /\ UNCHANGED <<now, voters, voteCount, pauseTimelock, unpauseQuorum, pause>>
        => BreakerInv'
<1> SUFFICES ASSUME BreakerInv, Lift,
                    UNCHANGED <<now, voters, voteCount, pauseTimelock, unpauseQuorum, pause>>
             PROVE  BreakerInv'
    OBVIOUS
<1> USE BreakerAssumption DEF BreakerAssumption, BreakerInv, Lift
<1>1. BreakerTypeOK'
  <2>1. paused' \in BOOLEAN
      OBVIOUS
  <2>2. activeSeq' \in 0..MaxPauses
      OBVIOUS
  <2> QED
      BY <2>1, <2>2 DEF BreakerTypeOK
<1>2. VoteCountIsVoters'
    BY DEF VoteCountIsVoters
<1>3. ActiveWasRecorded' /\ RecordIsOfThisPause'
    BY DEF ActiveWasRecorded, RecordIsOfThisPause, BreakerTypeOK
<1> QED
    BY <1>1, <1>2, <1>3

\* A vote is counted under the active number, whether it lifts the pause or not.
LEMMA VoteKeepsInv ==
    BreakerInv => \A caller \in Addresses : VoteUnpause(caller) => BreakerInv'
<1> SUFFICES ASSUME BreakerInv, NEW caller \in Addresses, VoteUnpause(caller)
             PROVE  BreakerInv'
    OBVIOUS
<1> USE BreakerAssumption DEF BreakerAssumption, BreakerInv
<1>1. /\ voters' = [voters EXCEPT ![activeSeq] = @ \cup {caller}]
      /\ voteCount' = [voteCount EXCEPT ![activeSeq] = @ + 1]
      /\ pause' = [pause EXCEPT !.votes = @ \cup {caller}]
      /\ caller \notin voters[activeSeq]
      /\ UNCHANGED <<now, pauseSeq, pausedAt, pauseTimelock, unpauseQuorum>>
      /\ \/ paused' = FALSE /\ activeSeq' = 0
         \/ UNCHANGED <<paused, activeSeq>>
    BY DEF VoteUnpause, MayVote, Lift
<1>2. BreakerTypeOK'
  <2>1. activeSeq \in 0..MaxPauses /\ paused \in BOOLEAN
      BY DEF BreakerTypeOK
  <2>6. paused' \in BOOLEAN
      BY <1>1, <2>1
  <2>7. activeSeq' \in 0..MaxPauses
      BY <1>1, <2>1
  <2>2. voters' \in [0..MaxPauses -> SUBSET Addresses]
      BY <1>1, <2>1 DEF BreakerTypeOK
  <2>3. voteCount[activeSeq] + 1 \in Nat
      BY <2>1 DEF BreakerTypeOK
  <2>4. voteCount' \in [0..MaxPauses -> Nat]
      BY <1>1, <2>1, <2>3 DEF BreakerTypeOK
  <2>5. pause' \in [since : Nat, votes : SUBSET Addresses, recorded : BOOLEAN]
      BY <1>1 DEF BreakerTypeOK
  <2> QED
      BY <1>1, <2>2, <2>4, <2>5, <2>6, <2>7 DEF BreakerTypeOK
<1>3. VoteCountIsVoters'
  <2> SUFFICES ASSUME NEW s \in 0..MaxPauses
               PROVE  /\ voteCount'[s] = Cardinality(voters'[s])
                      /\ s > pauseSeq => voters'[s] = {}
      BY <1>1 DEF VoteCountIsVoters
  <2>1. voters[activeSeq] \in SUBSET Addresses /\ activeSeq \in 0..MaxPauses
      BY DEF BreakerTypeOK
  <2>2. CASE s = activeSeq
    <3>1. voters'[s] = voters[s] \cup {caller} /\ voteCount'[s] = voteCount[s] + 1
        BY <1>1, <2>2 DEF BreakerTypeOK
    <3>2. Cardinality(voters[s] \cup {caller}) = Cardinality(voters[s]) + 1
        BY <1>1, <2>1, <2>2, OneMoreMember
    <3>3. ~(s > pauseSeq)
        BY <2>1, <2>2 DEF ActiveWasRecorded, BreakerTypeOK
    <3> QED
        BY <3>1, <3>2, <3>3 DEF VoteCountIsVoters
  <2>3. CASE s # activeSeq
      BY <2>3, <1>1 DEF VoteCountIsVoters, BreakerTypeOK
  <2> QED
      BY <2>2, <2>3
<1>4. ActiveWasRecorded'
    BY <1>1 DEF BreakerTypeOK, ActiveWasRecorded
<1>5. RecordIsOfThisPause'
    BY <1>1 DEF BreakerTypeOK, RecordIsOfThisPause
<1> QED
    BY <1>2, <1>3, <1>4, <1>5

LEMMA BreakerStepKeepsInv == BreakerInv /\ AdminTypeOK /\ BreakerStep => BreakerInv'
<1> SUFFICES ASSUME BreakerInv, AdminTypeOK, BreakerStep PROVE BreakerInv'
    OBVIOUS
<1>1. CASE Pause \/ \E caller \in Addresses : EmergencyPause(caller)
    BY <1>1, RecordPauseKeepsInv DEF Pause, EmergencyPause
<1>2. CASE Unpause \/ \E caller \in Addresses : EmergencyUnpause(caller)
    BY <1>2, LiftKeepsInv DEF Unpause, EmergencyUnpause
<1>3. CASE \E caller \in Addresses : VoteUnpause(caller)
    BY <1>3, VoteKeepsInv
<1>4. CASE Tick \/ \E caller \in Addresses :
                      \/ \E seconds \in PauseTimelocks : SetPauseTimelock(caller, seconds)
                      \/ \E quorum \in UnpauseQuorums : SetUnpauseQuorum(caller, quorum)
  <2>1. UNCHANGED pauseVars
      BY <1>4 DEF Tick, SetPauseTimelock, SetUnpauseQuorum
  <2>2. now' \in Nat
      BY <1>4 DEF Tick, SetPauseTimelock, SetUnpauseQuorum, BreakerInv, BreakerTypeOK
  <2>3. pauseTimelock' \in Nat
      BY <1>4, BreakerAssumption
         DEF Tick, SetPauseTimelock, SetUnpauseQuorum, BreakerInv, BreakerTypeOK,
             BreakerAssumption
  <2>4. unpauseQuorum' \in Nat \ {0}
      BY <1>4 DEF Tick, SetPauseTimelock, SetUnpauseQuorum, BreakerInv, BreakerTypeOK,
                  AdminTypeOK
  <2> QED
      BY <2>1, <2>2, <2>3, <2>4
         DEF BreakerInv, BreakerTypeOK, VoteCountIsVoters, ActiveWasRecorded,
             RecordIsOfThisPause, pauseVars
<1> QED
    BY <1>1, <1>2, <1>3, <1>4 DEF BreakerStep

\* A multi-signature operation may move the flag, never the records.
LEMMA OperationKeepsBreakerInv ==
    BreakerInv => \A op : ExecuteOperation(op) => BreakerInv'
<1> SUFFICES ASSUME BreakerInv, NEW op, ExecuteOperation(op) PROVE BreakerInv'
    OBVIOUS
<1> USE BreakerAssumption
    DEF BreakerAssumption, BreakerInv, BreakerTypeOK, VoteCountIsVoters, ActiveWasRecorded,
        RecordIsOfThisPause
<1>1. CASE UNCHANGED breakerVars
    BY <1>1 DEF breakerVars, pauseVars
<1>2. CASE SetPausedFlag(TRUE)
    BY <1>2 DEF SetPausedFlag
<1>3. CASE SetPausedFlag(FALSE)
    BY <1>3 DEF SetPausedFlag
<1> QED
    BY <1>1, <1>2, <1>3 DEF ExecuteOperation

-----------------------------------------------------------------------------
(***************************************************************************)
(* Governance.                                                             *)
(***************************************************************************)
LEMMA MigrateKeepsInv ==
    GovernanceInv /\ AdminTypeOK =>
        \A quorum, timelock \in Nat, ttl \in Nat :
            MigrateToGovernance(quorum, timelock, ttl) => GovernanceInv'
<1> SUFFICES ASSUME GovernanceInv, AdminTypeOK,
                    NEW quorum \in Nat, NEW timelock \in Nat, NEW ttl \in Nat,
                    MigrateToGovernance(quorum, timelock, ttl)
             PROVE  GovernanceInv'
    OBVIOUS
<1> USE DEF GovernanceInv
<1>1. /\ UNCHANGED <<proposalVars, effectVars, executions>>
      /\ initialized' = TRUE /\ govTimelock' \in Nat /\ proposalTtl' \in Nat
      /\ govQuorum' \in Nat \ {0}
    BY DEF MigrateToGovernance, AdminTypeOK
<1>2. initialized' \in BOOLEAN
    BY <1>1
<1>3. GovernanceTypeOK'
    BY <1>1, <1>2 DEF GovernanceTypeOK, ProposalIds, proposalVars, effectVars
<1>4. FeeGuardIsOpenProposal' /\ ExecutedOnce' /\ NothingUnderIdsToCome'
    BY <1>1 DEF FeeGuardIsOpenProposal, ExecutedOnce, NothingUnderIdsToCome, ProposalIds,
                proposalVars
<1> QED
    BY <1>3, <1>4

LEMMA ProposeKeepsInv ==
    GovernanceInv /\ BreakerTypeOK =>
        \A proposer \in Addresses, action \in Actions :
            Propose(proposer, action) => GovernanceInv'
<1> SUFFICES ASSUME GovernanceInv, BreakerTypeOK,
                    NEW proposer \in Addresses, NEW action \in Actions,
                    Propose(proposer, action)
             PROVE  GovernanceInv'
    OBVIOUS
<1> USE DEF GovernanceInv
<1> DEFINE id == proposalCount + 1
           p == [action |-> action, state |-> "Pending", approvals |-> 0,
                 expiry |-> now + proposalTtl, executeAfter |-> 0]
<1>1. /\ id \in 1..MaxProposals /\ id \notin ProposalIds
      /\ proposalCount' = id /\ proposalCount < id
    BY GovernanceAssumption, ActionsFit DEF GovernanceAssumption, GovernanceTypeOK, Propose
<1>2. ProposalIds' = ProposalIds \cup {id} /\ proposals'[id] = p
      /\ \A i \in ProposalIds : proposals'[i] = proposals[i]
    BY <1>1 DEF Propose, ProposalIds
<1>3. p \in ProposalRecord
    BY DEF BreakerTypeOK, GovernanceTypeOK, ProposalRecord
<1>4. activeFee' = IF action.kind = "UpdateFee" THEN id ELSE activeFee
    BY DEF Propose
<1>5. UNCHANGED <<configVars, govVoters, effectVars, executions>>
    BY DEF Propose
<1>6. action.kind = "UpdateFee" => activeFee = 0
    BY DEF Propose, Proposable
<1>7. p.action = action /\ p.state = "Pending" /\ p.approvals = 0
    OBVIOUS
<1> HIDE DEF id, p
<1>8. GovernanceTypeOK'
  <2>1. activeFee' \in 0..MaxProposals
      BY <1>1, <1>4 DEF GovernanceTypeOK
  <2>2. ProposalIds' \subseteq 1..proposalCount'
      BY <1>1, <1>2 DEF GovernanceTypeOK, id
  <2>3. \A i \in ProposalIds' : proposals'[i] \in ProposalRecord
      BY <1>2, <1>3 DEF GovernanceTypeOK
  <2>4. proposalCount' \in 0..MaxProposals
      BY <1>1
  <2> QED
      BY <1>5, <2>1, <2>2, <2>3, <2>4 DEF GovernanceTypeOK, configVars, effectVars
<1>9. FeeGuardIsOpenProposal'
  <2>1. CASE action.kind = "UpdateFee"
      BY <1>1, <1>2, <1>4, <1>6, <1>7, <2>1 DEF FeeGuardIsOpenProposal
  <2>2. CASE action.kind # "UpdateFee"
      BY <1>1, <1>2, <1>4, <1>7, <2>2 DEF FeeGuardIsOpenProposal
  <2> QED
      BY <2>1, <2>2
<1>10. ExecutedOnce'
  <2>1. executions[id] = 0 /\ govVoters[id] = {}
      BY <1>1 DEF NothingUnderIdsToCome
  <2> QED
      BY <1>1, <1>2, <1>5, <1>7, <2>1, FS_EmptySet DEF ExecutedOnce
<1>11. NothingUnderIdsToCome'
    BY <1>1, <1>5 DEF NothingUnderIdsToCome, GovernanceTypeOK
<1> QED
    BY <1>8, <1>9, <1>10, <1>11

LEMMA VoteOnProposalKeepsInv ==
    GovernanceInv /\ BreakerTypeOK =>
        \A voter \in Addresses, id \in ProposalIds : Vote(voter, id) => GovernanceInv'
<1> SUFFICES ASSUME GovernanceInv, BreakerTypeOK,
                    NEW voter \in Addresses, NEW id \in ProposalIds, Vote(voter, id)
             PROVE  GovernanceInv'
    OBVIOUS
<1> USE DEF GovernanceInv
<1> DEFINE p == proposals[id]
           q == proposals'[id]
<1>1. id \in 1..MaxProposals /\ id <= proposalCount /\ p \in ProposalRecord
    BY GovernanceAssumption, ActionsFit DEF GovernanceAssumption, GovernanceTypeOK
<1>2. /\ ProposalIds' = ProposalIds
      /\ \A i \in ProposalIds \ {id} : proposals'[i] = proposals[i]
    BY DEF Vote, ProposalIds
<1>3. \/ q = [p EXCEPT !.approvals = p.approvals + 1, !.state = "Approved",
                      !.executeAfter = now + govTimelock]
      \/ q = [p EXCEPT !.approvals = p.approvals + 1]
    BY DEF Vote, ProposalIds
<1>3a. p.state = "Pending"
    BY DEF Vote
<1>3b. p.approvals + 1 \in Nat /\ now + govTimelock \in Nat
    BY <1>1 DEF BreakerTypeOK, GovernanceTypeOK, ProposalRecord
<1> HIDE DEF p, q
<1>4. /\ q.action = p.action /\ q.state \in {"Pending", "Approved"}
      /\ p.state = "Pending" /\ q.approvals = p.approvals + 1
    BY <1>1, <1>3, <1>3a DEF ProposalRecord
<1>5. q \in ProposalRecord
    BY <1>1, <1>3, <1>3b DEF ProposalRecord
<1>6. /\ UNCHANGED <<configVars, proposalCount, activeFee, effectVars, executions>>
      /\ govVoters' = [govVoters EXCEPT ![id] = @ \cup {voter}]
      /\ voter \notin govVoters[id]
    BY DEF Vote
<1>7. GovernanceTypeOK'
  <2>1. \A i \in ProposalIds' : proposals'[i] \in ProposalRecord
      BY <1>2, <1>5 DEF GovernanceTypeOK, q
  <2>2. govVoters' \in [1..MaxProposals -> SUBSET Addresses]
      BY <1>1, <1>6 DEF GovernanceTypeOK
  <2> QED
      BY <1>2, <1>6, <2>1, <2>2 DEF GovernanceTypeOK, configVars, effectVars
<1>8. FeeGuardIsOpenProposal'
    BY <1>2, <1>4, <1>6 DEF FeeGuardIsOpenProposal, p, q
<1>9. ExecutedOnce'
  <2>1. govVoters'[id] = govVoters[id] \cup {voter} /\ govVoters[id] \in SUBSET Addresses
        /\ \A i \in 1..MaxProposals : i # id => govVoters'[i] = govVoters[i]
      BY <1>1, <1>6 DEF GovernanceTypeOK
  <2>2. q.approvals = Cardinality(govVoters'[id])
      BY <1>4, <1>6, <2>1, OneMoreMember DEF ExecutedOnce, p
  <2>3. executions[id] # 1
      BY <1>4 DEF ExecutedOnce, p
  <2>4. ProposalIds \subseteq 1..MaxProposals
      BY GovernanceAssumption, ActionsFit DEF GovernanceAssumption, GovernanceTypeOK
  <2> QED
      BY <1>2, <1>4, <1>6, <2>1, <2>2, <2>3, <2>4 DEF ExecutedOnce, q
<1>10. NothingUnderIdsToCome'
    BY <1>1, <1>6 DEF NothingUnderIdsToCome, GovernanceTypeOK
<1> QED
    BY <1>7, <1>8, <1>9, <1>10

\* What an action does, whoever executes it.
LEMMA DispatchEffect ==
    AdminTypeOK /\ GovernanceTypeOK =>
        \A executor \in Addresses, action \in Actions :
            Dispatch(executor, action) =>
                /\ AdminTypeOK'
                /\ govQuorum' \in Nat \ {0} /\ govTimelock' \in Nat /\ platformBps' \in Nat
                /\ activeFee' = IF action.kind = "UpdateFee" THEN 0 ELSE activeFee
<1> SUFFICES ASSUME AdminTypeOK, GovernanceTypeOK,
                    NEW executor \in Addresses, NEW action \in Actions,
                    Dispatch(executor, action)
             PROVE  /\ AdminTypeOK'
                    /\ govQuorum' \in Nat \ {0} /\ govTimelock' \in Nat /\ platformBps' \in Nat
                    /\ activeFee' = IF action.kind = "UpdateFee" THEN 0 ELSE activeFee
    OBVIOUS
<1>0. /\ action.kind \in {"AddAdmin", "RemoveAdmin"} => action.arg \in Addresses
      /\ action.kind \in {"UpdateFee", "UpdateQuorum", "UpdateTimelock"} => action.arg \in Nat
    BY GovernanceAssumption, ActionsFit DEF GovernanceAssumption
<1>1. /\ adminCount \in Nat \ {0} /\ govQuorum \in Nat \ {0} /\ govTimelock \in Nat
      /\ platformBps \in Nat
    BY DEF AdminTypeOK, GovernanceTypeOK
<1>2. CASE action.kind = "UpdateFee" /\ ApplyFee(action.arg)
    BY <1>0, <1>1, <1>2 DEF ApplyFee, AdminTypeOK, adminVars
<1>3. CASE action.kind = "RegisterAgent" /\ ApplyRegisterAgent(action.arg)
    BY <1>1, <1>3 DEF ApplyRegisterAgent, AdminTypeOK, adminVars
<1>4. CASE action.kind = "RemoveAgent" /\ ApplyRemoveAgent(action.arg)
    BY <1>1, <1>4 DEF ApplyRemoveAgent, AdminTypeOK, adminVars
<1>5. CASE action.kind = "AddAdmin" /\ ApplyAddAdmin(executor, action.arg)
    BY <1>0, <1>1, <1>5 DEF ApplyAddAdmin, AdminTypeOK
<1>6. CASE action.kind = "RemoveAdmin" /\ ApplyRemoveAdmin(executor, action.arg)
    BY <1>1, <1>6, DropAdminKeepsTypes DEF ApplyRemoveAdmin, EnoughAdmins
<1>7. CASE action.kind = "UpdateQuorum" /\ ApplyQuorum(action.arg)
    BY <1>0, <1>1, <1>7 DEF ApplyQuorum, AdminTypeOK, adminVars, effectVars
<1>8. CASE action.kind = "UpdateTimelock" /\ ApplyTimelock(action.arg)
    BY <1>0, <1>1, <1>8 DEF ApplyTimelock, AdminTypeOK, adminVars, effectVars
<1>9. CASE action.kind = "Other" /\ UNCHANGED <<adminVars, govQuorum, govTimelock, activeFee, effectVars>>
    BY <1>1, <1>9 DEF AdminTypeOK, adminVars, effectVars
<1> QED
    BY <1>2, <1>3, <1>4, <1>5, <1>6, <1>7, <1>8, <1>9 DEF Dispatch

LEMMA ExecuteKeepsInv ==
    GovernanceInv /\ AdminTypeOK =>
        \A executor \in Addresses, id \in ProposalIds :
            Execute(executor, id) => GovernanceInv' /\ AdminTypeOK'
<1> SUFFICES ASSUME GovernanceInv, AdminTypeOK,
                    NEW executor \in Addresses, NEW id \in ProposalIds, Execute(executor, id)
             PROVE  GovernanceInv' /\ AdminTypeOK'
    OBVIOUS
<1> USE DEF GovernanceInv
<1> DEFINE p == proposals[id]
           q == proposals'[id]
<1>1. id \in 1..MaxProposals /\ id <= proposalCount /\ p \in ProposalRecord
      /\ ProposalIds \subseteq 1..MaxProposals
    BY GovernanceAssumption, ActionsFit DEF GovernanceAssumption, GovernanceTypeOK
<1>2. /\ ProposalIds' = ProposalIds
      /\ \A i \in ProposalIds \ {id} : proposals'[i] = proposals[i]
      /\ q = [p EXCEPT !.state = "Executed"] /\ p.state = "Approved"
    BY DEF Execute, StateAfterExecution, ProposalIds
<1>3. /\ UNCHANGED <<initialized, proposalTtl, proposalCount, govVoters>>
      /\ executions' = [executions EXCEPT ![id] = @ + 1]
    BY DEF Execute
<1>4. /\ AdminTypeOK'
      /\ govQuorum' \in Nat \ {0} /\ govTimelock' \in Nat /\ platformBps' \in Nat
      /\ activeFee' = IF p.action.kind = "UpdateFee" THEN 0 ELSE activeFee
    BY <1>1, DispatchEffect DEF Execute, ProposalRecord
<1> HIDE DEF p, q
<1>5. q \in ProposalRecord /\ q.state = "Executed" /\ q.action = p.action
      /\ q.approvals = p.approvals
    BY <1>1, <1>2 DEF ProposalRecord
<1>6. executions[id] \in Nat /\ executions[id] # 1 /\ executions[id] <= 1
    BY <1>1, <1>2 DEF ExecutedOnce, GovernanceTypeOK, p
<1>7. executions'[id] = 1 /\ executions' \in [1..MaxProposals -> Nat]
      /\ \A i \in 1..MaxProposals : i # id => executions'[i] = executions[i]
    BY <1>1, <1>3, <1>6 DEF GovernanceTypeOK
<1>8. GovernanceTypeOK'
  <2>1. \A i \in ProposalIds' : proposals'[i] \in ProposalRecord
      BY <1>2, <1>5 DEF GovernanceTypeOK, q
  <2>2. activeFee' \in 0..MaxProposals
      BY <1>4, GovernanceAssumption, ActionsFit DEF GovernanceTypeOK, GovernanceAssumption
  <2> QED
      BY <1>2, <1>3, <1>4, <1>7, <2>1, <2>2 DEF GovernanceTypeOK
<1>9. FeeGuardIsOpenProposal'
  <2>1. CASE p.action.kind = "UpdateFee"
    <3>1. id \in {activeFee} \ {0}
        BY <1>2, <2>1 DEF FeeGuardIsOpenProposal, p
    <3>2. \A i \in ProposalIds \ {id} :
              ~(proposals[i].action.kind = "UpdateFee" /\ proposals[i].state # "Executed")
        BY <3>1 DEF FeeGuardIsOpenProposal
    <3>3. \A i \in ProposalIds' :
              ~(proposals'[i].action.kind = "UpdateFee" /\ proposals'[i].state # "Executed")
      <4> SUFFICES ASSUME NEW i \in ProposalIds'
                   PROVE  ~(/\ proposals'[i].action.kind = "UpdateFee"
                            /\ proposals'[i].state # "Executed")
          OBVIOUS
      <4>1. CASE i = id
          BY <1>5, <4>1 DEF q
      <4>2. CASE i # id
          BY <1>2, <3>2, <4>2
      <4> QED
          BY <4>1, <4>2
    <3>4. activeFee' = 0
        BY <1>4, <2>1
    <3> QED
        BY <3>3, <3>4 DEF FeeGuardIsOpenProposal
  <2>2. CASE p.action.kind # "UpdateFee"
      BY <1>2, <1>4, <1>5, <2>2 DEF FeeGuardIsOpenProposal, p, q
  <2> QED
      BY <2>1, <2>2
<1>10. ExecutedOnce'
  <2>1. \A i \in 1..MaxProposals : executions'[i] <= 1
      BY <1>7 DEF ExecutedOnce
  <2>2. \A i \in ProposalIds \ {id} :
            /\ executions'[i] = 1 <=> proposals'[i].state = "Executed"
            /\ proposals'[i].approvals = Cardinality(govVoters'[i])
      BY <1>1, <1>2, <1>3, <1>7 DEF ExecutedOnce
  <2>3. q.approvals = Cardinality(govVoters'[id])
      BY <1>3, <1>5 DEF ExecutedOnce, p
  <2> QED
      BY <1>2, <1>5, <1>7, <2>1, <2>2, <2>3 DEF ExecutedOnce, q
<1>11. NothingUnderIdsToCome'
    BY <1>1, <1>3, <1>7 DEF NothingUnderIdsToCome, GovernanceTypeOK
<1> QED
    BY <1>4, <1>8, <1>9, <1>10, <1>11

\* Deleting proposals takes the guard along when it names one of them.
LEMMA DeleteKeepsInv ==
    GovernanceInv => \A ids \in SUBSET ProposalIds : Delete(ids) => GovernanceInv'
<1> SUFFICES ASSUME GovernanceInv, NEW ids \in SUBSET ProposalIds, Delete(ids)
             PROVE  GovernanceInv'
    OBVIOUS
<1> USE DEF GovernanceInv
<1>1. ProposalIds' = ProposalIds \ ids /\ \A i \in ProposalIds' : proposals'[i] = proposals[i]
    BY DEF Delete, ProposalIds
<1>2. UNCHANGED <<configVars, proposalCount, govVoters, effectVars, executions>>
    BY DEF Delete
<1>3. activeFee' = IF activeFee \in {i \in ids : proposals[i].action.kind = "UpdateFee"}
                   THEN 0 ELSE activeFee
    BY DEF Delete
<1>4. GovernanceTypeOK'
  <2>1. activeFee' \in 0..MaxProposals
      BY <1>3, GovernanceAssumption, ActionsFit DEF GovernanceTypeOK, GovernanceAssumption
  <2> QED
      BY <1>1, <1>2, <2>1 DEF GovernanceTypeOK, configVars, effectVars
<1>5. FeeGuardIsOpenProposal'
    BY <1>1, <1>3 DEF FeeGuardIsOpenProposal
<1>6. ExecutedOnce' /\ NothingUnderIdsToCome'
    BY <1>1, <1>2 DEF ExecutedOnce, NothingUnderIdsToCome
<1> QED
    BY <1>4, <1>5, <1>6

LEMMA GovernanceStepKeepsInv ==
    GovernanceInv /\ AdminTypeOK /\ BreakerTypeOK /\ GovernanceStep
        => GovernanceInv' /\ AdminTypeOK'
<1> SUFFICES ASSUME GovernanceInv, AdminTypeOK, BreakerTypeOK, GovernanceStep
             PROVE  GovernanceInv' /\ AdminTypeOK'
    OBVIOUS
<1>1. CASE \E quorum \in 1..MaxAdminCount, timelock \in GovTimelocks, ttl \in ProposalTtls :
              MigrateToGovernance(quorum, timelock, ttl)
  <2>1. PICK quorum \in 1..MaxAdminCount, timelock \in GovTimelocks, ttl \in ProposalTtls :
             MigrateToGovernance(quorum, timelock, ttl)
      BY <1>1
  <2>2. quorum \in Nat /\ timelock \in Nat /\ ttl \in Nat
      BY GovernanceAssumption, ActionsFit, AdminAssumption DEF GovernanceAssumption, AdminAssumption
  <2>3. UNCHANGED adminVars
      BY <2>1 DEF MigrateToGovernance
  <2> QED
      BY <2>1, <2>2, <2>3, MigrateKeepsInv DEF AdminTypeOK, adminVars
<1>2. CASE \E caller \in Addresses, action \in Actions : Propose(caller, action)
    BY <1>2, ProposeKeepsInv DEF Propose, AdminTypeOK, adminVars
<1>3. CASE \E caller \in Addresses : \E id \in ProposalIds : Vote(caller, id)
    BY <1>3, VoteOnProposalKeepsInv DEF Vote, AdminTypeOK, adminVars
<1>4. CASE \E caller \in Addresses : \E id \in ProposalIds : Execute(caller, id)
    BY <1>4, ExecuteKeepsInv
<1>5. CASE \E id \in ProposalIds : Expire(id)
  <2>1. PICK id \in ProposalIds : Delete({id})
      BY <1>5 DEF Expire
  <2>2. UNCHANGED adminVars
      BY <2>1 DEF Delete
  <2> QED
      BY <2>1, <2>2, DeleteKeepsInv DEF AdminTypeOK, adminVars
<1>6. CASE \E caller \in Addresses, ids \in SUBSET (1..MaxProposals) : CleanupProposals(caller, ids)
  <2>1. PICK ids \in SUBSET (1..MaxProposals) :
             Delete({i \in ids \cap ProposalIds : proposals[i].state = "Executed"})
      BY <1>6 DEF CleanupProposals
  <2>2. UNCHANGED adminVars
      BY <2>1 DEF Delete
  <2> QED
      BY <2>1, <2>2, DeleteKeepsInv DEF AdminTypeOK, adminVars
<1> QED
    BY <1>1, <1>2, <1>3, <1>4, <1>5, <1>6 DEF GovernanceStep

-----------------------------------------------------------------------------
(***************************************************************************)
(* Multi-signature operations.                                             *)
(***************************************************************************)
OperationRecord ==
    [type : OpTypes, fee : OpFees, approvers : SUBSET Addresses,
     threshold : Nat \ {0}, deadline : Nat]

\* What an operation that is executed leaves alone, and the type of the rate.
LEMMA OperationKeepsRate ==
    \A op : ExecuteOperation(op) /\ op.fee \in Nat /\ platformBps \in Nat => platformBps' \in Nat
BY DEF ExecuteOperation, SetPausedFlag

LEMMA OneAlone == \A a \in Addresses : Cardinality({a}) = 1
BY FS_Singleton

LEMMA ForgetKeepsInv ==
    MultiSigInv => \A id \in OpIds : Forget(id) /\ UNCHANGED <<threshold, opTtl, opCount>>
                        => MultiSigInv'
BY DEF MultiSigInv, MultiSigTypeOK, WaitingOperationsNeedApproval, Forget, OpIds

LEMMA ProposeOperationKeepsInv ==
    MultiSigInv /\ BreakerTypeOK =>
        \A proposer \in Addresses, type \in OpTypes, fee \in OpFees :
            ProposeOperation(proposer, type, fee) => MultiSigInv'
<1> SUFFICES ASSUME MultiSigInv, BreakerTypeOK,
                    NEW proposer \in Addresses, NEW type \in OpTypes, NEW fee \in OpFees,
                    ProposeOperation(proposer, type, fee)
             PROVE  MultiSigInv'
    OBVIOUS
<1> USE DEF MultiSigInv
<1> DEFINE id == opCount + 1
           op == [type |-> type, fee |-> fee, approvers |-> {proposer},
                  threshold |-> threshold, deadline |-> now + opTtl]
<1>1. /\ id \in 1..MaxOps /\ opCount' = id /\ UNCHANGED <<threshold, opTtl>>
      /\ opCount \in Nat /\ id \notin OpIds
    BY MultiSigAssumption DEF MultiSigAssumption, MultiSigTypeOK, ProposeOperation
<1>2. op \in OperationRecord /\ op.approvers = {proposer} /\ op.threshold = threshold
    BY DEF OperationRecord, MultiSigTypeOK, BreakerTypeOK
<1>3. \/ threshold = 1 /\ ops' = ops
      \/ threshold # 1 /\ ops' = [i \in OpIds \cup {id} |-> IF i = id THEN op ELSE ops[i]]
    BY DEF ProposeOperation
<1> HIDE DEF op
<1>4. CASE threshold = 1 /\ ops' = ops
    BY <1>1, <1>4 DEF MultiSigTypeOK, WaitingOperationsNeedApproval, OpIds
<1>5. CASE threshold # 1 /\ ops' = [i \in OpIds \cup {id} |-> IF i = id THEN op ELSE ops[i]]
  <2>1. OpIds' = OpIds \cup {id} /\ ops'[id] = op /\ \A i \in OpIds : ops'[i] = ops[i]
      BY <1>1, <1>5 DEF OpIds
  <2>2. MultiSigTypeOK'
    <3>1. \A i \in OpIds' : ops'[i] \in OperationRecord
        BY <1>2, <2>1 DEF MultiSigTypeOK, OperationRecord
    <3>2. OpIds \subseteq 1..opCount
        BY DEF MultiSigTypeOK
    <3>4. opCount' = id /\ opCount \in Nat /\ OpIds' = OpIds \cup {id}
        BY <1>1, <2>1 DEF MultiSigTypeOK
    <3>5. OpIds \subseteq 1..id /\ id \in 1..id
        BY <3>2, <3>4
    <3>3. OpIds' \subseteq 1..opCount'
        BY <3>4, <3>5
    <3> QED
        BY <1>1, <3>1, <3>3 DEF MultiSigTypeOK, OperationRecord
  <2>3. Cardinality(op.approvers) \in 1..(op.threshold - 1)
      BY <1>2, <1>5, OneAlone DEF MultiSigTypeOK
  <2>4. WaitingOperationsNeedApproval'
      BY <2>1, <2>3 DEF WaitingOperationsNeedApproval
  <2> QED
      BY <2>2, <2>4
<1> QED
    BY <1>3, <1>4, <1>5

LEMMA ApproveOperationKeepsInv ==
    MultiSigInv =>
        \A approver \in Addresses, id \in OpIds :
            ApproveOperation(approver, id) => MultiSigInv'
<1> SUFFICES ASSUME MultiSigInv, NEW approver \in Addresses, NEW id \in OpIds,
                    ApproveOperation(approver, id)
             PROVE  MultiSigInv'
    OBVIOUS
<1> USE DEF MultiSigInv
<1> DEFINE op == ops[id]
           approvers == op.approvers \cup {approver}
           q == ops'[id]
<1>1. op \in OperationRecord /\ UNCHANGED <<threshold, opTtl, opCount>>
      /\ approver \notin op.approvers
    BY DEF MultiSigTypeOK, OperationRecord, ApproveOperation
<1>2. \/ Forget(id)
      \/ ops' = [ops EXCEPT ![id].approvers = approvers]
         /\ ~(Cardinality(approvers) >= op.threshold)
    BY DEF ApproveOperation, EnoughApprovers
<1>3. CASE Forget(id)
    BY <1>1, <1>3, ForgetKeepsInv
<1>4. CASE ops' = [ops EXCEPT ![id].approvers = approvers]
           /\ ~(Cardinality(approvers) >= op.threshold)
  <2>1. /\ OpIds' = OpIds /\ \A i \in OpIds \ {id} : ops'[i] = ops[i]
        /\ q = [op EXCEPT !.approvers = approvers]
      BY <1>4 DEF OpIds
  <2>2. q \in OperationRecord /\ q.approvers = approvers /\ q.threshold = op.threshold
      BY <1>1, <2>1 DEF OperationRecord
  <2>3. Cardinality(approvers) = Cardinality(op.approvers) + 1
        /\ Cardinality(op.approvers) \in Nat /\ op.threshold \in Nat
      BY <1>1, OneMoreMember DEF OperationRecord
  <2>4. Cardinality(approvers) \in 1..(op.threshold - 1)
      BY <1>4, <2>3
  <2> HIDE DEF op, approvers, q
  <2>5. MultiSigTypeOK'
    <3>1. \A i \in OpIds' : ops'[i] \in OperationRecord
        BY <2>1, <2>2 DEF MultiSigTypeOK, OperationRecord, q
    <3> QED
        BY <1>1, <2>1, <3>1 DEF MultiSigTypeOK, OperationRecord
  <2>6. WaitingOperationsNeedApproval'
      BY <2>1, <2>2, <2>4 DEF WaitingOperationsNeedApproval, q
  <2> QED
      BY <2>5, <2>6
<1> QED
    BY <1>2, <1>3, <1>4

LEMMA MultiSigStepKeepsInv ==
    IInv /\ MultiSigStep => MultiSigInv' /\ BreakerInv' /\ platformBps' \in Nat
<1> SUFFICES ASSUME IInv, MultiSigStep
             PROVE  MultiSigInv' /\ BreakerInv' /\ platformBps' \in Nat
    OBVIOUS
<1>0. MultiSigInv /\ BreakerInv /\ BreakerTypeOK /\ platformBps \in Nat
    BY DEF IInv, BreakerInv, GovernanceInv, GovernanceTypeOK
<1>1. CASE \E caller \in Addresses : \E needed \in Thresholds, ttl \in OpTtls :
               SetMultisigConfig(caller, needed, ttl)
  <2>1. /\ UNCHANGED <<opCount, ops>> /\ UNCHANGED breakerVars /\ UNCHANGED platformBps
        /\ threshold' \in Nat \ {0} /\ opTtl' \in Nat \ {0}
      BY <1>1, MultiSigAssumption DEF MultiSigAssumption, SetMultisigConfig
  <2>2. MultiSigInv'
      BY <1>0, <2>1 DEF MultiSigInv, MultiSigTypeOK, WaitingOperationsNeedApproval, OpIds
  <2>3. BreakerInv'
      BY <1>0, <2>1, BreakerFrame
  <2> QED
      BY <1>0, <2>1, <2>2, <2>3
<1>2. CASE \E caller \in Addresses : \E type \in OpTypes, fee \in OpFees :
               ProposeOperation(caller, type, fee)
  <2>1. PICK caller \in Addresses, type \in OpTypes, fee \in OpFees :
             ProposeOperation(caller, type, fee)
      BY <1>2
  <2>2. fee \in Nat
      BY MultiSigAssumption DEF MultiSigAssumption
  <2>3. \/ UNCHANGED breakerVars /\ UNCHANGED platformBps
        \/ ExecuteOperation([type |-> type, fee |-> fee, approvers |-> {caller},
                             threshold |-> threshold, deadline |-> now + opTtl])
      BY <2>1 DEF ProposeOperation
  <2>4. BreakerInv'
      BY <1>0, <2>3, BreakerFrame, OperationKeepsBreakerInv
  <2>5. platformBps' \in Nat
      BY <1>0, <2>2, <2>3, OperationKeepsRate
  <2> QED
      BY <1>0, <2>1, <2>4, <2>5, ProposeOperationKeepsInv
<1>3. CASE \E caller \in Addresses : \E id \in OpIds : ApproveOperation(caller, id)
  <2>1. PICK caller \in Addresses, id \in OpIds : ApproveOperation(caller, id)
      BY <1>3
  <2>2. ops[id].fee \in Nat
      BY <1>0, MultiSigAssumption DEF MultiSigAssumption, MultiSigInv, MultiSigTypeOK
  <2>3. \/ UNCHANGED breakerVars /\ UNCHANGED platformBps
        \/ ExecuteOperation(ops[id])
      BY <2>1 DEF ApproveOperation
  <2>4. BreakerInv'
      BY <1>0, <2>3, BreakerFrame, OperationKeepsBreakerInv
  <2>5. platformBps' \in Nat
      BY <1>0, <2>2, <2>3, OperationKeepsRate
  <2> QED
      BY <1>0, <2>1, <2>4, <2>5, ApproveOperationKeepsInv
<1>4. CASE \E id \in OpIds : ExpireOperation(id)
  <2>1. PICK id \in OpIds : Forget(id) /\ UNCHANGED <<threshold, opTtl, opCount>>
                            /\ UNCHANGED breakerVars /\ UNCHANGED platformBps
      BY <1>4 DEF ExpireOperation
  <2>2. BreakerInv'
      BY <1>0, <2>1, BreakerFrame
  <2> QED
      BY <1>0, <2>1, <2>2, ForgetKeepsInv
<1> QED
    BY <1>1, <1>2, <1>3, <1>4 DEF MultiSigStep

-----------------------------------------------------------------------------
(***************************************************************************)
(* The whole.                                                              *)
(***************************************************************************)
LEMMA InitEstablishesInv == Init => IInv
<1> SUFFICES ASSUME Init PROVE IInv
    OBVIOUS
<1> USE DEF Init
<1>1. AdminTypeOK
    BY DEF AdminInit, AdminTypeOK
<1>2. BreakerInv
  <2> USE BreakerAssumption DEF BreakerAssumption, BreakerInit
  <2>1. BreakerTypeOK
    <3>1. pause \in [since : Nat, votes : SUBSET Addresses, recorded : BOOLEAN]
        OBVIOUS
    <3>2. paused \in BOOLEAN
        OBVIOUS
    <3>3. pausedAt \in [1..MaxPauses -> Nat] /\ voteCount \in [0..MaxPauses -> Nat]
          /\ voters \in [0..MaxPauses -> SUBSET Addresses]
        OBVIOUS
    <3> QED
        BY <3>1, <3>2, <3>3 DEF BreakerTypeOK
  <2>2. VoteCountIsVoters
      BY FS_EmptySet DEF VoteCountIsVoters
  <2>3. ActiveWasRecorded /\ RecordIsOfThisPause
      BY DEF ActiveWasRecorded, RecordIsOfThisPause
  <2> QED
      BY <2>1, <2>2, <2>3 DEF BreakerInv
<1>3. GovernanceInv
  <2> USE GovernanceAssumption, ActionsFit DEF GovernanceAssumption, GovernanceInit
  <2>1. ProposalIds = {}
      BY DEF ProposalIds
  <2>2. initialized \in BOOLEAN
      OBVIOUS
  <2>3. GovernanceTypeOK
      BY <2>1, <2>2 DEF GovernanceTypeOK
  <2>4. FeeGuardIsOpenProposal
      BY <2>1 DEF FeeGuardIsOpenProposal
  <2>5. ExecutedOnce /\ NothingUnderIdsToCome
      BY <2>1 DEF ExecutedOnce, NothingUnderIdsToCome
  <2> QED
      BY <2>3, <2>4, <2>5 DEF GovernanceInv
<1>4. MultiSigInv
    BY MultiSigAssumption
       DEF MultiSigAssumption, MultiSigInit, MultiSigInv, MultiSigTypeOK,
           WaitingOperationsNeedApproval, OpIds
<1> QED
    BY <1>1, <1>2, <1>3, <1>4 DEF IInv

LEMMA NextKeepsInv == IInv /\ [Next]_vars => IInv'
<1> SUFFICES ASSUME IInv, [Next]_vars PROVE IInv'
    OBVIOUS
<1>0. AdminTypeOK /\ BreakerInv /\ GovernanceInv /\ MultiSigInv /\ BreakerTypeOK
      /\ platformBps \in Nat
    BY DEF IInv, BreakerInv, GovernanceInv, GovernanceTypeOK
<1>1. UNCHANGED govVars => UNCHANGED <<configVars, proposalVars, executions>>
                           /\ UNCHANGED platformBps
    BY DEF govVars, effectVars
<1>2. CASE AdminStep /\ UNCHANGED <<breakerVars, govVars, multisigVars>>
    BY <1>0, <1>1, <1>2, AdminStepKeepsTypes, BreakerFrame, GovernanceFrame, MultiSigFrame
       DEF IInv
<1>3. CASE BreakerStep /\ UNCHANGED <<adminVars, govVars, multisigVars>>
    BY <1>0, <1>1, <1>3, BreakerStepKeepsInv, AdminFrame, GovernanceFrame, MultiSigFrame
       DEF IInv
<1>4. CASE GovernanceStep /\ UNCHANGED <<breakerVars, multisigVars>>
    BY <1>0, <1>4, GovernanceStepKeepsInv, BreakerFrame, MultiSigFrame DEF IInv
<1>5. CASE MultiSigStep
  <2>1. UNCHANGED adminVars /\ UNCHANGED <<configVars, proposalVars, executions>>
      BY <1>5 DEF MultiSigStep
  <2> QED
      BY <1>0, <1>5, <2>1, MultiSigStepKeepsInv, AdminFrame, GovernanceFrame DEF IInv
<1>6. CASE UNCHANGED vars
  <2>1. UNCHANGED adminVars /\ UNCHANGED breakerVars /\ UNCHANGED govVars
        /\ UNCHANGED multisigVars
      BY <1>6 DEF vars
  <2> QED
      BY <1>0, <1>1, <2>1, AdminFrame, BreakerFrame, GovernanceFrame, MultiSigFrame DEF IInv
<1> QED
    BY <1>2, <1>3, <1>4, <1>5, <1>6 DEF Next

THEOREM ControlInvariant == Spec => []IInv
<1>1. Init => IInv
    BY InitEstablishesInv
<1>2. IInv /\ [Next]_vars => IInv'
    BY NextKeepsInv
<1> QED
    BY <1>1, <1>2, PTL DEF Spec

(***************************************************************************)
(* Every component's state keeps its type; the stored admin count, which   *)
(* remove_admin, governance and transfers all decide on, never falls to 0. *)
(***************************************************************************)
THEOREM ControlTypeCorrectness == Spec => []TypeOK
<1>1. IInv => TypeOK
    BY DEF IInv, TypeOK, BreakerInv, GovernanceInv, MultiSigInv
<1> QED
    BY <1>1, ControlInvariant, PTL

(***************************************************************************)
(* The stored number of votes to unpause is the number of admins who voted *)
(* under that pause, and no vote waits for a pause still to come.          *)
(***************************************************************************)
THEOREM VoteCountsAreExact == Spec => []VoteCountIsVoters
<1>1. IInv => VoteCountIsVoters
    BY DEF IInv, BreakerInv
<1> QED
    BY <1>1, ControlInvariant, PTL

(***************************************************************************)
(* The guard against a second fee proposal names the one that is open, and *)
(* is clear when none is, however proposals were executed, expired or      *)
(* cleaned up.                                                             *)
(***************************************************************************)
THEOREM FeeGuardIsExact == Spec => []FeeGuardIsOpenProposal
<1>1. IInv => FeeGuardIsOpenProposal
    BY DEF IInv, GovernanceInv
<1> QED
    BY <1>1, ControlInvariant, PTL

(***************************************************************************)
(* No proposal is executed twice, and a proposal's approvals are the votes *)
(* of that many different admins.                                          *)
(***************************************************************************)
THEOREM ProposalsExecuteOnce == Spec => []ExecutedOnce
<1>1. IInv => ExecutedOnce
    BY DEF IInv, GovernanceInv
<1> QED
    BY <1>1, ControlInvariant, PTL

(***************************************************************************)
(* No multi-signature operation is left waiting with the approvals it was  *)
(* proposed to need.                                                       *)
(***************************************************************************)
THEOREM ApprovedOperationsExecute == Spec => []WaitingOperationsNeedApproval
<1>1. IInv => WaitingOperationsNeedApproval
    BY DEF IInv, MultiSigInv
<1> QED
    BY <1>1, ControlInvariant, PTL

(***************************************************************************)
(* A recorded pause that no multi-signature operation touched is ended by  *)
(* vote only with a quorum of votes and a timelock that are its own.       *)
(***************************************************************************)
LEMMA UnpausingIsEarned == IInv => (UnpausedByVote /\ pause.recorded => Earned)
<1> SUFFICES ASSUME IInv, UnpausedByVote, pause.recorded PROVE Earned
    OBVIOUS
<1>1. BreakerInv /\ paused /\ ~paused'
    BY DEF IInv, UnpausedByVote
<1>2. /\ activeSeq # 0 /\ activeSeq \in 0..MaxPauses
      /\ pausedAt[activeSeq] = pause.since /\ voters[activeSeq] = pause.votes
      /\ voteCount[activeSeq] = Cardinality(voters[activeSeq])
    BY <1>1 DEF BreakerInv, BreakerTypeOK, RecordIsOfThisPause, VoteCountIsVoters
<1>3. CASE \E c \in Addresses : EmergencyUnpause(c)
    BY <1>2, <1>3 DEF EmergencyUnpause, TimelockOver, Earned
<1>4. CASE \E c \in Addresses : VoteUnpause(c)
  <2>1. PICK c \in Addresses : VoteUnpause(c)
      BY <1>4
  <2>2. /\ voteCount' = [voteCount EXCEPT ![activeSeq] = @ + 1]
        /\ pause' = [pause EXCEPT !.votes = @ \cup {c}]
        /\ c \notin voters[activeSeq]
      BY <2>1 DEF VoteUnpause, MayVote
  <2>3. voteCount'[activeSeq] >= unpauseQuorum /\ TimelockOver
      BY <1>1, <2>1 DEF VoteUnpause
  <2>4. voteCount'[activeSeq] = voteCount[activeSeq] + 1
      BY <1>1, <1>2, <2>2 DEF BreakerInv, BreakerTypeOK
  <2>5. pause'.votes = pause.votes \cup {c} /\ voters[activeSeq] \in SUBSET Addresses
      BY <1>1, <1>2, <2>2 DEF BreakerInv, BreakerTypeOK
  <2>6. Cardinality(pause'.votes) = voteCount'[activeSeq]
      BY <1>2, <2>2, <2>4, <2>5, OneMoreMember
  <2> QED
      BY <1>2, <2>3, <2>6 DEF Earned, TimelockOver
<1> QED
    BY <1>3, <1>4 DEF UnpausedByVote

THEOREM RecordedPausesEarnTheirEnd == Spec => RecordedPauseEarnsItsEnd
<1>1. IInv => [UnpausedByVote /\ pause.recorded => Earned]_vars
    BY UnpausingIsEarned
<1> QED
    BY <1>1, ControlInvariant, PTL DEF RecordedPauseEarnsItsEnd

-----------------------------------------------------------------------------
(***************************************************************************)
(* What only a removal can do.                                             *)
(***************************************************************************)
QuorumLost == govQuorum <= adminCount /\ govQuorum' > adminCount'

LegacyLost == LegacyIsAdmin /\ legacy' \notin admins'

\* Proposals decide on the quorum and on the count that their effect leaves.
LEMMA GovernanceKeepsQuorum == IInv /\ GovernanceStep => ~QuorumLost
<1> SUFFICES ASSUME IInv, GovernanceStep PROVE ~QuorumLost
    OBVIOUS
<1>0. adminCount \in Nat \ {0} /\ govQuorum \in Nat \ {0}
    BY DEF IInv, AdminTypeOK, GovernanceInv, GovernanceTypeOK
<1> USE DEF QuorumLost
<1>1. CASE \E quorum \in 1..MaxAdminCount, timelock \in GovTimelocks, ttl \in ProposalTtls :
              MigrateToGovernance(quorum, timelock, ttl)
    BY <1>0, <1>1 DEF MigrateToGovernance, adminVars
<1>2. CASE UNCHANGED adminVars /\ UNCHANGED configVars
    BY <1>0, <1>2 DEF adminVars, configVars
<1>3. CASE \E caller \in Addresses : \E id \in ProposalIds : Execute(caller, id)
  <2>1. PICK caller \in Addresses, id \in ProposalIds : Execute(caller, id)
      BY <1>3
  <2>2. Dispatch(caller, proposals[id].action)
      BY <2>1 DEF Execute
  <2> DEFINE action == proposals[id].action
  <2> HIDE DEF action
  <2>3. action.kind = "UpdateQuorum" /\ ApplyQuorum(action.arg) => ~QuorumLost
      BY <1>0 DEF ApplyQuorum, adminVars
  <2>4. action.kind = "RemoveAdmin" /\ ApplyRemoveAdmin(caller, action.arg) => ~QuorumLost
      BY <1>0 DEF ApplyRemoveAdmin, EnoughAdmins, DropAdmin
  <2>5. action.kind = "AddAdmin" /\ ApplyAddAdmin(caller, action.arg) => ~QuorumLost
      BY <1>0 DEF ApplyAddAdmin
  <2>6. \/ ApplyFee(action.arg) \/ ApplyRegisterAgent(action.arg)
        \/ ApplyRemoveAgent(action.arg) \/ ApplyTimelock(action.arg)
        \/ UNCHANGED <<adminVars, govQuorum, govTimelock, activeFee, effectVars>>
        => ~QuorumLost
      BY <1>0 DEF ApplyFee, ApplyRegisterAgent, ApplyRemoveAgent, ApplyTimelock, adminVars
  <2> QED
      BY <2>2, <2>3, <2>4, <2>5, <2>6 DEF Dispatch, action
<1> QED
    BY <1>1, <1>2, <1>3
       DEF GovernanceStep, Propose, Vote, Expire, CleanupProposals, Delete

LEMMA QuorumIsLostByRemoval ==
    IInv => (Next /\ QuorumLost => \E caller, a \in Addresses : RemoveAdmin(caller, a))
<1> SUFFICES ASSUME IInv, Next, QuorumLost
             PROVE  \E caller, a \in Addresses : RemoveAdmin(caller, a)
    OBVIOUS
<1>0. adminCount \in Nat \ {0} /\ govQuorum \in Nat \ {0}
    BY DEF IInv, AdminTypeOK, GovernanceInv, GovernanceTypeOK
<1>1. CASE AdminStep /\ UNCHANGED govVars
    BY <1>0, <1>1 DEF AdminStep, AddAdmin, AssignAdminRole, RemoveAdminRole, ProposeAdmin,
                      AcceptAdmin, QuorumLost, govVars, configVars
<1>2. CASE UNCHANGED adminVars /\ UNCHANGED configVars
    BY <1>0, <1>2 DEF QuorumLost, adminVars, configVars
<1>3. CASE GovernanceStep
    BY <1>3, GovernanceKeepsQuorum
<1> QED
    BY <1>1, <1>2, <1>3 DEF Next, MultiSigStep, govVars

(***************************************************************************)
(* Only the direct remove_admin, which does not look at the governance     *)
(* quorum, can leave fewer admins than the quorum asks for: a proposal     *)
(* that removes an admin or raises the quorum never does, however long it  *)
(* waited for its execution.                                               *)
(***************************************************************************)
THEOREM GovernanceNeverLosesItsQuorum == Spec => QuorumLostOnlyByDirectRemoval
<1>1. IInv /\ [Next]_vars =>
        [QuorumLost => \E caller, a \in Addresses : RemoveAdmin(caller, a)]_vars
    BY QuorumIsLostByRemoval
<1>2. [][QuorumLost => \E caller, a \in Addresses : RemoveAdmin(caller, a)]_vars
        <=> QuorumLostOnlyByDirectRemoval
    BY DEF QuorumLost, QuorumLostOnlyByDirectRemoval
<1> QED
    BY <1>1, <1>2, ControlInvariant, PTL DEF Spec

\* An admin who removes another one stays, and takes over the legacy seat.
LEMMA RemovingOneself ==
    \A remover \in admins : \A a :
        DropAdmin(remover, a) /\ LegacyLost => a = legacy /\ remover = legacy
BY DEF DropAdmin, LegacyLost, LegacyIsAdmin

LEMMA LegacyIsLostBySelfRemoval ==
    IInv => (Next /\ LegacyLost =>
                \/ RemoveAdmin(legacy, legacy)
                \/ \E id \in ProposalIds :
                      Execute(legacy, id) /\ Executes("RemoveAdmin", legacy))
<1> SUFFICES ASSUME IInv, Next, LegacyLost
             PROVE  \/ RemoveAdmin(legacy, legacy)
                    \/ \E id \in ProposalIds :
                          Execute(legacy, id) /\ Executes("RemoveAdmin", legacy)
    OBVIOUS
<1>1. CASE AdminStep
  <2>1. CASE \E caller, a \in Addresses : RemoveAdmin(caller, a)
      BY <2>1, RemovingOneself DEF RemoveAdmin
  <2> QED
      BY <1>1, <2>1 DEF AdminStep, AddAdmin, AssignAdminRole, RemoveAdminRole, ProposeAdmin,
                        AcceptAdmin, LegacyLost, LegacyIsAdmin
<1>2. CASE UNCHANGED adminVars
    BY <1>2 DEF LegacyLost, LegacyIsAdmin, adminVars
<1>3. CASE \E caller \in Addresses : \E id \in ProposalIds : Execute(caller, id)
  <2>1. PICK caller \in Addresses, id \in ProposalIds : Execute(caller, id)
      BY <1>3
  <2> DEFINE action == proposals[id].action
  <2>2. /\ caller \in admins /\ Dispatch(caller, action)
        /\ proposals[id].state = "Approved" /\ id \in ProposalIds \cap DOMAIN proposals'
        /\ proposals'[id] = [proposals[id] EXCEPT !.state = "Executed"]
      BY <2>1 DEF Execute, StateAfterExecution, ProposalIds
  <2>3. proposals[id] \in ProposalRecord
      BY DEF IInv, GovernanceInv, GovernanceTypeOK
  <2>4. proposals'[id].state = "Executed" /\ action = [kind |-> action.kind, arg |-> action.arg]
      BY <2>2, <2>3, GovernanceAssumption, ActionsFit DEF ProposalRecord, GovernanceAssumption
  <2> HIDE DEF action
  <2>5. action.kind = "RemoveAdmin" /\ ApplyRemoveAdmin(caller, action.arg)
      BY <2>2 DEF Dispatch, ApplyFee, ApplyRegisterAgent, ApplyRemoveAgent, ApplyAddAdmin,
                  ApplyQuorum, ApplyTimelock, LegacyLost, LegacyIsAdmin, adminVars
  <2>6. action.arg = legacy /\ caller = legacy
      BY <2>2, <2>5, RemovingOneself DEF ApplyRemoveAdmin
  <2>7. Executes("RemoveAdmin", legacy)
      BY <2>2, <2>4, <2>5, <2>6 DEF Executes, action
  <2> QED
      BY <2>1, <2>6, <2>7
<1> QED
    BY <1>1, <1>2, <1>3
       DEF Next, MultiSigStep, GovernanceStep, MigrateToGovernance, Propose, Vote, Expire,
           CleanupProposals, Delete

(***************************************************************************)
(* The legacy admin, whom pause, unpause and the older entry points ask    *)
(* for, stops being an admin only by its own call.                         *)
(***************************************************************************)
THEOREM LegacySeatIsKept == Spec => LegacyLostOnlyBySelfRemoval
<1>1. IInv /\ [Next]_vars =>
        [LegacyLost => \/ RemoveAdmin(legacy, legacy)
                       \/ \E id \in ProposalIds :
                             Execute(legacy, id) /\ Executes("RemoveAdmin", legacy)]_vars
    BY LegacyIsLostBySelfRemoval
<1>2. [][LegacyLost => \/ RemoveAdmin(legacy, legacy)
                       \/ \E id \in ProposalIds :
                             Execute(legacy, id) /\ Executes("RemoveAdmin", legacy)]_vars
        <=> LegacyLostOnlyBySelfRemoval
    BY DEF LegacyLost, LegacyLostOnlyBySelfRemoval
<1> QED
    BY <1>1, <1>2, ControlInvariant, PTL DEF Spec

-----------------------------------------------------------------------------
(***************************************************************************)
(* What moves the stored admin count away from the number of admins.       *)
(***************************************************************************)
\* Taking out a member, or replacing one by another.
LEMMA OneMemberLess ==
    \A S \in SUBSET Addresses : \A a \in S : Cardinality(S \ {a}) = Cardinality(S) - 1
BY FinitelyMany, FS_RemoveElement, FS_CardinalityType

LEMMA OneMemberReplaced ==
    \A S \in SUBSET Addresses : \A a \in S, b \in Addresses \ S :
        Cardinality((S \ {a}) \cup {b}) = Cardinality(S)
<1> TAKE S \in SUBSET Addresses
<1> TAKE a \in S, b \in Addresses \ S
<1>1. S \ {a} \in SUBSET Addresses /\ b \notin S \ {a}
    OBVIOUS
<1>2. Cardinality((S \ {a}) \cup {b}) = Cardinality(S \ {a}) + 1
    BY <1>1, OneMoreMember
<1> QED
    BY <1>2, OneMoreMember, OneMemberLess

\* An addition of a new admin and the removal of a present one keep pace.
LEMMA AddingKeepsPace ==
    AdminTypeOK /\ adminCount' = adminCount + 1 =>
        \A a \in Addresses \ admins : admins' = admins \cup {a} => ~Drifts
BY OneMoreMember DEF AdminTypeOK, Drifts

LEMMA DroppingKeepsPace ==
    AdminTypeOK => \A remover : \A a \in admins : DropAdmin(remover, a) => ~Drifts
BY OneMoreMember, OneMemberLess DEF AdminTypeOK, DropAdmin, Drifts

LEMMA NoStepNoDrift ==
    AdminTypeOK /\ UNCHANGED <<admins, adminCount>> => ~Drifts
<1> SUFFICES ASSUME AdminTypeOK, UNCHANGED <<admins, adminCount>> PROVE ~Drifts
    OBVIOUS
<1>1. adminCount' = adminCount /\ Cardinality(admins') = Cardinality(admins)
    OBVIOUS
<1>2. Cardinality(admins) \in Nat /\ adminCount \in Nat
    BY OneMoreMember, FinitelyMany, FS_CardinalityType DEF AdminTypeOK
<1> QED
    BY <1>1, <1>2 DEF Drifts

LEMMA TransfersKeepPace ==
    AdminTypeOK /\ AcceptAdmin /\ Drifts => pendingAdmin \in admins \/ legacy \notin admins
<1> SUFFICES ASSUME AdminTypeOK, AcceptAdmin, pendingAdmin \notin admins, legacy \in admins
             PROVE  ~Drifts
    OBVIOUS
<1>1. pendingAdmin \in Addresses \ admins
    BY DEF AdminTypeOK, AcceptAdmin
<1>2. Cardinality(admins') = Cardinality(admins)
    BY <1>1, OneMemberReplaced DEF AdminTypeOK, AcceptAdmin
<1> QED
    BY <1>2, OneMoreMember DEF AdminTypeOK, AcceptAdmin, Drifts

DriftIsKnown ==
    \/ AcceptAdmin /\ (pendingAdmin \in admins \/ legacy \notin admins)
    \/ \E a \in Addresses \ admins : Executes("RemoveAdmin", a)

LEMMA DriftsAreKnown == IInv => (Next /\ Drifts => DriftIsKnown)
<1> SUFFICES ASSUME IInv, Next, Drifts PROVE DriftIsKnown
    OBVIOUS
<1>0. AdminTypeOK
    BY DEF IInv
<1>1. CASE AdminStep
  <2>1. CASE \E caller, a \in Addresses : AddAdmin(caller, a)
      BY <2>1, <1>0, AddingKeepsPace DEF AddAdmin
  <2>2. CASE \E caller, a \in Addresses : RemoveAdmin(caller, a)
      BY <2>2, <1>0, DroppingKeepsPace DEF RemoveAdmin
  <2>3. CASE AcceptAdmin
      BY <2>3, <1>0, TransfersKeepPace DEF DriftIsKnown
  <2> QED
      BY <1>0, <1>1, <2>1, <2>2, <2>3, NoStepNoDrift
         DEF AdminStep, AssignAdminRole, RemoveAdminRole, ProposeAdmin
<1>2. CASE UNCHANGED adminVars
    BY <1>0, <1>2, NoStepNoDrift DEF adminVars
<1>3. CASE \E caller \in Addresses : \E id \in ProposalIds : Execute(caller, id)
  <2>1. PICK caller \in Addresses, id \in ProposalIds : Execute(caller, id)
      BY <1>3
  <2> DEFINE action == proposals[id].action
  <2>2. /\ caller \in admins /\ Dispatch(caller, action)
        /\ proposals[id].state = "Approved" /\ id \in ProposalIds \cap DOMAIN proposals'
        /\ proposals'[id] = [proposals[id] EXCEPT !.state = "Executed"]
      BY <2>1 DEF Execute, StateAfterExecution, ProposalIds
  <2>3. proposals[id] \in ProposalRecord
      BY DEF IInv, GovernanceInv, GovernanceTypeOK
  <2>4. /\ proposals'[id].state = "Executed" /\ action = [kind |-> action.kind, arg |-> action.arg]
        /\ action.kind \in {"AddAdmin", "RemoveAdmin"} => action.arg \in Addresses
      BY <2>2, <2>3, GovernanceAssumption, ActionsFit DEF ProposalRecord, GovernanceAssumption
  <2> HIDE DEF action
  <2>5. ASSUME action.kind = "AddAdmin", ApplyAddAdmin(caller, action.arg) PROVE ~Drifts
      BY <2>4, <2>5, <1>0, AddingKeepsPace DEF ApplyAddAdmin
  <2>6. ASSUME action.kind # "AddAdmin", action.kind # "RemoveAdmin" PROVE ~Drifts
      BY <2>2, <2>6, <1>0, NoStepNoDrift
         DEF Dispatch, ApplyFee, ApplyRegisterAgent, ApplyRemoveAgent, ApplyQuorum,
             ApplyTimelock, adminVars
  <2>7. action.kind = "RemoveAdmin" /\ ApplyRemoveAdmin(caller, action.arg)
      BY <2>2, <2>5, <2>6 DEF Dispatch
  <2>8. action.arg \in Addresses \ admins
      BY <2>4, <2>7, <1>0, DroppingKeepsPace DEF ApplyRemoveAdmin
  <2>9. Executes("RemoveAdmin", action.arg)
      BY <2>2, <2>4, <2>7 DEF Executes, action
  <2> QED
      BY <2>8, <2>9 DEF DriftIsKnown
<1> QED
    BY <1>1, <1>2, <1>3
       DEF Next, MultiSigStep, GovernanceStep, MigrateToGovernance, Propose, Vote, Expire,
           CleanupProposals, Delete

(***************************************************************************)
(* The admin count that guards the last admin and the quorums is off only  *)
(* by transfers from or to the wrong address and by removals executed on   *)
(* an address that was no admin any more.                                  *)
(***************************************************************************)
THEOREM AdminCountDriftsAreKnown == Spec => CountDriftsOnlyThere
<1>1. IInv /\ [Next]_vars => [Drifts => DriftIsKnown]_vars
    BY DriftsAreKnown
<1>2. [][Drifts => DriftIsKnown]_vars <=> CountDriftsOnlyThere
    BY DEF DriftIsKnown, CountDriftsOnlyThere
<1> QED
    BY <1>1, <1>2, ControlInvariant, PTL DEF Spec
=============================================================================
