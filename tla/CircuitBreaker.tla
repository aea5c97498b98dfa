--------------------------- MODULE CircuitBreaker ---------------------------
(***************************************************************************)
(* The pause (circuit_breaker.rs, circuit_breaker_storage.rs).  Every      *)
(* recorded pause has a sequence number under which the admins' votes to   *)
(* unpause are kept; sequence number 0 stands for "no active pause".  The  *)
(* records' reasons and the cooldown after an unpause are left out: only   *)
(* reports and the rate limiter read them.                                 *)
(***************************************************************************)
EXTENDS AdminCouncil

CONSTANTS
    PauseTimelocks,     \* durations set_pause_timelock is called with
    UnpauseQuorums,     \* quorums set_unpause_quorum is called with
    MaxPauses,          \* bound on the number of recorded pauses
    MaxTime             \* bound on the ledger time

ASSUME BreakerAssumption ==
    /\ PauseTimelocks \subseteq Nat /\ UnpauseQuorums \subseteq Nat
    /\ MaxPauses \in Nat /\ MaxTime \in Nat

VARIABLES
    now,            \* ledger timestamp
    paused,         \* the shared paused flag
    pauseSeq,       \* how many pauses were recorded
    activeSeq,      \* the active pause, or 0
    pausedAt,       \* timestamp in the record of each pause
    voters,         \* who voted under each sequence number
    voteCount,      \* stored vote count of each sequence number
    pauseTimelock, unpauseQuorum,
    pause           \* history: [since, votes, recorded] of the last pause

pauseVars == <<paused, pauseSeq, activeSeq, pausedAt, voters, voteCount, pause>>
breakerVars == <<now, pauseVars, pauseTimelock, unpauseQuorum>>

BreakerInit ==
    /\ now = 0
    /\ paused = FALSE /\ pauseSeq = 0 /\ activeSeq = 0
    /\ pausedAt = [s \in 1..MaxPauses |-> 0]
    /\ voters = [s \in 0..MaxPauses |-> {}]
    /\ voteCount = [s \in 0..MaxPauses |-> 0]
    /\ pauseTimelock = 0 /\ unpauseQuorum = 1
    /\ pause = [since |-> 0, votes |-> {}, recorded |-> FALSE]

\* Mistaken variant: the new pause is recorded under the old number.
RecordPauseUnderOldSeq ==
    /\ pauseSeq < MaxPauses
    /\ pauseSeq' = pauseSeq + 1
    /\ activeSeq' = IF pauseSeq = 0 THEN 1 ELSE pauseSeq
    /\ pausedAt' = [pausedAt EXCEPT ![activeSeq'] = now]
    /\ paused' = TRUE
    /\ pause' = [since |-> now, votes |-> {}, recorded |-> TRUE]
    /\ UNCHANGED <<voters, voteCount>>

RecordPause ==
    /\ pauseSeq < MaxPauses
    /\ pauseSeq' = pauseSeq + 1
    /\ activeSeq' = pauseSeq'
    /\ pausedAt' = [pausedAt EXCEPT ![pauseSeq'] = now]
    /\ paused' = TRUE
    /\ voteCount' = [voteCount EXCEPT ![pauseSeq'] = 0]
    /\ pause' = [since |-> now, votes |-> {}, recorded |-> TRUE]
    /\ UNCHANGED voters

\* pause: the legacy admin's, which also restarts a pause in progress.
Pause ==
    /\ legacy \in admins
    /\ RecordPause
    /\ UNCHANGED <<now, pauseTimelock, unpauseQuorum>>

EmergencyPause(caller) ==
    /\ caller \in roleAdmins
    /\ ~paused
    /\ RecordPause
    /\ UNCHANGED <<now, pauseTimelock, unpauseQuorum>>

Lift ==
    /\ paused' = FALSE
    /\ activeSeq' = 0
    /\ UNCHANGED <<pauseSeq, pausedAt>>

\* The timelock runs from the active pause's record; without one it is over.
TimelockOver ==
    activeSeq # 0 => now - pausedAt[activeSeq] >= pauseTimelock

\* unpause: the legacy admin's, past timelock and quorum.
Unpause ==
    /\ paused
    /\ legacy \in admins
    /\ Lift
    /\ UNCHANGED <<now, voters, voteCount, pauseTimelock, unpauseQuorum, pause>>

EmergencyUnpause(caller) ==
    /\ paused
    /\ caller \in roleAdmins
    /\ TimelockOver
    /\ voteCount[activeSeq] >= unpauseQuorum
    /\ Lift
    /\ UNCHANGED <<now, voters, voteCount, pauseTimelock, unpauseQuorum, pause>>

\* Mistaken variant: does not ask whether the caller has voted.
MayVoteTwice(caller) == voteCount[activeSeq] < unpauseQuorum
MayVote(caller) ==
    /\ caller \notin voters[activeSeq]
    /\ voteCount[activeSeq] < unpauseQuorum

\* The vote that reaches the quorum unpauses at once; while the timelock
\* runs that fails, and the vote is rolled back with it.
VoteUnpause(caller) ==
    /\ paused
    /\ caller \in roleAdmins
    /\ MayVote(caller)
    /\ voters' = [voters EXCEPT ![activeSeq] = @ \cup {caller}]
    /\ voteCount' = [voteCount EXCEPT ![activeSeq] = @ + 1]
    /\ pause' = [pause EXCEPT !.votes = @ \cup {caller}]
    /\ IF voteCount'[activeSeq] >= unpauseQuorum
       THEN TimelockOver /\ Lift
       ELSE UNCHANGED <<paused, pauseSeq, activeSeq, pausedAt>>
    /\ UNCHANGED <<now, pauseTimelock, unpauseQuorum>>

SetPauseTimelock(caller, seconds) ==
    /\ caller \in roleAdmins
    /\ pauseTimelock' = seconds
    /\ UNCHANGED <<now, pauseVars, unpauseQuorum>>

SetUnpauseQuorum(caller, quorum) ==
    /\ caller \in roleAdmins
    /\ quorum \in 1..adminCount
    /\ unpauseQuorum' = quorum
    /\ UNCHANGED <<now, pauseVars, pauseTimelock>>

Tick ==
    /\ now < MaxTime
    /\ now' = now + 1
    /\ UNCHANGED <<pauseVars, pauseTimelock, unpauseQuorum>>

BreakerStep ==
    \/ Pause \/ Unpause \/ Tick
    \/ \E caller \in Addresses :
         \/ EmergencyPause(caller)
         \/ EmergencyUnpause(caller)
         \/ VoteUnpause(caller)
         \/ \E seconds \in PauseTimelocks : SetPauseTimelock(caller, seconds)
         \/ \E quorum \in UnpauseQuorums : SetUnpauseQuorum(caller, quorum)

-----------------------------------------------------------------------------
BreakerTypeOK ==
    /\ now \in Nat
    /\ paused \in BOOLEAN
    /\ pauseSeq \in 0..MaxPauses /\ activeSeq \in 0..MaxPauses
    /\ pausedAt \in [1..MaxPauses -> Nat]
    /\ voters \in [0..MaxPauses -> SUBSET Addresses]
    /\ voteCount \in [0..MaxPauses -> Nat]
    /\ pauseTimelock \in Nat /\ unpauseQuorum \in Nat \ {0}
    /\ pause \in [since : Nat, votes : SUBSET Addresses, recorded : BOOLEAN]

(***************************************************************************)
(* The stored count of a pause's votes is the number of different admins   *)
(* who voted under its number, and no vote waits under a number that no    *)
(* pause has had yet.                                                      *)
(***************************************************************************)
VoteCountIsVoters ==
    \A s \in 0..MaxPauses :
        /\ voteCount[s] = Cardinality(voters[s])
        /\ s > pauseSeq => voters[s] = {}

\* The step ends the pause by the entry points that ask for votes.
UnpausedByVote ==
    /\ paused /\ ~paused'
    /\ \E c \in Addresses : EmergencyUnpause(c) \/ VoteUnpause(c)

\* Enough different admins have voted since the pause began, and the timelock
\* has run since then.
Earned ==
    /\ Cardinality(pause'.votes) >= unpauseQuorum
    /\ now - pause.since >= pauseTimelock
=============================================================================
