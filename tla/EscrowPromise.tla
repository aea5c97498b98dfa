--------------------------- MODULE EscrowPromise ----------------------------
(***************************************************************************)
(* What the remittance escrow promises, seen one deposit at a time: a      *)
(* deposit is opened once, parts of it go to the payee's side while it is  *)
(* open, and it is closed once, either paid out or returned to the sender  *)
(* for exactly the deposited amount.  Nothing moves after that, and the    *)
(* payee's side never gets more than the deposit.                          *)
(*                                                                         *)
(* Several deposits may move in one step: the contract's batch calls open  *)
(* or return many remittances at once.                                     *)
(***************************************************************************)
EXTENDS Integers

CONSTANT Ids        \* every identifier a deposit may ever have

VARIABLES
    phase,          \* phase[i]: "none", "open", "paid" or "returned"
    deposit,        \* deposit[i]: what was put in escrow
    given,          \* given[i]: what went to the payee's side so far
    returned        \* returned[i]: what went back to the sender

promiseVars == <<phase, deposit, given, returned>>

Phases == {"none", "open", "paid", "returned"}

Init ==
    /\ phase = [i \in Ids |-> "none"]
    /\ deposit = [i \in Ids |-> 0]
    /\ given = [i \in Ids |-> 0]
    /\ returned = [i \in Ids |-> 0]

Untouched(i) ==
    /\ phase'[i] = phase[i]
    /\ deposit'[i] = deposit[i]
    /\ given'[i] = given[i]
    /\ returned'[i] = returned[i]

Open(i) ==
    /\ phase[i] = "none"
    /\ phase'[i] = "open"
    /\ deposit'[i] \in Nat \ {0}
    /\ given'[i] = 0
    /\ returned'[i] = 0

Give(i) ==
    /\ phase[i] = "open"
    /\ phase'[i] \in {"open", "paid"}
    /\ given'[i] >= given[i]
    /\ given'[i] <= deposit[i]
    /\ deposit'[i] = deposit[i]
    /\ returned'[i] = returned[i]

Return(i) ==
    /\ phase[i] = "open"
    /\ phase'[i] = "returned"
    /\ returned'[i] = deposit[i]
    /\ deposit'[i] = deposit[i]
    /\ given'[i] = given[i]

Next ==
    /\ \A i \in Ids : Untouched(i) \/ Open(i) \/ Give(i) \/ Return(i)
    /\ phase' \in [Ids -> Phases]
    /\ deposit' \in [Ids -> Nat]
    /\ given' \in [Ids -> Nat]
    /\ returned' \in [Ids -> Nat]

Spec == Init /\ [][Next]_promiseVars
=============================================================================
