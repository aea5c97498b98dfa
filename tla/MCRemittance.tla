---------------------------- MODULE MCRemittance ----------------------------
(***************************************************************************)
(* Instances of Remittance for TLC.  RemittanceTokens.cfg: two tokens, a   *)
(* corridor, batches, expiry and the switches.  RemittanceFees.cfg: one    *)
(* token, and platform, token, protocol fees and strategies that change    *)
(* while remittances are open.  RemittanceNetting.cfg: two parties who     *)
(* send to each other, so that netting really offsets.                     *)
(*                                                                         *)
(* Fees of an amount of 100 are 5 or 10, its protocol fee 0 or 2: net      *)
(* payouts of 95, 93, 90 and 88, which the partial amounts can add up to.  *)
(***************************************************************************)
EXTENDS Remittance

CONSTANTS s1, a1, p1, p2, usdc, eurc, none

NoOne == {}
MCExpiries == {none, 0}
NeverExpire == {none}
MCStrategies == {[kind |-> "Flat", rate |-> 10], [kind |-> "Corridor", rate |-> 0]}
MCCorridors == {[strategy |-> [kind |-> "Dynamic", rate |-> 1000], protocol |-> 0]}
MCBars == {<<"paused", Everyone>>, <<"unregistered", a1>>, <<"notSettler", a1>>}
=============================================================================
