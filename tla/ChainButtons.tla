----------------------------- MODULE ChainButtons -----------------------------
(***************************************************************************)
(* Two screens over one remittance of the contract: the sender's list      *)
(* (RemittanceList) with its Cancel button and the agent's panel           *)
(* (AgentPanel) with Confirm and Mark Failed.  A button simulates, has the *)
(* wallet sign, and sends; the screen shows the outcome as soon as the     *)
(* node has taken the transaction, which the ledger may still refuse.      *)
(***************************************************************************)
EXTENDS Naturals

CONSTANT MaxPresses \* bound on presses of a button, per screen

ButtonsAssumption == MaxPresses \in Nat

VARIABLES
    status,   \* of the remittance in the contract
    shown,    \* shown[s]: the status that screen s shows
    pressed,  \* pressed[s]: the button whose transaction is being prepared
    presses,
    sent,     \* sent[s]: what each transaction under way will do, by how many
    refused   \* refused[s]: a transaction of s was refused by the node or the ledger

vars == <<status, shown, pressed, presses, sent, refused>>

ScreenNames == {"sender", "agent"}
Buttons == [sender |-> {"Cancelled"}, agent |-> {"Completed", "Failed"}]
Outcomes == {"Cancelled", "Completed", "Failed"}
\* What the contract makes of a button: mark_failed leaves a cancelled remittance.
Effect(b) == IF b = "Failed" THEN "Cancelled" ELSE b
Idle == [button |-> "none", step |-> "idle"]

Init ==
    /\ status = "Pending"
    /\ shown = [s \in ScreenNames |-> "Pending"]
    /\ pressed = [s \in ScreenNames |-> Idle]
    /\ presses = [s \in ScreenNames |-> 0]
    /\ sent = [s \in ScreenNames |-> {}]
    /\ refused = [s \in ScreenNames |-> FALSE]

\* The buttons are there while the screen shows a pending remittance, and disabled while
\* one is at work.
Press(s, b) ==
    /\ shown[s] = "Pending" /\ b \in Buttons[s] /\ pressed[s] = Idle
    /\ presses[s] < MaxPresses
    /\ presses' = [presses EXCEPT ![s] = @ + 1]
    /\ pressed' = [pressed EXCEPT ![s] = [button |-> b, step |-> "simulate"]]
    /\ UNCHANGED <<status, shown, sent, refused>>

PressCancel  == Press("sender", "Cancelled")
PressConfirm == Press("agent", "Completed")
PressFail    == Press("agent", "Failed")

\* The contract's answer to the simulation: only a pending remittance can be closed.
Simulated(s) ==
    /\ pressed[s].step = "simulate" /\ status = "Pending"
    /\ pressed' = [pressed EXCEPT ![s].step = "sign"]
    /\ UNCHANGED <<status, shown, presses, sent, refused>>

\* Mistaken variant: an error too shows the outcome.
ShownAfterErrorDone(s) == pressed[s].button
\* The catch of the handlers: an error leaves the status as it was.
ShownAfterError(s) == shown[s]

\* The account is not found, the simulation refuses, or the wallet does.
PressFails(s) ==
    /\ pressed[s] # Idle
    /\ pressed' = [pressed EXCEPT ![s] = Idle]
    /\ shown' = [shown EXCEPT ![s] = ShownAfterError(s)]
    /\ UNCHANGED <<status, presses, sent, refused>>

\* sendTransaction answers with a hash, whatever status it answers with.
Send(s, taken) ==
    /\ pressed[s].step = "sign"
    /\ sent' = IF taken THEN [sent EXCEPT ![s] = @ \cup {pressed[s].button}] ELSE sent
    /\ refused' = [refused EXCEPT ![s] = @ \/ ~taken]
    /\ shown' = [shown EXCEPT ![s] = pressed[s].button]
    /\ pressed' = [pressed EXCEPT ![s] = Idle]
    /\ UNCHANGED <<status, presses>>

\* The ledger applies it, or refuses it for what came first, or drops it after its time.
Include(s, b) ==
    /\ b \in sent[s]
    /\ sent' = [sent EXCEPT ![s] = @ \ {b}]
    /\ \/ status = "Pending" /\ status' = Effect(b) /\ UNCHANGED refused
       \/ refused' = [refused EXCEPT ![s] = TRUE] /\ UNCHANGED status
    /\ UNCHANGED <<shown, pressed, presses>>

\* The screen is opened again: its list is a fixed one, of pending remittances.
Reopen(s) ==
    /\ pressed[s] = Idle /\ shown[s] # "Pending"
    /\ shown' = [shown EXCEPT ![s] = "Pending"]
    /\ UNCHANGED <<status, pressed, presses, sent, refused>>

Next ==
    \/ PressCancel \/ PressConfirm \/ PressFail
    \/ \E s \in ScreenNames :
        \/ Simulated(s) \/ PressFails(s) \/ Reopen(s)
        \/ \E taken \in BOOLEAN : Send(s, taken)
        \/ \E b \in Outcomes : Include(s, b)

Spec == Init /\ [][Next]_vars

-----------------------------------------------------------------------------
TypeOK ==
    /\ status \in {"Pending", "Completed", "Cancelled"}
    /\ shown \in [ScreenNames -> Outcomes \cup {"Pending"}]
    /\ pressed \in [ScreenNames -> [button : Outcomes \cup {"none"}, step : {"idle", "simulate", "sign"}]]
    /\ presses \in [ScreenNames -> 0..MaxPresses]
    /\ sent \in [ScreenNames -> SUBSET Outcomes]
    /\ refused \in [ScreenNames -> BOOLEAN]

(***************************************************************************)
(* A screen that shows an outcome other than the contract's has had a      *)
(* transaction refused, or still has one under way: it never shows one     *)
(* that was not even sent.  Hence two screens disagree on how the          *)
(* remittance ended only while the loser does not know of its refusal.     *)
(***************************************************************************)
WrongOutcomeWasRefused ==
    \A s \in ScreenNames :
        shown[s] \in Outcomes /\ Effect(shown[s]) # status => refused[s] \/ shown[s] \in sent[s]

\* The inductive invariant behind it.
IInv ==
    /\ TypeOK /\ WrongOutcomeWasRefused
    /\ \A s \in ScreenNames : pressed[s].step # "idle" => pressed[s].button \in Outcomes
=============================================================================
