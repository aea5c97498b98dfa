------------------------------- MODULE SendFlow -------------------------------
(***************************************************************************)
(* Sending money from a screen: the web flow (SendMoneyFlow.tsx), which    *)
(* signs a Stellar payment with the wallet and submits it to Horizon, and  *)
(* the mobile flow (SendMoneyScreen.tsx), which asks the API to create a   *)
(* remittance.  The Stellar account's sequence number lets one of two      *)
(* payments built on the same number through; the API has no such thing.   *)
(* Without a sender's key the web flow completes and pays nothing; what an *)
(* onConfirm of its caller does is the caller's.                           *)
(*                                                                         *)
(* The web flow ends with the transfer. The app opens the transfer's       *)
(* details on top: the form is below as it was, for whoever comes back.    *)
(***************************************************************************)
EXTENDS Naturals, FiniteSets

CONSTANTS
    Tries,     \* confirmations under way at a time
    MaxTries,  \* bound on confirmations
    MaxEdits   \* bound on edits of a field

SendAssumption == MaxTries \in Nat /\ MaxEdits \in Nat

VARIABLES
    channel,    \* web, mobile, or a web flow that cannot pay
    step,       \* of the form
    form,       \* form[f]: empty, bad, good, or unread: no number, or one with a tail
    submitting, \* isSubmitting, `loading` on mobile
    complete,   \* confirmations that ended well
    failed,     \* the screen shows an error
    try,        \* try[t]: a confirmation under way
    sequence,   \* of the sender's account
    floating,   \* the sequence numbers of payments that may still be applied
    paid,       \* payments made
    sentBad,    \* what invalid fields held when they were confirmed
    unknown,    \* answers lost after the payment was handed over
    tries, edits

vars == <<channel, step, form, submitting, complete, failed, try, sequence, floating,
          paid, sentBad, unknown, tries, edits>>
screen == <<channel, step, form, submitting, complete, failed, tries, edits>>
money == <<sequence, floating, paid, unknown>>

Fields == {"amount", "asset", "recipient"}
Invalid == {"empty", "bad", "unread"}
Web == channel # "mobile"
\* The web flow shows its end.
Done == Web /\ complete > 0
NoTry == [at |-> "idle", seq |-> 0]

LastStep == IF Web THEN 5 ELSE 3

\* The fields that a step edits and that leaving it checks.
FieldsAt(s) ==
    CASE Web /\ s = 1 -> {"amount"}
      [] Web /\ s = 2 -> {"asset"}
      [] Web /\ s = 3 -> {"recipient"}
      [] channel = "mobile" /\ s = 1 -> {"recipient"}
      [] channel = "mobile" /\ s = 2 -> {"amount"}
      [] OTHER -> {}

Init ==
    /\ channel \in {"web", "mobile", "unpaid"}
    /\ step = 1
    /\ form = [f \in Fields |-> IF channel = "mobile" /\ f = "asset" THEN "good" ELSE "empty"]
    /\ submitting = FALSE /\ complete = 0 /\ failed = FALSE
    /\ try = [t \in Tries |-> NoTry]
    /\ sequence = 0 /\ floating = {}
    /\ paid = 0 /\ sentBad = {} /\ unknown = 0
    /\ tries = 0 /\ edits = 0

\* An asset is chosen from a list, and mobile takes any recipient's name. A number field
\* of the browser holds nothing but numbers.
MayBeBad(f) == f = "amount" \/ (f = "recipient" /\ Web)
MayBeUnread(f) == f = "amount" /\ ~Web

Edit(f, to) ==
    /\ to = "bad" => MayBeBad(f)
    /\ to = "unread" => MayBeUnread(f)
    /\ ~Done /\ f \in FieldsAt(step) /\ edits < MaxEdits
    /\ form' = [form EXCEPT ![f] = to] /\ edits' = edits + 1
    /\ UNCHANGED <<channel, step, submitting, complete, failed, try, money, sentBad, tries>>

\* Mistaken variant: asks only that the fields are there.
LeavesStepFilled(s) == \A f \in FieldsAt(s) : form[f] # "empty"
\* What the check of a field lets pass: parseFloat(...) <= 0 does not hold of NaN.
Passes == IF Web THEN {"good"} ELSE {"good", "unread"}
\* validateCurrentStep; on mobile, the disabled buttons Continue and Review.
LeavesStep(s) == \A f \in FieldsAt(s) : form[f] \in Passes

\* nextStep.
NextStep ==
    /\ ~Done /\ (Web => ~submitting) /\ step < LastStep
    /\ step' = IF LeavesStep(step) THEN step + 1 ELSE step
    /\ failed' = (Web /\ ~LeavesStep(step))
    /\ UNCHANGED <<channel, form, submitting, complete, try, money, sentBad, tries, edits>>

\* previousStep: on mobile the button works while a confirmation is under way.
PreviousStep ==
    /\ ~Done /\ step > 1
    /\ Web => ~submitting
    /\ step' = step - 1 /\ failed' = FALSE
    /\ UNCHANGED <<channel, form, submitting, complete, try, money, sentBad, tries, edits>>

\* Mistaken variant: the button is not disabled while a confirmation is under way.
MayConfirmAgain == step = LastStep /\ ~Done
MayConfirm == step = LastStep /\ ~Done /\ ~submitting

\* confirmTransfer, handleConfirm.
Confirm(t) ==
    /\ MayConfirm /\ try[t].at = "idle" /\ tries < MaxTries
    /\ Web => \A f \in Fields : form[f] # "empty"
    /\ tries' = tries + 1
    /\ submitting' = TRUE /\ failed' = FALSE
    /\ sentBad' = sentBad \cup ({form[f] : f \in Fields} \cap Invalid)
    /\ try' = [try EXCEPT ![t].at =
                CASE channel = "web" -> "load"
                  [] channel = "mobile" -> "approve"
                  [] channel = "unpaid" -> "wait"]
    /\ UNCHANGED <<channel, step, form, complete, money, edits>>

\* loadAccount: the payment is built on the next sequence number.
Load(t) ==
    /\ try[t].at = "load"
    /\ try' = [try EXCEPT ![t] = [at |-> "approve", seq |-> sequence + 1]]
    /\ UNCHANGED <<screen, money, sentBad>>

\* The wallet signs, or the device recognises its owner.
Approve(t) ==
    /\ try[t].at = "approve"
    /\ try' = [try EXCEPT ![t].at = "send"]
    /\ UNCHANGED <<screen, money, sentBad>>

Ends(t, ok) ==
    /\ try' = [try EXCEPT ![t] = NoTry]
    /\ submitting' = FALSE
    /\ complete' = IF ok THEN complete + 1 ELSE complete
    /\ failed' = IF ok THEN failed ELSE TRUE
    /\ UNCHANGED <<channel, step, form, sentBad, tries, edits>>

\* Seven tenths of a second, and the transfer is shown as made.
WaitIsOver(t) == try[t].at = "wait" /\ Ends(t, TRUE) /\ UNCHANGED money

\* The account is not found, the user declines, the payment never leaves, or the API
\* refuses to create it.
GivesUp(t) ==
    /\ try[t].at \in {"load", "approve", "send"}
    /\ Ends(t, FALSE)
    /\ UNCHANGED money

Applies(t) == Web => try[t].seq = sequence + 1

Pay(t) ==
    /\ Applies(t)
    /\ paid' = paid + 1
    /\ sequence' = IF Web THEN sequence + 1 ELSE sequence

\* submitTransaction, or POST /api/remittance: done and answered.
SendPays(t) == try[t].at = "send" /\ Pay(t) /\ Ends(t, TRUE) /\ UNCHANGED <<floating, unknown>>

\* The network refuses a number already used.
SendRefused(t) == try[t].at = "send" /\ ~Applies(t) /\ Ends(t, FALSE) /\ UNCHANGED money

\* Done, but the answer is lost.
SendPaysUnheard(t) ==
    /\ try[t].at = "send" /\ Pay(t) /\ Ends(t, FALSE)
    /\ unknown' = unknown + 1
    /\ UNCHANGED floating

\* Handed over and not answered: a Stellar payment may be applied later, within its
\* thirty seconds.
SendFloats(t) ==
    /\ Web /\ try[t].at = "send" /\ Ends(t, FALSE)
    /\ floating' = floating \cup {try[t].seq} /\ unknown' = unknown + 1
    /\ UNCHANGED <<sequence, paid>>

FloatingEnds ==
    \E n \in floating :
        /\ floating' = floating \ {n}
        /\ \/ n = sequence + 1 /\ sequence' = n /\ paid' = paid + 1
           \/ UNCHANGED <<sequence, paid>>
        /\ UNCHANGED <<screen, try, sentBad, unknown>>

Next ==
    \/ \E f \in Fields, to \in Invalid \cup {"good"} : Edit(f, to)
    \/ NextStep \/ PreviousStep
    \/ \E t \in Tries :
        \/ Confirm(t) \/ Load(t) \/ Approve(t) \/ GivesUp(t)
        \/ WaitIsOver(t)
        \/ SendPays(t) \/ SendRefused(t) \/ SendPaysUnheard(t) \/ SendFloats(t)
    \/ FloatingEnds

Spec == Init /\ [][Next]_vars

-----------------------------------------------------------------------------
TypeOK ==
    /\ channel \in {"web", "mobile", "unpaid"} /\ step \in 1..LastStep
    /\ form \in [Fields -> Invalid \cup {"good"}]
    /\ submitting \in BOOLEAN /\ complete \in Nat /\ failed \in BOOLEAN /\ sentBad \subseteq Invalid
    /\ try \in [Tries -> [at : {"idle", "load", "approve", "send", "wait"}, seq : Nat]]
    /\ sequence \in Nat /\ paid \in Nat /\ unknown \in Nat /\ floating \subseteq Nat \ {0}
    /\ tries \in 0..MaxTries /\ edits \in 0..MaxEdits

(***************************************************************************)
(* A payment that the screen does not know of is one whose answer was      *)
(* lost: in all other cases the screen knows what became of a confirmation *)
(* before it takes the next one. The web flow completes once, and pays for *)
(* it, unless it was given nothing to pay with; in the app each completion *)
(* is a remittance, a second one only for who comes back and confirms.     *)
(***************************************************************************)
PaidTwiceOnlyAfterLostAnswer ==
    /\ paid <= complete + unknown
    /\ Web => complete <= 1
    /\ IF channel = "unpaid" THEN paid = 0 ELSE complete <= paid

(***************************************************************************)
(* Nothing is confirmed with an invalid field, however the user goes back  *)
(* and forth and edits: confirming itself asks only for filled fields. But *)
(* the app takes an amount that it cannot read.                            *)
(***************************************************************************)
OnlyValidConfirmed == sentBad \subseteq (IF Web THEN {} ELSE {"unread"})

-----------------------------------------------------------------------------
\* One confirmation is under way at most, and none is after the end of the web flow.
OneTryAtATime ==
    /\ \A t, u \in Tries : try[t] # NoTry /\ try[u] # NoTry => t = u
    /\ \A t \in Tries : try[t] # NoTry =>
         /\ submitting /\ ~Done /\ try[t].at # "idle"
         /\ try[t].at = "wait" <=> channel = "unpaid"

\* A payment beyond those the screen knows of, made or still floating, is one whose
\* answer was lost.
PaymentsAccounted ==
    /\ IsFiniteSet(floating)
    /\ paid + Cardinality(floating) <= unknown + complete
    /\ Web => complete <= 1
    /\ IF channel = "unpaid" THEN paid = 0 /\ unknown = 0 /\ floating = {} ELSE complete <= paid

\* The fields of the steps behind the user have passed.
StepsBehindAreGood ==
    /\ \A s \in 1..(step - 1) : \A f \in FieldsAt(s) : form[f] \in Passes
    /\ ~Web => form["asset"] = "good"

\* The inductive invariant behind the two properties.
IInv ==
    /\ TypeOK /\ OneTryAtATime /\ PaymentsAccounted /\ StepsBehindAreGood
    /\ OnlyValidConfirmed
    /\ \A t \in Tries : Web /\ try[t].at \in {"approve", "send"} => try[t].seq > 0
=============================================================================
