------------------------------- MODULE Screens -------------------------------
(***************************************************************************)
(* The components of the web and mobile clients that fetch what they show. *)
(* They follow one pattern: an effect asks the API when the component      *)
(* mounts or the key it is about changes, some ask again on a timer, on    *)
(* demand or after a change of their own, and each answer is stored as it  *)
(* comes.  A component is a record of the choices that differ:             *)
(*                                                                         *)
(*   keyed      the key may change under it: a property, a selection       *)
(*   waits      asks only after the key rested a while (debounce)          *)
(*   guarded    ignores answers to questions it no longer asks             *)
(*   again      asks again for the same key: a timer, a button             *)
(*   changes    changes what the server holds, and then asks again         *)
(*   failure    what a failed question leaves: the old data ("keeps"),     *)
(*              nothing ("clears"), or a message in their place ("hides")  *)
(*                                                                         *)
(* One component at a time; the server holds a version per change.         *)
(***************************************************************************)
EXTENDS Naturals, FiniteSets

CONSTANTS
    Keys,       \* what a keyed component may be about
    MaxAsks,    \* bound on the questions asked
    MaxVersion  \* bound on the changes at the server

ScreensAssumption == MaxAsks \in Nat \ {0} /\ MaxVersion \in Nat

VARIABLES
    view,       \* the component
    key,        \* what it is about now
    armed,      \* the debounce timer runs
    asks,       \* questions asked so far
    questions,  \* those not answered yet
    shown,      \* the data in its state
    message,    \* an error message is set
    version,    \* the server's version
    mine        \* the version the component's own last change made

screenVars == <<view, key, armed, asks, questions, shown, message, version, mine>>

Component(keyed, waits, guarded, again, changes, failure) ==
    [keyed |-> keyed, waits |-> waits, guarded |-> guarded, again |-> again,
     changes |-> changes, failure |-> failure]

AnchorSelector         == Component(TRUE, FALSE, FALSE, TRUE, FALSE, "hides")
KycStatusBadge         == Component(TRUE, FALSE, FALSE, TRUE, FALSE, "hides")
VerificationBadge      == Component(TRUE, FALSE, FALSE, FALSE, TRUE, "keeps")
ProofOfPayout          == Component(TRUE, FALSE, FALSE, FALSE, FALSE, "hides")
DailyLimits            == Component(TRUE, FALSE, TRUE, FALSE, FALSE, "keeps")
FeePreview             == Component(TRUE, TRUE, FALSE, FALSE, FALSE, "hides")
CorridorAnalytics      == Component(TRUE, FALSE, FALSE, FALSE, FALSE, "keeps")
CorridorAnalyticsTyped == Component(TRUE, FALSE, FALSE, FALSE, FALSE, "keeps")
CorridorComparison     == Component(FALSE, FALSE, FALSE, FALSE, FALSE, "hides")
DeliveryHistory        == Component(TRUE, FALSE, FALSE, FALSE, FALSE, "clears")
Subscriptions          == Component(FALSE, FALSE, FALSE, FALSE, TRUE, "clears")
SubscriptionsTyped     == Component(FALSE, FALSE, FALSE, FALSE, TRUE, "clears")
Anchors                == Component(FALSE, FALSE, FALSE, FALSE, TRUE, "clears")
AnchorsTyped           == Component(FALSE, FALSE, FALSE, FALSE, TRUE, "clears")
Agents                 == Component(FALSE, FALSE, FALSE, FALSE, TRUE, "clears")
AgentsTyped            == Component(FALSE, FALSE, FALSE, FALSE, TRUE, "clears")
Disputes               == Component(FALSE, FALSE, FALSE, TRUE, TRUE, "clears")
ContractHealth         == Component(TRUE, FALSE, FALSE, TRUE, TRUE, "keeps")
ContractHealthTyped    == Component(TRUE, FALSE, FALSE, TRUE, TRUE, "keeps")
MobileRate             == Component(TRUE, FALSE, FALSE, FALSE, FALSE, "keeps")
MobileKycStatus        == Component(FALSE, FALSE, FALSE, FALSE, FALSE, "hides")
MobileHistory          == Component(FALSE, FALSE, FALSE, TRUE, FALSE, "keeps")
MobileDetail           == Component(TRUE, FALSE, FALSE, FALSE, FALSE, "keeps")

Components ==
    {AnchorSelector, KycStatusBadge, VerificationBadge, ProofOfPayout, DailyLimits, FeePreview,
     CorridorAnalytics, CorridorAnalyticsTyped, CorridorComparison, DeliveryHistory,
     Subscriptions, SubscriptionsTyped, Anchors, AnchorsTyped, Agents, AgentsTyped, Disputes,
     ContractHealth, ContractHealthTyped, MobileRate, MobileKycStatus, MobileHistory, MobileDetail}

NoData == [key |-> "none", version |-> 0, asked |-> 0]

\* A question is open until the server reads its version, and answered after.
Ask(k) ==
    /\ asks < MaxAsks
    /\ asks' = asks + 1
    /\ questions' = questions \cup {[asked |-> asks + 1, key |-> k, read |-> FALSE, version |-> 0]}

Init ==
    /\ view \in Components
    /\ key \in Keys
    /\ armed = view.waits
    /\ asks = IF view.waits THEN 0 ELSE 1
    /\ questions = IF view.waits THEN {} ELSE {[asked |-> 1, key |-> key, read |-> FALSE, version |-> 0]}
    /\ shown = NoData /\ message = FALSE
    /\ version = 0 /\ mine = 0

\* Mistaken variant: the effect does not depend on the key.
AsksOnKeyNever(k) == UNCHANGED <<asks, questions>>
AsksOnKey(k) == Ask(k)

ChangeKey(k) ==
    /\ view.keyed /\ k # key
    /\ key' = k
    /\ IF view.waits
       THEN armed' = TRUE /\ UNCHANGED <<asks, questions, message>>
       ELSE AsksOnKey(k) /\ message' = FALSE /\ UNCHANGED armed
    /\ UNCHANGED <<view, shown, version, mine>>

TimerFires ==
    /\ armed
    /\ armed' = FALSE
    /\ Ask(key)
    /\ UNCHANGED <<view, key, shown, message, version, mine>>

AskAgain ==
    /\ view.again
    /\ message' = FALSE
    /\ Ask(key)
    /\ UNCHANGED <<view, key, armed, shown, version, mine>>

\* The component's own change has been answered; it asks again.
Change ==
    /\ view.changes /\ version < MaxVersion
    /\ version' = version + 1 /\ mine' = version + 1
    /\ message' = FALSE
    /\ Ask(key)
    /\ UNCHANGED <<view, key, armed, shown>>

OthersChange ==
    /\ version < MaxVersion
    /\ version' = version + 1
    /\ UNCHANGED <<view, key, armed, asks, questions, shown, message, mine>>

ServerReads(q) ==
    /\ ~q.read
    /\ questions' = (questions \ {q}) \cup {[q EXCEPT !.read = TRUE, !.version = version]}
    /\ UNCHANGED <<view, key, armed, asks, shown, message, version, mine>>

\* Mistaken variant: the cleanup of the effect does not cancel.
WantedAlways(q) == TRUE
Wanted(q) == view.guarded => q.key = key

Answer(q) ==
    /\ q.read
    /\ questions' = questions \ {q}
    /\ IF Wanted(q)
       THEN /\ shown' = [key |-> q.key, version |-> q.version, asked |-> q.asked]
            /\ message' = (message /\ ~view.waits)
       ELSE UNCHANGED <<shown, message>>
    /\ UNCHANGED <<view, key, armed, asks, version, mine>>

Fail(q) ==
    /\ questions' = questions \ {q}
    /\ message' = (message \/ Wanted(q))
    /\ shown' = IF view.failure = "clears" THEN NoData ELSE shown
    /\ UNCHANGED <<view, key, armed, asks, version, mine>>

Next ==
    \/ \E k \in Keys : ChangeKey(k)
    \/ TimerFires \/ AskAgain \/ Change \/ OthersChange
    \/ \E q \in questions : ServerReads(q) \/ Answer(q) \/ Fail(q)

Spec == Init /\ [][Next]_screenVars

-----------------------------------------------------------------------------
ScreensTypeOK ==
    /\ view \in Components /\ key \in Keys
    /\ armed \in BOOLEAN /\ message \in BOOLEAN
    /\ asks \in 0..MaxAsks
    /\ \A q \in questions : q.asked \in 1..asks /\ q.key \in Keys /\ q.version \in 0..version
    /\ shown.key \in Keys \cup {"none"} /\ shown.asked \in 0..asks
    /\ mine \in 0..version /\ version \in 0..MaxVersion

Rests == questions = {} /\ ~armed
Displayed == shown # NoData /\ ~(message /\ view.failure = "hides")

(***************************************************************************)
(* When a component at rest displays the answer to the last question it    *)
(* asked, it displays what it is about now, and no older than its own last *)
(* change: no key change and no change of its own goes without a question. *)
(***************************************************************************)
LastAnswerIsCurrent ==
    Rests /\ Displayed /\ shown.asked = asks => shown.key = key /\ shown.version >= mine

(***************************************************************************)
(* A guarded component never shows the answer to a question about another  *)
(* key that reached it after the key had changed: what it shows of another *)
(* key was shown before, and stays only when the new question failed.      *)
(***************************************************************************)
GuardedChange == view.guarded /\ shown' # shown => shown'.key = key'
GuardedAgainstLateAnswers == [][GuardedChange]_screenVars

\* The inductive invariant: unless the timer runs, the last question is about the key the
\* component is about, and its answer no older than the component's own last change.
Questions == [asked : 1..asks, key : Keys, read : BOOLEAN, version : 0..version]
Shown == [key : Keys, version : 0..version, asked : 1..asks] \cup {NoData}
LastQuestionIsCurrent ==
    ~armed => /\ \A q \in questions : q.asked = asks => q.key = key /\ (q.read => q.version >= mine)
              /\ shown # NoData /\ shown.asked = asks => shown.key = key /\ shown.version >= mine
IInv ==
    /\ ScreensTypeOK /\ questions \subseteq Questions /\ shown \in Shown
    /\ LastQuestionIsCurrent
=============================================================================
