--------------------------- MODULE InboundWebhooks ---------------------------
(***************************************************************************)
(* The webhooks of the anchors: a request passes the middleware at the     *)
(* gate, then the handler (webhook-handler.ts) checks it again, records    *)
(* its nonce and applies its event to the transaction it is about.         *)
(* Deposit and withdrawal updates are checked twice, the second time with  *)
(* the row locked (transaction-state.ts); disputes are checked once and    *)
(* written without a condition.  Requests run side by side, an anchor      *)
(* repeats one it has no good answer to, statements fail and the process   *)
(* restarts.                                                               *)
(*                                                                         *)
(* Requests that lack a header, name an unknown anchor or are ten minutes  *)
(* old are answered before anything is read or written, and left out.      *)
(***************************************************************************)
EXTENDS Naturals, Sequences, FiniteSetTheorems, TLAPS

CONSTANTS
    Events,         \* records: anchor, nonce, kind, txn, to, genuine
    Deposits,       \* transactions of kind deposit
    Withdrawals,    \* transactions of kind withdrawal
    Handlers,       \* requests that may be in hand at a time
    MaxSends,       \* bound on the requests
    MaxFaults       \* bound on failed statements and restarts together

Txns == Deposits \cup Withdrawals

UpdateKinds == {"deposit_update", "withdrawal_update"}
Kinds == UpdateKinds \cup {"dispute_raised", "dispute_resolved", "kyc_update",
                         "contract_created", "other"}
PendingStatuses == {"pending_user_transfer_start", "pending_anchor", "pending_stellar",
                    "pending_external", "pending_trust", "pending_user"}
Statuses == PendingStatuses \cup {"completed", "refunded", "expired", "error", "disputed"}
Final == {"completed", "refunded"}

InboundAssumption ==
    /\ \A e \in Events : e.kind \in Kinds /\ e.txn \in Txns
    /\ \A e \in Events : e.kind = "dispute_resolved" => e.to \in Final
    /\ Deposits \cap Withdrawals = {}
    /\ IsFiniteSet(Events) /\ IsFiniteSet(Handlers)
    /\ MaxSends \in Nat /\ MaxFaults \in Nat

VARIABLES
    status,     \* status[t]: the row of transactions
    kyc,        \* kyc[t]: its kyc_status
    userKyc,    \* userKyc[t]: the status of its user in the KYC store
    created,    \* created[t]: rows of contract_events that say it was created
    announced,  \* announced[t]: how often its creation was handed to the dispatcher
    history,    \* history[t]: the rows of transaction_state_history
    nonces,     \* webhook_processed_nonces
    passed,     \* processedNonces of the middleware's verifier, in the process
    remembered, \* processedNonces of the handler's
    logged,     \* logged[e]: rows of webhook_logs
    request,    \* request[h]: the event in hand, and where its handler stands
    answers,    \* answers[e]: the good answers the anchor has had
    sends,      \* requests so far
    faults      \* failed statements and restarts so far

rows == <<status, kyc, history, userKyc, created, announced>>
memory == <<nonces, passed, remembered, logged>>
vars == <<rows, memory, request, answers, sends, faults>>

Steps == {"idle", "passed", "recorded", "checked", "read", "halfway"}
NoRequest == [on |-> {}, step |-> "idle", saw |-> "none"]
Event(h) == CHOOSE e \in request[h].on : TRUE
At(h, step) == request[h].step = step
Goto(h, step) == request' = [request EXCEPT ![h].step = step]
Answer(h, e, a) ==
    /\ answers' = [answers EXCEPT ![e] = @ \cup {a}]
    /\ request' = [request EXCEPT ![h] = NoRequest]
\* Answers other than 2xx: the anchor will repeat the request.
Refuse(h) == request' = [request EXCEPT ![h] = NoRequest] /\ UNCHANGED answers

Init ==
    /\ status \in [Txns -> {"pending_anchor", "error"}]
    /\ kyc = [t \in Txns |-> "none"] /\ userKyc = [t \in Txns |-> "none"]
    /\ created = [t \in Txns |-> 0] /\ announced = [t \in Txns |-> 0]
    /\ history = [t \in Txns |-> <<>>]
    /\ nonces = {} /\ passed = {} /\ remembered = {}
    /\ logged = [e \in Events |-> 0]
    /\ request = [h \in Handlers |-> NoRequest]
    /\ answers = [e \in Events |-> {}]
    /\ sends = 0
    /\ faults = 0

\* validTransitions: the moves of a deposit and of a withdrawal.
DepositMoves == [s \in Statuses |->
    CASE s = "pending_user_transfer_start" -> {"pending_anchor", "expired", "error"}
      [] s = "pending_anchor" -> {"pending_stellar", "pending_trust", "pending_user", "error"}
      [] s = "pending_trust" -> {"pending_user", "error"}
      [] s \in {"pending_stellar", "pending_user", "pending_external"} -> {"completed", "error"}
      [] s = "error" -> {"refunded"}
      [] OTHER -> {}]
WithdrawalMoves == [s \in Statuses |->
    CASE s = "pending_user_transfer_start" -> {"pending_anchor", "expired", "error"}
      [] s = "pending_anchor" -> {"pending_external", "pending_stellar", "error"}
      [] s \in {"pending_external", "pending_stellar"} -> {"completed", "error"}
      [] s = "error" -> {"refunded"}
      [] OTHER -> {}]
ValidTransition(t, from, to) ==
    to \in (IF t \in Deposits THEN DepositMoves ELSE WithdrawalMoves)[from]

-----------------------------------------------------------------------------
(***************************************************************************)
(* Receiving and checking a request.                                       *)
(***************************************************************************)
\* Mistaken variant: forgets the anchor of a nonce and takes none for new.
IsNewNonceAlways(e) == TRUE
\* recordWebhookNonce: one row per nonce and anchor.
IsNewNonce(e) == <<e.nonce, e.anchor>> \notin nonces

Pass(h, e) == request' = [request EXCEPT ![h] = [NoRequest EXCEPT !.on = {e}, !.step = "passed"]]

\* createWebhookVerificationMiddleware: the nonce is recorded before the signature is looked
\* at, and stays so whatever becomes of the request.
Receive(h, e) ==
    /\ At(h, "idle")
    /\ sends < MaxSends /\ sends' = sends + 1
    /\ passed' = passed \cup {e.nonce}
    /\ IF e.nonce \notin passed /\ e.genuine THEN Pass(h, e) /\ UNCHANGED answers
                                             ELSE Refuse(h)
    /\ UNCHANGED <<rows, nonces, remembered, logged, faults>>

Record(h) ==
    LET e == Event(h) IN
    /\ At(h, "passed")
    /\ IF IsNewNonce(e)
       THEN /\ nonces' = nonces \cup {<<e.nonce, e.anchor>>}
            /\ Goto(h, "recorded") /\ UNCHANGED answers
       ELSE Answer(h, e, "duplicate") /\ UNCHANGED nonces
    /\ UNCHANGED <<rows, passed, remembered, logged, sends, faults>>

\* validateNonce looks at the nonce alone; the same signature was good at the gate.
Check(h) ==
    LET e == Event(h)  fresh == e.nonce \notin remembered IN
    /\ At(h, "recorded")
    /\ remembered' = remembered \cup {e.nonce}
    /\ IF fresh THEN Goto(h, "checked") /\ UNCHANGED answers ELSE Refuse(h)
    /\ UNCHANGED <<rows, nonces, passed, logged, sends, faults>>

Log(h) == logged' = [logged EXCEPT ![Event(h)] = @ + 1]

-----------------------------------------------------------------------------
(***************************************************************************)
(* Applying the event: the log entry and the first read, then the write.   *)
(***************************************************************************)
Accepts(e) ==
    CASE e.kind = "dispute_raised" -> status[e.txn] = "error"
      [] e.kind = "dispute_resolved" -> status[e.txn] = "disputed"
      [] e.kind = "deposit_update" ->
            e.txn \in Deposits /\ ValidTransition(e.txn, status[e.txn], e.to)
      [] e.kind = "withdrawal_update" ->
            e.txn \in Withdrawals /\ ValidTransition(e.txn, status[e.txn], e.to)
      [] e.kind \in {"kyc_update", "contract_created"} -> TRUE
      [] OTHER -> FALSE

\* logWebhook and the handler's SELECT; what it refuses is answered with 500.
Read(h) ==
    LET e == Event(h) IN
    /\ At(h, "checked")
    /\ Log(h)
    /\ IF Accepts(e)
       THEN /\ request' = [request EXCEPT ![h].step = "read", ![h].saw = status[e.txn]]
            /\ UNCHANGED answers
       ELSE Refuse(h)
    /\ UNCHANGED <<rows, nonces, passed, remembered, sends, faults>>

\* Mistaken variant: trusts the check made before the row was locked.
UpdateStateUnchecked(h) ==
    LET e == Event(h) IN
    /\ At(h, "read") /\ e.kind \in UpdateKinds
    /\ status' = [status EXCEPT ![e.txn] = e.to]
    /\ history' = [history EXCEPT ![e.txn] = Append(@, [from |-> e.to, to |-> e.to])]
    /\ Answer(h, e, "ok")
    /\ UNCHANGED <<kyc, userKyc, created, announced, memory, sends, faults>>
\* updateTransactionState: one transaction that locks the row, checks again,
\* updates and writes the history.  The history's SELECT comes after the
\* UPDATE, so its from_status is already the new one.
UpdateState(h) ==
    LET e == Event(h) IN
    /\ At(h, "read") /\ e.kind \in UpdateKinds
    /\ IF ValidTransition(e.txn, status[e.txn], e.to)
       THEN /\ status' = [status EXCEPT ![e.txn] = e.to]
            /\ history' = [history EXCEPT ![e.txn] = Append(@, [from |-> e.to, to |-> e.to])]
            /\ Answer(h, e, "ok")
       ELSE Refuse(h) /\ UNCHANGED <<status, history>>
    /\ UNCHANGED <<kyc, userKyc, created, announced, memory, sends, faults>>

RaiseDispute(h) ==
    LET e == Event(h) IN
    /\ At(h, "read") /\ e.kind = "dispute_raised"
    /\ status' = [status EXCEPT ![e.txn] = "disputed"]
    /\ Answer(h, e, "ok")
    /\ UNCHANGED <<kyc, history, userKyc, created, announced, memory, sends, faults>>

\* resolution = sender refunds, anything else completes.
ResolveDispute(h) ==
    LET e == Event(h) IN
    /\ At(h, "read") /\ e.kind = "dispute_resolved"
    /\ status' = [status EXCEPT ![e.txn] = e.to]
    /\ Answer(h, e, "ok")
    /\ UNCHANGED <<kyc, history, userKyc, created, announced, memory, sends, faults>>

\* updateKYCStatus: whatever the status was;
UpdateKyc(h) ==
    LET e == Event(h) IN
    /\ At(h, "read") /\ e.kind = "kyc_update"
    /\ kyc' = [kyc EXCEPT ![e.txn] = e.to]
    /\ Goto(h, "halfway")
    /\ UNCHANGED <<status, history, userKyc, created, announced, memory, answers, sends, faults>>

\* and then the user's record (module Kyc says what the upsert does with it).
UpsertKyc(h) ==
    LET e == Event(h) IN
    /\ At(h, "halfway") /\ e.kind = "kyc_update"
    /\ userKyc' = [userKyc EXCEPT ![e.txn] = e.to]
    /\ Answer(h, e, "ok")
    /\ UNCHANGED <<status, kyc, history, created, announced, memory, sends, faults>>

\* handleRemittanceCreated: the row of contract_events,
RecordCreation(h) ==
    LET e == Event(h) IN
    /\ At(h, "read") /\ e.kind = "contract_created"
    /\ created' = [created EXCEPT ![e.txn] = @ + 1]
    /\ Goto(h, "halfway")
    /\ UNCHANGED <<status, kyc, history, userKyc, announced, memory, answers, sends, faults>>

\* and then the dispatcher.
AnnounceCreation(h) ==
    LET e == Event(h) IN
    /\ At(h, "halfway") /\ e.kind = "contract_created"
    /\ announced' = [announced EXCEPT ![e.txn] = @ + 1]
    /\ Answer(h, e, "ok")
    /\ UNCHANGED <<status, kyc, history, userKyc, created, memory, sends, faults>>

-----------------------------------------------------------------------------
(***************************************************************************)
(* Failures, restarts and the passing of time.                             *)
(***************************************************************************)
\* A statement fails: 500, and the nonce stays recorded.
StatementFails(h) ==
    /\ ~At(h, "idle")
    /\ faults < MaxFaults /\ faults' = faults + 1
    /\ Refuse(h)
    /\ UNCHANGED <<rows, memory, sends>>

Restart ==
    /\ faults < MaxFaults /\ faults' = faults + 1
    /\ request' = [h \in Handlers |-> NoRequest]
    /\ passed' = {} /\ remembered' = {}
    /\ UNCHANGED <<rows, nonces, logged, answers, sends>>

\* cleanupOldNonces: every five minutes each verifier forgets them all.
ForgetNonces ==
    /\ \/ passed # {} /\ passed' = {} /\ UNCHANGED remembered
       \/ remembered # {} /\ remembered' = {} /\ UNCHANGED passed
    /\ UNCHANGED <<rows, nonces, logged, request, answers, sends, faults>>

Next ==
    \/ \E h \in Handlers, e \in Events : Receive(h, e)
    \/ \E h \in Handlers :
          \/ Record(h) \/ Check(h) \/ Read(h)
          \/ UpdateState(h) \/ RaiseDispute(h) \/ ResolveDispute(h)
          \/ UpdateKyc(h) \/ UpsertKyc(h) \/ RecordCreation(h) \/ AnnounceCreation(h)
          \/ StatementFails(h)
    \/ Restart \/ ForgetNonces

Spec == Init /\ [][Next]_vars

-----------------------------------------------------------------------------
TypeOK ==
    /\ status \in [Txns -> Statuses]
    /\ nonces \subseteq {<<e.nonce, e.anchor>> : e \in Events}
    /\ passed \cup remembered \subseteq {e.nonce : e \in Events}
    /\ logged \in [Events -> Nat] /\ sends \in 0..MaxSends
    /\ request \in [Handlers -> [on : SUBSET Events, step : Steps, saw : Statuses \cup {"none"}]]
    /\ answers \in [Events -> SUBSET {"ok", "duplicate"}]
    /\ faults \in 0..MaxFaults

\* However often an anchor repeats an event, and whatever restarts, the event
\* is processed once at most; and each statement of the anchors that a
\* remittance was created is recorded, and after that announced, at most once.
CreationsOf(t) == {e \in Events : e.kind = "contract_created" /\ e.txn = t}
ProcessedOnce ==
    /\ \A e \in Events : logged[e] <= 1
    /\ \A t \in Txns : announced[t] <= created[t] /\ created[t] <= Cardinality(CreationsOf(t))

\* The statuses a transaction's history records follow one another by the
\* table of its kind, whatever requests and disputes ran side by side.
HistoryIsAPath ==
    \A t \in Txns : \A n \in 1..(Len(history[t]) - 1) :
        ValidTransition(t, history[t][n].to, history[t][n + 1].to)

\* A completed or refunded transaction changes only under a dispute whose
\* handler had read it before it became so.
FinalLeft ==
    \A t \in Txns : status[t] \in Final /\ status'[t] # status[t] =>
        \E h \in Handlers :
            /\ At(h, "read") /\ request[h].saw \notin Final
            /\ Event(h).txn = t /\ Event(h).kind \in {"dispute_raised", "dispute_resolved"}
FinalLeftOnlyByRacingDispute == [][FinalLeft]_vars

\* A nonce answered as a duplicate was already processed (webhook-handler.ts,
\* "return 200 immediately for already-processed nonces").
DuplicateWasProcessed ==
    \A e \in Events : "duplicate" \in answers[e] => "ok" \in answers[e]

-----------------------------------------------------------------------------
(***************************************************************************)
(* Proofs, for any events, handlers and bounds.                            *)
(***************************************************************************)
LEMMA MovesOfATransaction ==
    \A t, from, to : from \in Statuses /\ ValidTransition(t, from, to) =>
        to \in Statuses /\ from \notin Final
<1> SUFFICES ASSUME NEW t, NEW from \in Statuses, NEW to, ValidTransition(t, from, to)
             PROVE  to \in Statuses /\ from \notin Final
  OBVIOUS
<1>1. CASE t \in Deposits
  <2>1. to \in DepositMoves[from]
    BY <1>1 DEF ValidTransition
  <2> QED
    BY <2>1 DEF DepositMoves, Statuses, PendingStatuses, Final
<1>2. CASE t \notin Deposits
  <2>1. to \in WithdrawalMoves[from]
    BY <1>2 DEF ValidTransition
  <2> QED
    BY <2>1 DEF WithdrawalMoves, Statuses, PendingStatuses, Final
<1> QED
  BY <1>1, <1>2

RequestType == [on : SUBSET Events, step : Steps, saw : Statuses \cup {"none"}]

\* A handler at work has one event in hand; one past its first read of a
\* dispute saw the status that a dispute may change.
HandlersInv ==
    /\ status \in [Txns -> Statuses]
    /\ request \in [Handlers -> RequestType]
    /\ \A h \in Handlers : ~At(h, "idle") => \E e \in Events : request[h].on = {e}
    /\ \A h \in Handlers : At(h, "read") =>
          /\ Event(h).kind = "dispute_raised" => request[h].saw = "error"
          /\ Event(h).kind = "dispute_resolved" => request[h].saw = "disputed"

LEMMA EventInHand == HandlersInv => \A h \in Handlers : ~At(h, "idle") =>
                        Event(h) \in Events /\ request[h].on = {Event(h)}
<1> SUFFICES ASSUME HandlersInv, NEW h \in Handlers, ~At(h, "idle")
             PROVE  Event(h) \in Events /\ request[h].on = {Event(h)}
  OBVIOUS
<1>1. PICK e \in Events : request[h].on = {e}
  BY DEF HandlersInv
<1>2. Event(h) = e
  BY <1>1 DEF Event
<1> QED
  BY <1>1, <1>2

\* The request of h becomes x, that of the others stays.
Becomes(h, x) ==
    /\ request' \in [Handlers -> RequestType] /\ request'[h] = x
    /\ \A g \in Handlers \ {h} :
          /\ request'[g] = request[g] /\ Event(g)' = Event(g)
          /\ \A s : At(g, s)' <=> At(g, s)

LEMMA RequestBecomes ==
    ASSUME HandlersInv, NEW h \in Handlers, NEW x \in RequestType,
           request' = [request EXCEPT ![h] = x]
    PROVE  Becomes(h, x)
<1>1. /\ request' \in [Handlers -> RequestType] /\ request'[h] = x
      /\ \A g \in Handlers \ {h} : request'[g] = request[g]
  BY DEF HandlersInv
<1> QED
  BY <1>1 DEF Becomes, Event, At

LEMMA RefusedBecomes ==
    ASSUME HandlersInv, NEW h \in Handlers, Refuse(h) \/ \E e, a : Answer(h, e, a)
    PROVE  Becomes(h, NoRequest)
<1>1. NoRequest \in RequestType /\ request' = [request EXCEPT ![h] = NoRequest]
  BY DEF NoRequest, RequestType, Steps, Refuse, Answer
<1> QED
  BY <1>1, RequestBecomes

LEMMA GotoBecomes ==
    ASSUME HandlersInv, NEW h \in Handlers, NEW s \in Steps, Goto(h, s)
    PROVE  \E x \in RequestType : /\ Becomes(h, x) /\ x.step = s
                                  /\ x.on = request[h].on /\ x.saw = request[h].saw
<1> DEFINE x == [request[h] EXCEPT !.step = s]
<1>1. request[h] \in RequestType
  BY DEF HandlersInv
<1>2. /\ x \in RequestType /\ x.step = s
      /\ x.on = request[h].on /\ x.saw = request[h].saw
  BY <1>1 DEF RequestType
<1>3. request' = [request EXCEPT ![h] = x]
  BY DEF Goto
<1> HIDE DEF x
<1>4. Becomes(h, x)
  BY <1>2, <1>3, RequestBecomes
<1> QED
  BY <1>2, <1>4

\* The handlers' part of the invariant, when the request of h has become x.
LEMMA OneHandlerMoves ==
    ASSUME HandlersInv, NEW h \in Handlers, NEW x, Becomes(h, x),
           x.step # "idle" => \E e \in Events : x.on = {e},
           x.step # "read", status' \in [Txns -> Statuses]
    PROVE  HandlersInv'
<1>1. \A g \in Handlers : ~At(g, "idle")' => \E e \in Events : request'[g].on = {e}
  BY DEF HandlersInv, Becomes, At
<1>2. \A g \in Handlers : At(g, "read")' =>
          /\ Event(g)'.kind = "dispute_raised" => request'[g].saw = "error"
          /\ Event(g)'.kind = "dispute_resolved" => request'[g].saw = "disputed"
  BY DEF HandlersInv, Becomes, At
<1> QED
  BY <1>1, <1>2 DEF HandlersInv, Becomes

\* The steps of a handler after its first read: they end, or stand halfway.
Applies(h) ==
    \/ UpdateState(h) \/ RaiseDispute(h) \/ ResolveDispute(h) \/ UpdateKyc(h) \/ UpsertKyc(h)
    \/ RecordCreation(h) \/ AnnounceCreation(h)

LEMMA ApplyingMoves ==
    ASSUME InboundAssumption, HandlersInv, NEW h \in Handlers, Applies(h) \/ StatementFails(h)
    PROVE  /\ HandlersInv' /\ UNCHANGED <<nonces, logged>>
           /\ \E x \in RequestType : Becomes(h, x) /\ x.step \in {"idle", "halfway"}
<1>1. ~At(h, "idle") /\ UNCHANGED <<nonces, logged>>
  BY DEF Applies, StatementFails, UpdateState, RaiseDispute, ResolveDispute, UpdateKyc,
         UpsertKyc, RecordCreation, AnnounceCreation, At, memory
<1>2. Event(h) \in Events /\ request[h].on = {Event(h)}
  BY <1>1, EventInHand
<1>3. PICK x \in RequestType : /\ Becomes(h, x) /\ x.step \in {"idle", "halfway"}
                               /\ x.step # "idle" => x.on = request[h].on
  <2>1. CASE Goto(h, "halfway")
    BY <2>1, GotoBecomes DEF Steps
  <2>2. CASE Refuse(h) \/ \E e, a : Answer(h, e, a)
    <3>1. NoRequest \in RequestType /\ NoRequest.step = "idle"
      BY DEF NoRequest, RequestType, Steps
    <3> QED
      BY <2>2, <3>1, RefusedBecomes
  <2> QED
    BY <2>1, <2>2 DEF Applies, StatementFails, UpdateState, RaiseDispute, ResolveDispute,
         UpdateKyc, UpsertKyc, RecordCreation, AnnounceCreation
<1>4. status' \in [Txns -> Statuses]
  <2> DEFINE t == Event(h).txn
             to == Event(h).to
  <2>1. t \in Txns /\ (Event(h).kind = "dispute_resolved" => to \in Statuses)
    BY <1>2 DEF InboundAssumption, Final, Statuses
  <2>2. \/ UNCHANGED status
        \/ status' = [status EXCEPT ![t] = to] /\ ValidTransition(t, status[t], to)
        \/ status' = [status EXCEPT ![t] = "disputed"]
        \/ status' = [status EXCEPT ![t] = to] /\ Event(h).kind = "dispute_resolved"
    BY DEF Applies, StatementFails, UpdateState, RaiseDispute, ResolveDispute, UpdateKyc,
         UpsertKyc, RecordCreation, AnnounceCreation, rows
  <2>3. "disputed" \in Statuses
    BY DEF Statuses
  <2> HIDE DEF t, to
  <2>4. \/ UNCHANGED status
        \/ \E s \in Statuses : status' = [status EXCEPT ![t] = s]
    BY <2>1, <2>2, <2>3, MovesOfATransaction DEF HandlersInv
  <2> QED
    BY <2>1, <2>4 DEF HandlersInv
<1>5. HandlersInv'
  BY <1>2, <1>3, <1>4, OneHandlerMoves
<1> QED
  BY <1>1, <1>3, <1>5

LEMMA HandlersNext == InboundAssumption /\ HandlersInv /\ [Next]_vars => HandlersInv'
<1> SUFFICES ASSUME InboundAssumption, HandlersInv, [Next]_vars PROVE HandlersInv'
  OBVIOUS
<1>1. NoRequest \in RequestType /\ NoRequest.step = "idle"
  BY DEF NoRequest, RequestType, Steps
<1>2. ASSUME NEW h \in Handlers, NEW e \in Events, Receive(h, e)
      PROVE  HandlersInv'
  <2> DEFINE x == [NoRequest EXCEPT !.on = {e}, !.step = "passed"]
  <2>1. x \in RequestType /\ x.on = {e} /\ x.step = "passed"
    BY DEF NoRequest, RequestType, Steps
  <2>2. status' \in [Txns -> Statuses]
    BY <1>2 DEF Receive, rows, HandlersInv
  <2>3. request' = [request EXCEPT ![h] = x] \/ Refuse(h)
    BY <1>2 DEF Receive, Pass
  <2> HIDE DEF x
  <2> QED
    BY <1>1, <2>1, <2>2, <2>3, RequestBecomes, RefusedBecomes, OneHandlerMoves
<1>3. ASSUME NEW h \in Handlers, Record(h) \/ Check(h)
      PROVE  HandlersInv'
  <2>1. ~At(h, "idle") /\ status' \in [Txns -> Statuses]
    BY <1>3 DEF Record, Check, At, rows, HandlersInv
  <2>2. request[h].on = {Event(h)} /\ Event(h) \in Events
    BY <2>1, EventInHand
  <2>3. \/ Goto(h, "recorded") \/ Goto(h, "checked")
        \/ Refuse(h) \/ \E e, a : Answer(h, e, a)
    BY <1>3 DEF Record, Check
  <2>4. \E x \in RequestType : /\ Becomes(h, x) /\ x.step \in {"idle", "recorded", "checked"}
                               /\ x.step # "idle" => x.on = request[h].on
    BY <1>1, <2>3, GotoBecomes, RefusedBecomes DEF Steps
  <2> QED
    BY <2>1, <2>2, <2>4, OneHandlerMoves
<1>4. ASSUME NEW h \in Handlers, Read(h)
      PROVE  HandlersInv'
  <2>1. ~At(h, "idle") /\ status' \in [Txns -> Statuses]
    BY <1>4 DEF Read, At, rows, HandlersInv
  <2>2. request[h].on = {Event(h)} /\ Event(h) \in Events
    BY <2>1, EventInHand
  <2>3. CASE Refuse(h)
    BY <1>1, <2>1, <2>3, RefusedBecomes, OneHandlerMoves
  <2>4. CASE ~Refuse(h)
    <3> DEFINE s == status[Event(h).txn]
               x == [request[h] EXCEPT !.step = "read", !.saw = s]
    <3>1. s \in Statuses
      BY <2>2 DEF InboundAssumption, HandlersInv
    <3>2. request' = [request EXCEPT ![h] = x] /\ Accepts(Event(h))
      BY <1>4, <2>4 DEF Read
    <3>3. request[h] \in RequestType
      BY DEF HandlersInv
    <3>4. x \in RequestType /\ x.on = {Event(h)} /\ x.step = "read" /\ x.saw = s
      BY <2>2, <3>1, <3>3 DEF RequestType, Steps
    <3>5. /\ Event(h).kind = "dispute_raised" => s = "error"
          /\ Event(h).kind = "dispute_resolved" => s = "disputed"
      BY <3>2 DEF Accepts
    <3> HIDE DEF x, s
    <3>6. Becomes(h, x)
      BY <3>2, <3>4, RequestBecomes
    <3>7. Event(h)' = Event(h)
      BY <2>2, <3>4, <3>6 DEF Becomes, Event
    <3>8. \A g \in Handlers : ~At(g, "idle")' => \E e \in Events : request'[g].on = {e}
      BY <2>2, <3>4, <3>6 DEF HandlersInv, Becomes, At
    <3>9. \A g \in Handlers : At(g, "read")' =>
             /\ Event(g)'.kind = "dispute_raised" => request'[g].saw = "error"
             /\ Event(g)'.kind = "dispute_resolved" => request'[g].saw = "disputed"
      <4> SUFFICES ASSUME NEW g \in Handlers, At(g, "read")'
                   PROVE  /\ Event(g)'.kind = "dispute_raised" => request'[g].saw = "error"
                          /\ Event(g)'.kind = "dispute_resolved" => request'[g].saw = "disputed"
        OBVIOUS
      <4>1. CASE g = h
        BY <3>4, <3>5, <3>6, <3>7, <4>1 DEF Becomes
      <4>2. CASE g # h
        BY <3>6, <4>2 DEF HandlersInv, Becomes
      <4> QED
        BY <4>1, <4>2
    <3> QED
      BY <2>1, <3>6, <3>8, <3>9 DEF HandlersInv, Becomes
  <2> QED
    BY <2>3, <2>4
<1>5. ASSUME NEW h \in Handlers, Applies(h) \/ StatementFails(h)
      PROVE  HandlersInv'
  BY <1>5, ApplyingMoves
<1>6. CASE Restart
  <2>1. request' = [h \in Handlers |-> NoRequest] /\ status' = status
    BY <1>6 DEF Restart, rows
  <2>2. \A h \in Handlers : ~At(h, "read")' /\ At(h, "idle")'
    BY <1>1, <2>1 DEF At
  <2> QED
    BY <1>1, <2>1, <2>2 DEF HandlersInv
<1>7. CASE ForgetNonces \/ UNCHANGED vars
  BY <1>7 DEF ForgetNonces, vars, rows, HandlersInv, At, Event
<1> QED
  BY <1>2, <1>3, <1>4, <1>5, <1>6, <1>7 DEF Next, Applies

LEMMA HandlersBegin == Init => HandlersInv
<1> SUFFICES ASSUME Init PROVE HandlersInv
  OBVIOUS
<1>1. NoRequest \in RequestType /\ NoRequest.step = "idle"
  BY DEF NoRequest, RequestType, Steps
<1>2. {"pending_anchor", "error"} \subseteq Statuses
  BY DEF Statuses, PendingStatuses
<1> QED
  BY <1>1, <1>2 DEF Init, HandlersInv, At

(***************************************************************************)
(* A completed or refunded transaction leaves its status only under a      *)
(* dispute read before: its handler saw "error" or "disputed", and updates *)
(* check the transition again with the row locked.                         *)
(***************************************************************************)
LEMMA FinalStep == InboundAssumption /\ HandlersInv /\ [Next]_vars => FinalLeft
<1> SUFFICES ASSUME InboundAssumption, HandlersInv, Next, NEW t \in Txns,
                    status[t] \in Final, status'[t] # status[t]
             PROVE  \E h \in Handlers :
                       /\ At(h, "read") /\ request[h].saw \notin Final
                       /\ Event(h).txn = t /\ Event(h).kind \in {"dispute_raised", "dispute_resolved"}
  BY DEF FinalLeft, vars, rows
<1>1. PICK h \in Handlers : UpdateState(h) \/ RaiseDispute(h) \/ ResolveDispute(h)
  BY DEF Next, Receive, Record, Check, Read, UpdateKyc, UpsertKyc, RecordCreation,
         AnnounceCreation, StatementFails, Restart, ForgetNonces, rows
<1>2. At(h, "read") /\ Event(h) \in Events /\ Event(h).txn \in Txns
  BY <1>1, EventInHand DEF UpdateState, RaiseDispute, ResolveDispute, At, InboundAssumption
<1>3. Event(h).txn = t
  BY <1>1, <1>2 DEF UpdateState, RaiseDispute, ResolveDispute, HandlersInv
<1>4. ~UpdateState(h)
  BY <1>2, <1>3, MovesOfATransaction DEF UpdateState, HandlersInv
<1>5. \/ Event(h).kind = "dispute_raised" /\ request[h].saw = "error"
      \/ Event(h).kind = "dispute_resolved" /\ request[h].saw = "disputed"
  BY <1>1, <1>2, <1>4 DEF RaiseDispute, ResolveDispute, HandlersInv
<1> QED
  BY <1>2, <1>3, <1>5 DEF Final

THEOREM FinalIsKept ==
    ASSUME InboundAssumption
    PROVE  Spec => FinalLeftOnlyByRacingDispute
<1>1. HandlersInv /\ [Next]_vars => HandlersInv' /\ [FinalLeft]_vars
  BY HandlersNext, FinalStep
<1> QED
  BY <1>1, HandlersBegin, PTL DEF Spec, FinalLeftOnlyByRacingDispute

\* Who is past Record and not yet past Read has its key among the nonces, is
\* alone with its event, and that event is not logged yet.
IsRecorded(e) == <<e.nonce, e.anchor>> \in nonces
Unlogged(h) == At(h, "recorded") \/ At(h, "checked")

LogInv ==
    /\ logged \in [Events -> Nat]
    /\ \A e \in Events : logged[e] <= 1 /\ (logged[e] # 0 => IsRecorded(e))
    /\ \A h \in Handlers : Unlogged(h) => IsRecorded(Event(h)) /\ logged[Event(h)] = 0
    /\ \A h, g \in Handlers : Unlogged(h) /\ Unlogged(g) /\ Event(h) = Event(g) => h = g

LEMMA LogNext == InboundAssumption /\ HandlersInv /\ LogInv /\ [Next]_vars => LogInv'
<1> SUFFICES ASSUME InboundAssumption, HandlersInv, LogInv, [Next]_vars PROVE LogInv'
  OBVIOUS
<1>1. NoRequest \in RequestType /\ NoRequest.step = "idle"
  BY DEF NoRequest, RequestType, Steps
<1>2. ASSUME NEW h \in Handlers, NEW x, Becomes(h, x), x.step \notin {"recorded", "checked"},
             nonces' = nonces, logged' = logged
      PROVE  LogInv'
  <2>1. ~Unlogged(h)'
    BY <1>2 DEF Becomes, Unlogged, At
  <2>2. \A g \in Handlers \ {h} : Event(g)' = Event(g) /\ (Unlogged(g)' <=> Unlogged(g))
    BY <1>2 DEF Becomes, Unlogged
  <2>3. \A e : IsRecorded(e)' <=> IsRecorded(e)
    BY <1>2 DEF IsRecorded
  <2> QED
    BY <1>2, <2>1, <2>2, <2>3 DEF LogInv
<1>3. ASSUME NEW h \in Handlers, NEW e \in Events, Receive(h, e)
      PROVE  LogInv'
  <2> DEFINE x == [NoRequest EXCEPT !.on = {e}, !.step = "passed"]
  <2>1. x \in RequestType /\ x.step = "passed"
    BY DEF NoRequest, RequestType, Steps
  <2>2. request' = [request EXCEPT ![h] = x] \/ Refuse(h)
    BY <1>3 DEF Receive, Pass
  <2>3. nonces' = nonces /\ logged' = logged
    BY <1>3 DEF Receive
  <2> HIDE DEF x
  <2> QED
    BY <1>1, <1>2, <2>1, <2>2, <2>3, RequestBecomes, RefusedBecomes
<1>4. ASSUME NEW h \in Handlers, Record(h)
      PROVE  LogInv'
  <2>1. ~At(h, "idle") /\ logged' = logged
    BY <1>4 DEF Record, At
  <2>2. PICK d \in Events : d = Event(h) /\ request[h].on = {d}
    BY <2>1, EventInHand
  <2>3. CASE IsRecorded(d)
    <3>1. nonces' = nonces /\ \E e, a : Answer(h, e, a)
      BY <1>4, <2>2, <2>3 DEF Record, IsNewNonce, IsRecorded
    <3> QED
      BY <1>1, <1>2, <2>1, <3>1, RefusedBecomes
  <2>4. CASE ~IsRecorded(d)
    <3>1. Goto(h, "recorded") /\ nonces' = nonces \cup {<<d.nonce, d.anchor>>}
      BY <1>4, <2>2, <2>4 DEF Record, IsNewNonce, IsRecorded
    <3>2. PICK x \in RequestType : Becomes(h, x) /\ x.on = {d}
      BY <2>2, <3>1, GotoBecomes DEF Steps
    <3>3. Event(h)' = d
      BY <2>2, <3>2 DEF Becomes, Event
    <3>4. \A g \in Handlers \ {h} : Event(g)' = Event(g) /\ (Unlogged(g)' <=> Unlogged(g))
      BY <3>2 DEF Becomes, Unlogged
    <3>5. IsRecorded(d)' /\ \A e : IsRecorded(e) => IsRecorded(e)'
      BY <3>1 DEF IsRecorded
    <3>6. logged'[d] = 0 /\ \A g \in Handlers : Unlogged(g) => Event(g) # d
      BY <2>1, <2>2, <2>4 DEF LogInv
    <3> QED
      BY <2>1, <3>3, <3>4, <3>5, <3>6 DEF LogInv
  <2> QED
    BY <2>3, <2>4
<1>5. ASSUME NEW h \in Handlers, Check(h)
      PROVE  LogInv'
  <2>1. /\ ~At(h, "idle") /\ Unlogged(h) /\ logged' = logged /\ nonces' = nonces
        /\ Goto(h, "checked") \/ Refuse(h)
    BY <1>5 DEF Check, At, Unlogged
  <2>2. CASE Refuse(h)
    BY <1>1, <1>2, <2>1, <2>2, RefusedBecomes
  <2>3. CASE Goto(h, "checked")
    <3>1. PICK x \in RequestType : Becomes(h, x) /\ x.on = request[h].on
      BY <2>3, GotoBecomes DEF Steps
    <3>2. Event(h)' = Event(h)
      BY <3>1 DEF Becomes, Event
    <3>3. \A g \in Handlers \ {h} : Event(g)' = Event(g) /\ (Unlogged(g)' <=> Unlogged(g))
      BY <3>1 DEF Becomes, Unlogged
    <3>4. \A e : IsRecorded(e)' <=> IsRecorded(e)
      BY <2>1 DEF IsRecorded
    <3> QED
      BY <2>1, <3>2, <3>3, <3>4 DEF LogInv
  <2> QED
    BY <2>1, <2>2, <2>3
<1>6. ASSUME NEW h \in Handlers, Read(h)
      PROVE  LogInv'
  <2>1. /\ ~At(h, "idle") /\ Unlogged(h) /\ nonces' = nonces
        /\ logged' = [logged EXCEPT ![Event(h)] = @ + 1]
    BY <1>6 DEF Read, Log, At, Unlogged
  <2>2. PICK d \in Events : d = Event(h)
    BY <2>1, EventInHand
  <2>3. ~Unlogged(h)' /\ \A g \in Handlers \ {h} : request'[g] = request[g]
    <3>1. CASE Refuse(h)
      BY <1>1, <3>1, RefusedBecomes DEF Becomes, Unlogged, At
    <3>2. CASE ~Refuse(h)
      <4>1. request' = [request EXCEPT ![h].step = "read", ![h].saw = status[Event(h).txn]]
        BY <1>6, <3>2 DEF Read
      <4>2. request \in [Handlers -> RequestType]
        BY DEF HandlersInv
      <4> QED
        BY <4>1, <4>2 DEF Unlogged, At, RequestType
    <3> QED
      BY <3>1, <3>2
  <2>4. \A g \in Handlers \ {h} : Event(g)' = Event(g) /\ (Unlogged(g)' <=> Unlogged(g))
    BY <2>3 DEF Event, Unlogged, At
  <2>5. \A e : IsRecorded(e)' <=> IsRecorded(e)
    BY <2>1 DEF IsRecorded
  <2>6. logged[d] = 0 /\ IsRecorded(d) /\ \A g \in Handlers \ {h} : Unlogged(g) => Event(g) # d
    BY <2>1, <2>2 DEF LogInv
  <2>7. logged' \in [Events -> Nat] /\ logged'[d] = 1 /\ \A e \in Events \ {d} : logged'[e] = logged[e]
    BY <2>1, <2>2, <2>6 DEF LogInv
  <2>8. \A g \in Handlers \ {h} : Unlogged(g) => Event(g) \in Events
    BY EventInHand DEF Unlogged, At
  <2>9. \A g \in Handlers : Unlogged(g)' => IsRecorded(Event(g)') /\ logged'[Event(g)'] = 0
    BY <2>3, <2>4, <2>6, <2>7, <2>8 DEF LogInv
  <2>10. \A e \in Events : logged'[e] <= 1 /\ (logged'[e] # 0 => IsRecorded(e)')
    BY <2>5, <2>6, <2>7 DEF LogInv
  <2>11. \A g, k \in Handlers : Unlogged(g)' /\ Unlogged(k)' /\ Event(g)' = Event(k)' => g = k
    BY <2>3, <2>4 DEF LogInv
  <2> QED
    BY <2>5, <2>7, <2>9, <2>10, <2>11 DEF LogInv
<1>7. ASSUME NEW h \in Handlers, Applies(h) \/ StatementFails(h)
      PROVE  LogInv'
  BY <1>2, <1>7, ApplyingMoves
<1>8. CASE Restart
  <2>1. \A h \in Handlers : ~Unlogged(h)'
    BY <1>1, <1>8 DEF Restart, Unlogged, At
  <2>2. logged' = logged /\ \A e : IsRecorded(e)' <=> IsRecorded(e)
    BY <1>8 DEF Restart, IsRecorded
  <2> QED
    BY <2>1, <2>2 DEF LogInv
<1>9. CASE ForgetNonces \/ UNCHANGED vars
  BY <1>9 DEF ForgetNonces, vars, memory, LogInv, IsRecorded, Unlogged, At, Event
<1> QED
  BY <1>3, <1>4, <1>5, <1>6, <1>7, <1>8, <1>9 DEF Next, Applies

LEMMA LogBegins == Init => LogInv
<1> SUFFICES ASSUME Init PROVE LogInv
  OBVIOUS
<1>1. NoRequest.step = "idle"
  BY DEF NoRequest
<1>2. \A h \in Handlers : ~Unlogged(h)
  BY <1>1 DEF Init, Unlogged, At
<1> QED
  BY <1>2 DEF Init, LogInv

\* The handlers that stand at s with the creation of t, and the creations of t nobody logged.
Creating(s, t) == {h \in Handlers : /\ At(h, s) /\ Event(h).kind = "contract_created"
                                    /\ Event(h).txn = t}
Unheard(t) == {e \in CreationsOf(t) : logged[e] = 0}

\* Every creation that was announced was recorded, and every one recorded was logged: a
\* handler on its way from one to the other stands for the one still missing.
CountsFit(t) ==
    /\ announced[t] + Cardinality(Creating("halfway", t)) <= created[t]
    /\ created[t] + Cardinality(Creating("read", t)) + Cardinality(Unheard(t))
          <= Cardinality(CreationsOf(t))
CountInv ==
    /\ created \in [Txns -> Nat] /\ announced \in [Txns -> Nat]
    /\ \A t \in Txns : CountsFit(t)

LEMMA CountedAreFinite ==
    ASSUME InboundAssumption, NEW t
    PROVE  /\ \A s : IsFiniteSet(Creating(s, t)) /\ Cardinality(Creating(s, t)) \in Nat
           /\ IsFiniteSet(CreationsOf(t)) /\ Cardinality(CreationsOf(t)) \in Nat
           /\ IsFiniteSet(Unheard(t)) /\ Cardinality(Unheard(t)) \in Nat
<1>1. \A s : Creating(s, t) \in SUBSET Handlers
  BY DEF Creating
<1>2. CreationsOf(t) \in SUBSET Events /\ Unheard(t) \in SUBSET Events
  BY DEF CreationsOf, Unheard
<1>3. IsFiniteSet(Events) /\ IsFiniteSet(Handlers)
  BY DEF InboundAssumption
<1>4. \A S \in SUBSET Handlers : IsFiniteSet(S) /\ Cardinality(S) \in Nat
  BY <1>3, FS_Subset, FS_CardinalityType
<1>5. \A S \in SUBSET Events : IsFiniteSet(S) /\ Cardinality(S) \in Nat
  BY <1>3, FS_Subset, FS_CardinalityType
<1> QED
  BY <1>1, <1>2, <1>4, <1>5

\* A step that counts nothing, and in which no handler takes up a creation.
LEMMA CountsStay ==
    ASSUME InboundAssumption, NEW t, CountsFit(t),
           created'[t] = created[t] /\ created[t] \in Nat,
           announced'[t] = announced[t] /\ announced[t] \in Nat,
           Creating("read", t)' \subseteq Creating("read", t),
           Creating("halfway", t)' \subseteq Creating("halfway", t),
           Unheard(t)' \subseteq Unheard(t)
    PROVE  CountsFit(t)'
<1>1. \A S, T : IsFiniteSet(S) /\ T \subseteq S => Cardinality(T) <= Cardinality(S) /\ IsFiniteSet(T)
  BY FS_Subset
<1>2. \A S : IsFiniteSet(S) => Cardinality(S) \in Nat
  BY FS_CardinalityType
<1>3. /\ Cardinality(Creating("read", t)') <= Cardinality(Creating("read", t))
      /\ Cardinality(Creating("halfway", t)') <= Cardinality(Creating("halfway", t))
      /\ Cardinality(Unheard(t)') <= Cardinality(Unheard(t))
      /\ Cardinality(Creating("read", t)') \in Nat
      /\ Cardinality(Creating("halfway", t)') \in Nat
      /\ Cardinality(Unheard(t)') \in Nat
  BY <1>1, <1>2, CountedAreFinite
<1>4. CreationsOf(t)' = CreationsOf(t)
  BY DEF CreationsOf
<1> QED
  BY <1>3, <1>4, CountedAreFinite DEF CountsFit

\* Only h goes elsewhere, and it stands where x does.
LEMMA OthersStand ==
    ASSUME NEW h \in Handlers, NEW x, Becomes(h, x), NEW s, NEW t
    PROVE  /\ Creating(s, t)' \ {h} = Creating(s, t) \ {h}
           /\ x.step # s => h \notin Creating(s, t)'
BY DEF Becomes, Creating, At

LEMMA CountNext == InboundAssumption /\ HandlersInv /\ LogInv /\ CountInv /\ [Next]_vars => CountInv'
<1> SUFFICES ASSUME InboundAssumption, HandlersInv, LogInv, CountInv, [Next]_vars PROVE CountInv'
  OBVIOUS
<1>1. /\ created \in [Txns -> Nat] /\ announced \in [Txns -> Nat] /\ logged \in [Events -> Nat]
      /\ \A t \in Txns : CountsFit(t)
  BY DEF CountInv, LogInv
<1>2. NoRequest \in RequestType /\ NoRequest.step = "idle"
  BY DEF NoRequest, RequestType, Steps
\* h takes up no creation, and nothing is counted.
<1>3. ASSUME NEW h \in Handlers, NEW x, Becomes(h, x),
             x.step = "read" => Event(h)'.kind # "contract_created",
             x.step = "halfway" => Event(h)'.kind # "contract_created",
             created' = created, announced' = announced,
             \A t \in Txns : Unheard(t)' \subseteq Unheard(t)
      PROVE  CountInv'
  <2>1. \A t : /\ Creating("read", t)' \subseteq Creating("read", t)
               /\ Creating("halfway", t)' \subseteq Creating("halfway", t)
    BY <1>3 DEF Creating, Becomes, At
  <2>2. \A t \in Txns : CountsFit(t)'
    BY <1>1, <1>3, <2>1, CountsStay
  <2> QED
    BY <1>1, <1>3, <2>2 DEF CountInv
<1>4. \A t \in Txns : logged' = logged => Unheard(t)' \subseteq Unheard(t)
  BY DEF Unheard, CreationsOf
<1>5. ASSUME NEW h \in Handlers, NEW e \in Events, Receive(h, e) PROVE CountInv'
  <2> DEFINE x == [NoRequest EXCEPT !.on = {e}, !.step = "passed"]
  <2>1. x \in RequestType /\ x.step = "passed"
    BY DEF NoRequest, RequestType, Steps
  <2>2. request' = [request EXCEPT ![h] = x] \/ Refuse(h)
    BY <1>5 DEF Receive, Pass
  <2>3. created' = created /\ announced' = announced /\ logged' = logged
    BY <1>5 DEF Receive, rows
  <2> HIDE DEF x
  <2> QED
    BY <1>2, <1>3, <1>4, <2>1, <2>2, <2>3, RequestBecomes, RefusedBecomes
<1>6. ASSUME NEW h \in Handlers, Record(h) \/ Check(h) PROVE CountInv'
  <2>1. created' = created /\ announced' = announced /\ logged' = logged
    BY <1>6 DEF Record, Check, rows
  <2>2. \/ Goto(h, "recorded") \/ Goto(h, "checked")
        \/ Refuse(h) \/ \E e, a : Answer(h, e, a)
    BY <1>6 DEF Record, Check
  <2>3. \E x \in RequestType : Becomes(h, x) /\ x.step \in {"idle", "recorded", "checked"}
    BY <1>2, <2>2, GotoBecomes, RefusedBecomes DEF Steps
  <2> QED
    BY <1>3, <1>4, <2>1, <2>3
\* The request is logged; a creation that is read was not, and now waits to be recorded.
<1>7. ASSUME NEW h \in Handlers, Read(h) PROVE CountInv'
  <2> DEFINE e == Event(h)
  <2>1. /\ At(h, "checked") /\ logged' = [logged EXCEPT ![e] = @ + 1]
        /\ created' = created /\ announced' = announced
    BY <1>7 DEF Read, Log, rows
  <2>2. e \in Events /\ request[h].on = {e} /\ logged[e] = 0
    BY <2>1, EventInHand DEF At, LogInv, Unlogged
  <2>3. \A d \in Events : logged'[d] = (IF d = e THEN 1 ELSE logged[d])
    BY <1>1, <2>1, <2>2
  <2> HIDE DEF e
  <2>4. \A t : Unheard(t)' = Unheard(t) \ {e}
    BY <2>2, <2>3 DEF Unheard, CreationsOf
  <2>5. CASE Refuse(h)
    BY <1>2, <1>3, <2>1, <2>4, <2>5, RefusedBecomes
  <2>6. CASE ~Refuse(h)
    <3> DEFINE x == [request[h] EXCEPT !.step = "read", !.saw = status[e.txn]]
    <3>1. request' = [request EXCEPT ![h] = x]
      BY <1>7, <2>6 DEF Read, e
    <3>2. request[h] \in RequestType /\ status[e.txn] \in Statuses
      BY <2>2 DEF HandlersInv, InboundAssumption
    <3>3. x \in RequestType /\ x.step = "read" /\ x.on = {e}
      BY <2>2, <3>2 DEF RequestType, Steps
    <3> HIDE DEF x
    <3>4. Becomes(h, x)
      BY <3>1, <3>3, RequestBecomes
    <3>5. Event(h)' = e
      BY <3>3, <3>4 DEF Becomes, Event
    <3>6. CASE e.kind # "contract_created"
      BY <1>3, <2>1, <2>4, <3>3, <3>4, <3>5, <3>6
    <3>7. CASE e.kind = "contract_created"
      <4>1. ASSUME NEW t \in Txns PROVE CountsFit(t)'
        <5>1. Creating("halfway", t)' \subseteq Creating("halfway", t)
          BY <3>3, <3>4, OthersStand
        <5>2. CASE e.txn # t
          <6>1. Creating("read", t)' \subseteq Creating("read", t)
            BY <3>4, <3>5, <5>2 DEF Creating, Becomes
          <6> QED
            BY <1>1, <2>1, <2>4, <5>1, <6>1, CountsStay
        <5>3. CASE e.txn = t
          <6>1. h \notin Creating("read", t)
            BY <2>1 DEF Creating, At
          <6>2. At(h, "read")'
            BY <3>3, <3>4 DEF Becomes, At
          <6>3. Creating("read", t)' = Creating("read", t) \cup {h}
            <7>1. h \in Creating("read", t)'
              BY <3>5, <3>7, <5>3, <6>2 DEF Creating
            <7> QED
              BY <3>4, <6>1, <7>1, OthersStand
          <6>4. e \in Unheard(t)
            BY <2>2, <3>7, <5>3 DEF Unheard, CreationsOf
          <6>5. /\ Cardinality(Creating("read", t)') = Cardinality(Creating("read", t)) + 1
                /\ Cardinality(Unheard(t)') = Cardinality(Unheard(t)) - 1
            BY <2>4, <6>1, <6>3, <6>4, CountedAreFinite, FS_AddElement, FS_RemoveElement
          <6>6. /\ Cardinality(Creating("halfway", t)') <= Cardinality(Creating("halfway", t))
                /\ Cardinality(Creating("halfway", t)') \in Nat
            <7>1. IsFiniteSet(Creating("halfway", t))
              BY CountedAreFinite
            <7> QED
              BY <5>1, <7>1, FS_Subset, FS_CardinalityType
          <6>7. CreationsOf(t)' = CreationsOf(t)
            BY DEF CreationsOf
          <6> QED
            BY <1>1, <2>1, <6>5, <6>6, <6>7, CountedAreFinite DEF CountsFit
        <5> QED
          BY <5>2, <5>3
      <4> QED
        BY <1>1, <2>1, <4>1 DEF CountInv
    <3> QED
      BY <3>6, <3>7
  <2> QED
    BY <2>5, <2>6
<1>8. ASSUME NEW h \in Handlers, \/ UpdateState(h) \/ RaiseDispute(h) \/ ResolveDispute(h)
                                 \/ UpsertKyc(h) \/ StatementFails(h)
      PROVE  CountInv'
  <2>1. created' = created /\ announced' = announced /\ logged' = logged
    BY <1>8 DEF UpdateState, RaiseDispute, ResolveDispute, UpsertKyc, StatementFails, rows, memory
  <2>2. Refuse(h) \/ \E e, a : Answer(h, e, a)
    BY <1>8 DEF UpdateState, RaiseDispute, ResolveDispute, UpsertKyc, StatementFails
  <2> QED
    BY <1>2, <1>3, <1>4, <2>1, <2>2, RefusedBecomes
\* A handler goes halfway with its event.
<1>9. ASSUME NEW h \in Handlers, At(h, "read"), Goto(h, "halfway")
      PROVE  \E x \in RequestType : Becomes(h, x) /\ x.step = "halfway" /\ Event(h)' = Event(h)
  <2>1. PICK x \in RequestType : Becomes(h, x) /\ x.step = "halfway" /\ x.on = request[h].on
    BY <1>9, GotoBecomes DEF Steps
  <2> QED
    BY <2>1 DEF Becomes, Event
<1>10. ASSUME NEW h \in Handlers, UpdateKyc(h) PROVE CountInv'
  <2>1. /\ created' = created /\ announced' = announced /\ logged' = logged
        /\ At(h, "read") /\ Goto(h, "halfway") /\ Event(h).kind # "contract_created"
    BY <1>10 DEF UpdateKyc, memory
  <2> QED
    BY <1>3, <1>4, <1>9, <2>1
<1>11. ASSUME NEW h \in Handlers, RecordCreation(h) PROVE CountInv'
  <2> DEFINE u == Event(h).txn
  <2>1. /\ At(h, "read") /\ Goto(h, "halfway") /\ Event(h).kind = "contract_created"
        /\ created' = [created EXCEPT ![u] = @ + 1] /\ announced' = announced /\ logged' = logged
    BY <1>11 DEF RecordCreation, memory
  <2>2. u \in Txns
    BY <2>1, EventInHand DEF At, InboundAssumption
  <2>3. PICK x \in RequestType : Becomes(h, x) /\ x.step = "halfway" /\ Event(h)' = Event(h)
    BY <1>9, <2>1
  <2> HIDE DEF u
  <2>4. created' \in [Txns -> Nat] /\ \A t \in Txns : created'[t] = IF t = u THEN created[t] + 1 ELSE created[t]
    BY <1>1, <2>1, <2>2
  <2>5. ASSUME NEW t \in Txns PROVE CountsFit(t)'
    <3>1. h \notin Creating("read", t)' /\ h \notin Creating("halfway", t)
      BY <2>1, <2>3, OthersStand DEF Creating, At
    <3>2. Unheard(t)' = Unheard(t) /\ CreationsOf(t)' = CreationsOf(t)
      BY <2>1 DEF Unheard, CreationsOf
    <3>3. CASE t # u
      <4>1. Creating("read", t)' \subseteq Creating("read", t)
        BY <2>3, <3>1, OthersStand
      <4>2. h \notin Creating("halfway", t)'
        BY <2>3, <3>3 DEF Creating, u
      <4>3. Creating("halfway", t)' \subseteq Creating("halfway", t)
        BY <2>3, <4>2, OthersStand
      <4> QED
        BY <1>1, <2>1, <2>4, <3>2, <3>3, <4>1, <4>3, CountsStay
    <3>4. CASE t = u
      <4>1. h \in Creating("read", t) /\ At(h, "halfway")'
        BY <2>1, <2>3, <3>4 DEF Creating, u, Becomes, At
      <4>2. h \in Creating("halfway", t)'
        BY <2>1, <2>3, <3>4, <4>1 DEF Creating, u
      <4>3. /\ Creating("read", t)' = Creating("read", t) \ {h}
            /\ Creating("halfway", t)' = Creating("halfway", t) \cup {h}
        BY <2>3, <3>1, <4>2, OthersStand
      <4>4. /\ Cardinality(Creating("read", t)') = Cardinality(Creating("read", t)) - 1
            /\ Cardinality(Creating("halfway", t)') = Cardinality(Creating("halfway", t)) + 1
        <5>1. IsFiniteSet(Creating("read", t)) /\ IsFiniteSet(Creating("halfway", t))
          BY CountedAreFinite
        <5>2. Cardinality(Creating("read", t) \ {h}) = Cardinality(Creating("read", t)) - 1
          BY <4>1, <5>1, FS_RemoveElement
        <5>3. Cardinality(Creating("halfway", t) \cup {h}) = Cardinality(Creating("halfway", t)) + 1
          BY <3>1, <5>1, FS_AddElement
        <5> QED
          BY <4>3, <5>2, <5>3
      <4> QED
        BY <1>1, <2>1, <2>4, <3>2, <3>4, <4>4, CountedAreFinite DEF CountsFit
    <3> QED
      BY <3>3, <3>4
  <2> QED
    BY <1>1, <2>1, <2>4, <2>5 DEF CountInv
<1>12. ASSUME NEW h \in Handlers, AnnounceCreation(h) PROVE CountInv'
  <2> DEFINE u == Event(h).txn
  <2>1. /\ At(h, "halfway") /\ Event(h).kind = "contract_created" /\ created' = created
        /\ announced' = [announced EXCEPT ![u] = @ + 1] /\ logged' = logged
        /\ \E e, a : Answer(h, e, a)
    BY <1>12 DEF AnnounceCreation, memory
  <2>2. u \in Txns
    BY <2>1, EventInHand DEF At, InboundAssumption
  <2>3. Becomes(h, NoRequest)
    BY <2>1, RefusedBecomes
  <2> HIDE DEF u
  <2>4. announced' \in [Txns -> Nat] /\ \A t \in Txns : announced'[t] = IF t = u THEN announced[t] + 1 ELSE announced[t]
    BY <1>1, <2>1, <2>2
  <2>5. ASSUME NEW t \in Txns PROVE CountsFit(t)'
    <3>1. /\ h \notin Creating("read", t)' /\ h \notin Creating("halfway", t)'
          /\ h \notin Creating("read", t)
      BY <1>2, <2>1, <2>3, OthersStand DEF Creating, At
    <3>2. Unheard(t)' = Unheard(t) /\ CreationsOf(t)' = CreationsOf(t)
      BY <2>1 DEF Unheard, CreationsOf
    <3>3. /\ Creating("read", t)' = Creating("read", t)
          /\ Creating("halfway", t)' = Creating("halfway", t) \ {h}
      BY <2>3, <3>1, OthersStand
    <3>4. CASE t # u
      BY <1>1, <2>1, <2>4, <3>2, <3>3, <3>4, CountsStay
    <3>5. CASE t = u
      <4>1. h \in Creating("halfway", t)
        BY <2>1, <3>5 DEF Creating, u
      <4>2. Cardinality(Creating("halfway", t)') = Cardinality(Creating("halfway", t)) - 1
        BY <3>3, <4>1, CountedAreFinite, FS_RemoveElement
      <4> QED
        BY <1>1, <2>1, <2>4, <3>2, <3>3, <3>5, <4>2, CountedAreFinite DEF CountsFit
    <3> QED
      BY <3>4, <3>5
  <2> QED
    BY <1>1, <2>1, <2>4, <2>5 DEF CountInv
<1>13. CASE Restart \/ ForgetNonces \/ UNCHANGED vars
  <2>1. created' = created /\ announced' = announced /\ logged' = logged
    BY <1>13 DEF Restart, ForgetNonces, vars, rows, memory
  <2>2. \A t : /\ Creating("read", t)' \subseteq Creating("read", t)
               /\ Creating("halfway", t)' \subseteq Creating("halfway", t)
    BY <1>2, <1>13 DEF Restart, ForgetNonces, vars, Creating, At, Event
  <2>3. \A t \in Txns : CountsFit(t)'
    BY <1>1, <1>4, <2>1, <2>2, CountsStay
  <2> QED
    BY <1>1, <2>1, <2>3 DEF CountInv
<1> QED
  BY <1>5, <1>6, <1>7, <1>8, <1>10, <1>11, <1>12, <1>13 DEF Next

LEMMA CountBegins == InboundAssumption /\ Init => CountInv
<1> SUFFICES ASSUME InboundAssumption, Init, NEW t \in Txns PROVE CountsFit(t)
  BY DEF Init, CountInv
<1>1. Creating("read", t) = {} /\ Creating("halfway", t) = {}
  BY DEF Init, NoRequest, Creating, At
<1>2. Unheard(t) = CreationsOf(t)
  BY DEF Init, Unheard, CreationsOf
<1>3. created[t] = 0 /\ announced[t] = 0
  BY DEF Init
<1> QED
  BY <1>1, <1>2, <1>3, FS_EmptySet, CountedAreFinite DEF CountsFit

LEMMA CountsHold == InboundAssumption /\ LogInv /\ CountInv => ProcessedOnce
BY CountedAreFinite DEF LogInv, CountInv, CountsFit, ProcessedOnce

\* The history of a transaction is a path that its status ends, unless a dispute has
\* taken the status where no update goes on from.
PathInv ==
    /\ history \in [Txns -> Seq([from : Statuses, to : Statuses])]
    /\ HistoryIsAPath
    /\ \A t \in Txns : history[t] # <<>> =>
          \/ status[t] = history[t][Len(history[t])].to
          \/ status[t] \in Final \cup {"disputed"}

LEMMA NoUpdateOfADispute == \A t, to : ~ValidTransition(t, "disputed", to)
<1> SUFFICES ASSUME NEW t, NEW to PROVE ~ValidTransition(t, "disputed", to)
  OBVIOUS
<1>1. DepositMoves["disputed"] = {}
  BY DEF DepositMoves, Statuses
<1>2. WithdrawalMoves["disputed"] = {}
  BY DEF WithdrawalMoves, Statuses
<1> QED
  BY <1>1, <1>2 DEF ValidTransition

LEMMA PathNext == InboundAssumption /\ HandlersInv /\ PathInv /\ [Next]_vars => PathInv'
<1> SUFFICES ASSUME InboundAssumption, HandlersInv, PathInv, [Next]_vars PROVE PathInv'
  OBVIOUS
<1> DEFINE Rows == [from : Statuses, to : Statuses]
<1>1. history \in [Txns -> Seq(Rows)] /\ status \in [Txns -> Statuses]
  BY DEF PathInv, HandlersInv
<1>2. ASSUME UNCHANGED <<status, history>> PROVE PathInv'
  BY <1>2 DEF PathInv, HistoryIsAPath
<1>3. ASSUME NEW h \in Handlers, UpdateState(h) PROVE PathInv'
  <2> DEFINE u == Event(h).txn
             s == Event(h).to
             row == [from |-> s, to |-> s]
  <2>1. At(h, "read") /\ u \in Txns
    BY <1>3, EventInHand DEF UpdateState, At, InboundAssumption
  <2>2. CASE UNCHANGED <<status, history>>
    BY <1>2, <2>2
  <2>3. CASE /\ ValidTransition(u, status[u], s)
             /\ status' = [status EXCEPT ![u] = s]
             /\ history' = [history EXCEPT ![u] = Append(@, row)]
    <3>1. s \in Statuses /\ status[u] \notin Final \cup {"disputed"}
      BY <1>1, <2>1, <2>3, MovesOfATransaction, NoUpdateOfADispute
    <3>2. row \in Rows /\ row.to = s
      BY <3>1
    <3> HIDE DEF u, s, row, Rows
    <3>3. /\ status'[u] = s /\ \A t \in Txns \ {u} : status'[t] = status[t]
          /\ history' \in [Txns -> Seq(Rows)] /\ history'[u] = Append(history[u], row)
          /\ \A t \in Txns \ {u} : history'[t] = history[t]
      BY <1>1, <2>1, <2>3, <3>2
    <3>4. history[u] \in Seq(Rows) /\ Len(history[u]) \in Nat
      BY <1>1, <2>1
    <3>5. /\ Len(history'[u]) = Len(history[u]) + 1
          /\ history'[u][Len(history[u]) + 1] = row
          /\ \A n \in 1..Len(history[u]) : history'[u][n] = history[u][n]
          /\ history'[u] # <<>>
      BY <3>2, <3>3, <3>4
    <3>6. ASSUME NEW n \in 1..(Len(history'[u]) - 1)
          PROVE  ValidTransition(u, history'[u][n].to, history'[u][n + 1].to)
      <4>1. CASE n = Len(history[u])
        <5>1. history[u] # <<>> /\ history[u][n].to = status[u]
          BY <2>1, <3>1, <3>4, <3>5, <4>1 DEF PathInv
        <5> QED
          BY <2>3, <3>2, <3>4, <3>5, <4>1, <5>1
      <4>2. CASE n # Len(history[u])
        <5>1. n \in 1..(Len(history[u]) - 1) /\ n + 1 \in 1..Len(history[u]) /\ n \in 1..Len(history[u])
          BY <3>4, <3>5, <4>2
        <5> QED
          BY <2>1, <3>5, <5>1 DEF PathInv, HistoryIsAPath
      <4> QED
        BY <4>1, <4>2
    <3>7. HistoryIsAPath'
      <4>1. \A t \in Txns \ {u} : \A n \in 1..(Len(history'[t]) - 1) :
                ValidTransition(t, history'[t][n].to, history'[t][n + 1].to)
        BY <3>3 DEF PathInv, HistoryIsAPath
      <4>2. \A n \in 1..(Len(history'[u]) - 1) :
                ValidTransition(u, history'[u][n].to, history'[u][n + 1].to)
        BY <3>6
      <4> QED
        BY <4>1, <4>2 DEF HistoryIsAPath
    <3>8. ASSUME NEW t \in Txns, history'[t] # <<>>
          PROVE  \/ status'[t] = history'[t][Len(history'[t])].to
                 \/ status'[t] \in Final \cup {"disputed"}
      <4>1. CASE t = u
        BY <3>2, <3>3, <3>5, <4>1
      <4>2. CASE t # u
        BY <3>3, <3>8, <4>2 DEF PathInv
      <4> QED
        BY <4>1, <4>2
    <3> QED
      BY <3>3, <3>7, <3>8 DEF PathInv, Rows
  <2> QED
    BY <1>3, <2>2, <2>3 DEF UpdateState
\* A dispute leaves the history alone.
<1>4. ASSUME NEW h \in Handlers, RaiseDispute(h) \/ ResolveDispute(h) PROVE PathInv'
  <2>1. history' = history /\ At(h, "read")
    BY <1>4 DEF RaiseDispute, ResolveDispute
  <2>2. Event(h) \in Events /\ Event(h).txn \in Txns
    BY <2>1, EventInHand DEF At, InboundAssumption
  <2>3. \E s \in Final \cup {"disputed"} : status' = [status EXCEPT ![Event(h).txn] = s]
    BY <1>4, <2>2 DEF RaiseDispute, ResolveDispute, InboundAssumption
  <2>4. \A t \in Txns : status'[t] = status[t] \/ status'[t] \in Final \cup {"disputed"}
    BY <1>1, <2>2, <2>3
  <2>5. HistoryIsAPath'
    BY <2>1 DEF PathInv, HistoryIsAPath
  <2> QED
    BY <2>1, <2>4, <2>5 DEF PathInv
<1>5. ASSUME NEW h \in Handlers,
             \/ Record(h) \/ Check(h) \/ Read(h) \/ UpdateKyc(h) \/ UpsertKyc(h)
             \/ RecordCreation(h) \/ AnnounceCreation(h) \/ StatementFails(h)
             \/ \E e \in Events : Receive(h, e)
      PROVE  PathInv'
  <2>1. UNCHANGED <<status, history>>
    BY <1>5 DEF Record, Check, Read, UpdateKyc, UpsertKyc, RecordCreation, AnnounceCreation,
                StatementFails, Receive, rows
  <2> QED
    BY <1>2, <2>1
<1>6. CASE Restart \/ ForgetNonces \/ UNCHANGED vars
  <2>1. UNCHANGED <<status, history>>
    BY <1>6 DEF Restart, ForgetNonces, vars, rows
  <2> QED
    BY <1>2, <2>1
<1> QED
  BY <1>3, <1>4, <1>5, <1>6 DEF Next

LEMMA PathBegins == Init => PathInv
BY DEF Init, PathInv, HistoryIsAPath

-----------------------------------------------------------------------------
(***************************************************************************)
(* The types of the memory, the answers and the counters.                  *)
(***************************************************************************)
MemoryInv ==
    /\ nonces \subseteq {<<e.nonce, e.anchor>> : e \in Events}
    /\ passed \subseteq {e.nonce : e \in Events} /\ remembered \subseteq {e.nonce : e \in Events}
    /\ answers \in [Events -> SUBSET {"ok", "duplicate"}]
    /\ sends \in 0..MaxSends /\ faults \in 0..MaxFaults

LEMMA MemoryBegins == InboundAssumption /\ Init => MemoryInv
BY DEF InboundAssumption, Init, MemoryInv

LEMMA MemoryNext == InboundAssumption /\ HandlersInv /\ MemoryInv /\ [Next]_vars => MemoryInv'
<1> SUFFICES ASSUME InboundAssumption, HandlersInv, MemoryInv, [Next]_vars PROVE MemoryInv'
  OBVIOUS
<1>1. ASSUME NEW h \in Handlers, NEW e \in Events, NEW a \in {"ok", "duplicate"},
             Refuse(h) \/ Answer(h, e, a) \/ UNCHANGED answers
      PROVE  answers' \in [Events -> SUBSET {"ok", "duplicate"}]
  BY <1>1 DEF Refuse, Answer, MemoryInv
<1>2. ASSUME NEW h \in Handlers, NEW e \in Events, Receive(h, e) PROVE MemoryInv'
  <2>1. UNCHANGED answers
    BY <1>2 DEF Receive, Refuse
  <2> QED
    BY <1>2, <2>1 DEF Receive, MemoryInv, InboundAssumption
<1>3. ASSUME NEW h \in Handlers, Record(h) PROVE MemoryInv'
  <2>1. Event(h) \in Events
    BY <1>3, EventInHand DEF Record, At
  <2> QED
    BY <1>1, <1>3, <2>1 DEF Record, MemoryInv
<1>4. ASSUME NEW h \in Handlers, Check(h) PROVE MemoryInv'
  <2>1. Event(h) \in Events /\ UNCHANGED answers
    BY <1>4, EventInHand DEF Check, At, Refuse
  <2> QED
    BY <1>4, <2>1 DEF Check, MemoryInv
<1>5. ASSUME NEW h \in Handlers, Read(h) PROVE MemoryInv'
  BY <1>5 DEF Read, Refuse, MemoryInv
<1>6. ASSUME NEW h \in Handlers, Applies(h) PROVE MemoryInv'
  <2>1. ~At(h, "idle") /\ UNCHANGED <<memory, sends, faults>>
    BY <1>6 DEF Applies, UpdateState, RaiseDispute, ResolveDispute, UpdateKyc, UpsertKyc,
         RecordCreation, AnnounceCreation, At
  <2>2. Event(h) \in Events
    BY <2>1, EventInHand
  <2>3. Refuse(h) \/ Answer(h, Event(h), "ok") \/ UNCHANGED answers
    BY <1>6 DEF Applies, UpdateState, RaiseDispute, ResolveDispute, UpdateKyc, UpsertKyc,
         RecordCreation, AnnounceCreation
  <2>4. answers' \in [Events -> SUBSET {"ok", "duplicate"}]
    BY <1>1, <2>2, <2>3
  <2> QED
    BY <2>1, <2>4 DEF MemoryInv, memory
<1>7. ASSUME NEW h \in Handlers, StatementFails(h) PROVE MemoryInv'
  BY <1>7 DEF StatementFails, Refuse, memory, MemoryInv, InboundAssumption
<1>8. CASE Restart
  BY <1>8 DEF Restart, MemoryInv, InboundAssumption
<1>9. CASE ForgetNonces \/ UNCHANGED vars
  BY <1>9 DEF ForgetNonces, vars, memory, MemoryInv
<1> QED
  BY <1>2, <1>3, <1>4, <1>5, <1>6, <1>7, <1>8, <1>9 DEF Next, Applies

LEMMA InboundTyped == HandlersInv /\ LogInv /\ MemoryInv => TypeOK
BY DEF HandlersInv, LogInv, MemoryInv, TypeOK, RequestType

(***************************************************************************)
(* However often anchors repeat an event, whatever fails and restarts, and *)
(* though the process forgets the nonces it keeps itself, the event is     *)
(* logged once at most, because the nonce in the database decides; and a   *)
(* creation is recorded and then announced at most as often as it was told *)
(* (webhook-handler.ts).                                                   *)
(***************************************************************************)
THEOREM TakenUpOnce ==
    ASSUME InboundAssumption
    PROVE  Spec => []ProcessedOnce
<1>1. Init => HandlersInv /\ LogInv /\ CountInv
  BY HandlersBegin, LogBegins, CountBegins
<1>2. HandlersInv /\ LogInv /\ CountInv /\ [Next]_vars => HandlersInv' /\ LogInv' /\ CountInv'
  BY HandlersNext, LogNext, CountNext
<1>3. LogInv /\ CountInv => ProcessedOnce
  BY CountsHold
<1> QED
  BY <1>1, <1>2, <1>3, PTL DEF Spec

\* The history of a transaction follows the table of its kind, because an update is
\* checked again with the row locked, and none leaves a disputed transaction
\* (transaction-state.ts).
THEOREM HistoriesArePaths ==
    ASSUME InboundAssumption
    PROVE  Spec => []HistoryIsAPath
<1>1. Init => HandlersInv /\ PathInv
  BY HandlersBegin, PathBegins
<1>2. HandlersInv /\ PathInv /\ [Next]_vars => HandlersInv' /\ PathInv'
  BY HandlersNext, PathNext
<1>3. PathInv => HistoryIsAPath
  BY DEF PathInv
<1> QED
  BY <1>1, <1>2, <1>3, PTL DEF Spec
=============================================================================
