--------------------------------- MODULE Kyc ---------------------------------
(***************************************************************************)
(* The KYC records of one user, one row per anchor, and the flag on chain  *)
(* that is one for all anchors.                                            *)
(*                                                                         *)
(* Two services write the table user_kyc_status and each expects columns   *)
(* of its own: the poll, the anchors' notifications and the expiry notice  *)
(* use "status" (the table of initDatabase), the upserts and the transfer  *)
(* guard "kyc_status" and "verified_at" (the table of                      *)
(* kyc_status_schema.sql).  Whichever CREATE TABLE IF NOT EXISTS ran first *)
(* decides; a statement on a column that is not there fails.               *)
(***************************************************************************)
EXTENDS Naturals, FiniteSets

CONSTANTS
    Anchors,
    Workers,        \* polls, notices and upserts in hand at a time
    MaxVerified,    \* bound on verified_at
    MaxPushes,      \* bound on notifications, registrations and configurations
    MaxFaults       \* bound on failed statements, calls and crashes together

KycAssumption == MaxVerified \in Nat /\ MaxPushes \in Nat /\ MaxFaults \in Nat

VARIABLES
    schema,     \* the columns user_kyc_status has
    row,        \* row[a]: the user's row at anchor a
    chain,      \* what the contract says of the user
    work,       \* work[w]: the row a worker is at, and how far it is
    decided,    \* the last decision stored, and the anchor it was of
    enabled,    \* the anchors whose configuration is enabled in the database
    polled,     \* the anchors the poll knows, those enabled when it started
    missed,     \* a decision did not reach the chain, or two raced for it
    pushes,
    faults

settings == <<enabled, polled>>
vars == <<schema, row, chain, work, decided, settings, missed, pushes, faults>>

Columns == {"status", "kyc_status"}
Answers == {"pending", "approved", "rejected"}
Statuses == Answers \cup {"needs_info", "re_verification_pending"}
Terms == {"none", "soon", "past"}
NoRow == [status |-> "none", until |-> "none", old |-> FALSE, verified |-> 0]
Idle == [step |-> "idle", on |-> {}, saw |-> "none", answer |-> "none", until |-> "none"]
At(w, step) == work[w].step = step
OnAnchor(w) == CHOOSE a \in work[w].on : TRUE
Done(w) == work' = [work EXCEPT ![w] = Idle]
Fault == faults < MaxFaults /\ faults' = faults + 1
Push == pushes < MaxPushes /\ pushes' = pushes + 1

Init ==
    /\ schema \in Columns
    /\ row = [a \in Anchors |-> NoRow]
    /\ chain = "none"
    /\ work = [w \in Workers |-> Idle]
    /\ decided = [by |-> {}, what |-> "none"]
    /\ enabled = Anchors /\ polled = Anchors
    /\ missed = FALSE
    /\ pushes = 0
    /\ faults = 0

-----------------------------------------------------------------------------
(***************************************************************************)
(* The poll (kyc-service.ts): a row due for a check is read, the anchor    *)
(* asked, the answer stored over the row, and a decision sent on chain.    *)
(***************************************************************************)
\* Mistaken variant: looks at every old row.
NeedsCheckAnyStatus(a) == row[a].status # "none" /\ row[a].old
\* getUsersNeedingKycCheck.
NeedsCheck(a) ==
    row[a].old /\ row[a].status \in {"pending", "approved", "re_verification_pending"}

\* One scheduler at a time polls: see OneInstanceAtWork of Sep24.
PollReads(w, a) ==
    /\ schema = "status"
    /\ \A v \in Workers : work[v].step \notin {"ask", "save", "sync"}
    /\ At(w, "idle") /\ a \in polled /\ NeedsCheck(a)
    /\ work' = [work EXCEPT ![w] = [Idle EXCEPT !.step = "ask", !.on = {a}, !.saw = row[a].status]]
    /\ UNCHANGED <<settings, schema, row, chain, decided, missed, pushes, faults>>

\* mapSep12StatusToInternal; 404 and errors leave the row, 429 asks again.
PollAsks(w) ==
    /\ At(w, "ask")
    /\ \/ \E s \in Answers, t \in {"none", "soon"} :
            work' = [work EXCEPT ![w].step = "save", ![w].answer = s, ![w].until = t]
       \/ Done(w)
    /\ UNCHANGED <<settings, schema, row, chain, decided, missed, pushes, faults>>

\* saveUserKycStatus overwrites the row whatever became of it.
Saved(a, s, t) ==
    row' = [row EXCEPT ![a] = [status |-> s, until |-> t, old |-> FALSE, verified |-> @.verified]]

\* Mistaken variant: tells the chain of approvals only.
DecidesApproval(s) == s = "approved"
\* The answers that are sent on chain.
Decides(s) == s \in {"approved", "rejected"}

Decided(a, s) ==
    decided' = IF s \in {"approved", "rejected"} THEN [by |-> {a}, what |-> s] ELSE decided

PollSaves(w) ==
    LET a == OnAnchor(w)  s == work[w].answer IN
    /\ At(w, "save")
    /\ Saved(a, s, work[w].until)
    /\ IF Decides(s) THEN work' = [work EXCEPT ![w].step = "sync"] ELSE Done(w)
    /\ Decided(a, s)
    /\ UNCHANGED <<settings, schema, chain, missed, pushes, faults>>

\* updateKycStatusOnChain and setKycApprovedOnChain: the flag of the user.
Sync(w) ==
    /\ At(w, "sync")
    /\ chain' = work[w].answer
    /\ missed' = (missed \/ \E v \in Workers \ {w} : At(v, "sync"))
    /\ Done(w)
    /\ UNCHANGED <<settings, schema, row, decided, pushes, faults>>

\* A statement or a call fails, or the process ends: nobody tries again.
WorkFails(w) ==
    /\ ~At(w, "idle") /\ Fault
    /\ missed' = (missed \/ At(w, "sync"))
    /\ Done(w)
    /\ UNCHANGED <<settings, schema, row, chain, decided, pushes>>

-----------------------------------------------------------------------------
(***************************************************************************)
(* Notifications of the anchor, registration and the expiry notice: they   *)
(* write the row and leave the chain alone.                                *)
(***************************************************************************)
\* handleKycWebhook.
Notified(a, s) ==
    /\ schema = "status" /\ Push
    /\ Saved(a, s, "none")
    /\ UNCHANGED <<settings, schema, chain, work, decided, missed, faults>>

\* registerUserForKyc starts over whatever the row says.
Register(a) ==
    /\ schema = "status" /\ Push
    /\ Saved(a, "pending", "none")
    /\ UNCHANGED <<settings, schema, chain, work, decided, missed, faults>>

\* POST /api/kyc/config; a poll that runs does not hear of it.
Configure(a) ==
    /\ Push
    /\ enabled' \in {enabled \cup {a}, enabled \ {a}}
    /\ UNCHANGED <<polled, schema, row, chain, work, decided, missed, faults>>

\* The process starts again: initialize reads the configurations.
Restart ==
    /\ Fault
    /\ polled' = enabled
    /\ missed' = (missed \/ \E w \in Workers : At(w, "sync"))
    /\ work' = [w \in Workers |-> Idle]
    /\ UNCHANGED <<enabled, schema, row, chain, decided, pushes>>

\* The SELECT of KycExpiryNotifier.run, the warning, the configurations as
\* they are now, PUT /customer.
NoticeReads(w, a) ==
    /\ schema = "status"
    /\ At(w, "idle") /\ row[a].status = "approved" /\ row[a].until = "soon"
    /\ a \in enabled
    /\ work' = [work EXCEPT ![w] = [Idle EXCEPT !.step = "notice", !.on = {a}, !.saw = "approved"]]
    /\ UNCHANGED <<settings, schema, row, chain, decided, missed, pushes, faults>>

NoticeSaves(w) ==
    LET a == OnAnchor(w) IN
    /\ At(w, "notice")
    /\ row' = [row EXCEPT ![a].status = "re_verification_pending", ![a].old = FALSE]
    /\ Done(w)
    /\ UNCHANGED <<settings, schema, chain, decided, missed, pushes, faults>>

-----------------------------------------------------------------------------
(***************************************************************************)
(* The upserts (kyc-upsert-service.ts, the cycle of kyc-poller.ts).        *)
(***************************************************************************)
\* Mistaken variant: the last to write wins.
NewerAlways(a, v) == TRUE
Newer(a, v) == row[a].status = "none" \/ row[a].verified < v

Upsert(w, a, s, v, t) ==
    /\ schema = "kyc_status" /\ At(w, "idle")
    /\ Newer(a, v)
    /\ row' = [row EXCEPT ![a] = [status |-> s, until |-> t, old |-> FALSE, verified |-> v]]
    /\ work' = IF Decides(s)
               THEN [work EXCEPT ![w] = [Idle EXCEPT !.step = "sync", !.on = {a}, !.answer = s]]
               ELSE work
    /\ Decided(a, s)
    /\ UNCHANGED <<settings, schema, chain, missed, pushes, faults>>

-----------------------------------------------------------------------------
\* Rows become due for a check, and approvals run out.
RowAges(a) ==
    /\ row[a].status # "none"
    /\ \/ ~row[a].old /\ row' = [row EXCEPT ![a].old = TRUE]
       \/ row[a].until = "soon" /\ row' = [row EXCEPT ![a].until = "past"]
    /\ UNCHANGED <<settings, schema, chain, work, decided, missed, pushes, faults>>

Next ==
    \/ \E w \in Workers :
        \/ \E a \in Anchors : PollReads(w, a) \/ NoticeReads(w, a)
        \/ PollAsks(w) \/ PollSaves(w) \/ Sync(w) \/ NoticeSaves(w) \/ WorkFails(w)
        \/ \E a \in Anchors, s \in Answers, v \in 1..MaxVerified, t \in {"none", "soon"} :
            Upsert(w, a, s, v, t)
    \/ \E a \in Anchors, s \in Answers \cup {"needs_info"} : Notified(a, s)
    \/ \E a \in Anchors : Register(a) \/ Configure(a) \/ RowAges(a)
    \/ Restart

Spec == Init /\ [][Next]_vars

-----------------------------------------------------------------------------
(***************************************************************************)
(* The transfer guard (transfer-guard.ts) over getStatusForUser.           *)
(***************************************************************************)
Rows == {row[a] : a \in Anchors} \ {NoRow}
Expired(r) == r.status = "approved" /\ r.until = "past"
\* Mistaken variant: any row will do.
CanTransferAnyRow == Rows # {} /\ \A r \in Rows : r.status # "re_verification_pending"
CanTransfer ==
    /\ \A r \in Rows : r.status # "re_verification_pending"
    /\ \E r \in Rows : r.status = "approved" /\ r.until # "past"
Guard ==
    IF schema = "status" THEN "failed"
    ELSE IF CanTransfer /\ \A r \in Rows : ~Expired(r) THEN "let through" ELSE "refused"

TypeOK ==
    /\ schema \in Columns
    /\ row \in [Anchors -> [status : Statuses \cup {"none"}, until : Terms, old : BOOLEAN,
                            verified : 0..MaxVerified]]
    /\ chain \in {"none", "approved", "rejected"}
    /\ decided \in [by : SUBSET Anchors, what : {"none", "approved", "rejected"}]
    /\ work \in [Workers -> [step : {"idle", "ask", "save", "sync", "notice"},
                             on : SUBSET Anchors, saw : Statuses \cup {"none"},
                             answer : Answers \cup {"none"}, until : Terms]]
    /\ enabled \subseteq Anchors /\ polled \subseteq Anchors
    /\ missed \in BOOLEAN /\ pushes \in 0..MaxPushes /\ faults \in 0..MaxFaults

(***************************************************************************)
(* When no decision is on its way, none was lost and no two were sent at a *)
(* time, the contract holds the last decision stored, of whichever anchor: *)
(* an approval by one anchor and a rejection by another undo each other.   *)
(***************************************************************************)
Quiet == ~missed /\ \A w \in Workers : ~At(w, "sync")
ChainFollowsDecision == Quiet => chain = decided.what

(***************************************************************************)
(* A rejection is taken back only by a notification, a registration, a     *)
(* newer upsert, or a worker that read the row before it was rejected:     *)
(* rejected rows are not polled, so the poll that set one never revises it *)
(* and one set by a notification never reaches the chain.                  *)
(***************************************************************************)
RejectionTakenBack(a) == row[a].status = "rejected" /\ row'[a].status # "rejected"
RejectionRevisedLate ==
    \A a \in Anchors : RejectionTakenBack(a) =>
        \/ pushes' # pushes
        \/ row'[a].verified > row[a].verified
        \/ \E w \in Workers : a \in work[w].on /\ work[w].saw # "rejected" /\ work'[w] # work[w]
RejectionStands == [][RejectionRevisedLate]_vars

(***************************************************************************)
(* A user the transfer guard lets through is approved on chain, unless a   *)
(* decision is on its way or was lost, or the last one stored was another  *)
(* anchor's rejection: the guard asks for one approval among the rows, the *)
(* contract goes by whoever spoke last.                                    *)
(***************************************************************************)
GuardAgreesWithChain ==
    (Guard = "let through" /\ Quiet) =>
        chain = "approved" \/ \E a \in decided.by : row[a].status # "approved"

\* The inductive invariant.  A worker is at one row, which was not rejected when it read it.
WorkersHoldARow ==
    \A w \in Workers :
        /\ ~At(w, "idle") => \E a \in Anchors : work[w].on = {a}
        /\ At(w, "ask") \/ At(w, "save") \/ At(w, "notice") => work[w].saw # "rejected"
        /\ At(w, "sync") => work[w].answer \in {"approved", "rejected"}

\* A worker that is alone in sending a decision sends the last one.
TheOneSentIsTheLast ==
    \A w \in Workers :
        ~missed /\ At(w, "sync") /\ (\A v \in Workers \ {w} : ~At(v, "sync")) =>
            work[w].answer = decided.what

\* Where the upserts' columns are, the upserts alone write.
UpsertsDecide ==
    schema = "kyc_status" =>
        /\ \A w \in Workers : At(w, "idle") \/ At(w, "sync")
        /\ decided.what = "none" => \A a \in Anchors : row[a].status # "approved"
        /\ decided.what = "rejected" => \E a \in decided.by : row[a].status # "approved"

IInv ==
    /\ TypeOK /\ WorkersHoldARow /\ TheOneSentIsTheLast /\ UpsertsDecide
    /\ ChainFollowsDecision
=============================================================================
