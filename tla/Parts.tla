------------------------------- MODULE Parts --------------------------------
(***************************************************************************)
(* The components of EachPart, together.  In the code they share no state  *)
(* that any of them writes while another reads it, so a behaviour is one   *)
(* of one component: part says of which, chosen at the beginning among     *)
(* Parts.  What of x1 to x14 the component does not need is unused.        *)
(***************************************************************************)
EXTENDS EachPart

CONSTANT Parts      \* the components looked at

VARIABLE part

vars == <<part, x1, x2, x3, x4, x5, x6, x7, x8, x9, x10, x11, x12, x13, x14>>

-----------------------------------------------------------------------------
Unused == "unused"
From3 == <<x3, x4, x5, x6, x7, x8, x9, x10, x11, x12, x13, x14>>
From4 == <<x4, x5, x6, x7, x8, x9, x10, x11, x12, x13, x14>>
From6 == <<x6, x7, x8, x9, x10, x11, x12, x13, x14>>
From7 == <<x7, x8, x9, x10, x11, x12, x13, x14>>
From8 == <<x8, x9, x10, x11, x12, x13, x14>>
From9 == <<x9, x10, x11, x12, x13, x14>>
From10 == <<x10, x11, x12, x13, x14>>
From11 == <<x11, x12, x13, x14>>
From12 == <<x12, x13, x14>>
From12Unused == x12 = Unused /\ x13 = Unused /\ x14 = Unused
From11Unused == x11 = Unused /\ From12Unused
From10Unused == x10 = Unused /\ From11Unused
From9Unused == x9 = Unused /\ From10Unused
From8Unused == x8 = Unused /\ From9Unused
From7Unused == x7 = Unused /\ From8Unused
From6Unused == x6 = Unused /\ From7Unused
From4Unused == x4 = Unused /\ x5 = Unused /\ From6Unused
From3Unused == x3 = Unused /\ From4Unused

Init == part \in Parts /\ (
    \/ part = "send limits" /\ Limits!Init /\ From9Unused
    \/ part = "inbound webhooks" /\ Inbound!Init
    \/ part = "kyc" /\ Kycs!Init /\ From11Unused
    \/ part = "agent kyc" /\ Agents!Init /\ From7Unused
    \/ part = "admin api" /\ Admin!Init /\ From9Unused
    \/ part = "migrations" /\ Migrating!Init /\ From7Unused
    \/ part = "fx rates" /\ Fx!Init
    \/ part = "subscriber delivery" /\ Deliveries!Init /\ From12Unused
    \/ part = "webhook registry" /\ Registry!Init /\ From6Unused
    \/ part = "remittance updates" /\ Updates!Init /\ From10Unused
    \/ part = "asset verification" /\ Assets!Init /\ From9Unused
    \/ part = "secret cache" /\ Secrets!Init /\ From7Unused
    \/ part = "auth tokens" /\ Tokens!Init /\ From8Unused
    \/ part = "compliance" /\ Flags!Init /\ From6Unused
    \/ part = "ramp" /\ Ramps!Init /\ From7Unused
    \/ part = "sdk writes" /\ Writes!Init /\ From6Unused
    \/ part = "sdk proposals" /\ Scan!Init /\ From4Unused
    \/ part = "screens" /\ Loading!Init /\ From10Unused
    \/ part = "send flow" /\ Sending!Init
    \/ part = "wallet session" /\ Wallet!Init /\ From8Unused
    \/ part = "chain buttons" /\ Buttons!Init /\ From7Unused
    \/ part = "history screen" /\ History!Init /\ From12Unused
    \/ part = "address book" /\ Book!Init /\ From7Unused
    \/ part = "error boundary" /\ Boundary!Init /\ From8Unused
    \/ part = "anchor health" /\ Health!Init /\ From7Unused
    \/ part = "status tracker" /\ Tracker!Init /\ From11Unused
    \/ part = "sdk events" /\ Reader!Init /\ From4Unused
    \/ part = "pages" /\ Lists!Init /\ From11Unused
    \/ part = "anchor directory" /\ Directory!Init /\ From7Unused
    \/ part = "settlement preview" /\ Preview!Init /\ From3Unused)

\* A step of the part.
Moves ==
    \/ part = "send limits" /\ Limits!Next /\ UNCHANGED From9
    \/ part = "inbound webhooks" /\ Inbound!Next
    \/ part = "kyc" /\ Kycs!Next /\ UNCHANGED From11
    \/ part = "agent kyc" /\ Agents!Next /\ UNCHANGED From7
    \/ part = "admin api" /\ Admin!Next /\ UNCHANGED From9
    \/ part = "migrations" /\ Migrating!Next /\ UNCHANGED From7
    \/ part = "fx rates" /\ Fx!Next
    \/ part = "subscriber delivery" /\ Deliveries!Next /\ UNCHANGED From12
    \/ part = "webhook registry" /\ Registry!Next /\ UNCHANGED From6
    \/ part = "remittance updates" /\ Updates!Next /\ UNCHANGED From10
    \/ part = "asset verification" /\ Assets!Next /\ UNCHANGED From9
    \/ part = "secret cache" /\ Secrets!Next /\ UNCHANGED From7
    \/ part = "auth tokens" /\ Tokens!Next /\ UNCHANGED From8
    \/ part = "compliance" /\ Flags!Next /\ UNCHANGED From6
    \/ part = "ramp" /\ Ramps!Next /\ UNCHANGED From7
    \/ part = "sdk writes" /\ Writes!Next /\ UNCHANGED From6
    \/ part = "sdk proposals" /\ Scan!Next /\ UNCHANGED From4
    \/ part = "screens" /\ Loading!Next /\ UNCHANGED From10
    \/ part = "send flow" /\ Sending!Next
    \/ part = "wallet session" /\ Wallet!Next /\ UNCHANGED From8
    \/ part = "chain buttons" /\ Buttons!Next /\ UNCHANGED From7
    \/ part = "history screen" /\ History!Next /\ UNCHANGED From12
    \/ part = "address book" /\ Book!Next /\ UNCHANGED From7
    \/ part = "error boundary" /\ Boundary!Next /\ UNCHANGED From8
    \/ part = "anchor health" /\ Health!Next /\ UNCHANGED From7
    \/ part = "status tracker" /\ Tracker!Next /\ UNCHANGED From11
    \/ part = "sdk events" /\ Reader!Next /\ UNCHANGED From4
    \/ part = "pages" /\ Lists!Next /\ UNCHANGED From11
    \/ part = "anchor directory" /\ Directory!Next /\ UNCHANGED From7
    \/ part = "settlement preview" /\ Preview!Next /\ UNCHANGED From3

Next == Moves /\ UNCHANGED part

Spec == Init /\ [][Next]_vars

\* The fairness of AnchorHealth, StatusTracker and SdkEvents, each of its own steps.
Fairness ==
    /\ WF_vars(part = "anchor health" /\ Health!Timeout /\ UNCHANGED <<part, From7>>)
    /\ WF_vars(part = "anchor health" /\ Health!Saved /\ UNCHANGED <<part, From7>>)
    /\ WF_vars(part = "status tracker" /\ Tracker!Ticks /\ UNCHANGED <<part, From11>>)
    /\ WF_vars(part = "status tracker" /\ Tracker!SomeAnswer /\ UNCHANGED <<part, From11>>)
    /\ WF_vars(part = "sdk events" /\ Reader!Fetch /\ UNCHANGED <<part, From4>>)
    /\ WF_vars(part = "sdk events" /\ Reader!EndPage /\ UNCHANGED <<part, From4>>)
    /\ WF_vars(part = "sdk events" /\ Reader!Handles /\ UNCHANGED <<part, From4>>)

FairSpec == Spec /\ Fairness

-----------------------------------------------------------------------------
\* The variables of the component at work have their types.
PartTypeOK ==
    /\ part = "send limits" => Limits!TypeOK
    /\ part = "inbound webhooks" => Inbound!TypeOK
    /\ part = "kyc" => Kycs!TypeOK
    /\ part = "agent kyc" => Agents!TypeOK
    /\ part = "admin api" => Admin!TypeOK
    /\ part = "migrations" => Migrating!TypeOK
    /\ part = "fx rates" => Fx!TypeOK
    /\ part = "subscriber delivery" => Deliveries!TypeOK
    /\ part = "webhook registry" => Registry!TypeOK
    /\ part = "remittance updates" => Updates!TypeOK
    /\ part = "asset verification" => Assets!AssetTypeOK
    /\ part = "secret cache" => Secrets!TypeOK
    /\ part = "auth tokens" => Tokens!TypeOK
    /\ part = "compliance" => Flags!TypeOK
    /\ part = "ramp" => Ramps!TypeOK
    /\ part = "sdk writes" => Writes!WritesTypeOK
    /\ part = "sdk proposals" => Scan!ProposalsTypeOK
    /\ part = "screens" => Loading!ScreensTypeOK
    /\ part = "send flow" => Sending!TypeOK
    /\ part = "wallet session" => Wallet!TypeOK
    /\ part = "chain buttons" => Buttons!TypeOK
    /\ part = "history screen" => History!TypeOK
    /\ part = "address book" => Book!TypeOK
    /\ part = "error boundary" => Boundary!TypeOK
    /\ part = "anchor health" => Health!TypeOK
    /\ part = "status tracker" => Tracker!TypeOK
    /\ part = "sdk events" => Reader!EventsTypeOK
    /\ part = "pages" => Lists!TypeOK
    /\ part = "anchor directory" => Directory!TypeOK
    /\ part = "settlement preview" => Preview!TypeOK

-----------------------------------------------------------------------------
(***************************************************************************)
(* The contract, the backend and the API                                   *)
(***************************************************************************)
\* No remittance exceeds the daily limit that stood when it was created, what is
\* counted is what was sent or repeated, and a key makes a second remittance only
\* after the end of an older one took its record (lib.rs, storage.rs).
CreationsStayGuarded ==
    part = "send limits" =>
        /\ Limits!LimitHolds /\ Limits!CountedIsSentOrRetried
        /\ Limits!RetryMakesNoSecond /\ Limits!KeyOutlivesOnlyQuietEnds

\* An anchor's notice is processed once at most, however often it is repeated
\* and whatever restarts, and the statuses a transaction went through follow
\* one another by the table of its kind (webhook-handler.ts, transaction-state.ts).
NoticesAreHandledOnce ==
    part = "inbound webhooks" => Inbound!ProcessedOnce /\ Inbound!HistoryIsAPath

\* "return 200 immediately for already-processed nonces" (webhook-handler.ts): what
\* is answered as a duplicate was processed.
DuplicateWasProcessed == part = "inbound webhooks" => Inbound!DuplicateWasProcessed

\* What was decided stands: a completed or refunded transaction changes only by a
\* dispute that had read it before, and a rejected user is taken back only by newer
\* word or by a worker that had read the row before (webhook-handler.ts, kyc-service.ts).
DecisionsStand ==
    [][/\ part = "inbound webhooks" => Inbound!FinalLeft
       /\ part = "kyc" => Kycs!RejectionRevisedLate]_vars

\* When no decision is on its way, the contract holds the last one stored, and the
\* transfer guard lets through whom the contract approves; an approved agent was
\* accepted by the anchor or by a reviewer (kyc-upsert-service.ts, transfer-guard.ts,
\* agent-kyc-service.ts).
KycHoldsTogether ==
    /\ part = "kyc" => Kycs!ChainFollowsDecision /\ Kycs!GuardAgreesWithChain
    /\ part = "agent kyc" => Agents!ApprovedWasAccepted

\* A critical action takes two names, given under the one key that all administrators
\* share, a replayed dead letter was received, and the rows of schema_migrations tell
\* which migrations are in force, whichever request or instance comes between
\* (admin.ts, admin-confirmation.ts, migrate.ts).
AdminStepsHold ==
    /\ part = "admin api" => Admin!TwoNames /\ Admin!ReplayedWasReceived
    /\ part = "migrations" => Migrating!RecordsTellWhatIsInForce

\* Requests share one fetch, clients show the rate stored last, and the rate kept for
\* a transaction is the one promised first (fx-rate-cache.ts, fx-rate-websocket.ts, api.ts).
RatesHoldTogether ==
    part = "fx rates" => Fx!OneFetchUnderWay /\ Fx!ClientsShowLatest /\ Fx!FirstPromiseIsKept

\* A delivery is given up when its attempts are spent, the old secret covers a late
\* notice, active webhooks stay within the limit, an on-ramp's notice that had a good
\* answer reached every handler, and a remittance leaves the path of its statuses only
\* where updates cross, of which a watcher hears the last (webhook-dispatcher.ts,
\* webhooks/store.ts and service.ts, ramp-webhook-handler.ts, remittanceService.ts).
SubscribersAreServed ==
    /\ part = "subscriber delivery" =>
          Deliveries!GivenUpWhenSpent /\ Deliveries!GraceCoversALateNotice
    /\ part = "webhook registry" => Registry!ActiveWithinLimit
    /\ part = "ramp" => Ramps!AcknowledgedIsCarried
    /\ part = "remittance updates" =>
          Updates!PathLeftOnlyByCrossing /\ Updates!WatcherHearsTheLast

\* A much reported asset is suspicious and the contract follows the row, a large
\* remittance is flagged, and an anchor's report hangs together (verifier.ts,
\* compliance.ts, anchor-health-checker.ts).
ChecksStand ==
    /\ part = "asset verification" => Assets!ReportedIsSuspicious /\ Assets!ContractFollowsRow
    /\ part = "compliance" => Flags!LargeIsFlagged
    /\ part = "anchor health" => Health!ReportHangsTogether

\* A secret is served within its time to live, its hook is ahead of the cache only
\* where a rotation crossed a read, and a refresh token is used once
\* (secrets-manager.ts, auth.ts).
CredentialsRotate ==
    /\ part = "secret cache" => Secrets!ServedWithinTtl /\ Secrets!HookAheadOnlyByCrossing
    /\ part = "auth tokens" => Tokens!TokensRotate

\* A client that pages to the end has had everything once, with the stated exceptions,
\* and the previewed netting is the one the contract settles (remittanceStore.ts,
\* admin-audit-log.ts, database.ts, anchorStore.ts, settlements.ts).
ReadersMissNothing ==
    /\ part = "pages" => Lists!PagesCoverOnce
    /\ part = "anchor directory" => Directory!DirectoryListedOnce
    /\ part = "settlement preview" => Preview!PreviewIsSettlement

-----------------------------------------------------------------------------
(***************************************************************************)
(* The SDK and the web client                                              *)
(***************************************************************************)
\* A prepared write is applied once and reported as it was applied; a scan finds every
\* proposal that was there all along and is not behind a deleted one; the callback sees
\* events once and in order (client.ts of the SDK).
CallsAreWhole ==
    /\ part = "sdk writes" => Writes!AppliedOncePerPreparation /\ Writes!ReportedIsApplied
    /\ part = "sdk proposals" => Scan!ScanFindsSteady
    /\ part = "sdk events" => Reader!CalledInOrderOnce

\* A screen that waits for nothing shows the answer to its last question, the address
\* names what the history shows, the book is what was entered, the account shown is the
\* one stored but for changes of the storage that the page does not hear of, another
\* network is warned of, a socket is open after the end only by
\* a lost timer, and an error shown as reported was received (the components of the web
\* client).
ScreensShowWhatHolds ==
    /\ part = "screens" => Loading!LastAnswerIsCurrent
    /\ part = "history screen" => History!AddressIsShown
    /\ part = "address book" => Book!BookIsAsWanted
    /\ part = "wallet session" => Wallet!ShownIsStored /\ Wallet!WrongNetworkIsWarned
    /\ part = "status tracker" => Tracker!OpenAfterEndOnlyByLostTimer
    /\ part = "error boundary" => Boundary!ReportedWasReceived

\* A component that guards itself never shows a late answer about another key.
GuardedAgainstLateAnswers == [][part = "screens" => Loading!GuardedChange]_vars

\* The screen knows of every payment whose answer was not lost, the web flow completes
\* once and confirms valid fields only, the app what its checks let through, and a
\* remittance is shown in the wrong state only after a refusal (SendMoneyFlow.tsx,
\* SendMoneyScreen.tsx, RemittanceList.jsx).
PaidAsConfirmed ==
    /\ part = "send flow" => Sending!PaidTwiceOnlyAfterLostAnswer /\ Sending!OnlyValidConfirmed
    /\ part = "chain buttons" => Buttons!WrongOutcomeWasRefused

-----------------------------------------------------------------------------
(***************************************************************************)
(* What happens in the end                                                 *)
(***************************************************************************)
\* An anchor that stays silent does not hold the job: its check ends, and the run's lock
\* is given back, unless a connection was cut within a response or an anchor goes on
\* trickling its answer (anchor-health-checker.ts).
EveryCheckEnds ==
    \A a \in 1..AnchorCount : (part = "anchor health" /\ Health!Checking(a))
        ~> (part = "anchor health" /\ Health!Checked(a))

\* Polling alone brings the end of a transaction to the screen, as long as the interval
\* polls: a completed one, which stops it, and one that the API calls refunded, expired
\* or error, for which it goes on (TransactionStatusTracker.tsx).
PollingBringsTheEnd ==
    (part = "status tracker" /\ Tracker!EndToShow) ~> (part = "status tracker" /\ Tracker!EndShown)

\* An event that can be read and was asked for reaches its callback, while the subscriber
\* stays and the node answers now and then (client.ts of the SDK).
EveryReadableCalled ==
    \A e \in 1..MaxEvents : (part = "sdk events" /\ Reader!Ahead(e) /\ Reader!Asked(e))
        ~> (part = "sdk events" /\ Reader!Reached(e))

\* "Callback function called when an event of this type is emitted" (client.ts of the SDK):
\* so is that of an event whose second topic is a symbol, as created and cancelled.
CalledWhenEmitted ==
    \A e \in 1..MaxEvents : (part = "sdk events" /\ Reader!Ahead(e) /\ Reader!Unreadable(e))
        ~> (part = "sdk events" /\ Reader!Reached(e))

-----------------------------------------------------------------------------
(***************************************************************************)
(* Compliance: x1 thresholds, x2 request, x3 flag, x4 due, x5 failed.      *)
(***************************************************************************)
RequestType == [at : {"none", "written", "found", "created"}, amount : Amounts \cup {0}]

LEMMA ComplianceBegins == Flags!Init => Flags!IInv
  BY DEF Flags!Init, Flags!IInv, Flags!TypeOK, Flags!DueIsReached, Flags!LargeIsFlagged

LEMMA ComplianceStep ==
    Flags!ComplianceAssumption /\ Flags!IInv /\ (Flags!Next \/ UNCHANGED Flags!vars) => Flags!IInv'
<1> SUFFICES ASSUME Flags!ComplianceAssumption, Flags!IInv, (Flags!Next \/ UNCHANGED Flags!vars)
             PROVE  Flags!IInv'
  OBVIOUS
<1>0. \A a \in Amounts \cup {0} : a \in Nat
  BY DEF Flags!ComplianceAssumption
<1> USE DEF Flags!NoThreshold
<1>1. /\ x1 \in [Corridors -> Amounts \cup {0}]
      /\ x2 \in [Created -> RequestType]
      /\ x3 \in [Created -> Flags!FlagStatuses \cup {"none"}]
      /\ x4 \subseteq Created /\ x5 \subseteq Created
      /\ \A r \in x4 : /\ x2[r].at # "none"
                       /\ \E c \in Corridors : x1[c] \in 1..x2[r].amount
                       /\ x2[r].at = "created" => x3[r] # "none" \/ r \in x5
  BY DEF Flags!IInv, Flags!TypeOK, RequestType, Flags!DueIsReached, Flags!LargeIsFlagged
<1>2. (/\ x1' \in [Corridors -> Amounts \cup {0}]
       /\ x2' \in [Created -> RequestType]
       /\ x3' \in [Created -> Flags!FlagStatuses \cup {"none"}]
       /\ x4' \subseteq Created /\ x5' \subseteq Created
       /\ \A r \in x4' :
             /\ x2'[r].at # "none"
             /\ \E c \in Corridors : x1'[c] \in 1..x2'[r].amount
             /\ x2'[r].at = "created" => x3'[r] # "none" \/ r \in x5')
      => Flags!IInv'
  BY DEF Flags!IInv, Flags!TypeOK, RequestType, Flags!DueIsReached, Flags!LargeIsFlagged
\* A creation goes on to another stage.
<1>3. ASSUME NEW r \in Created, NEW stage \in {"created", "found"}, Flags!Goto(r, stage)
      PROVE  /\ x2' \in [Created -> RequestType]
             /\ x2'[r].at = stage /\ x2'[r].amount = x2[r].amount
             /\ \A s \in Created \ {r} : x2'[s] = x2[s]
  BY <1>1, <1>3 DEF Flags!Goto, RequestType
<1>4. ASSUME NEW r \in Created, Flags!Flagged(r)
      PROVE  /\ x3' \in [Created -> Flags!FlagStatuses \cup {"none"}] /\ x3'[r] # "none"
             /\ \A s \in Created \ {r} : x3'[s] = x3[s]
  BY <1>1, <1>4 DEF Flags!Flagged, Flags!FlagStatuses
<1>5. ASSUME NEW r \in Created, NEW amount \in Amounts, Flags!Create(r, amount) PROVE Flags!IInv'
  <2>1. /\ x2' \in [Created -> RequestType]
        /\ x2'[r].at = "written" /\ x2'[r].amount = amount
        /\ \A s \in Created \ {r} : x2'[s] = x2[s]
    BY <1>1, <1>5 DEF Flags!Create, RequestType
  <2>2. UNCHANGED <<x1, x3, x5>> /\ x4' \subseteq x4 \cup {r}
        /\ (r \in x4' => r \in x4 \/ \E c \in Corridors : x1[c] \in 1..amount)
    BY <1>5 DEF Flags!Create
  <2>3. r \notin x4
    BY <1>1, <1>5 DEF Flags!Create
  <2> QED
    BY <1>1, <1>2, <2>1, <2>2, <2>3
<1>6. ASSUME NEW r \in Created, Flags!LookUp(r) PROVE Flags!IInv'
  <2>1. /\ UNCHANGED <<x1, x3, x4, x5>> /\ x2[r].at = "written"
        /\ Flags!Goto(r, IF Flags!Reaches(x1, x2[r].amount) THEN "found" ELSE "created")
    BY <1>6 DEF Flags!LookUp
  <2>2. r \in x4 => Flags!Reaches(x1, x2[r].amount)
    <3> SUFFICES ASSUME r \in x4 PROVE Flags!Reaches(x1, x2[r].amount)
      OBVIOUS
    <3>1. PICK c \in Corridors : x1[c] \in 1..x2[r].amount
      BY <1>1
    <3>2. x2[r] \in RequestType
      BY <1>1
    <3>3. x2[r].amount \in Amounts \cup {0}
      BY <3>2 DEF RequestType
    <3>4. x2[r].amount \in Nat
      BY <1>0, <3>3
    <3> QED
      BY <3>1, <3>4 DEF Flags!Reaches
  <2>3. /\ x2' \in [Created -> RequestType]
        /\ x2'[r].at \in {"created", "found"} /\ x2'[r].amount = x2[r].amount
        /\ r \in x4 => x2'[r].at = "found"
        /\ \A s \in Created \ {r} : x2'[s] = x2[s]
    BY <1>3, <2>1, <2>2
  <2> QED
    BY <1>1, <1>2, <2>1, <2>3
<1>7. ASSUME NEW r \in Created, Flags!AutoFlag(r) PROVE Flags!IInv'
  BY <1>1, <1>2, <1>3, <1>4, <1>7 DEF Flags!AutoFlag
<1>8. ASSUME NEW r \in Created, Flags!FlagFails(r) PROVE Flags!IInv'
  BY <1>1, <1>2, <1>3, <1>8 DEF Flags!FlagFails
<1>9. ASSUME NEW r \in Created, Flags!ManualFlag(r) PROVE Flags!IInv'
  BY <1>1, <1>2, <1>4, <1>9 DEF Flags!ManualFlag
<1>10. ASSUME NEW r \in Created, NEW status \in Flags!FlagStatuses, Flags!SetFlag(r, status)
       PROVE  Flags!IInv'
  BY <1>1, <1>2, <1>10 DEF Flags!SetFlag, Flags!FlagStatuses
<1>11. ASSUME NEW c \in Corridors, NEW amount \in Amounts, Flags!SetThreshold(c, amount)
       PROVE  Flags!IInv'
  BY <1>1, <1>2, <1>11 DEF Flags!SetThreshold
<1>12. CASE UNCHANGED Flags!vars
  BY <1>1, <1>2, <1>12 DEF Flags!vars
<1> QED
  BY <1>5, <1>6, <1>7, <1>8, <1>9, <1>10, <1>11, <1>12 DEF Flags!Next

-----------------------------------------------------------------------------
(***************************************************************************)
(* HistoryScreen: x1 typed, x2 search, x3 status, x4 page, x5 entries, x6 pos, *)
(* x7 syncing, x8 pages, x9 shrinks, x10 opened, x11 overtyped.            *)
(***************************************************************************)
HeldType == [entries : Seq(History!Entry), pos : Nat, page : Nat \ {0}, syncing : BOOLEAN]
Sound(h) == h \in HeldType /\ h.pos \in 1..Len(h.entries)

LEMMA EntryOfPage ==
    ASSUME NEW entry \in History!Entry, NEW p \in Nat \ {0}
    PROVE  LET e == [entry EXCEPT !.page = p] IN
           e \in History!Entry /\ e.page = p /\ e.q = entry.q /\ e.status = entry.status
  BY DEF History!Entry

LEMMA ReplaceIsSound ==
    ASSUME NEW h, Sound(h), NEW entry \in History!Entry
    PROVE  /\ Sound(History!Replace(h, entry)) /\ History!Replace(h, entry).page = h.page
           /\ History!Replace(h, entry).pos = h.pos /\ History!Replace(h, entry).syncing = h.syncing
           /\ History!Replace(h, entry).entries[h.pos] = entry
<1> DEFINE new == [h.entries EXCEPT ![h.pos] = entry]
<1>1. h \in HeldType /\ h.entries \in Seq(History!Entry) /\ h.pos \in 1..Len(h.entries)
  BY DEF Sound, HeldType
<1>2. new \in Seq(History!Entry) /\ Len(new) = Len(h.entries) /\ new[h.pos] = entry
  BY <1>1
<1>3. History!Replace(h, entry) = [h EXCEPT !.entries = new]
  BY DEF History!Replace
<1> HIDE DEF new
<1> QED
  BY <1>1, <1>2, <1>3 DEF Sound, HeldType

LEMMA PushIsSound ==
    ASSUME NEW h, Sound(h), NEW entry \in History!Entry
    PROVE  /\ Sound(History!Push(h, entry)) /\ History!Push(h, entry).page = h.page
           /\ History!Push(h, entry).syncing = h.syncing
           /\ History!Push(h, entry).entries[History!Push(h, entry).pos] = entry
<1> DEFINE old == SubSeq(h.entries, 1, h.pos)
           new == Append(old, entry)
           at == h.pos + 1
<1>1. /\ h \in HeldType /\ h.entries \in Seq(History!Entry) /\ h.pos \in 1..Len(h.entries)
      /\ h.pos \in Nat /\ Len(h.entries) \in Nat
  BY DEF Sound, HeldType
<1>2. old \in Seq(History!Entry) /\ Len(old) = h.pos
  BY <1>1
<1>3. History!Push(h, entry) = [h EXCEPT !.entries = new, !.pos = at]
  BY DEF History!Push
<1> HIDE DEF old
<1>4. new \in Seq(History!Entry) /\ Len(new) = at /\ new[at] = entry
  BY <1>2, AppendProperties
<1>5. at \in Nat /\ at \in 1..at
  BY <1>1
<1> HIDE DEF new, at
<1>6. /\ History!Push(h, entry) \in HeldType /\ History!Push(h, entry).entries = new /\ History!Push(h, entry).pos = at
      /\ History!Push(h, entry).page = h.page /\ History!Push(h, entry).syncing = h.syncing
  BY <1>1, <1>3, <1>4, <1>5 DEF HeldType
<1> QED
  BY <1>4, <1>5, <1>6 DEF Sound

\* The page shown goes to the address, which keeps its search and its filter.
LEMMA PageEffectFollows ==
    ASSUME NEW h, Sound(h), NEW p \in Nat \ {0}, p = h.page => h.entries[h.pos].page = p
    PROVE  LET e == History!PageEffect(h, p) IN
           /\ Sound(e) /\ e.page = p /\ e.entries[e.pos].page = p
           /\ e.entries[e.pos].q = h.entries[h.pos].q
           /\ e.entries[e.pos].status = h.entries[h.pos].status
<1> DEFINE here == h.entries[h.pos]
           shown == [h EXCEPT !.page = p]
           entry == [here EXCEPT !.page = p]
<1>1. h \in HeldType /\ h.entries \in Seq(History!Entry) /\ h.pos \in 1..Len(h.entries)
  BY DEF Sound, HeldType
<1>2. here \in History!Entry
  BY <1>1
<1>3. entry \in History!Entry /\ entry.page = p /\ entry.q = here.q /\ entry.status = here.status
  BY <1>2, EntryOfPage
<1>4. /\ Sound(shown) /\ shown.page = p /\ shown.entries = h.entries /\ shown.pos = h.pos
  BY <1>1 DEF Sound, HeldType
<1>5. /\ p = h.page => History!PageEffect(h, p) = h
      /\ p # h.page /\ h.syncing =>
            History!PageEffect(h, p) = [History!Replace(shown, entry) EXCEPT !.syncing = FALSE]
      /\ p # h.page /\ ~h.syncing /\ here.page # p => History!PageEffect(h, p) = History!Push(shown, entry)
      /\ p # h.page /\ ~h.syncing /\ here.page = p => History!PageEffect(h, p) = shown
  BY DEF History!PageEffect
<1> HIDE DEF shown, entry
<1>6. CASE p = h.page
  BY <1>5, <1>6
<1>7. CASE p # h.page /\ h.syncing
  <2> DEFINE r == History!Replace(shown, entry)
  <2>1. Sound(r) /\ r.page = p /\ r.pos = h.pos /\ r.entries[r.pos] = entry
    BY <1>3, <1>4, ReplaceIsSound
  <2>2. History!PageEffect(h, p) = [r EXCEPT !.syncing = FALSE]
    BY <1>5, <1>7
  <2> HIDE DEF r
  <2>3. /\ Sound(History!PageEffect(h, p)) /\ History!PageEffect(h, p).page = r.page
        /\ History!PageEffect(h, p).entries = r.entries /\ History!PageEffect(h, p).pos = r.pos
    BY <2>1, <2>2 DEF Sound, HeldType
  <2> QED
    BY <1>3, <2>1, <2>3
<1>8. CASE p # h.page /\ ~h.syncing /\ here.page # p
  BY <1>3, <1>4, <1>5, <1>8, PushIsSound
<1>9. CASE p # h.page /\ ~h.syncing /\ here.page = p
  BY <1>4, <1>5, <1>9
<1> QED
  BY <1>6, <1>7, <1>8, <1>9

LEMMA FilterEffectFollows ==
    ASSUME NEW h, Sound(h), NEW q \in History!Texts, NEW s \in History!Texts
    PROVE  LET e == History!FilterEffect(h, q, s) IN
           /\ Sound(e) /\ e.page = h.page /\ e.pos = h.pos
           /\ e.entries[e.pos].page = h.entries[h.pos].page
           /\ e.entries[e.pos].q = q /\ e.entries[e.pos].status = s
<1> DEFINE here == h.entries[h.pos]
           entry == [here EXCEPT !.q = q, !.status = s]
<1>1. here \in History!Entry
  BY DEF Sound, HeldType
<1>2. entry \in History!Entry /\ entry.page = here.page /\ entry.q = q /\ entry.status = s
  BY <1>1 DEF History!Entry
<1>3. History!FilterEffect(h, q, s) = History!Replace(h, entry)
  BY DEF History!FilterEffect
<1> HIDE DEF entry
<1> QED
  BY <1>2, <1>3, ReplaceIsSound

LEMMA WhatIsHeld ==
    History!IInv => /\ Sound(History!Held) /\ History!Held.entries = x5 /\ History!Held.pos = x6 /\ History!Held.page = x4
                    /\ History!Held.syncing = x7 /\ History!Held.entries[History!Held.pos] = History!Address
                    /\ History!Address.page = x4 /\ History!Address.status = x3
                    /\ History!Address \in History!Entry /\ Len(x5) \in Nat
  BY DEF History!IInv, History!TypeOK, History!AddressFollows, History!Held, Sound, HeldType,
     History!Address

\* What the browser and the screen hold becomes the new state.
LEMMA BecomesHeld ==
    ASSUME NEW h, Sound(h), History!Becomes(h), MaxEntries \in Nat, h.entries[h.pos].page = h.page
    PROVE  /\ x4' \in Nat \ {0} /\ x5' \in Seq(History!Entry) /\ Len(x5') \in 1..MaxEntries
           /\ x6' \in DOMAIN x5' /\ x7' \in BOOLEAN
           /\ History!Address' = h.entries[h.pos] /\ History!Address'.page = x4'
<1>1. /\ h.entries \in Seq(History!Entry) /\ h.pos \in 1..Len(h.entries) /\ h.page \in Nat \ {0}
      /\ h.syncing \in BOOLEAN /\ Len(h.entries) \in Nat
  BY DEF Sound, HeldType
<1>2. /\ x5' = h.entries /\ x6' = h.pos /\ x4' = h.page /\ x7' = h.syncing
      /\ Len(h.entries) <= MaxEntries
  BY DEF History!Becomes
<1>3. History!Address' = h.entries[h.pos]
  BY <1>2 DEF History!Address
<1>4. Len(h.entries) >= 1 /\ DOMAIN h.entries = 1..Len(h.entries)
  BY <1>1
<1> QED
  BY <1>1, <1>2, <1>3, <1>4

\* A render leaves an address that follows.
LEMMA RenderFollows ==
    ASSUME History!IInv, MaxEntries \in Nat,
           NEW h, Sound(h), NEW p \in Nat \ {0}, NEW q \in History!Texts, NEW s \in History!Texts,
           p = h.page => h.entries[h.pos].page = p,
           s = x3 => h.entries[h.pos].status = s,
           History!Renders(h, p, q, s)
    PROVE  /\ x4' \in Nat \ {0} /\ x5' \in Seq(History!Entry) /\ Len(x5') \in 1..MaxEntries
           /\ x6' \in DOMAIN x5' /\ x7' \in BOOLEAN
           /\ x2' = q /\ x3' = s /\ History!Address'.page = x4' /\ History!Address'.status = x3'
           /\ History!Address'.q = q \/ (q = x2 /\ History!Address'.q = h.entries[h.pos].q)
<1> DEFINE changed == q # x2 \/ s # x3
           filtered == IF changed THEN History!FilterEffect(h, q, s) ELSE h
           paged == History!PageEffect(filtered, p)
           after == History!ResetEffect(paged, changed)
<1>1. x2' = q /\ x3' = s /\ History!Becomes(after)
  BY DEF History!Renders
<1>2. /\ Sound(filtered) /\ filtered.page = h.page
      /\ filtered.entries[filtered.pos].page = h.entries[h.pos].page
      /\ filtered.entries[filtered.pos].status = s
      /\ \/ filtered.entries[filtered.pos].q = q
         \/ q = x2 /\ filtered.entries[filtered.pos].q = h.entries[h.pos].q
  <2>1. CASE changed
    BY <2>1, FilterEffectFollows
  <2>2. CASE ~changed
    BY <2>2
  <2> QED
    BY <2>1, <2>2
<1> HIDE DEF filtered
<1>3. /\ Sound(paged) /\ paged.page = p /\ paged.entries[paged.pos].page = p
      /\ paged.entries[paged.pos].q = filtered.entries[filtered.pos].q
      /\ paged.entries[paged.pos].status = s
  BY <1>2, PageEffectFollows
<1> HIDE DEF paged
<1>4. /\ Sound(after) /\ after.entries[after.pos].page = after.page
      /\ after.entries[after.pos].q = filtered.entries[filtered.pos].q
      /\ after.entries[after.pos].status = s
  <2>1. CASE changed
    <3>1. after = History!PageEffect(paged, 1)
      BY <2>1 DEF History!ResetEffect
    <3>2. 1 \in Nat \ {0} /\ (1 = paged.page => paged.entries[paged.pos].page = 1)
      BY <1>3
    <3> QED
      BY <1>3, <3>1, <3>2, PageEffectFollows
  <2>2. CASE ~changed
    BY <1>3, <2>2 DEF History!ResetEffect
  <2> QED
    BY <2>1, <2>2
<1> HIDE DEF after
<1>5. /\ x4' \in Nat \ {0} /\ x5' \in Seq(History!Entry) /\ Len(x5') \in 1..MaxEntries
      /\ x6' \in DOMAIN x5' /\ x7' \in BOOLEAN
      /\ History!Address' = after.entries[after.pos] /\ History!Address'.page = x4'
  BY <1>1, <1>4, BecomesHeld
<1> QED
  BY <1>1, <1>2, <1>4, <1>5

LEMMA HistoryBegins == History!HistoryAssumption /\ History!Init => History!IInv
<1> SUFFICES ASSUME History!HistoryAssumption, History!Init PROVE History!IInv
  OBVIOUS
<1> DEFINE e == [q |-> "", status |-> "", page |-> FirstPage]
<1>1. FirstPage \in Nat \ {0} /\ MaxHistoryPages \in Nat \ {0} /\ MaxEntries \in Nat \ {0} /\ MaxShrinks \in Nat
  BY DEF History!HistoryAssumption
<1>2. e \in History!Entry /\ e.q = "" /\ e.status = "" /\ e.page = FirstPage
  BY <1>1 DEF History!Entry, History!Texts
<1>3. x5 = <<e>> /\ x6 = 1
  BY DEF History!Init
<1> HIDE DEF e
<1>4. /\ x5 \in Seq(History!Entry) /\ Len(x5) = 1 /\ x6 \in DOMAIN x5 /\ History!Address = e
  <2>1. e \in History!Entry
    BY <1>2
  <2>2. <<e>> \in Seq(History!Entry) /\ Len(<<e>>) = 1 /\ <<e>>[1] = e
    BY <2>1
  <2>3. DOMAIN <<e>> = 1..1
    BY <2>2
  <2> QED
    BY <1>3, <2>2, <2>3 DEF History!Address
<1>5. History!TypeOK
  <2>1. {x1, x2, x3} \subseteq History!Texts
    BY DEF History!Init, History!Texts
  <2>2. {x7, x10, x11} \subseteq BOOLEAN
    BY DEF History!Init
  <2>3. x4 \in Nat \ {0} /\ x8 \in 1..MaxHistoryPages /\ x9 \in 0..MaxShrinks
    <3>1. x4 = FirstPage /\ x8 = MaxHistoryPages /\ x9 = 0
      BY DEF History!Init
    <3>2. FirstPage \in Nat \ {0} /\ MaxHistoryPages \in 1..MaxHistoryPages
      BY <1>1
    <3>3. 0 \in 0..MaxShrinks
      BY <1>1
    <3> QED
      BY <3>1, <3>2, <3>3
  <2>4. Len(x5) \in 1..MaxEntries
    BY <1>1, <1>4
  <2> QED
    BY <1>4, <2>1, <2>2, <2>3, <2>4 DEF History!TypeOK
<1> QED
  BY <1>2, <1>4, <1>5 DEF History!IInv, History!AddressFollows, History!SearchFollows,
     History!Init

LEMMA HistoryHolds == History!IInv => History!AddressIsShown
<1> SUFFICES ASSUME History!IInv, x1 = x2, ~x11
             PROVE  History!Address = [q |-> x2, status |-> x3, page |-> x4]
  BY DEF History!AddressIsShown
<1>1. History!Address.q = x2 /\ History!Address.status = x3 /\ History!Address.page = x4
  BY DEF History!IInv, History!SearchFollows, History!AddressFollows
<1>2. History!Address \in History!Entry
  BY WhatIsHeld
<1> QED
  BY <1>1, <1>2 DEF History!Entry

LEMMA HistoryStep ==
    History!HistoryAssumption /\ History!IInv /\ (History!Next \/ UNCHANGED History!vars) => History!IInv'
<1> SUFFICES ASSUME History!HistoryAssumption, History!IInv, (History!Next \/ UNCHANGED History!vars)
             PROVE  History!IInv'
  OBVIOUS
<1>1. /\ x1 \in History!Texts /\ x2 \in History!Texts /\ x3 \in History!Texts /\ "" \in History!Texts
      /\ x4 \in Nat \ {0} /\ x8 \in 1..MaxHistoryPages
      /\ x5 \in Seq(History!Entry) /\ Len(x5) \in 1..MaxEntries /\ x6 \in DOMAIN x5
      /\ x7 \in BOOLEAN /\ x10 \in BOOLEAN /\ x11 \in BOOLEAN
      /\ x9 \in 0..MaxShrinks
      /\ MaxHistoryPages \in Nat \ {0} /\ MaxEntries \in Nat /\ MaxShrinks \in Nat
      /\ History!Address.q = x2 \/ History!Address.q = x1 \/ x11
  BY DEF History!IInv, History!TypeOK, History!HistoryAssumption, History!Texts,
     History!SearchFollows
<1>2. ASSUME x1' \in History!Texts, x2' \in History!Texts, x3' \in History!Texts,
             x4' \in Nat \ {0}, x8' \in 1..MaxHistoryPages,
             x5' \in Seq(History!Entry), Len(x5') \in 1..MaxEntries, x6' \in DOMAIN x5',
             x7' \in BOOLEAN, x10' \in BOOLEAN, x11' \in BOOLEAN,
             x9' \in 0..MaxShrinks,
             History!Address'.status = x3', History!Address'.page = x4',
             History!Address'.q = x2' \/ History!Address'.q = x1' \/ x11'
      PROVE  History!IInv'
  BY <1>2 DEF History!IInv, History!TypeOK, History!AddressFollows, History!SearchFollows
<1>15. /\ x8 \in Nat /\ x8 >= 1 /\ x8 <= MaxHistoryPages /\ MaxHistoryPages \in Nat
       /\ x9 \in 0..MaxShrinks /\ MaxShrinks \in Nat
  BY DEF History!IInv, History!TypeOK, History!HistoryAssumption
<1>16. \A i \in DOMAIN x5 :
          /\ i \in 1..Len(x5) /\ i \in Nat /\ x5[i] \in History!Entry
          /\ x5[i].q \in History!Texts /\ x5[i].status \in History!Texts
          /\ x5[i].page \in Nat \ {0}
  <2> SUFFICES ASSUME NEW i \in DOMAIN x5
               PROVE  /\ i \in 1..Len(x5) /\ i \in Nat /\ x5[i] \in History!Entry
                      /\ x5[i].q \in History!Texts /\ x5[i].status \in History!Texts
                      /\ x5[i].page \in Nat \ {0}
    OBVIOUS
  <2>1. x5 \in Seq(History!Entry)
    BY DEF History!IInv, History!TypeOK
  <2>2. i \in 1..Len(x5) /\ i \in Nat /\ x5[i] \in History!Entry
    BY <2>1
  <2> QED
    BY <2>2 DEF History!Entry
<1>3. /\ Sound(History!Held) /\ History!Held.entries = x5 /\ History!Held.pos = x6 /\ History!Held.page = x4
      /\ History!Held.entries[History!Held.pos] = History!Address
      /\ History!Address.page = x4 /\ History!Address.status = x3 /\ History!Address \in History!Entry
  BY WhatIsHeld
<1>4. UNCHANGED <<x5, x6>> => History!Address' = History!Address
  BY DEF History!Address
\* The list is reset to its first page.
<1>5. ASSUME History!Becomes(History!ResetEffect(History!Held, TRUE)), UNCHANGED x3
      PROVE  /\ x4' \in Nat \ {0} /\ x5' \in Seq(History!Entry) /\ Len(x5') \in 1..MaxEntries
             /\ x6' \in DOMAIN x5' /\ x7' \in BOOLEAN
             /\ History!Address'.page = x4' /\ History!Address'.status = x3' /\ History!Address'.q = History!Address.q
  <2> DEFINE h == History!PageEffect(History!Held, 1)
  <2>1. History!Becomes(h)
    BY <1>5 DEF History!ResetEffect
  <2>2. 1 \in Nat \ {0} /\ (1 = History!Held.page => History!Held.entries[History!Held.pos].page = 1)
    BY <1>3
  <2>3. /\ Sound(h) /\ h.page = 1 /\ h.entries[h.pos].page = 1
        /\ h.entries[h.pos].q = History!Address.q /\ h.entries[h.pos].status = History!Address.status
    BY <1>3, <2>2, PageEffectFollows
  <2> HIDE DEF h
  <2> QED
    BY <1>1, <1>3, <1>5, <2>1, <2>3, BecomesHeld
<1>6. CASE History!Open
  <2>1. /\ x10' = TRUE /\ History!Becomes(History!ResetEffect(History!Held, TRUE))
        /\ UNCHANGED <<x1, x2, x3, x8, x9, x11>>
    BY <1>6 DEF History!Open
  <2> QED
    BY <1>1, <1>2, <1>5, <2>1
<1>7. ASSUME NEW text \in History!Texts, History!Type(text) PROVE History!IInv'
  <2>1. /\ x1' = text /\ x11' = (x11 \/ (History!Address.q # x2 /\ text # History!Address.q))
        /\ UNCHANGED <<x2, x3, x4, x5, x6, x7, x8, x9, x10>>
    BY <1>7 DEF History!Type, History!OverTypes
  <2>2. x11' \in BOOLEAN /\ (History!Address.q = x2 \/ History!Address.q = text \/ x11')
    BY <1>1, <2>1
  <2> QED
    BY <1>1, <1>2, <1>3, <1>4, <2>1, <2>2
<1>8. CASE History!Debounced
  <2>1. History!Renders(History!Held, x4, x1, x3) /\ UNCHANGED <<x1, x8, x9, x10, x11>>
    BY <1>8 DEF History!Debounced
  <2>2. /\ x4' \in Nat \ {0} /\ x5' \in Seq(History!Entry) /\ Len(x5') \in 1..MaxEntries
        /\ x6' \in DOMAIN x5' /\ x7' \in BOOLEAN
        /\ x2' = x1 /\ x3' = x3 /\ History!Address'.page = x4' /\ History!Address'.status = x3'
        /\ History!Address'.q = x1 \/ (x1 = x2 /\ History!Address'.q = History!Address.q)
    BY <1>1, <1>3, <2>1, RenderFollows
  <2> QED
    BY <1>1, <1>2, <2>1, <2>2
<1>9. ASSUME NEW s \in History!Texts, History!Filter(s) PROVE History!IInv'
  <2>1. /\ History!Renders(History!Held, x4, x2, s) /\ s # x3
        /\ UNCHANGED <<x1, x8, x9, x10, x11>>
    BY <1>9 DEF History!Filter
  <2>2. /\ x4' \in Nat \ {0} /\ x5' \in Seq(History!Entry) /\ Len(x5') \in 1..MaxEntries
        /\ x6' \in DOMAIN x5' /\ x7' \in BOOLEAN
        /\ x2' = x2 /\ x3' = s /\ History!Address'.page = x4' /\ History!Address'.status = x3'
        /\ History!Address'.q = x2 \/ History!Address'.q = History!Address.q
    BY <1>1, <1>3, <2>1, RenderFollows
  <2> QED
    BY <1>1, <1>2, <2>1, <2>2
<1>10. CASE History!Clear
  <2>1. /\ History!Renders(History!Held, x4, x2, "") /\ x1' = ""
        /\ x11' = (x11 \/ (History!Address.q # x2 /\ "" # History!Address.q))
        /\ UNCHANGED <<x8, x9, x10>>
    BY <1>10 DEF History!Clear, History!OverTypes
  <2>2. /\ x4' \in Nat \ {0} /\ x5' \in Seq(History!Entry) /\ Len(x5') \in 1..MaxEntries
        /\ x6' \in DOMAIN x5' /\ x7' \in BOOLEAN
        /\ x2' = x2 /\ x3' = "" /\ History!Address'.page = x4' /\ History!Address'.status = x3'
        /\ History!Address'.q = x2 \/ History!Address'.q = History!Address.q
    BY <1>1, <1>3, <2>1, RenderFollows
  <2>3. x11' \in BOOLEAN /\ (History!Address.q = x2 \/ History!Address.q = "" \/ x11')
    BY <1>1, <2>1
  <2> QED
    BY <1>1, <1>2, <2>1, <2>2, <2>3
<1>11. ASSUME NEW p \in 1..x8, History!ChangePage(p) PROVE History!IInv'
  <2>1. /\ History!Renders(History!Held, p, x2, x3) /\ p # x4
        /\ UNCHANGED <<x1, x8, x9, x10, x11>>
    BY <1>11 DEF History!ChangePage
  <2>2. p \in Nat \ {0}
    BY <1>15
  <2>3. /\ x4' \in Nat \ {0} /\ x5' \in Seq(History!Entry) /\ Len(x5') \in 1..MaxEntries
        /\ x6' \in DOMAIN x5' /\ x7' \in BOOLEAN
        /\ x2' = x2 /\ x3' = x3 /\ History!Address'.page = x4' /\ History!Address'.status = x3'
        /\ History!Address'.q = x2 \/ History!Address'.q = History!Address.q
    BY <1>1, <1>3, <2>1, <2>2, RenderFollows
  <2> QED
    BY <1>1, <1>2, <2>1, <2>3
<1>12. ASSUME NEW to, History!Go(to) PROVE History!IInv'
  <2> DEFINE h == [History!Held EXCEPT !.pos = to, !.syncing = TRUE]
  <2>1. /\ to \in DOMAIN x5 /\ x1' = x5[to].q
        /\ History!Renders(h, x5[to].page, x2, x5[to].status)
        /\ UNCHANGED <<x8, x9, x10, x11>>
    BY <1>12 DEF History!Go
  <2>2. /\ to \in 1..Len(x5) /\ to \in Nat /\ x5[to] \in History!Entry
        /\ x5[to].q \in History!Texts /\ x5[to].status \in History!Texts /\ x5[to].page \in Nat \ {0}
    BY <1>16, <2>1
  <2>3. Sound(h) /\ h.entries = x5 /\ h.pos = to
    BY <1>3, <2>2 DEF Sound, HeldType
  <2> HIDE DEF h
  <2>4. /\ x4' \in Nat \ {0} /\ x5' \in Seq(History!Entry) /\ Len(x5') \in 1..MaxEntries
        /\ x6' \in DOMAIN x5' /\ x7' \in BOOLEAN
        /\ x2' = x2 /\ x3' = x5[to].status
        /\ History!Address'.page = x4' /\ History!Address'.status = x3'
        /\ History!Address'.q = x2 \/ History!Address'.q = x5[to].q
    BY <1>1, <2>1, <2>2, <2>3, RenderFollows
  <2> QED
    BY <1>1, <1>2, <2>1, <2>2, <2>4
<1>13. CASE History!Shrink
  <2>1. /\ x8 > 1 /\ x8' = x8 - 1 /\ x9 < MaxShrinks /\ x9' = x9 + 1
        /\ History!Becomes(History!ResetEffect(History!Held, TRUE))
        /\ UNCHANGED <<x1, x2, x3, x10, x11>>
    BY <1>13 DEF History!Shrink
  <2>2. x8' \in 1..MaxHistoryPages
    BY <1>15, <2>1
  <2>3. x9' \in 0..MaxShrinks
    BY <1>15, <2>1
  <2> QED
    BY <1>1, <1>2, <1>5, <2>1, <2>2, <2>3
<1>14. CASE UNCHANGED History!vars
  <2>1. History!Address' = History!Address
    BY <1>4, <1>14 DEF History!vars
  <2> QED
    BY <1>1, <1>2, <1>3, <1>14, <2>1 DEF History!vars
<1> QED
  BY <1>6, <1>7, <1>8, <1>9, <1>10, <1>11, <1>12, <1>13, <1>14 DEF History!Next

-----------------------------------------------------------------------------
(***************************************************************************)
(* AnchorHealth: x1 anchor, x2 probe, x3 measured, x4 rows, x5 recent,     *)
(* x6 report.                                                              *)
(***************************************************************************)
Healths == {"offline", "degraded", "online"}
ReportType == [step : {"none", "recent", "latest", "history"}, status : Healths \cup {"none"},
               head : Healths \cup {"none"}, crossed : BOOLEAN]

LEMMA HealthBegins == Health!HealthAssumption /\ Health!Init => Health!IInv
  BY DEF Health!HealthAssumption, Health!Init, Health!IInv, Health!TypeOK,
     Health!ReportTyped, Health!SettledIsMeasured, Health!ReadIsWhatIsThere, Health!NoReport

LEMMA HealthHolds == Health!IInv => Health!ReportHangsTogether
<1> SUFFICES ASSUME Health!IInv, x6.step = "history", ~x6.crossed
             PROVE  /\ x6.head = x6.status
                    /\ x6.status = "offline" /\ Health!Uptime = "all" => x5 = 0
  BY DEF Health!ReportHangsTogether
<1>1. x6.head = Health!FirstOf(x4) /\ x6.status = Health!FirstOf(x4)
  BY DEF Health!IInv, Health!ReadIsWhatIsThere
<1>2. x4 \in Seq(Healths) /\ x5 \in 0..Len(x4)
  BY DEF Health!IInv, Health!TypeOK, Healths
<1>3. ASSUME x6.status = "offline", x5 # 0 PROVE Health!Uptime # "all"
  <2>1. x4 # <<>> /\ x4[1] = "offline"
    BY <1>1, <1>2, <1>3 DEF Health!FirstOf
  <2>2. 1 \in 1..x5
    BY <1>2, <1>3
  <2> QED
    BY <2>1, <2>2 DEF Health!Uptime
<1> QED
  BY <1>1, <1>3

\* The newest rows are as many as are looked at, or all there are.
LEMMA NewestFits ==
    ASSUME Kept \in Nat \ {0}, NEW seq \in Seq(Healths)
    PROVE  /\ Health!Newest(seq) \in Seq(Healths)
           /\ Len(Health!Newest(seq)) = IF Len(seq) < Kept THEN Len(seq) ELSE Kept
<1> DEFINE n == IF Len(seq) < Kept THEN Len(seq) ELSE Kept
<1>1. n \in 0..Len(seq) /\ Len(seq) \in Nat
  OBVIOUS
<1>2. SubSeq(seq, 1, n) \in Seq(Healths) /\ Len(SubSeq(seq, 1, n)) = n
  <2> HIDE DEF n
  <2>1. CASE n = 0
    BY <1>1, <2>1
  <2>2. CASE n # 0
    BY <1>1, <2>2
  <2> QED
    BY <2>1, <2>2
<1> QED
  BY <1>2 DEF Health!Newest

LEMMA HealthStep ==
    Health!HealthAssumption /\ Health!IInv /\ (Health!Next \/ UNCHANGED Health!vars) => Health!IInv'
<1> SUFFICES ASSUME Health!HealthAssumption, Health!IInv, Health!Next \/ UNCHANGED Health!vars
             PROVE  Health!IInv'
  OBVIOUS
<1>1. /\ x1 \in 0..AnchorCount /\ AnchorCount \in Nat /\ Kept \in Nat \ {0}
      /\ x2 \in {"none", "asked", "reading", "trickling", "settled", "cut"}
      /\ x3 \in Healths \cup {"none"} /\ (x2 = "settled" => x3 # "none")
      /\ x4 \in Seq(Healths) /\ x5 \in 0..Len(x4)
      /\ x6 \in ReportType
      /\ Health!ReadIsWhatIsThere
  BY DEF Health!HealthAssumption, Health!IInv, Health!TypeOK, Health!ReportTyped,
     Health!SettledIsMeasured, Healths, ReportType
<1>2. (/\ x1' \in 0..AnchorCount
       /\ x2' \in {"none", "asked", "reading", "trickling", "settled", "cut"}
       /\ x3' \in Healths \cup {"none"} /\ (x2' = "settled" => x3' # "none")
       /\ x4' \in Seq(Healths) /\ x5' \in 0..Len(x4')
       /\ x6' \in ReportType
       /\ Health!ReadIsWhatIsThere')
      => Health!IInv'
  BY DEF Health!IInv, Health!TypeOK, Health!ReportTyped, Health!SettledIsMeasured, Healths,
     ReportType
<1> DEFINE ChecksTyped ==
        /\ x1' \in 0..AnchorCount
        /\ x2' \in {"none", "asked", "reading", "trickling", "settled", "cut"}
        /\ x3' \in Healths \cup {"none"} /\ (x2' = "settled" => x3' # "none")
\* The check goes on and the rows stay.
<1>3. ASSUME ChecksTyped, UNCHANGED Health!history PROVE Health!IInv'
  <2>1. Health!ReadIsWhatIsThere'
    BY <1>1, <1>3 DEF Health!ReadIsWhatIsThere, Health!history
  <2> QED
    BY <1>1, <1>2, <1>3, <2>1 DEF Health!history
<1>4. Health!Advances => x1' \in 0..AnchorCount /\ x2' \in {"asked", "none"}
  BY <1>1 DEF Health!Advances
<1>5. ASSUME \/ Health!Tick \/ Health!Headers \/ Health!Trickles \/ Health!GoesQuiet \/ Health!BodyEnds \/ Health!RequestFails
             \/ Health!Timeout \/ Health!CutShort \/ Health!SaveFails \/ Health!Stop
      PROVE  Health!IInv'
  <2>1. CASE Health!Tick \/ Health!Headers \/ Health!Trickles \/ Health!GoesQuiet \/ Health!CutShort \/ Health!Stop
    BY <1>1, <1>3, <2>1 DEF Health!Tick, Health!Headers, Health!Trickles, Health!GoesQuiet,
       Health!CutShort, Health!Stop
  <2>2. CASE Health!BodyEnds \/ Health!RequestFails \/ Health!Timeout
    BY <1>1, <1>3, <2>2 DEF Health!BodyEnds, Health!RequestFails, Health!Timeout,
       Health!Settled, Health!Classified, Healths
  <2>3. CASE Health!SaveFails
    BY <1>1, <1>3, <1>4, <2>3 DEF Health!SaveFails
  <2> QED
    BY <1>5, <2>1, <2>2, <2>3
<1>6. ASSUME Health!Save, x1 = 1 PROVE Health!IInv'
  <2>1. /\ x4' = Health!Newest(<<x3>> \o x4) /\ x3 \in Healths
        /\ x5' = IF x5 < Kept THEN x5 + 1 ELSE Kept
        /\ x6' = [x6 EXCEPT !.crossed = x6.step # "none"]
        /\ x3' = x3 /\ Health!Advances
    BY <1>1, <1>6 DEF Health!Save
  <2>2. <<x3>> \o x4 \in Seq(Healths) /\ Len(<<x3>> \o x4) = Len(x4) + 1
    BY <1>1, <2>1
  <2>3. x4' \in Seq(Healths) /\ x5' \in 0..Len(x4')
    <3> DEFINE all == <<x3>> \o x4
    <3>1. all \in Seq(Healths) /\ Len(all) = Len(x4) + 1
      BY <2>2
    <3> HIDE DEF all
    <3>2. /\ Health!Newest(all) \in Seq(Healths)
          /\ Len(Health!Newest(all)) = IF Len(all) < Kept THEN Len(all) ELSE Kept
      BY <1>1, <3>1, NewestFits
    <3>3. x4' = Health!Newest(all)
      BY <2>1 DEF all
    <3>4. x5' \in 0..(IF Len(all) < Kept THEN Len(all) ELSE Kept)
      BY <1>1, <2>1, <3>1
    <3> QED
      BY <3>2, <3>3, <3>4
  <2>4. x6' \in ReportType /\ x6'.step = x6.step
        /\ x6'.crossed = (x6.step # "none")
    BY <1>1, <2>1 DEF ReportType
  <2>5. Health!ReadIsWhatIsThere'
    BY <2>4 DEF Health!ReadIsWhatIsThere
  <2> QED
    BY <1>1, <1>2, <1>4, <2>1, <2>3, <2>4, <2>5
<1>7. CASE Health!Save /\ x1 # 1
  BY <1>1, <1>3, <1>4, <1>7 DEF Health!Save
<1>8. Health!FirstOf(x4) \in Healths \cup {"none"}
  BY <1>1 DEF Health!FirstOf
<1>9. CASE Health!A24HoursOldRow
  <2>1. /\ UNCHANGED <<x1, x2, x3, x4, x6>>
        /\ x5' = x5 - 1 /\ x5 > 0
    BY <1>9 DEF Health!A24HoursOldRow
  <2>2. Health!ReadIsWhatIsThere'
    BY <1>1, <2>1 DEF Health!ReadIsWhatIsThere
  <2> QED
    BY <1>1, <1>2, <2>1, <2>2
<1>10. CASE Health!ReadLatest
  <2>1. /\ UNCHANGED <<x1, x2, x3, x4, x5>>
        /\ x6' = [step |-> "latest", status |-> Health!FirstOf(x4), head |-> "none", crossed |-> FALSE]
    BY <1>10 DEF Health!ReadLatest, Health!NoReport
  <2>2. x6' \in ReportType /\ Health!ReadIsWhatIsThere'
    BY <1>8, <2>1 DEF ReportType, Health!ReadIsWhatIsThere
  <2> QED
    BY <1>1, <1>2, <2>1, <2>2
<1>11. CASE Health!ReadHistory
  <2>1. /\ UNCHANGED <<x1, x2, x3, x4, x5>>
        /\ x6' = [x6 EXCEPT !.step = "history", !.head = Health!FirstOf(x4)]
        /\ x6.step = "latest"
    BY <1>11 DEF Health!ReadHistory, Health!History
  <2>2. /\ x6' \in ReportType /\ x6'.step = "history" /\ x6'.head = Health!FirstOf(x4)
        /\ x6'.status = x6.status /\ x6'.crossed = x6.crossed
    BY <1>1, <1>8, <2>1 DEF ReportType
  <2>3. Health!ReadIsWhatIsThere'
    BY <1>1, <2>1, <2>2 DEF Health!ReadIsWhatIsThere
  <2> QED
    BY <1>1, <1>2, <2>1, <2>2, <2>3
<1>12. CASE Health!Answer
  <2>1. UNCHANGED <<x1, x2, x3, x4, x5>> /\ x6' = Health!NoReport
    BY <1>12 DEF Health!Answer
  <2>2. x6' \in ReportType /\ Health!ReadIsWhatIsThere'
    BY <2>1 DEF ReportType, Health!NoReport, Health!ReadIsWhatIsThere
  <2> QED
    BY <1>1, <1>2, <2>1, <2>2
<1>13. CASE UNCHANGED Health!vars
  BY <1>1, <1>3, <1>13 DEF Health!vars, Health!history
<1> QED
  BY <1>5, <1>6, <1>7, <1>9, <1>10, <1>11, <1>12, <1>13 DEF Health!Next

-----------------------------------------------------------------------------
(***************************************************************************)
(* StatusTracker: x1 remote, x2 local, x3 refreshing, x4 interval, x5 seen, *)
(* x6 asked, x7 lostAsks, x8 mounted, x9 socket, x10 timerLost.            *)
(***************************************************************************)
SocketType == [ref : Tracker!Refs, timer : BOOLEAN, lost : 0..MaxSockets,
               closing : 0..MaxSockets, attempts : 0..MaxReconnects]
AskType == [busy : BOOLEAN, since : Tracker!Statuses, against : Tracker!Words]

LEMMA TrackerBegins == Tracker!TrackerAssumption /\ Tracker!Init => Tracker!IInv
<1> SUFFICES ASSUME Tracker!TrackerAssumption, Tracker!Init PROVE Tracker!IInv
  OBVIOUS
<1>1. /\ LastStatus \in Nat \ {0} /\ MaxReconnects \in Nat /\ MaxSockets \in Nat /\ MaxLost \in Nat
      /\ 0 \in Tracker!Statuses /\ 0 \in Tracker!Words /\ Tracker!Own(0) \in Tracker!Words
      /\ Tracker!Own(0) # LastStatus /\ Tracker!Own(0) # Tracker!Own(Tracker!OtherEnd)
      /\ 0 \in 0..MaxSockets /\ 0 \in 0..MaxReconnects /\ 0 \in 0..MaxLost
  BY DEF Tracker!TrackerAssumption, Tracker!Statuses, Tracker!OtherEnd, Tracker!Words,
     Tracker!Own
<1>2. x9 \in SocketType /\ x9.lost = 0
  BY <1>1 DEF Tracker!Init, SocketType, Tracker!Refs
<1>3. x6 \in [Procs -> AskType]
  BY <1>1 DEF Tracker!Init, Tracker!NoAsk, AskType
<1>4. Tracker!TypeOK
  BY <1>1, <1>2, <1>3 DEF Tracker!Init, Tracker!TypeOK, SocketType, AskType
<1>5. Tracker!LostIsRecorded
  BY <1>2 DEF Tracker!LostIsRecorded
<1>6. Tracker!EndLeavesNothing
  BY <1>1 DEF Tracker!EndLeavesNothing, Tracker!Init, Tracker!Terminal
<1> QED
  BY <1>4, <1>5, <1>6 DEF Tracker!IInv

LEMMA TrackerHolds == Tracker!IInv => Tracker!OpenAfterEndOnlyByLostTimer
  BY DEF Tracker!IInv, Tracker!EndLeavesNothing, Tracker!OpenAfterEndOnlyByLostTimer

LEMMA OneMoreCounts ==
    ASSUME Tracker!TrackerAssumption, NEW n \in 0..MaxSockets PROVE Tracker!OneMore(n) \in 0..MaxSockets
  BY DEF Tracker!TrackerAssumption, Tracker!OneMore

\* A socket closed has neither a socket nor a timer.
LEMMA ClosedIsOff ==
    ASSUME Tracker!TrackerAssumption, NEW s \in SocketType
    PROVE  /\ Tracker!Closed(s) \in SocketType /\ Tracker!Closed(s).ref = "none" /\ ~Tracker!Closed(s).timer
           /\ Tracker!Closed(s).lost = s.lost
<1> DEFINE closing == IF s.ref = "open" THEN Tracker!OneMore(s.closing) ELSE s.closing
<1>1. closing \in 0..MaxSockets
  BY OneMoreCounts DEF SocketType
<1>2. Tracker!Closed(s) = [s EXCEPT !.ref = "none", !.timer = FALSE, !.closing = closing]
  BY DEF Tracker!Closed
<1> HIDE DEF closing
<1> QED
  BY <1>1, <1>2 DEF SocketType, Tracker!Refs

LEMMA ConnectedIsOpen ==
    ASSUME Tracker!TrackerAssumption, NEW s \in SocketType
    PROVE  /\ Tracker!Connected(s) \in SocketType /\ Tracker!Connected(s).lost = s.lost
<1>1. Tracker!Connected(s) = [Tracker!Closed(s) EXCEPT !.ref = "open"]
  BY DEF Tracker!Connected
<1> QED
  BY <1>1, ClosedIsOff DEF SocketType, Tracker!Refs

\* Asking to reconnect: after the end nothing changes, and a timer is lost sight of only
\* if there was one.
LEMMA ReconnectingKeeps ==
    ASSUME Tracker!TrackerAssumption, NEW s \in SocketType
    PROVE  /\ Tracker!Reconnecting(s) \in SocketType /\ Tracker!Reconnecting(s).ref = s.ref
           /\ (Tracker!Terminal(x2) => Tracker!Reconnecting(s) = s)
           /\ (Tracker!Reconnecting(s).lost > s.lost => s.timer /\ Tracker!MayReconnect(s))
<1>1. CASE ~Tracker!MayReconnect(s)
  <2>1. Tracker!Reconnecting(s) = s
    BY <1>1 DEF Tracker!Reconnecting
  <2>2. s.lost \in Nat
    BY DEF SocketType
  <2> QED
    BY <2>1, <2>2
<1>2. CASE Tracker!MayReconnect(s)
  <2> DEFINE lost == IF s.timer THEN Tracker!OneMore(s.lost) ELSE s.lost
             attempts == s.attempts + 1
  <2>1. Tracker!Reconnecting(s) = [s EXCEPT !.attempts = attempts, !.timer = TRUE, !.lost = lost]
    BY <1>2 DEF Tracker!Reconnecting
  <2>2. lost \in 0..MaxSockets /\ attempts \in 0..MaxReconnects
    BY <1>2, OneMoreCounts DEF SocketType, Tracker!MayReconnect, Tracker!TrackerAssumption
  <2>3. s.timer \in BOOLEAN /\ s.lost \in Nat
    BY DEF SocketType
  <2>4. lost > s.lost => s.timer
    BY <2>3
  <2>5. ~Tracker!Terminal(x2)
    BY <1>2 DEF Tracker!MayReconnect
  <2> HIDE DEF lost, attempts
  <2>6. Tracker!Reconnecting(s) \in SocketType /\ Tracker!Reconnecting(s).ref = s.ref /\ Tracker!Reconnecting(s).lost = lost
    BY <2>1, <2>2 DEF SocketType
  <2> QED
    BY <1>2, <2>4, <2>5, <2>6
<1> QED
  BY <1>1, <1>2

LEMMA TrackerStep ==
    Tracker!TrackerAssumption /\ Tracker!IInv /\ (Tracker!Next \/ UNCHANGED Tracker!vars) => Tracker!IInv'
<1> SUFFICES ASSUME Tracker!TrackerAssumption, Tracker!IInv, (Tracker!Next \/ UNCHANGED Tracker!vars)
             PROVE  Tracker!IInv'
  OBVIOUS
<1>1. /\ LastStatus \in Nat \ {0} /\ MaxReconnects \in Nat /\ MaxSockets \in Nat /\ MaxLost \in Nat
      /\ x1 \in Tracker!Statuses /\ x2 \in Tracker!Words /\ x5 \in Tracker!Words
      /\ x3 \in BOOLEAN /\ x8 \in BOOLEAN /\ x10 \in BOOLEAN
      /\ x4 \in {"off", "polls", "deaf"}
      /\ x6 \in [Procs -> AskType] /\ x7 \in 0..MaxLost
      /\ x9 \in SocketType
      /\ \A s \in Tracker!Statuses : s \in Nat /\ {s, Tracker!Own(s)} \subseteq Tracker!Words
  BY DEF Tracker!TrackerAssumption, Tracker!IInv, Tracker!TypeOK, SocketType, AskType,
     Tracker!Statuses, Tracker!OtherEnd, Tracker!Words
<1>2. /\ x9.lost > 0 => x10
      /\ x8 /\ Tracker!Terminal(x2) /\ ~x10 => x9.ref # "open" /\ ~x9.timer
  BY DEF Tracker!IInv, Tracker!LostIsRecorded, Tracker!EndLeavesNothing
<1>3. ASSUME x1' \in Tracker!Statuses, x2' \in Tracker!Words, x5' \in Tracker!Words,
             x3' \in BOOLEAN, x8' \in BOOLEAN, x10' \in BOOLEAN,
             x4' \in {"off", "polls", "deaf"},
             x6' \in [Procs -> AskType], x7' \in 0..MaxLost,
             x9' \in SocketType, x9'.lost > 0 => x10',
             x8' /\ Tracker!Terminal(x2') /\ ~x10' => x9'.ref # "open" /\ ~x9'.timer
      PROVE  Tracker!IInv'
  BY <1>3 DEF Tracker!IInv, Tracker!TypeOK, SocketType, AskType, Tracker!LostIsRecorded,
     Tracker!EndLeavesNothing, Tracker!Terminal
\* A request's answer is taken off.
<1>4. \A a \in Procs : [x6 EXCEPT ![a] = Tracker!NoAsk] \in [Procs -> AskType]
  <2>1. Tracker!NoAsk \in AskType
    BY DEF Tracker!NoAsk, AskType, Tracker!Words, Tracker!Statuses, Tracker!OtherEnd,
       Tracker!TrackerAssumption
  <2> QED
    BY <1>1, <2>1
\* What a render leaves.
<1>5. ASSUME NEW s \in Tracker!Words, NEW r \in BOOLEAN, Tracker!Shows(s, r), UNCHANGED <<x8, x10>>
      PROVE  /\ x2' \in Tracker!Words /\ x5' \in Tracker!Words /\ x3' \in BOOLEAN
             /\ x4' \in {"off", "polls", "deaf"}
             /\ x9' \in SocketType /\ (x9'.lost > 0 => x10')
             /\ x8' /\ Tracker!Terminal(x2') /\ ~x10' => x9'.ref # "open" /\ ~x9'.timer
  <2>1. x2' = s /\ x3' = r
    BY <1>5 DEF Tracker!Shows
  <2>2. CASE s = x2
    <3>1. UNCHANGED <<x4, x5, x9>>
      BY <1>5, <2>2 DEF Tracker!Shows
    <3> QED
      BY <1>1, <1>2, <1>5, <2>1, <2>2, <3>1
  <2>3. CASE s # x2
    <3>1. x4' = Tracker!IntervalFor(s, r) /\ x5' = s /\ x9' = Tracker!SocketFor(s, x9)
      BY <1>5, <2>3 DEF Tracker!Shows
    <3>2. x4' \in {"off", "polls", "deaf"}
      BY <3>1 DEF Tracker!IntervalFor
    <3>3. /\ x9' \in SocketType /\ x9'.lost = x9.lost
          /\ Tracker!Terminal(s) => x9'.ref # "open" /\ ~x9'.timer
      BY <1>1, <3>1, ClosedIsOff, ConnectedIsOpen DEF Tracker!SocketFor
    <3> QED
      BY <1>2, <1>5, <2>1, <3>1, <3>2, <3>3
  <2> QED
    BY <2>2, <2>3
\* What is left to show where only the socket changes.
<1>6. ASSUME NEW s, NEW overwrites \in BOOLEAN, Tracker!SocketChanges(s, overwrites), s \in SocketType,
             s.lost > x9.lost => overwrites,
             x8 /\ Tracker!Terminal(x2) /\ ~x10 => s.ref # "open" /\ ~s.timer
      PROVE  Tracker!IInv'
  <2>1. /\ x9' = s /\ x10' = (x10 \/ overwrites)
        /\ UNCHANGED <<x1, x2, x3, x4, x5, x6, x7, x8>>
    BY <1>6 DEF Tracker!SocketChanges
  <2>2. s.lost \in Nat /\ x9.lost \in Nat
    BY <1>1, <1>6 DEF SocketType
  <2>3. x10' \in BOOLEAN /\ (x10 => x10') /\ (overwrites => x10')
    BY <1>1, <2>1
  <2>4. x9'.lost > 0 => x10'
    BY <1>2, <1>6, <2>1, <2>2, <2>3
  <2> QED
    BY <1>1, <1>3, <1>6, <2>1, <2>3, <2>4
<1>7. CASE Tracker!Advance
  <2>1. /\ x1' \in Tracker!Statuses
        /\ UNCHANGED <<x2, x3, x4, x5, x6, x7, x8, x9, x10>>
    BY <1>1, <1>7 DEF Tracker!Advance, Tracker!Statuses, Tracker!OtherEnd
  <2> QED
    BY <1>1, <1>2, <1>3, <2>1
<1>8. CASE Tracker!Message
  <2>1. PICK word \in Tracker!Words :
           Tracker!Shows(word, x3) /\ UNCHANGED <<x1, x6, x7, x8, x10>>
    BY <1>1, <1>8 DEF Tracker!Message
  <2> QED
    BY <1>1, <1>3, <1>5, <2>1
<1>9. CASE Tracker!Unmount
  <2>1. /\ x8' = FALSE /\ x4' = "off"
        /\ x9' = IF Tracker!Terminal(x2) THEN x9 ELSE Tracker!Closed(x9)
        /\ UNCHANGED <<x1, x2, x3, x5, x6, x7, x10>>
    BY <1>9 DEF Tracker!Unmount
  <2>2. x9' \in SocketType /\ x9'.lost = x9.lost
    BY <1>1, <2>1, ClosedIsOff
  <2> QED
    BY <1>1, <1>2, <1>3, <2>1, <2>2
<1>10. ASSUME NEW a \in Procs, NEW against \in Tracker!Words, Tracker!Asking(a, against)
       PROVE  Tracker!IInv'
  <2>1. /\ x6' = [x6 EXCEPT ![a] = [busy |-> TRUE, since |-> x1, against |-> against]]
        /\ x3' = TRUE
        /\ UNCHANGED <<x1, x2, x4, x5, x7, x8, x9, x10>>
    BY <1>10 DEF Tracker!Asking
  <2>2. x6' \in [Procs -> AskType]
    BY <1>1, <2>1 DEF AskType
  <2> QED
    BY <1>1, <1>2, <1>3, <2>1, <2>2
<1>11. ASSUME NEW a \in Procs, Tracker!Unanswered(a) PROVE Tracker!IInv'
  <2>1. /\ x7 < MaxLost /\ x7' = x7 + 1
        /\ x6' = [x6 EXCEPT ![a] = Tracker!NoAsk]
        /\ x3' = (x3 /\ ~x8)
        /\ UNCHANGED <<x1, x2, x4, x5, x8, x9, x10>>
    BY <1>11 DEF Tracker!Unanswered
  <2>2. x6' \in [Procs -> AskType] /\ x7' \in 0..MaxLost
    BY <1>1, <1>4, <2>1
  <2>3. x3' \in BOOLEAN
    BY <1>1, <2>1
  <2> QED
    BY <1>1, <1>2, <1>3, <2>1, <2>2, <2>3
<1>12. ASSUME NEW a \in Procs, NEW read \in Tracker!Statuses, Tracker!Answered(a, read)
       PROVE  Tracker!IInv'
  <2>1. /\ x6' = [x6 EXCEPT ![a] = Tracker!NoAsk]
        /\ UNCHANGED <<x1, x7, x8, x10>>
    BY <1>12 DEF Tracker!Answered
  <2>2. x6' \in [Procs -> AskType]
    BY <1>4, <2>1
  <2>3. CASE x8
    <3>1. PICK s \in Tracker!Words : Tracker!Shows(s, FALSE)
      <4>1. Tracker!Shows(IF read # x6[a].against THEN read ELSE x2, FALSE)
        BY <1>12, <2>3 DEF Tracker!Answered
      <4> QED
        BY <1>1, <4>1
    <3> QED
      BY <1>1, <1>3, <1>5, <2>1, <2>2, <3>1
  <2>4. CASE ~x8
    <3>1. UNCHANGED <<x2, x3, x4, x5, x9>>
      BY <1>12, <2>4 DEF Tracker!Answered
    <3> QED
      BY <1>1, <1>2, <1>3, <2>1, <2>2, <3>1
  <2> QED
    BY <2>3, <2>4
<1>13. CASE Tracker!SocketOpens
  <2>1. /\ x9' = [x9 EXCEPT !.attempts = 0] /\ x9.ref = "open"
        /\ UNCHANGED <<x1, x2, x3, x4, x5, x6, x7, x8, x10>>
    BY <1>13 DEF Tracker!SocketOpens
  <2>2. /\ x9' \in SocketType /\ x9'.lost = x9.lost /\ x9'.ref = x9.ref
    BY <1>1, <2>1 DEF SocketType
  <2> QED
    BY <1>1, <1>2, <1>3, <2>1, <2>2
\* The timer on record stays where it was, and the attempts.
<1>14. ASSUME NEW s \in SocketType, s.timer = x9.timer, s.attempts = x9.attempts,
              s.lost = x9.lost, s.ref = "open" => x9.ref = "open",
              Tracker!SocketChanges(Tracker!Reconnecting(s), x9.timer /\ Tracker!MayReconnect(x9))
       PROVE  Tracker!IInv'
  <2> DEFINE n == Tracker!Reconnecting(s)
  <2>1. /\ n \in SocketType /\ n.ref = s.ref /\ (Tracker!Terminal(x2) => n = s)
        /\ (n.lost > s.lost => s.timer /\ Tracker!MayReconnect(s))
    BY ReconnectingKeeps
  <2>2. Tracker!MayReconnect(s) => Tracker!MayReconnect(x9)
    BY <1>14 DEF Tracker!MayReconnect
  <2>3. n.lost > x9.lost => x9.timer /\ Tracker!MayReconnect(x9)
    BY <1>14, <2>1, <2>2
  <2>4. x8 /\ Tracker!Terminal(x2) /\ ~x10 => n.ref # "open" /\ ~n.timer
    BY <1>2, <1>14, <2>1
  <2>5. (x9.timer /\ Tracker!MayReconnect(x9)) \in BOOLEAN
    OBVIOUS
  <2> HIDE DEF n
  <2>6. Tracker!SocketChanges(n, x9.timer /\ Tracker!MayReconnect(x9))
    BY <1>14 DEF n
  <2> QED
    BY <1>6, <2>1, <2>3, <2>4, <2>5, <2>6
<1>15. CASE Tracker!SocketDrops
  <2> DEFINE s == [x9 EXCEPT !.ref = "dropped"]
  <2>1. /\ s \in SocketType /\ s.timer = x9.timer /\ s.attempts = x9.attempts
        /\ s.lost = x9.lost /\ s.ref = "dropped"
    BY <1>1 DEF SocketType, Tracker!Refs
  <2>2. Tracker!SocketChanges(Tracker!Reconnecting(s), x9.timer /\ Tracker!MayReconnect(x9))
    BY <1>15 DEF Tracker!SocketDrops
  <2> HIDE DEF s
  <2> QED
    BY <1>14, <2>1, <2>2
<1>16. CASE Tracker!CloseEvent
  <2> DEFINE s == [x9 EXCEPT !.closing = @ - 1]
  <2>1. /\ s \in SocketType /\ s.timer = x9.timer /\ s.attempts = x9.attempts
        /\ s.lost = x9.lost /\ s.ref = x9.ref
    BY <1>1, <1>16 DEF SocketType, Tracker!CloseEvent
  <2>2. Tracker!SocketChanges(Tracker!Reconnecting(s), x9.timer /\ Tracker!MayReconnect(x9))
    BY <1>16 DEF Tracker!CloseEvent
  <2> HIDE DEF s
  <2> QED
    BY <1>14, <2>1, <2>2
<1>17. CASE Tracker!TimerFires
  <2> DEFINE s == [x9 EXCEPT !.timer = FALSE]
  <2>1. s \in SocketType /\ s.lost = x9.lost
    BY <1>1 DEF SocketType
  <2>2. Tracker!SocketChanges(Tracker!Connected(s), FALSE) /\ x9.timer
    BY <1>17 DEF Tracker!TimerFires
  <2> HIDE DEF s
  <2>3. Tracker!Connected(s) \in SocketType /\ Tracker!Connected(s).lost = x9.lost /\ x9.lost \in Nat
    BY <1>1, <2>1, ConnectedIsOpen DEF SocketType
  <2>4. ~(x8 /\ Tracker!Terminal(x2) /\ ~x10) /\ ~(Tracker!Connected(s).lost > x9.lost)
    BY <1>2, <2>2, <2>3
  <2> QED
    BY <1>6, <2>2, <2>3, <2>4
<1>18. CASE Tracker!LostTimerFires
  <2> DEFINE s == [x9 EXCEPT !.lost = @ - 1]
  <2>1. x9.lost \in 0..MaxSockets /\ x9.lost > 0
    BY <1>1, <1>18 DEF SocketType, Tracker!LostTimerFires
  <2>2. s \in SocketType /\ s.lost < x9.lost /\ s.lost \in Nat
    BY <1>1, <2>1 DEF SocketType
  <2>3. Tracker!SocketChanges(Tracker!Connected(s), FALSE)
    BY <1>18 DEF Tracker!LostTimerFires
  <2> HIDE DEF s
  <2>4. Tracker!Connected(s) \in SocketType /\ ~(Tracker!Connected(s).lost > x9.lost)
    BY <2>1, <2>2, ConnectedIsOpen
  <2>5. x10
    BY <1>2, <2>1
  <2> QED
    BY <1>6, <2>3, <2>4, <2>5
<1>19. CASE UNCHANGED Tracker!vars
  BY <1>1, <1>2, <1>3, <1>19 DEF Tracker!vars
<1> QED
  <2>1. ASSUME NEW a \in Procs, Tracker!Tick(a) \/ Tracker!Button(a) \/ Tracker!Unanswered(a)
               \/ \E read \in Tracker!Statuses : Tracker!Answered(a, read)
        PROVE  Tracker!IInv'
    BY <1>1, <1>10, <1>11, <1>12, <2>1 DEF Tracker!Tick, Tracker!Button
  <2> QED
    BY <1>7, <1>8, <1>9, <1>13, <1>15, <1>16, <1>17, <1>18, <1>19, <2>1 DEF Tracker!Next

-----------------------------------------------------------------------------
(***************************************************************************)
(* SdkEvents: x1 events, x2 reader, x3 called.                             *)
(***************************************************************************)
ReaderType == [step : {"idle", "fetch", "page"}, cursor : 0..MaxEvents,
               page : Seq(1..MaxEvents), active : BOOLEAN]

LEMMA ReaderBegins == Reader!SdkEventsAssumption /\ Reader!Init => Reader!IInv
<1> SUFFICES ASSUME Reader!SdkEventsAssumption, Reader!Init PROVE Reader!IInv
  OBVIOUS
<1>1. /\ x2 \in ReaderType /\ x2.cursor = 0 /\ x2.page = <<>>
      /\ x1 = <<>> /\ x3 = <<>> /\ MaxEvents \in Nat
  BY DEF Reader!Init, Reader!SdkEventsAssumption, ReaderType
<1> QED
  BY <1>1 DEF Reader!IInv, Reader!EventsTypeOK, ReaderType, Reader!EventsBounded,
     Reader!PageFollowsCursor,
              Reader!CalledUpToCursor, Reader!CalledInOrderOnce

LEMMA ReaderStep ==
    Reader!SdkEventsAssumption /\ Reader!IInv /\ (Reader!Next \/ UNCHANGED Reader!eventVars) => Reader!IInv'
<1> SUFFICES ASSUME Reader!SdkEventsAssumption, Reader!IInv, Reader!Next \/ UNCHANGED Reader!eventVars
             PROVE  Reader!IInv'
  OBVIOUS
<1>1. /\ x1 \in Seq(Reader!Topics) /\ x2 \in ReaderType /\ x3 \in Seq(1..MaxEvents)
      /\ MaxEvents \in Nat /\ PageSize \in Nat \ {0} /\ Len(x1) <= MaxEvents
      /\ x2.cursor \in 0..MaxEvents /\ x2.page \in Seq(1..MaxEvents)
      /\ x2.step = "idle" => x2.page = <<>>
      /\ x2.cursor + Len(x2.page) <= Len(x1)
      /\ \A i \in 1..Len(x2.page) : x2.page[i] = x2.cursor + i
      /\ \A i \in DOMAIN x3 : x3[i] <= x2.cursor
      /\ \A i, j \in DOMAIN x3 : i < j => x3[i] < x3[j]
  BY DEF Reader!SdkEventsAssumption, Reader!IInv, Reader!EventsTypeOK, ReaderType,
     Reader!EventsBounded, Reader!PageFollowsCursor,
         Reader!CalledUpToCursor, Reader!CalledInOrderOnce
<1>2. (/\ x1' \in Seq(Reader!Topics) /\ x2' \in ReaderType /\ x3' \in Seq(1..MaxEvents)
       /\ Len(x1') <= MaxEvents
       /\ x2'.step = "idle" => x2'.page = <<>>
       /\ x2'.cursor + Len(x2'.page) <= Len(x1')
       /\ \A i \in 1..Len(x2'.page) : x2'.page[i] = x2'.cursor + i
       /\ \A i \in DOMAIN x3' : x3'[i] <= x2'.cursor
       /\ \A i, j \in DOMAIN x3' : i < j => x3'[i] < x3'[j]) => Reader!IInv'
  BY DEF Reader!IInv, Reader!EventsTypeOK, ReaderType, Reader!EventsBounded,
     Reader!PageFollowsCursor,
         Reader!CalledUpToCursor, Reader!CalledInOrderOnce
<1>3. ASSUME NEW topic \in Reader!Topics, Reader!Emit(topic) PROVE Reader!IInv'
  <2>1. /\ x1' \in Seq(Reader!Topics) /\ Len(x1') = Len(x1) + 1 /\ Len(x1) < MaxEvents
        /\ UNCHANGED <<x2, x3>>
    BY <1>1, <1>3 DEF Reader!Emit
  <2>2. Len(x1) \in Nat /\ Len(x2.page) \in Nat
    BY <1>1
  <2> QED
    BY <1>1, <1>2, <2>1, <2>2
<1>4. CASE Reader!Subscribe
  <2>1. /\ x2' = [x2 EXCEPT !.step = "fetch", !.active = TRUE, !.cursor = Len(x1)]
        /\ UNCHANGED <<x1, x3>> /\ x2.step = "idle"
    BY <1>4 DEF Reader!Subscribe
  <2>2. Len(x1) \in 0..MaxEvents
    BY <1>1
  <2>3. /\ x2' \in ReaderType /\ x2'.cursor = Len(x1) /\ x2'.page = x2.page
    BY <1>1, <2>1, <2>2 DEF ReaderType
  <2>4. x2.page = <<>> /\ x2'.step # "idle"
    BY <1>1, <2>1 DEF ReaderType
  <2> QED
    BY <1>1, <1>2, <2>1, <2>2, <2>3, <2>4
<1>5. CASE Reader!Unsubscribe
  <2>1. /\ UNCHANGED <<x1, x3>> /\ x2' = [x2 EXCEPT !.active = FALSE]
    BY <1>5 DEF Reader!Unsubscribe
  <2>2. /\ x2' \in ReaderType /\ x2'.cursor = x2.cursor /\ x2'.page = x2.page
        /\ x2'.step = "idle" => x2.step = "idle"
    BY <1>1, <2>1 DEF ReaderType
  <2> QED
    BY <1>1, <1>2, <2>1, <2>2
<1>6. CASE Reader!Fetch
  <2> DEFINE last == IF x2.cursor + PageSize < Len(x1) THEN x2.cursor + PageSize
                     ELSE Len(x1)
             n == last - x2.cursor
             page == [i \in 1..n |-> x2.cursor + i]
  <2>1. UNCHANGED <<x1, x3>> /\ x2' = [x2 EXCEPT !.step = "page", !.page = page]
    BY <1>6 DEF Reader!Fetch
  <2>2. n \in Nat /\ x2.cursor + n <= Len(x1) /\ Len(x1) \in Nat
    <3>1. Len(x2.page) \in Nat /\ Len(x1) \in Nat
      BY <1>1
    <3> QED
      BY <1>1, <3>1
  <2> HIDE DEF n
  <2>3. /\ page \in Seq(1..MaxEvents) /\ Len(page) = n
        /\ \A i \in 1..n : page[i] = x2.cursor + i
    BY <1>1, <2>2
  <2> HIDE DEF page
  <2>4. /\ x2' \in ReaderType /\ x2'.cursor = x2.cursor /\ x2'.page = page
        /\ x2'.step # "idle"
    BY <1>1, <2>1, <2>3 DEF ReaderType
  <2> QED
    BY <1>1, <1>2, <2>1, <2>2, <2>3, <2>4
<1>7. ASSUME NEW throws \in BOOLEAN, Reader!HandleEvent(throws) PROVE Reader!IInv'
  <2> DEFINE e == Head(x2.page)
             rest == IF throws THEN <<>> ELSE Tail(x2.page)
  <2>1. /\ UNCHANGED x1 /\ x2.page # <<>>
        /\ x3' = IF Reader!Asked(e) THEN Append(x3, e) ELSE x3
        /\ x2' = [x2 EXCEPT !.cursor = e, !.page = rest] /\ x2.step = "page"
    BY <1>7 DEF Reader!HandleEvent, Reader!CursorAfter
  <2>0. /\ Len(x2.page) \in Nat /\ Len(x2.page) # 0 /\ Len(x1) \in Nat
        /\ Head(x2.page) = x2.page[1]
        /\ e \in 1..MaxEvents /\ Tail(x2.page) \in Seq(1..MaxEvents)
        /\ Len(Tail(x2.page)) = Len(x2.page) - 1
        /\ \A i \in 1..Len(Tail(x2.page)) : Tail(x2.page)[i] = x2.page[i + 1]
    <3>1. /\ e \in 1..MaxEvents /\ Tail(x2.page) \in Seq(1..MaxEvents)
          /\ Len(Tail(x2.page)) = Len(x2.page) - 1
          /\ \A i \in 1..Len(Tail(x2.page)) : Tail(x2.page)[i] = x2.page[i + 1]
      BY <1>1, <2>1, HeadTailProperties
    <3>2. Len(x2.page) \in Nat \ {0} /\ Len(x1) \in Nat
      BY <1>1, <2>1, EmptySeq, LenProperties
    <3> QED
      BY <1>1, <2>1, <3>1, <3>2
  <2>2. /\ Len(x2.page) \in Nat /\ Len(x2.page) > 0 /\ e = x2.cursor + 1
        /\ e \in 1..MaxEvents /\ Len(x1) \in Nat
    <3>1. 1 \in 1..Len(x2.page)
      BY <2>0
    <3> QED
      BY <1>1, <2>0, <3>1
  <2>3. /\ rest \in Seq(1..MaxEvents) /\ Len(rest) <= Len(x2.page) - 1 /\ Len(rest) \in Nat
        /\ \A i \in 1..Len(rest) : rest[i] = e + i
    <3>1. CASE throws
      BY <2>2, <3>1
    <3>2. CASE ~throws
      <4>1. rest = Tail(x2.page)
        BY <3>2
      <4> HIDE DEF rest
      <4>2. ASSUME NEW i \in 1..Len(rest) PROVE rest[i] = e + i
        <5>1. i + 1 \in 1..Len(x2.page) /\ i \in Nat
          BY <2>0, <4>1
        <5>2. rest[i] = x2.page[i + 1]
          BY <2>0, <4>1
        <5>3. x2.page[i + 1] = x2.cursor + (i + 1) /\ x2.cursor \in Nat
          BY <1>1, <5>1
        <5> HIDE DEF e
        <5>4. e = x2.cursor + 1 /\ i \in Nat
          BY <2>2, <5>1
        <5>5. e + i = x2.cursor + (i + 1)
          BY <5>3, <5>4
        <5> QED
          BY <5>2, <5>3, <5>5
      <4> QED
        BY <2>2, <2>0, <4>1, <4>2
    <3> QED
      BY <3>1, <3>2
  <2> HIDE DEF e, rest
  <2>4. /\ x2' \in ReaderType /\ x2'.cursor = e /\ x2'.page = rest
        /\ x2'.step # "idle"
    <3>1. e \in 0..MaxEvents
      BY <2>2
    <3> QED
      BY <1>1, <2>1, <2>3, <3>1 DEF ReaderType
  <2>5. /\ x3' \in Seq(1..MaxEvents)
        /\ \A i \in DOMAIN x3' : x3'[i] <= e
        /\ \A i, j \in DOMAIN x3' : i < j => x3'[i] < x3'[j]
    <3>0. /\ \A i \in DOMAIN x3 : x3[i] \in Nat /\ x3[i] < e
          /\ DOMAIN x3 = 1..Len(x3) /\ Len(x3) \in Nat /\ e \in Nat
      <4>1. DOMAIN x3 = 1..Len(x3) /\ Len(x3) \in Nat
        BY <1>1, LenProperties
      <4>2. \A i \in 1..Len(x3) : x3[i] \in 1..MaxEvents
        BY <1>1, ElementOfSeq
      <4> QED
        BY <1>1, <2>2, <4>1, <4>2
    <3>1. CASE ~Reader!Asked(e)
      BY <1>1, <2>1, <2>2, <3>0, <3>1
    <3>2. CASE Reader!Asked(e)
      <4>1. x3' = Append(x3, e)
        BY <2>1, <3>2
      <4>2. /\ x3' \in Seq(1..MaxEvents) /\ DOMAIN x3' = 1..(Len(x3) + 1)
            /\ x3'[Len(x3) + 1] = e
            /\ \A i \in 1..Len(x3) : x3'[i] = x3[i]
        BY <1>1, <2>2, <4>1, AppendProperties, LenProperties
      <4>3. \A i \in DOMAIN x3' : x3'[i] <= e
        BY <3>0, <4>2
      <4>4. ASSUME NEW i \in DOMAIN x3', NEW j \in DOMAIN x3', i < j
            PROVE  x3'[i] < x3'[j]
        <5>1. i \in DOMAIN x3 /\ x3'[i] = x3[i]
          BY <3>0, <4>2, <4>4
        <5>2. CASE j = Len(x3) + 1
          BY <3>0, <4>2, <5>1, <5>2
        <5>3. CASE j # Len(x3) + 1
          <6>1. j \in DOMAIN x3 /\ x3'[j] = x3[j]
            BY <3>0, <4>2, <5>3
          <6> QED
            BY <1>1, <4>4, <5>1, <6>1
        <5> QED
          BY <5>2, <5>3
      <4> QED
        BY <4>2, <4>3, <4>4
    <3> QED
      BY <3>1, <3>2
  <2>6. x2'.cursor + Len(x2'.page) <= Len(x1')
    BY <1>1, <2>1, <2>2, <2>3, <2>4
  <2>7. \A i \in 1..Len(x2'.page) : x2'.page[i] = x2'.cursor + i
    BY <2>3, <2>4
  <2> QED
    BY <1>1, <1>2, <2>1, <2>4, <2>5, <2>6, <2>7
<1>8. CASE Reader!EndPage
  <2>1. UNCHANGED <<x1, x3>> /\ x2' = [x2 EXCEPT !.step = "fetch"]
    BY <1>8 DEF Reader!EndPage
  <2>2. /\ x2' \in ReaderType /\ x2'.cursor = x2.cursor /\ x2'.page = x2.page
        /\ x2'.step = "idle" => x2.step = "idle"
    BY <1>1, <2>1 DEF ReaderType
  <2> QED
    BY <1>1, <1>2, <2>1, <2>2
<1>9. CASE Reader!FetchFails \/ UNCHANGED Reader!eventVars
  BY <1>1, <1>2, <1>9 DEF Reader!FetchFails, Reader!eventVars
<1> QED
  BY <1>3, <1>4, <1>5, <1>6, <1>7, <1>8, <1>9 DEF Reader!Next

-----------------------------------------------------------------------------
(***************************************************************************)
(* SdkProposals: x1 proposals, x2 scan, x3 steady.                         *)
(***************************************************************************)
\* The operators on finite sets are those of the library.
LEMMA SetsOfScan ==
    /\ \A S : Scan!Cardinality(S) = Cardinality(S)
    /\ \A S : Scan!IsFiniteSet(S) <=> IsFiniteSet(S)
BY DEF Cardinality, IsFiniteSet, Scan!Cardinality, Scan!IsFiniteSet

ScanType == [step : {"idle", "ask", "answered"}, id : Nat, found : SUBSET Scan!Ids,
             lost : BOOLEAN, gap : BOOLEAN]

LEMMA ScanBegins == Scan!SdkProposalsAssumption /\ Scan!Init => Scan!IInv
<1> SUFFICES ASSUME Scan!SdkProposalsAssumption, Scan!Init PROVE Scan!IInv
  OBVIOUS
<1>1. DOMAIN x1 = {} /\ MaxProposals \in Nat /\ FirstId \in Nat
  BY DEF Scan!Init, Scan!SdkProposalsAssumption
<1>2. Scan!IsFiniteSet(DOMAIN x1) /\ Scan!Made = 0
  BY <1>1, FS_EmptySet, SetsOfScan DEF Scan!Made
<1>3. FirstId..(FirstId + Scan!Made - 1) = {}
  BY <1>1, <1>2
<1>4. Scan!ProposalsFollow /\ Scan!ProposalsTypeOK
  BY <1>1, <1>2, <1>3 DEF Scan!ProposalsFollow, Scan!ProposalsTypeOK, Scan!Init
<1> QED
  BY <1>1, <1>4 DEF Scan!IInv, Scan!Init, Scan!SteadyIsActive, Scan!FoundSoFar,
     Scan!ScanFindsSteady

LEMMA ScanStep ==
    Scan!SdkProposalsAssumption /\ Scan!IInv /\ (Scan!Next \/ UNCHANGED Scan!scanVars) => Scan!IInv'
<1> SUFFICES ASSUME Scan!SdkProposalsAssumption, Scan!IInv, (Scan!Next \/ UNCHANGED Scan!scanVars)
             PROVE  Scan!IInv'
  OBVIOUS
<1>1. /\ MaxProposals \in Nat /\ FirstId \in Nat /\ ScanLimit \in Nat
      /\ DOMAIN x1 \subseteq Scan!Ids /\ x2 \in ScanType /\ x3 \subseteq Scan!Ids
      /\ Scan!ProposalsFollow /\ Scan!SteadyIsActive /\ Scan!FoundSoFar /\ Scan!ScanFindsSteady
      /\ x2.id \in Nat /\ x2.found \subseteq Scan!Ids
      /\ \A id \in Scan!Ids : id \in Nat
  BY DEF Scan!SdkProposalsAssumption, Scan!IInv, Scan!ProposalsTypeOK, ScanType, Scan!Ids
<1>2. (/\ DOMAIN x1' \subseteq Scan!Ids /\ x2' \in ScanType /\ x3' \subseteq Scan!Ids
       /\ Scan!ProposalsFollow' /\ Scan!SteadyIsActive' /\ Scan!FoundSoFar' /\ Scan!ScanFindsSteady') => Scan!IInv'
  BY DEF Scan!IInv, Scan!ProposalsTypeOK, ScanType
<1>3. \A found \in SUBSET Scan!Ids : Scan!Cardinality(found) \in Nat
  <2>1. Scan!IsFiniteSet(Scan!Ids)
    BY <1>1, FS_Interval, SetsOfScan DEF Scan!Ids
  <2> QED
    BY <2>1, FS_Subset, FS_CardinalityType, SetsOfScan
\* The contract's proposals stay.
<1>4. UNCHANGED x1 => Scan!ProposalsFollow' /\ Scan!Active' = Scan!Active /\ DOMAIN x1' \subseteq Scan!Ids
  BY <1>1 DEF Scan!ProposalsFollow, Scan!Made, Scan!Active
<1>5. CASE Scan!Propose
  <2> DEFINE id == FirstId + Scan!Cardinality(DOMAIN x1)
  <2>1. /\ id \in Scan!Ids /\ UNCHANGED <<x2, x3>>
        /\ x1' = [i \in DOMAIN x1 \cup {id} |->
                     IF i = id THEN "Pending" ELSE x1[i]]
    BY <1>5 DEF Scan!Propose
  <2>2. /\ Scan!IsFiniteSet(DOMAIN x1) /\ Scan!Made \in 0..MaxProposals /\ id = FirstId + Scan!Made
        /\ DOMAIN x1 = FirstId..(FirstId + Scan!Made - 1)
    BY <1>1 DEF Scan!ProposalsFollow, Scan!Made
  <2> HIDE DEF id
  <2>3. id \notin DOMAIN x1 /\ DOMAIN x1' = DOMAIN x1 \cup {id}
    BY <1>1, <2>1, <2>2
  <2>4. Scan!IsFiniteSet(DOMAIN x1') /\ Scan!Made' = Scan!Made + 1
    BY <2>2, <2>3, FS_AddElement, SetsOfScan DEF Scan!Made
  <2>5. Scan!Made + 1 \in 0..MaxProposals
    BY <1>1, <2>1, <2>2 DEF Scan!Ids
  <2>6. DOMAIN x1' = FirstId..(FirstId + Scan!Made' - 1)
    <3>1. DOMAIN x1' = (FirstId..(FirstId + Scan!Made - 1)) \cup {FirstId + Scan!Made}
      BY <2>2, <2>3
    <3> HIDE DEF Scan!Made
    <3> QED
      BY <1>1, <2>2, <2>4, <3>1
  <2>7. Scan!Active \subseteq Scan!Active'
    BY <2>1, <2>3 DEF Scan!Active
  <2>8. Scan!SteadyIsActive' /\ Scan!FoundSoFar' /\ Scan!ScanFindsSteady'
    BY <1>1, <2>1, <2>7 DEF Scan!SteadyIsActive, Scan!FoundSoFar, Scan!ScanFindsSteady
  <2> QED
    BY <1>1, <1>2, <2>1, <2>3, <2>4, <2>5, <2>6, <2>8 DEF Scan!ProposalsFollow
<1>6. ASSUME NEW id \in DOMAIN x1, NEW to \in {"Approved", "Executed", "Deleted"},
             Scan!ProposalMoves(id, to)
      PROVE  Scan!IInv'
  <2>1. /\ x1' = [x1 EXCEPT ![id] = to] /\ x2' = x2
        /\ x3' = IF to = "Approved" THEN x3 ELSE x3 \ {id}
    BY <1>6 DEF Scan!ProposalMoves
  <2>2. DOMAIN x1' = DOMAIN x1
    BY <2>1
  <2>3. Scan!ProposalsFollow'
    BY <1>1, <2>2 DEF Scan!ProposalsFollow, Scan!Made
  <2>4. x3' \subseteq x3 /\ x3' \subseteq Scan!Active'
    BY <1>1, <2>1, <2>2 DEF Scan!SteadyIsActive, Scan!Active
  <2> QED
    BY <1>1, <1>2, <2>1, <2>2, <2>3, <2>4 DEF Scan!SteadyIsActive, Scan!FoundSoFar,
       Scan!ScanFindsSteady
<1>7. ASSUME NEW offset \in {0} \cup Scan!Ids, Scan!StartScan(offset) PROVE Scan!IInv'
  <2>1. /\ x2' = [step |-> "ask", id |-> offset, found |-> {}, lost |-> FALSE, gap |-> FALSE]
        /\ x3' = {id \in Scan!Active : id >= offset} /\ UNCHANGED x1
    BY <1>7 DEF Scan!StartScan
  <2>2. offset \in Nat /\ Scan!Active \subseteq DOMAIN x1
    BY <1>1 DEF Scan!Active
  <2>3. x2' \in ScanType /\ x2'.step = "ask" /\ x2'.id = offset
    BY <2>1, <2>2 DEF ScanType
  <2>4. Scan!FoundSoFar'
    <3>1. \A id \in x3' : id \in Nat /\ id >= offset
      BY <1>1, <2>1, <2>2
    <3> QED
      BY <2>2, <2>3, <3>1 DEF Scan!FoundSoFar
  <2>5. Scan!SteadyIsActive' /\ Scan!ScanFindsSteady' /\ x3' \subseteq Scan!Ids
    BY <1>1, <1>4, <2>1, <2>2, <2>3 DEF Scan!SteadyIsActive, Scan!ScanFindsSteady
  <2> QED
    BY <1>2, <1>4, <2>1, <2>3, <2>4, <2>5
<1>8. CASE Scan!AskProposal
  <2>1. /\ x2.step = "ask" /\ x2.id \in DOMAIN x1 /\ UNCHANGED <<x1, x3>>
        /\ x2' = [x2 EXCEPT !.id = x2.id + 1, !.found = x2.found \cup ({x2.id} \cap Scan!Active)]
    BY <1>8 DEF Scan!AskProposal, Scan!NextToAsk, Scan!Stored
  <2>2. /\ x2' \in ScanType /\ x2'.step = "ask" /\ x2'.id = x2.id + 1
        /\ x2'.found = x2.found \cup ({x2.id} \cap Scan!Active)
    <3> DEFINE next == x2.id + 1
               more == x2.found \cup ({x2.id} \cap Scan!Active)
    <3>1. next \in Nat /\ more \in SUBSET Scan!Ids
      BY <1>1 DEF Scan!Active
    <3>2. x2' = [x2 EXCEPT !.id = next, !.found = more]
      BY <2>1
    <3> HIDE DEF next, more
    <3>3. /\ x2' \in ScanType /\ x2'.step = "ask" /\ x2'.id = next
          /\ x2'.found = more
      BY <1>1, <2>1, <3>1, <3>2 DEF ScanType
    <3> QED
      BY <3>3 DEF next, more
  <2>3. Scan!FoundSoFar'
    <3> SUFFICES ASSUME NEW id \in x3, id < x2.id + 1 PROVE id \in x2'.found
      BY <2>1, <2>2 DEF Scan!FoundSoFar
    <3>1. CASE id < x2.id
      BY <1>1, <2>1, <2>2, <3>1 DEF Scan!FoundSoFar
    <3>2. CASE ~(id < x2.id)
      <4>1. id = x2.id
        BY <1>1, <3>2
      <4> QED
        BY <1>1, <2>2, <4>1 DEF Scan!SteadyIsActive
    <3> QED
      BY <3>1, <3>2
  <2>4. Scan!SteadyIsActive' /\ Scan!ScanFindsSteady'
    BY <1>1, <1>4, <2>1, <2>2 DEF Scan!SteadyIsActive, Scan!ScanFindsSteady
  <2> QED
    BY <1>1, <1>2, <1>4, <2>1, <2>2, <2>3, <2>4
\* The scan ends, and what it found is what there is to find.
<1>9. ASSUME UNCHANGED <<x1, x3>>, x2' \in ScanType, x2'.step # "ask",
             x2'.step = "answered" => Scan!ScanFindsSteady'
      PROVE  Scan!IInv'
  BY <1>1, <1>2, <1>4, <1>9 DEF Scan!SteadyIsActive, Scan!FoundSoFar, Scan!ScanFindsSteady
<1>10. CASE Scan!ScanIsFull
  <2>1. /\ Scan!Cardinality(x2.found) >= ScanLimit /\ UNCHANGED <<x1, x3>>
        /\ x2' = [x2 EXCEPT !.step = "answered"]
    BY <1>10 DEF Scan!ScanIsFull
  <2>2. x2' \in ScanType /\ x2'.step = "answered" /\ x2'.found = x2.found
    BY <1>1, <2>1 DEF ScanType
  <2>3. ~(Scan!Cardinality(x2'.found) < ScanLimit)
    BY <1>1, <1>3, <2>1, <2>2
  <2> QED
    BY <1>9, <2>1, <2>2, <2>3 DEF Scan!ScanFindsSteady
<1>11. CASE Scan!ScanFindsNone
  <2>1. /\ x2.step = "ask" /\ UNCHANGED <<x1, x3>>
        /\ x2' = [x2 EXCEPT !.step = "answered", !.gap = x2.id \in DOMAIN x1]
    BY <1>11 DEF Scan!ScanFindsNone
  <2> DEFINE gap == x2.id \in DOMAIN x1
  <2>0. gap \in BOOLEAN /\ x2' = [x2 EXCEPT !.step = "answered", !.gap = gap]
    BY <2>1
  <2> HIDE DEF gap
  <2>2. /\ x2' \in ScanType /\ x2'.step = "answered" /\ x2'.found = x2.found
        /\ x2'.id = x2.id /\ x2'.gap = gap
    BY <1>1, <2>0 DEF ScanType
  <2>4. \A id \in x3 : id < x2.id => id \in x2.found
    BY <1>1, <2>1 DEF Scan!FoundSoFar
  <2>3. ASSUME x2.id >= FirstId, x2.id \notin DOMAIN x1 PROVE x3 \subseteq x2.found
    <3>1. PICK n \in Nat : DOMAIN x1 = FirstId..(FirstId + n - 1)
      BY <1>1 DEF Scan!ProposalsFollow
    <3>2. x3 \subseteq FirstId..(FirstId + n - 1)
      BY <1>1, <3>1 DEF Scan!SteadyIsActive, Scan!Active
    <3>3. \A id \in x3 : id < x2.id
      BY <1>1, <2>1, <2>3, <3>1, <3>2
    <3> QED
      BY <1>1, <2>1, <3>3 DEF Scan!FoundSoFar
  <2>5. ~gap => x3 \subseteq x2.found \/ ~(x2.id >= FirstId)
    BY <2>3 DEF gap
  <2> QED
    BY <1>9, <2>1, <2>2, <2>4, <2>5 DEF Scan!ScanFindsSteady
<1>12. CASE Scan!ScanFails
  <2>1. /\ UNCHANGED <<x1, x3>>
        /\ x2' = [x2 EXCEPT !.step = "answered", !.lost = TRUE]
    BY <1>12 DEF Scan!ScanFails
  <2>2. x2' \in ScanType /\ x2'.step = "answered" /\ x2'.lost = TRUE
    BY <1>1, <2>1 DEF ScanType
  <2> QED
    BY <1>9, <2>1, <2>2 DEF Scan!ScanFindsSteady
<1>13. CASE Scan!ScanAgain
  <2>1. UNCHANGED <<x1, x3>> /\ x2' = [x2 EXCEPT !.step = "idle"]
    BY <1>13 DEF Scan!ScanAgain
  <2>2. x2' \in ScanType /\ x2'.step = "idle"
    BY <1>1, <2>1 DEF ScanType
  <2> QED
    BY <1>9, <2>1, <2>2
<1>14. CASE UNCHANGED Scan!scanVars
  BY <1>1, <1>2, <1>4, <1>14 DEF Scan!scanVars, Scan!SteadyIsActive, Scan!FoundSoFar,
     Scan!ScanFindsSteady
<1> QED
  BY <1>5, <1>6, <1>7, <1>8, <1>10, <1>11, <1>12, <1>13, <1>14 DEF Scan!Next

-----------------------------------------------------------------------------
(***************************************************************************)
(* SendFlow: x1 channel, x2 step, x3 form, x4 submitting, x5 complete,     *)
(* x6 failed, x7 try, x8 sequence, x9 floating, x10 paid, x11 sentBad,     *)
(* x12 unknown, x13 tries, x14 edits.                                      *)
(***************************************************************************)
\* The operators on finite sets are those of the library.
LEMMA SetsOfSending ==
    /\ \A S : Sending!Cardinality(S) = Cardinality(S)
    /\ \A S : Sending!IsFiniteSet(S) <=> IsFiniteSet(S)
BY DEF Cardinality, IsFiniteSet, Sending!Cardinality, Sending!IsFiniteSet

LEMMA SendingBegins == Sending!SendAssumption /\ Sending!Init => Sending!IInv
<1> SUFFICES ASSUME Sending!SendAssumption, Sending!Init PROVE Sending!IInv
    OBVIOUS
<1>1. Sending!TypeOK
  <2>1. x1 \in {"web", "mobile", "unpaid"} /\ x2 \in 1..Sending!LastStep
      BY DEF Sending!Init, Sending!LastStep, Sending!Web
  <2>2. x3 \in [Sending!Fields -> Sending!Invalid \cup {"good"}]
      BY DEF Sending!Init, Sending!Invalid
  <2>3. x7 \in [Procs -> [at : {"idle", "load", "approve", "send", "wait"}, seq : Nat]]
      BY DEF Sending!Init, Sending!NoTry
  <2>4. x13 \in 0..MaxTries /\ x14 \in 0..MaxFormEdits
      BY DEF Sending!Init, Sending!SendAssumption
  <2> QED
      BY <2>1, <2>2, <2>3, <2>4 DEF Sending!Init, Sending!TypeOK
<1>2. Sending!OneTryAtATime
    BY DEF Sending!Init, Sending!OneTryAtATime
<1>3. Sending!IsFiniteSet(x9) /\ Sending!Cardinality(x9) = 0
    BY FS_EmptySet, SetsOfSending DEF Sending!Init
<1>4. Sending!PaymentsAccounted
    BY <1>3 DEF Sending!Init, Sending!PaymentsAccounted
<1>5. Sending!StepsBehindAreGood
    BY DEF Sending!Init, Sending!StepsBehindAreGood, Sending!Fields, Sending!Web
<1> QED
    BY <1>1, <1>2, <1>4, <1>5 DEF Sending!Init, Sending!IInv, Sending!OnlyValidConfirmed,
       Sending!NoTry

LEMMA SendingStep ==
    Sending!SendAssumption /\ Sending!IInv /\ (Sending!Next \/ UNCHANGED Sending!vars) => Sending!IInv'
<1> SUFFICES ASSUME Sending!SendAssumption, Sending!IInv, (Sending!Next \/ UNCHANGED Sending!vars)
             PROVE  Sending!IInv'
    OBVIOUS
<1> USE DEF Sending!SendAssumption
<1> DEFINE SeqOK == \A t \in Procs : Sending!Web /\ x7[t].at \in {"approve", "send"}
                                        => x7[t].seq > 0
<1>1. /\ Sending!TypeOK /\ Sending!OneTryAtATime /\ Sending!PaymentsAccounted /\ Sending!StepsBehindAreGood
      /\ Sending!OnlyValidConfirmed /\ SeqOK
    BY DEF Sending!IInv
<1>2. Sending!Cardinality(x9) \in Nat
    BY <1>1, FS_CardinalityType, SetsOfSending DEF Sending!PaymentsAccounted
\* What leaves the payments and the confirmations under way alone.
<1>3. ASSUME UNCHANGED <<x7, Sending!money, x1, x5, x11>>,
             (\A t \in Procs : x7[t] = Sending!NoTry) \/ x4' = x4,
             Sending!TypeOK', Sending!StepsBehindAreGood'
      PROVE  Sending!IInv'
  <2>1. Sending!OneTryAtATime'
      BY <1>1, <1>3 DEF Sending!OneTryAtATime, Sending!NoTry, Sending!Done, Sending!Web
  <2>2. Sending!PaymentsAccounted'
      BY <1>1, <1>3 DEF Sending!PaymentsAccounted, Sending!money, Sending!Web
  <2> QED
      BY <1>1, <1>3, <2>1, <2>2 DEF Sending!IInv, Sending!OnlyValidConfirmed, Sending!money,
         Sending!Web
<1>4. ASSUME NEW f \in Sending!Fields, NEW to \in Sending!Invalid \cup {"good"}, Sending!Edit(f, to)
      PROVE  Sending!IInv'
  <2>1. Sending!TypeOK'
      BY <1>1, <1>4 DEF Sending!Edit, Sending!money, Sending!TypeOK, Sending!LastStep,
         Sending!Web
  <2>2. Sending!StepsBehindAreGood'
    <3>1. \A s \in 1..(x2 - 1) : f \notin Sending!FieldsAt(s)
        BY <1>1, <1>4 DEF Sending!Edit, Sending!FieldsAt, Sending!TypeOK, Sending!LastStep,
           Sending!Web
    <3>2. ~Sending!Web => f # "asset"
        BY <1>1, <1>4 DEF Sending!Edit, Sending!FieldsAt, Sending!TypeOK, Sending!LastStep,
           Sending!Web
    <3>3. \A g \in Sending!Fields \ {f} : x3'[g] = x3[g]
        BY <1>1, <1>4 DEF Sending!Edit, Sending!TypeOK
    <3>4. \A s : Sending!FieldsAt(s) \subseteq Sending!Fields /\ Sending!FieldsAt(s)' = Sending!FieldsAt(s)
        BY <1>4 DEF Sending!Edit, Sending!FieldsAt, Sending!Fields, Sending!Web
    <3> QED
        BY <1>1, <1>4, <3>1, <3>2, <3>3, <3>4 DEF Sending!Edit, Sending!StepsBehindAreGood,
           Sending!Fields, Sending!Web, Sending!Passes
  <2> QED
      BY <1>1, <1>3, <1>4, <2>1, <2>2 DEF Sending!Edit
<1>5. CASE Sending!NextStep
  <2>1. Sending!TypeOK'
      BY <1>1, <1>5 DEF Sending!NextStep, Sending!money, Sending!TypeOK, Sending!LastStep,
         Sending!Web
  <2>2. Sending!StepsBehindAreGood'
    <3>1. \A s : Sending!FieldsAt(s)' = Sending!FieldsAt(s)
        BY <1>5 DEF Sending!NextStep, Sending!FieldsAt, Sending!Web
    <3> QED
        BY <1>1, <1>5, <3>1 DEF Sending!NextStep, Sending!LeavesStep,
           Sending!StepsBehindAreGood, Sending!Passes, Sending!TypeOK, Sending!LastStep,
           Sending!Web
  <2> QED
      BY <1>3, <1>5, <2>1, <2>2 DEF Sending!NextStep
<1>6. CASE Sending!PreviousStep
  <2>1. Sending!TypeOK'
    <3>1. x2' \in 1..Sending!LastStep' /\ x6' = FALSE
        BY <1>1, <1>6 DEF Sending!PreviousStep, Sending!TypeOK, Sending!LastStep, Sending!Web
    <3> QED
        BY <1>1, <1>6, <3>1 DEF Sending!PreviousStep, Sending!money, Sending!TypeOK
  <2>2. Sending!StepsBehindAreGood'
    <3>1. \A s : Sending!FieldsAt(s)' = Sending!FieldsAt(s)
        BY <1>6 DEF Sending!PreviousStep, Sending!FieldsAt, Sending!Web
    <3> QED
        BY <1>1, <1>6, <3>1 DEF Sending!PreviousStep, Sending!StepsBehindAreGood,
           Sending!Passes, Sending!TypeOK, Sending!LastStep, Sending!Web
  <2> QED
      BY <1>3, <1>6, <2>1, <2>2 DEF Sending!PreviousStep
\* A confirmation moves on.
<1>7. ASSUME NEW t \in Procs, x7[t].at \in {"load", "approve"},
             NEW at \in {"approve", "send"}, NEW seq \in Nat, Sending!Web => seq > 0,
             x7' = [x7 EXCEPT ![t] = [at |-> at, seq |-> seq]],
             UNCHANGED <<Sending!screen, Sending!money, x11>>
      PROVE  Sending!IInv'
  <2>0. UNCHANGED <<x1, x2, x3, x4, x5, x6, x13, x14, x8,
                    x9, x10, x12, x11>>
      BY <1>7 DEF Sending!screen, Sending!money
  <2>1. Sending!TypeOK'
      BY <1>1, <1>7, <2>0 DEF Sending!TypeOK, Sending!LastStep, Sending!Web
  <2>2. x7[t] # Sending!NoTry /\ \A u \in Procs \ {t} : x7'[u] = x7[u]
      BY <1>1, <1>7 DEF Sending!NoTry, Sending!TypeOK
  <2>3. x7'[t].at = at /\ x7'[t].seq = seq
      BY <1>1, <1>7 DEF Sending!TypeOK
  <2>4. Sending!OneTryAtATime'
      BY <1>1, <1>7, <2>0, <2>2, <2>3 DEF Sending!OneTryAtATime, Sending!NoTry, Sending!Done,
         Sending!Web
  <2>5. Sending!PaymentsAccounted'
      BY <1>1, <2>0 DEF Sending!PaymentsAccounted, Sending!Web
  <2>6. Sending!StepsBehindAreGood'
    <3>1. \A s : Sending!FieldsAt(s)' = Sending!FieldsAt(s)
        BY <2>0 DEF Sending!FieldsAt, Sending!Web
    <3> QED BY <1>1, <2>0, <3>1 DEF Sending!StepsBehindAreGood, Sending!Passes, Sending!Web
  <2>7. SeqOK'
      BY <1>1, <1>7, <2>0, <2>2, <2>3 DEF Sending!Web
  <2> QED
      BY <1>1, <2>0, <2>1, <2>4, <2>5, <2>6, <2>7 DEF Sending!IInv,
         Sending!OnlyValidConfirmed, Sending!Web
\* A confirmation ends.
<1>8. ASSUME NEW t \in Procs, x7[t].at # "idle",
             NEW ok \in BOOLEAN, Sending!Ends(t, ok),
             x8' \in Nat, x10' \in Nat, x12' \in Nat, x9' \subseteq Nat \ {0},
             Sending!IsFiniteSet(x9'),
             x10' + Sending!Cardinality(x9') <= x12' + x5 + (IF ok THEN 1 ELSE 0),
             IF x1 = "unpaid" THEN x10' = 0 /\ x12' = 0 /\ x9' = {}
             ELSE x5 + (IF ok THEN 1 ELSE 0) <= x10'
      PROVE  Sending!IInv'
  <2>0. /\ x7' = [x7 EXCEPT ![t] = Sending!NoTry] /\ x4' = FALSE
        /\ x5' = (IF ok THEN x5 + 1 ELSE x5) /\ x6' = (IF ok THEN x6 ELSE TRUE)
        /\ UNCHANGED <<x1, x2, x3, x11, x13, x14>>
      BY <1>8 DEF Sending!Ends
  <2>1. ~Sending!Done /\ x5 \in Nat /\ x5' = x5 + (IF ok THEN 1 ELSE 0)
      BY <1>1, <1>8, <2>0 DEF Sending!OneTryAtATime, Sending!NoTry, Sending!TypeOK
  <2>2. Sending!TypeOK'
    <3>1. x7' \in [Procs -> [at : {"idle", "load", "approve", "send", "wait"}, seq : Nat]]
        BY <1>1, <2>0 DEF Sending!TypeOK, Sending!NoTry
    <3>2. x5' \in Nat
        BY <2>1
    <3>3. x6' \in BOOLEAN
        BY <1>1, <2>0 DEF Sending!TypeOK
    <3> QED
        BY <1>1, <1>8, <2>0, <3>1, <3>2, <3>3 DEF Sending!TypeOK, Sending!LastStep,
           Sending!Web
  <2>3. \A u \in Procs : x7'[u] = Sending!NoTry
      BY <1>1, <1>8, <2>0 DEF Sending!OneTryAtATime, Sending!NoTry, Sending!TypeOK
  <2>4. Sending!OneTryAtATime' /\ SeqOK'
      BY <2>3 DEF Sending!OneTryAtATime, Sending!NoTry
  <2>5. Sending!PaymentsAccounted'
    <3>1. Sending!Web => x5 = 0
        BY <2>1 DEF Sending!Done
    <3>2. Sending!Web' => x5' <= 1
        BY <2>0, <2>1, <3>1 DEF Sending!Web
    <3> QED
        BY <1>8, <2>0, <2>1, <3>2 DEF Sending!PaymentsAccounted
  <2>6. Sending!StepsBehindAreGood'
    <3>1. \A s : Sending!FieldsAt(s)' = Sending!FieldsAt(s)
        BY <2>0 DEF Sending!FieldsAt, Sending!Web
    <3> QED BY <1>1, <2>0, <3>1 DEF Sending!StepsBehindAreGood, Sending!Passes, Sending!Web
  <2> QED
      BY <1>1, <1>8, <2>0, <2>1, <2>2, <2>4, <2>5, <2>6 DEF Sending!IInv,
         Sending!OnlyValidConfirmed, Sending!Web
<1>9. ASSUME NEW t \in Procs, Sending!Confirm(t) PROVE Sending!IInv'
  <2>1. \A u \in Procs : x7[u] = Sending!NoTry
      BY <1>1, <1>9 DEF Sending!Confirm, Sending!MayConfirm, Sending!OneTryAtATime
  <2>2. {x3[f] : f \in Sending!Fields} \cap Sending!Invalid \subseteq (IF Sending!Web THEN {} ELSE {"unread"})
    <3>1. \A s : s \in 1..(x2 - 1) => \A f \in Sending!FieldsAt(s) : x3[f] \in Sending!Passes
        BY <1>1 DEF Sending!StepsBehindAreGood
    <3>2. CASE Sending!Web
      <4>1. x2 = 5
          BY <1>9, <3>2 DEF Sending!Confirm, Sending!MayConfirm, Sending!LastStep
      <4>2. 1 \in 1..(x2 - 1) /\ 2 \in 1..(x2 - 1) /\ 3 \in 1..(x2 - 1)
          BY <4>1
      <4>3. "amount" \in Sending!FieldsAt(1) /\ "asset" \in Sending!FieldsAt(2) /\ "recipient" \in Sending!FieldsAt(3)
          BY <3>2 DEF Sending!FieldsAt, Sending!Web
      <4>4. \A f \in Sending!Fields : x3[f] = "good"
          BY <3>1, <3>2, <4>2, <4>3 DEF Sending!Fields, Sending!Passes
      <4> QED
          BY <4>4 DEF Sending!Invalid
    <3>3. CASE ~Sending!Web
      <4>1. x2 = 3 /\ x1 = "mobile"
          BY <1>9, <3>3 DEF Sending!Confirm, Sending!MayConfirm, Sending!LastStep, Sending!Web
      <4>2. 1 \in 1..(x2 - 1) /\ 2 \in 1..(x2 - 1)
          BY <4>1
      <4>3. "recipient" \in Sending!FieldsAt(1) /\ "amount" \in Sending!FieldsAt(2)
          BY <3>3, <4>1 DEF Sending!FieldsAt
      <4>4. \A f \in Sending!Fields : x3[f] \in {"good", "unread"}
          BY <1>1, <3>1, <3>3, <4>2, <4>3 DEF Sending!Fields, Sending!Passes,
             Sending!StepsBehindAreGood
      <4> QED
          BY <3>3, <4>4 DEF Sending!Invalid
    <3> QED BY <3>2, <3>3
  <2> DEFINE at == CASE x1 = "web" -> "load"
                     [] x1 = "mobile" -> "approve"
                     [] x1 = "unpaid" -> "wait"
  <2>3. /\ ~Sending!Done /\ x13 < MaxTries /\ x13' = x13 + 1 /\ x4' = TRUE /\ x6' = FALSE
        /\ x7' = [x7 EXCEPT ![t].at = at]
        /\ UNCHANGED <<x1, x2, x3, x5, x8, x9, x10, x12, x14>>
      BY <1>1, <1>9 DEF Sending!Confirm, Sending!MayConfirm, Sending!money
  <2>a. x11' \subseteq Sending!Invalid /\ Sending!OnlyValidConfirmed'
    <3>1. x11' = x11 \cup ({x3[f] : f \in Sending!Fields} \cap Sending!Invalid)
        BY <1>9 DEF Sending!Confirm
    <3>2. Sending!Web' = Sending!Web
        BY <2>3 DEF Sending!Web
    <3> QED
        BY <1>1, <2>2, <3>1, <3>2 DEF Sending!OnlyValidConfirmed, Sending!TypeOK
  <2>b. at \in {"load", "approve", "wait"} /\ (at = "wait" <=> x1 = "unpaid")
        /\ (Sending!Web /\ at # "wait" => at = "load")
      BY <1>1 DEF Sending!TypeOK, Sending!Web
  <2>4. Sending!TypeOK'
    <3>1. x7' \in [Procs -> [at : {"idle", "load", "approve", "send", "wait"}, seq : Nat]]
        BY <1>1, <2>3, <2>b DEF Sending!TypeOK
    <3>2. x13' \in 0..MaxTries
        BY <1>1, <2>3 DEF Sending!TypeOK
    <3> QED
        BY <1>1, <2>3, <2>a, <3>1, <3>2 DEF Sending!TypeOK, Sending!LastStep, Sending!Web
  <2>5. /\ \A u \in Procs \ {t} : x7'[u] = Sending!NoTry
        /\ x7'[t].at = at
      BY <1>1, <2>1, <2>3 DEF Sending!TypeOK
  <2>6. Sending!OneTryAtATime'
      BY <2>3, <2>5, <2>b DEF Sending!OneTryAtATime, Sending!NoTry, Sending!Done, Sending!Web
  <2>7. SeqOK'
    <3>1. Sending!Web' => x7'[t].at \notin {"approve", "send"}
        BY <2>3, <2>5, <2>b DEF Sending!Web
    <3>2. \A u \in Procs \ {t} : x7'[u].at = "idle"
        BY <2>5 DEF Sending!NoTry
    <3> HIDE DEF at
    <3> QED
        BY <3>1, <3>2
  <2>8. Sending!PaymentsAccounted'
      BY <1>1, <2>3 DEF Sending!PaymentsAccounted, Sending!Web
  <2>9. Sending!StepsBehindAreGood'
    <3>1. \A s : Sending!FieldsAt(s)' = Sending!FieldsAt(s)
        BY <2>3 DEF Sending!FieldsAt, Sending!Web
    <3> QED BY <1>1, <2>3, <3>1 DEF Sending!StepsBehindAreGood, Sending!Passes, Sending!Web
  <2> QED
      BY <1>1, <2>3, <2>4, <2>6, <2>7, <2>8, <2>9, <2>a DEF Sending!IInv, Sending!Web
<1>10. ASSUME NEW t \in Procs, Sending!Load(t) \/ Sending!Approve(t) PROVE Sending!IInv'
  <2>1. CASE Sending!Load(t)
    <3>1. x8 + 1 \in Nat /\ x8 + 1 > 0 /\ x7[t].at = "load"
        BY <1>1, <2>1 DEF Sending!Load, Sending!TypeOK
    <3> QED BY <1>7, <2>1, <3>1 DEF Sending!Load
  <2>2. CASE Sending!Approve(t)
    <3>1. x7[t].at = "approve" /\ x7[t].seq \in Nat /\ (Sending!Web => x7[t].seq > 0)
        BY <1>1, <2>2 DEF Sending!Approve, Sending!TypeOK
    <3>2. [x7[t] EXCEPT !.at = "send"] = [at |-> "send", seq |-> x7[t].seq]
        BY <1>1 DEF Sending!TypeOK
    <3>3. x7' = [x7 EXCEPT ![t] = [at |-> "send", seq |-> x7[t].seq]]
        BY <2>2, <3>2 DEF Sending!Approve
    <3> QED BY <1>7, <2>2, <3>1, <3>3 DEF Sending!Approve
  <2> QED BY <1>10, <2>1, <2>2
<1>11. ASSUME NEW t \in Procs,
              Sending!WaitIsOver(t) \/ Sending!GivesUp(t) \/ Sending!SendPays(t) \/ Sending!SendRefused(t)
              \/ Sending!SendPaysUnheard(t) \/ Sending!SendFloats(t)
       PROVE  Sending!IInv'
  <2>0. /\ x10 \in Nat /\ x12 \in Nat /\ x5 \in Nat /\ x8 \in Nat
        /\ x9 \subseteq Nat \ {0} /\ Sending!IsFiniteSet(x9)
        /\ x10 + Sending!Cardinality(x9) <= x12 + x5
        /\ (x1 # "unpaid" => x5 <= x10)
        /\ (x1 = "unpaid" => x10 = 0 /\ x12 = 0 /\ x9 = {})
      BY <1>1 DEF Sending!TypeOK, Sending!PaymentsAccounted
  <2>1. x7[t].at \in {"load", "approve", "send"} => x1 # "unpaid"
      BY <1>1 DEF Sending!OneTryAtATime, Sending!NoTry
  <2>2. CASE Sending!GivesUp(t) \/ Sending!SendRefused(t)
    <3>1. /\ x7[t].at # "idle" /\ Sending!Ends(t, FALSE)
          /\ UNCHANGED <<x8, x9, x10, x12>>
        BY <2>2 DEF Sending!GivesUp, Sending!SendRefused, Sending!money
    <3>2. x10' + Sending!Cardinality(x9') <= x12' + x5 + (IF FALSE THEN 1 ELSE 0)
        BY <1>2, <2>0, <3>1
    <3>3. IF x1 = "unpaid" THEN x10' = 0 /\ x12' = 0 /\ x9' = {}
          ELSE x5 + (IF FALSE THEN 1 ELSE 0) <= x10'
        BY <2>0, <3>1
    <3>4. x8' \in Nat /\ x10' \in Nat /\ x12' \in Nat
          /\ x9' \subseteq Nat \ {0} /\ Sending!IsFiniteSet(x9')
        BY <2>0, <3>1
    <3> QED
        BY <1>8, <3>1, <3>2, <3>3, <3>4
  <2>w. CASE Sending!WaitIsOver(t)
    <3>1. /\ x7[t].at = "wait" /\ Sending!Ends(t, TRUE) /\ UNCHANGED <<x8, x9, x10, x12>>
        BY <2>w DEF Sending!WaitIsOver, Sending!money
    <3>2. x1 = "unpaid"
        BY <1>1, <3>1 DEF Sending!OneTryAtATime, Sending!NoTry
    <3>3. x10' + Sending!Cardinality(x9') <= x12' + x5 + 1
        BY <1>2, <2>0, <3>1
    <3> QED
        BY <1>8, <2>0, <3>1, <3>2, <3>3
  <2>3. CASE Sending!SendPays(t)
    <3>1. x7[t].at = "send" /\ Sending!Ends(t, TRUE) /\ UNCHANGED <<x9, x12>>
        BY <2>3 DEF Sending!SendPays
    <3>2. x10' = x10 + 1
        BY <2>3 DEF Sending!SendPays, Sending!Pay
    <3>3. x8' \in Nat
        BY <1>1, <2>3 DEF Sending!SendPays, Sending!Pay, Sending!TypeOK
    <3>5. /\ x10' \in Nat /\ x10' + Sending!Cardinality(x9') <= x12' + x5 + 1
          /\ x1 # "unpaid" /\ x5 + 1 <= x10'
        BY <1>2, <2>0, <2>1, <3>1, <3>2
    <3> QED
        BY <1>8, <2>0, <3>1, <3>3, <3>5
  <2>4. CASE Sending!SendPaysUnheard(t)
    <3>1. /\ x7[t].at = "send" /\ Sending!Ends(t, FALSE)
          /\ x12' = x12 + 1 /\ UNCHANGED x9
        BY <2>4 DEF Sending!SendPaysUnheard
    <3>2. x10' = x10 + 1
        BY <2>4 DEF Sending!SendPaysUnheard, Sending!Pay
    <3>3. x8' \in Nat
        BY <1>1, <2>4 DEF Sending!SendPaysUnheard, Sending!Pay, Sending!TypeOK
    <3>5. /\ x10' \in Nat /\ x12' \in Nat
          /\ x10' + Sending!Cardinality(x9') <= x12' + x5
          /\ x1 # "unpaid" /\ x5 <= x10'
        BY <1>2, <2>0, <2>1, <3>1, <3>2
    <3>7. /\ x10' + Sending!Cardinality(x9') <= x12' + x5 + (IF FALSE THEN 1 ELSE 0)
          /\ x5 + (IF FALSE THEN 1 ELSE 0) <= x10'
        BY <2>0, <3>5
    <3> QED
        BY <1>8, <2>0, <3>1, <3>3, <3>5, <3>7
  <2>5. CASE Sending!SendFloats(t)
    <3>1. /\ x7[t].at = "send" /\ Sending!Ends(t, FALSE) /\ Sending!Web
          /\ x12' = x12 + 1 /\ UNCHANGED <<x8, x10>>
          /\ x9' = x9 \cup {x7[t].seq}
        BY <2>5 DEF Sending!SendFloats
    <3>a. x7[t].seq \in Nat
        BY <1>1 DEF Sending!TypeOK
    <3>b. x7[t].seq > 0
        BY <1>1, <3>1
    <3>c. x9 \subseteq Nat \ {0} /\ x7[t].seq \in Nat \ {0}
        BY <1>1, <3>a, <3>b DEF Sending!TypeOK
    <3>2. x9' \subseteq Nat \ {0}
        BY <3>1, <3>c
    <3>3. /\ Sending!IsFiniteSet(x9')
          /\ Sending!Cardinality(x9') = IF x7[t].seq \in x9 THEN Sending!Cardinality(x9)
                                        ELSE Sending!Cardinality(x9) + 1
        BY <1>1, <3>1, FS_AddElement, SetsOfSending DEF Sending!PaymentsAccounted
    <3>5. /\ x12' \in Nat /\ x10' + Sending!Cardinality(x9') <= x12' + x5
          /\ x1 # "unpaid" /\ x5 <= x10'
        BY <1>2, <2>0, <2>1, <3>1, <3>3
    <3>6. x8' \in Nat /\ x10' \in Nat
        BY <2>0, <3>1
    <3>7. /\ x10' + Sending!Cardinality(x9') <= x12' + x5 + (IF FALSE THEN 1 ELSE 0)
          /\ x5 + (IF FALSE THEN 1 ELSE 0) <= x10'
        BY <2>0, <3>5, <3>6
    <3> QED
        BY <1>8, <3>1, <3>2, <3>3, <3>5, <3>6, <3>7
  <2> QED BY <1>11, <2>2, <2>3, <2>4, <2>5, <2>w
\* The network applies a payment whose answer was lost, or drops it.
<1>12. CASE Sending!FloatingEnds
  <2>1. PICK n \in x9 :
           /\ x9' = x9 \ {n}
           /\ \/ x8' = n /\ x10' = x10 + 1
              \/ UNCHANGED <<x8, x10>>
           /\ UNCHANGED <<Sending!screen, x7, x11, x12>>
      BY <1>12 DEF Sending!FloatingEnds
  <2>2. UNCHANGED <<x1, x2, x3, x4, x5, x6, x13, x14>>
      BY <2>1 DEF Sending!screen
  <2>3. Sending!IsFiniteSet(x9') /\ Sending!Cardinality(x9') = Sending!Cardinality(x9) - 1
      BY <1>1, <2>1, FS_RemoveElement, SetsOfSending DEF Sending!PaymentsAccounted
  <2>4. /\ x8' \in Nat /\ x10' \in Nat /\ (x10' = x10 + 1 \/ x10' = x10)
        /\ x9' \subseteq Nat \ {0} /\ x12' = x12
      BY <1>1, <2>1 DEF Sending!TypeOK
  <2>5. Sending!TypeOK'
      BY <1>1, <2>1, <2>2, <2>4 DEF Sending!TypeOK, Sending!LastStep, Sending!Web
  <2>6. Sending!PaymentsAccounted'
      BY <1>1, <1>2, <2>1, <2>2, <2>3, <2>4 DEF Sending!PaymentsAccounted, Sending!TypeOK,
         Sending!Web
  <2>7. Sending!StepsBehindAreGood'
    <3>1. \A s : Sending!FieldsAt(s)' = Sending!FieldsAt(s)
        BY <2>2 DEF Sending!FieldsAt, Sending!Web
    <3> QED BY <1>1, <2>2, <3>1 DEF Sending!StepsBehindAreGood, Sending!Passes, Sending!Web
  <2>8. Sending!OneTryAtATime' /\ SeqOK'
      BY <1>1, <2>1, <2>2, <2>4 DEF Sending!OneTryAtATime, Sending!NoTry, Sending!TypeOK,
         Sending!Done, Sending!Web
  <2> QED
      BY <1>1, <2>1, <2>2, <2>5, <2>6, <2>7, <2>8 DEF Sending!IInv,
         Sending!OnlyValidConfirmed, Sending!Web
<1>13. CASE UNCHANGED Sending!vars
  <2>1. UNCHANGED <<x1, x2, x3, x4, x5, x6, x7, x8, x9,
                    x10, x11, x12, x13, x14>>
      BY <1>13 DEF Sending!vars
  <2>2. Sending!TypeOK'
      BY <1>1, <2>1 DEF Sending!TypeOK, Sending!LastStep, Sending!Web
  <2>3. Sending!StepsBehindAreGood'
    <3>1. \A s : Sending!FieldsAt(s)' = Sending!FieldsAt(s)
        BY <2>1 DEF Sending!FieldsAt, Sending!Web
    <3> QED BY <1>1, <2>1, <3>1 DEF Sending!StepsBehindAreGood, Sending!Passes, Sending!Web
  <2> QED
      BY <1>3, <2>1, <2>2, <2>3 DEF Sending!money
<1> QED
    BY <1>4, <1>5, <1>6, <1>9, <1>10, <1>11, <1>12, <1>13 DEF Sending!Next

LEMMA SendingHolds ==
    Sending!IInv => Sending!PaidTwiceOnlyAfterLostAnswer /\ Sending!OnlyValidConfirmed
<1> SUFFICES ASSUME Sending!IInv PROVE Sending!PaidTwiceOnlyAfterLostAnswer
    BY DEF Sending!IInv
<1>1. Sending!IsFiniteSet(x9) /\ Sending!Cardinality(x9) \in Nat
    BY FS_CardinalityType, SetsOfSending DEF Sending!IInv, Sending!PaymentsAccounted
<1> QED
    BY <1>1 DEF Sending!IInv, Sending!TypeOK, Sending!PaymentsAccounted,
       Sending!PaidTwiceOnlyAfterLostAnswer

-----------------------------------------------------------------------------
(***************************************************************************)
(* AnchorDirectory: x1 rows, x2 position, x3 listed, x4 steady, x5 strayed, *)
(* x6 edits.                                                               *)
(***************************************************************************)
\* The operators on finite sets are those of the library.
LEMMA SetsOfDirectory ==
    /\ \A S : Directory!Cardinality(S) = Cardinality(S)
    /\ \A S : Directory!IsFiniteSet(S) <=> IsFiniteSet(S)
BY DEF Cardinality, IsFiniteSet, Directory!Cardinality, Directory!IsFiniteSet

-----------------------------------------------------------------------------
LEMMA ShownFinite ==
    ASSUME Directory!DirectoryAssumption, NEW list \in SUBSET ListedAnchors
    PROVE  /\ Directory!IsFiniteSet(list) /\ Directory!Cardinality(list) \in Nat
           /\ \A a \in list : Directory!Place(list, a) \in 0..(Directory!Cardinality(list) - 1)
           /\ \A a, b \in list : a < b <=> Directory!Place(list, a) < Directory!Place(list, b)
           /\ \A n \in 0..(Directory!Cardinality(list) - 1) : \E a \in list : Directory!Place(list, a) = n
<1> DEFINE R == {e \in list \X list : e[1] < e[2]}
           p == Places(list, R)
<1>1. Directory!IsFiniteSet(list)
    BY FS_Subset, SetsOfDirectory DEF Directory!DirectoryAssumption
<1>2. \A x, y \in list : <<x, y>> \in R <=> x < y
    OBVIOUS
<1>3. list \subseteq Nat
    BY DEF Directory!DirectoryAssumption
<1>4. InOrder(list, R)
    <2> HIDE DEF R
    <2> QED BY <1>2, <1>3 DEF InOrder
<1>5. \A a \in list : Directory!Place(list, a) = p[a]
    <2> SUFFICES ASSUME NEW a \in list PROVE Directory!Place(list, a) = p[a]
        OBVIOUS
    <2>1. {b \in list : b < a} = {b \in list : <<b, a>> \in R}
        BY <1>2
    <2> QED BY <2>1, SetsOfDirectory DEF Directory!Place, Places
<1>6. /\ Directory!Cardinality(list) \in Nat
      /\ \A a \in list : p[a] \in 0..(Directory!Cardinality(list) - 1)
      /\ \A a, b \in list : <<a, b>> \in R <=> p[a] < p[b]
    <2> HIDE DEF R
    <2> QED BY <1>1, <1>4, PlacesInOrder, SetsOfDirectory
<1>7. ASSUME NEW n \in 0..(Directory!Cardinality(list) - 1)
      PROVE  \E a \in list : p[a] = n
    <2> DEFINE T == {x \in list : n <= p[x] /\ p[x] < n + 1}
    <2>1. n \in Nat /\ n + 1 \in Nat /\ n <= n + 1 /\ n + 1 <= Directory!Cardinality(list)
        BY <1>6
    <2>2. Directory!Cardinality(T) = (n + 1) - n
        <3> HIDE DEF R
        <3> QED BY <1>1, <1>4, <2>1, PlacesCount, SetsOfDirectory
    <2>3. T # {}
        <3>1. (n + 1) - n # 0
            OBVIOUS
        <3> HIDE DEF T
        <3> QED BY <2>2, <3>1, FS_EmptySet, SetsOfDirectory
    <2> QED BY <2>3, <1>6
<1> HIDE DEF p, R
<1>8. \A a \in list : Directory!Place(list, a) \in 0..(Directory!Cardinality(list) - 1)
    BY <1>5, <1>6
<1>9. \A a, b \in list : a < b <=> Directory!Place(list, a) < Directory!Place(list, b)
    <2> TAKE a, b \in list
    <2>1. <<a, b>> \in R <=> p[a] < p[b]
        BY <1>6
    <2>2. Directory!Place(list, a) = p[a] /\ Directory!Place(list, b) = p[b]
        BY <1>5
    <2> QED BY <2>1, <2>2, <1>2
<1>10. \A n \in 0..(Directory!Cardinality(list) - 1) : \E a \in list : Directory!Place(list, a) = n
    BY <1>5, <1>7
<1> QED BY <1>1, <1>6, <1>8, <1>9, <1>10

LEMMA ShownAreAnchors == ASSUME NEW rs PROVE Directory!Shown(rs) \in SUBSET ListedAnchors
BY DEF Directory!Shown

LEMMA LastOfPage ==
    ASSUME Directory!DirectoryAssumption, NEW page \in SUBSET ListedAnchors, page # {}
    PROVE  Directory!LastOf(page) \in page /\ \A b \in page : b <= Directory!LastOf(page)
<1> DEFINE R == {e \in page \X page : e[1] < e[2]}
<1>1. Directory!IsFiniteSet(page) /\ page \subseteq Nat
    BY FS_Subset, SetsOfDirectory DEF Directory!DirectoryAssumption
<1>2. \A x, y \in page : <<x, y>> \in R <=> x < y
    OBVIOUS
<1>3. InOrder(page, R)
    <2> HIDE DEF R
    <2> QED BY <1>1, <1>2 DEF InOrder
<1>4. \E x \in page : \A y \in page : y # x => <<y, x>> \in R
    <2> HIDE DEF R
    <2> QED BY <1>1, <1>3, LastOfOrder, SetsOfDirectory
<1>5. \E x \in page : \A y \in page : y <= x
    <2>1. PICK x \in page : \A y \in page : y # x => <<y, x>> \in R
        BY <1>4
    <2>2. ASSUME NEW y \in page PROVE y <= x
        <3>1. x \in Nat /\ y \in Nat
            BY <1>1
        <3>2. y # x => y < x
            BY <2>1, <1>2
        <3> QED BY <3>1, <3>2
    <2> QED BY <2>2
<1> QED BY <1>5 DEF Directory!LastOf

LEMMA DirectoryBegins == ASSUME Directory!DirectoryAssumption PROVE Directory!Init => Directory!IInv
<1> SUFFICES ASSUME Directory!Init PROVE Directory!IInv
    OBVIOUS
<1>1. Directory!TypeOK
    <2>1. x1 \in [ListedAnchors -> [state : {"absent", "enabled", "disabled"}, fits : BOOLEAN]]
        <3>1. {Directory!Absent} \cup [state : {"enabled"}, fits : BOOLEAN]
                 \subseteq [state : {"absent", "enabled", "disabled"}, fits : BOOLEAN]
            <4>1. Directory!Absent \in [state : {"absent", "enabled", "disabled"}, fits : BOOLEAN]
                BY DEF Directory!Absent
            <4>2. [state : {"enabled"}, fits : BOOLEAN]
                     \subseteq [state : {"absent", "enabled", "disabled"}, fits : BOOLEAN]
                OBVIOUS
            <4> QED BY <4>1, <4>2
        <3> QED BY <3>1 DEF Directory!Init
    <2>2. x3 \in [ListedAnchors -> Nat]
        BY DEF Directory!Init
    <2>3. x6 \in 0..MaxDirectoryEdits
        BY DEF Directory!Init, Directory!DirectoryAssumption
    <2>4. x4 \subseteq ListedAnchors
        BY ShownAreAnchors DEF Directory!Init
    <2>5. x2 \in ListedAnchors \cup {Directory!NoCursor, Directory!Listed} /\ x5 \in BOOLEAN
        BY DEF Directory!Init
    <2> QED BY <2>1, <2>2, <2>3, <2>4, <2>5 DEF Directory!TypeOK
<1>2. Directory!Given
    BY DEF Directory!Init, Directory!Given, Directory!NoCursor, Directory!Listed,
       Directory!DirectoryAssumption
<1> QED BY <1>1, <1>2 DEF Directory!IInv, Directory!Init

LEMMA EditKeeps ==
    ASSUME Directory!DirectoryAssumption, Directory!IInv, NEW a \in ListedAnchors,
           NEW row \in [state : {"absent", "enabled", "disabled"}, fits : BOOLEAN], Directory!Edit(a, row)
    PROVE  Directory!IInv'
<1>1. Directory!TypeOK'
    <2>1. x6' \in 0..MaxDirectoryEdits
        BY DEF Directory!Edit, Directory!IInv, Directory!TypeOK, Directory!DirectoryAssumption
    <2>2. x1' \in [ListedAnchors -> [state : {"absent", "enabled", "disabled"}, fits : BOOLEAN]]
        BY DEF Directory!Edit, Directory!IInv, Directory!TypeOK
    <2> QED BY <2>1, <2>2 DEF Directory!Edit, Directory!IInv, Directory!TypeOK
<1>2. x4' \subseteq x4 /\ (x4 \subseteq Directory!Shown(x1))'
    BY DEF Directory!Edit
<1>3. (x5 \/ Directory!Given)'
    BY <1>2 DEF Directory!Edit, Directory!IInv, Directory!Given
<1> QED BY <1>1, <1>2, <1>3 DEF Directory!IInv

\* What a page holds: the anchors of the list behind the cursor, up to its last one.
LEMMA PageIsNext ==
    ASSUME Directory!DirectoryAssumption, Directory!TypeOK, x2 # Directory!Listed,
           NEW list, list = Directory!Shown(x1),
           NEW from, from = Directory!FromCursor(list, x2),
           NEW page, page = Directory!Slice(list, from),
           x2 = Directory!NoCursor \/ x2 \in list
    PROVE  /\ page \in SUBSET list
           /\ \A a \in page : a > x2
           /\ from + PageSize < Directory!Cardinality(list) => page # {}
           /\ \A a \in list : a > x2 /\ ~(from + PageSize < Directory!Cardinality(list)) => a \in page
           /\ \A a, b \in list : a > x2 /\ a <= b /\ b \in page => a \in page
<1> DEFINE n == Directory!Cardinality(list)
<1>1. list \in SUBSET ListedAnchors /\ list \subseteq Nat \ {0}
    BY ShownAreAnchors DEF Directory!DirectoryAssumption
<1>2. /\ n \in Nat
      /\ \A a \in list : Directory!Place(list, a) \in 0..(n - 1)
      /\ \A a, b \in list : a < b <=> Directory!Place(list, a) < Directory!Place(list, b)
      /\ \A k \in 0..(n - 1) : \E a \in list : Directory!Place(list, a) = k
    BY <1>1, ShownFinite
<1> HIDE DEF n
<1>3. /\ from \in Nat
      /\ x2 = Directory!NoCursor => from = 0
      /\ x2 \in list => from = Directory!Place(list, x2) + 1
    BY <1>1, <1>2 DEF Directory!FromCursor, Directory!NoCursor
<1>4. PageSize \in Nat /\ PageSize >= 1
    BY DEF Directory!DirectoryAssumption
<1>5. page = {a \in list : from <= Directory!Place(list, a) /\ Directory!Place(list, a) < from + PageSize}
    BY <1>3 DEF Directory!Slice
<1>6. \A a \in list : a > x2 <=> from <= Directory!Place(list, a)
    <2> SUFFICES ASSUME NEW a \in list PROVE a > x2 <=> from <= Directory!Place(list, a)
        OBVIOUS
    <2>1. a \in Nat /\ a > 0 /\ Directory!Place(list, a) \in Nat
        BY <1>1, <1>2
    <2>2. CASE x2 = Directory!NoCursor
        BY <2>1, <2>2, <1>3 DEF Directory!NoCursor
    <2>3. CASE x2 \in list
        <3>1. x2 \in Nat /\ Directory!Place(list, x2) \in Nat
            BY <2>3, <1>1, <1>2
        <3>2. x2 < a <=> Directory!Place(list, x2) < Directory!Place(list, a)
            BY <2>3, <1>2
        <3> QED BY <2>1, <2>3, <1>3, <3>1, <3>2
    <2> QED BY <2>2, <2>3
<1>7. \A a \in page : a > x2
    BY <1>5, <1>6
<1>8. from + PageSize < n => page # {}
    <2> SUFFICES ASSUME from + PageSize < n PROVE page # {}
        OBVIOUS
    <2>1. from \in 0..(n - 1)
        BY <1>2, <1>3, <1>4
    <2>2. PICK a \in list : Directory!Place(list, a) = from
        BY <2>1, <1>2
    <2> QED BY <2>2, <1>3, <1>4, <1>5
<1>9. \A a \in list : a > x2 /\ ~(from + PageSize < n) => a \in page
    <2> SUFFICES ASSUME NEW a \in list, a > x2, ~(from + PageSize < n) PROVE a \in page
        OBVIOUS
    <2>1. Directory!Place(list, a) \in 0..(n - 1)
        BY <1>2
    <2> QED BY <2>1, <1>2, <1>3, <1>4, <1>5, <1>6
<1>10. \A a, b \in list : a > x2 /\ a <= b /\ b \in page => a \in page
    <2> SUFFICES ASSUME NEW a \in list, NEW b \in list, a > x2, a <= b, b \in page
                 PROVE  a \in page
        OBVIOUS
    <2>1. Directory!Place(list, a) \in Nat /\ Directory!Place(list, b) \in Nat
        BY <1>2
    <2>2. a \in Nat /\ b \in Nat
        BY <1>1
    <2>3. ~(Directory!Place(list, b) < Directory!Place(list, a))
        BY <1>2, <2>2
    <2> QED BY <2>1, <2>3, <1>3, <1>4, <1>5, <1>6
<1> QED BY <1>5, <1>7, <1>8, <1>9, <1>10 DEF n

LEMMA ReadPageKeeps ==
    ASSUME Directory!DirectoryAssumption, Directory!IInv, Directory!ReadPage PROVE Directory!IInv'
<1> DEFINE list == Directory!Shown(x1)
           from == Directory!FromCursor(list, x2)
           page == Directory!Slice(list, from)
           more == from + PageSize < Directory!Cardinality(list)
<1>1. /\ x2 # Directory!Listed
      /\ x3' = [a \in ListedAnchors |-> x3[a] + IF a \in page THEN 1 ELSE 0]
      /\ x2' = IF more /\ page # {} THEN Directory!LastOf(page) ELSE Directory!Listed
      /\ x5' = (x5 \/ (x2 # Directory!NoCursor /\ x2 \notin list))
      /\ UNCHANGED <<x1, x4, x6>>
    BY DEF Directory!ReadPage
<1>2. Directory!TypeOK
    BY DEF Directory!IInv
<1>3. list \in SUBSET ListedAnchors /\ page \in SUBSET ListedAnchors
    BY ShownAreAnchors DEF Directory!Slice
<1> HIDE DEF more, page, from, list
<1>4. page # {} => Directory!LastOf(page) \in page /\ \A b \in page : b <= Directory!LastOf(page)
    BY <1>3, LastOfPage
<1>5. Directory!TypeOK'
    <2>1. x3' \in [ListedAnchors -> Nat]
        BY <1>1, <1>2 DEF Directory!TypeOK
    <2>2. x2' \in ListedAnchors \cup {Directory!NoCursor, Directory!Listed}
        BY <1>1, <1>3, <1>4
    <2>3. x5' \in BOOLEAN
        BY <1>1, <1>2, Zenon DEF Directory!TypeOK
    <2> QED BY <1>1, <1>2, <2>1, <2>2, <2>3 DEF Directory!TypeOK
<1>6. ASSUME ~x5'
      PROVE  Directory!Given'
    <2>1. ~x5 /\ Directory!Given /\ (x2 = Directory!NoCursor \/ x2 \in list)
        BY <1>1, <1>6 DEF Directory!IInv
    <2>2. /\ page \in SUBSET list
          /\ \A a \in page : a > x2
          /\ more => page # {}
          /\ \A a \in list : a > x2 /\ ~more => a \in page
          /\ \A a, b \in list : a > x2 /\ a <= b /\ b \in page => a \in page
        BY <1>1, <1>2, <2>1, PageIsNext DEF more, page, from, list
    <2>3. ListedAnchors \subseteq Nat \ {0} /\ Directory!NoCursor = 0 /\ Directory!Listed = -1
        BY DEF Directory!DirectoryAssumption, Directory!NoCursor, Directory!Listed
    <2>4. x2 \in Nat /\ (x2 \in ListedAnchors \/ x2 = 0)
        <3>1. CASE x2 = Directory!NoCursor
            BY <3>1, <2>3
        <3>2. CASE x2 \in list
            <4>1. x2 \in ListedAnchors
                BY <3>2, <1>3
            <4> QED BY <4>1, <2>3
        <3> QED BY <2>1, <3>1, <3>2
    <2>5. \A a \in ListedAnchors : x3[a] \in 0..1 /\ (x3[a] = 1 => a <= x2)
        BY <2>1, <2>3, <2>4 DEF Directory!Given
    <2>6. \A a \in x4 : a \in list /\ (a <= x2 => x3[a] = 1)
        <3> TAKE a \in x4
        <3>1. a \in list
            BY DEF Directory!IInv, list
        <3>2. a \in ListedAnchors
            BY <3>1, <1>3
        <3>3. a \in Nat /\ a # 0
            BY <3>2, <2>3
        <3> QED BY <3>1, <3>3, <2>1, <2>4 DEF Directory!Given
    <2>7. \A a \in page : x3[a] = 0
        BY <2>2, <2>3, <2>4, <2>5, <1>3
    <2>8. \A a \in ListedAnchors : x3'[a] \in 0..1
        BY <1>1, <2>5, <2>7
    <2>9. \A a \in ListedAnchors : x3'[a] = IF a \in page THEN 1 ELSE x3[a]
        BY <1>1, <2>5, <2>7
    <2>10. CASE more
        <3>1. x2' \in page /\ x2' \in ListedAnchors /\ \A b \in page : b <= x2'
            BY <2>10, <2>2, <1>1, <1>3, <1>4
        <3>2. x2' \in Nat /\ x2' > x2 /\ x2' # Directory!NoCursor /\ x2' # Directory!Listed
            BY <3>1, <2>2, <2>3
        <3>3. ASSUME NEW a \in ListedAnchors, x3'[a] = 1 PROVE a <= x2'
            <4>1. CASE a \in page
                BY <4>1, <3>1
            <4>2. CASE a \notin page
                <5>1. x3[a] = 1
                    BY <3>3, <4>2, <2>9
                <5>2. a <= x2 /\ a \in Nat
                    BY <5>1, <2>5, <2>3
                <5> QED BY <5>2, <2>4, <3>2
            <4> QED BY <4>1, <4>2
        <3>4. ASSUME NEW a \in x4, a <= x2' PROVE x3'[a] = 1
            <4>0. a \in list /\ a \in ListedAnchors /\ a \in Nat
                BY <2>6, <1>3, <2>3
            <4>1. CASE a <= x2
                BY <4>0, <4>1, <2>6, <2>9
            <4>2. CASE a > x2
                <5>1. x2' \in list
                    BY <3>1, <2>2
                <5>2. a \in page
                    BY <4>0, <4>2, <5>1, <3>1, <3>4, <2>2
                <5> QED BY <5>2, <4>0, <2>9
            <4> QED BY <4>0, <4>1, <4>2, <2>4
        <3>5. x4' = x4
            BY <1>1
        <3> QED BY <2>8, <3>2, <3>3, <3>4, <3>5 DEF Directory!Given
    <2>11. CASE ~more
        <3>1. x2' = Directory!Listed
            BY <2>11, <1>1
        <3>2. ASSUME NEW a \in x4 PROVE x3'[a] = 1
            <4>0. a \in list /\ a \in ListedAnchors /\ a \in Nat
                BY <2>6, <1>3, <2>3
            <4>1. CASE a <= x2
                BY <4>0, <4>1, <2>6, <2>9
            <4>2. CASE a > x2
                BY <4>0, <4>2, <2>11, <2>2, <2>9
            <4> QED BY <4>0, <4>1, <4>2, <2>4
        <3>3. x2' \notin ListedAnchors /\ x2' # Directory!NoCursor /\ x4' = x4
            BY <3>1, <2>3, <1>1
        <3> QED BY <2>8, <3>2, <3>3 DEF Directory!Given
    <2> QED BY <2>10, <2>11
<1>7. (x4 \subseteq Directory!Shown(x1))'
    BY <1>1 DEF Directory!IInv
<1> QED BY <1>5, <1>6, <1>7 DEF Directory!IInv

LEMMA ListAgainKeeps ==
    ASSUME Directory!DirectoryAssumption, Directory!IInv, Directory!ListAgain PROVE Directory!IInv'
<1>1. Directory!TypeOK'
    BY ShownAreAnchors DEF Directory!IInv, Directory!ListAgain, Directory!TypeOK,
       Directory!NoCursor
<1>2. Directory!Given'
    BY DEF Directory!ListAgain, Directory!Given, Directory!NoCursor, Directory!Listed,
       Directory!DirectoryAssumption
<1>3. (x4 \subseteq Directory!Shown(x1))'
    BY DEF Directory!ListAgain
<1> QED BY <1>1, <1>2, <1>3 DEF Directory!IInv

LEMMA DirectoryStep ==
    ASSUME Directory!DirectoryAssumption PROVE Directory!IInv /\ (Directory!Next \/ UNCHANGED Directory!vars) => Directory!IInv'
<1> SUFFICES ASSUME Directory!IInv, (Directory!Next \/ UNCHANGED Directory!vars)
             PROVE  Directory!IInv'
    OBVIOUS
<1>1. CASE \E a \in ListedAnchors : \/ \E fits \in BOOLEAN : Directory!Create(a, fits) \/ Directory!Update(a, fits)
                                    \/ Directory!Deactivate(a) \/ Directory!Delete(a)
    <2>1. PICK a \in ListedAnchors : \/ \E fits \in BOOLEAN : Directory!Create(a, fits) \/ Directory!Update(a, fits)
                                     \/ Directory!Deactivate(a) \/ Directory!Delete(a)
        BY <1>1
    <2> DEFINE Row == [state : {"absent", "enabled", "disabled"}, fits : BOOLEAN]
    <2>2. x1[a] \in Row
        BY DEF Directory!IInv, Directory!TypeOK
    <2>3. \E row \in Row : Directory!Edit(a, row)
        <3>1. ASSUME NEW fits \in BOOLEAN, Directory!Create(a, fits)
              PROVE  \E row \in Row : Directory!Edit(a, row)
            BY <3>1 DEF Directory!Create
        <3>2. ASSUME NEW fits \in BOOLEAN, Directory!Update(a, fits)
              PROVE  \E row \in Row : Directory!Edit(a, row)
            <4>1. [x1[a] EXCEPT !.fits = fits] \in Row
                BY <2>2
            <4> QED BY <3>2, <4>1 DEF Directory!Update
        <3>3. CASE Directory!Deactivate(a)
            BY <3>3 DEF Directory!Deactivate
        <3>4. CASE Directory!Delete(a)
            <4>1. (IF DependentTables THEN Directory!Absent ELSE x1[a]) \in Row
                BY <2>2 DEF Directory!Absent
            <4> QED BY <3>4, <4>1 DEF Directory!Delete
        <3> QED BY <2>1, <3>1, <3>2, <3>3, <3>4
    <2> QED BY <2>3, EditKeeps
<1>2. CASE Directory!ReadPage
    BY <1>2, ReadPageKeeps
<1>3. CASE Directory!ListAgain
    BY <1>3, ListAgainKeeps
<1>4. CASE UNCHANGED Directory!vars
    BY <1>4 DEF Directory!vars, Directory!IInv, Directory!TypeOK, Directory!Given
<1> QED BY <1>1, <1>2, <1>3, <1>4 DEF Directory!Next

LEMMA DirectoryHolds ==
    ASSUME Directory!DirectoryAssumption PROVE Directory!IInv => Directory!TypeOK /\ Directory!DirectoryListedOnce
<1> SUFFICES ASSUME Directory!IInv PROVE Directory!TypeOK /\ Directory!DirectoryListedOnce
    OBVIOUS
<1>1. ListedAnchors \subseteq Nat
    BY DEF Directory!DirectoryAssumption
<1>2. Directory!Given => /\ \A a \in ListedAnchors : x3[a] <= 1
                         /\ x2 = Directory!Listed => \A a \in x4 : x3[a] = 1
    BY DEF Directory!Given
<1> QED BY <1>2 DEF Directory!IInv, Directory!DirectoryListedOnce

-----------------------------------------------------------------------------
(***************************************************************************)
(* SettlementPreview: x1 batch, x2 netMap.                                 *)
(***************************************************************************)
\* The operators on finite sets are those of the library.
LEMMA SetsOfPreview ==
    /\ \A S : Preview!Cardinality(S) = Cardinality(S)
    /\ \A S : Preview!IsFiniteSet(S) <=> IsFiniteSet(S)
    /\ \A f, S : Preview!SumFunctionOnSet(f, S) = SumFunctionOnSet(f, S)
BY DEF Cardinality, IsFiniteSet, SumFunctionOnSet, FoldFunctionOnSet, MapThenFoldSet,
   Preview!Cardinality, Preview!IsFiniteSet, Preview!SumFunctionOnSet,
   Preview!FoldFunctionOnSet, Preview!MapThenFoldSet

-----------------------------------------------------------------------------
\* A sum over some of the first n, and over the same with the next one or without it.
LEMMA SumGoesOn ==
    ASSUME NEW n \in Nat, NEW f, NEW g, \A i \in 1..n : f[i] \in Int /\ g[i] = f[i], g[n + 1] \in Int,
           NEW P \in SUBSET (1..n), NEW Q, Q = P \/ Q = P \cup {n + 1}
    PROVE  /\ Preview!SumFunctionOnSet(f, P) \in Int
           /\ Preview!SumFunctionOnSet(g, Q)
                = Preview!SumFunctionOnSet(f, P) + IF n + 1 \in Q THEN g[n + 1] ELSE 0
<1>1. Preview!IsFiniteSet(P)
    <2>1. Preview!IsFiniteSet(1..n)
        BY FS_Interval, SetsOfPreview
    <2> QED BY <2>1, FS_Subset, SetsOfPreview
<1>2. Preview!SumFunctionOnSet(f, P) \in Int
    BY <1>1, SumType, SetsOfPreview
<1>3. Preview!SumFunctionOnSet(g, P) = Preview!SumFunctionOnSet(f, P)
    BY <1>1, SumCongruence, SetsOfPreview
<1>4. n + 1 \notin P
    OBVIOUS
<1>5. CASE Q = P
    BY <1>2, <1>3, <1>4, <1>5
<1>6. CASE Q = P \cup {n + 1}
    <2>1. \A i \in P \cup {n + 1} : g[i] \in Int
        OBVIOUS
    <2>2. Preview!SumFunctionOnSet(g, Q) = Preview!SumFunctionOnSet(g, P) + g[n + 1]
        <3> DEFINE next == n + 1
        <3>1. next \notin P /\ Q = P \cup {next} /\ \A i \in P \cup {next} : g[i] \in Int
            BY <1>4, <1>6, <2>1
        <3> HIDE DEF next
        <3>2. Preview!SumFunctionOnSet(g, P \cup {next}) = Preview!SumFunctionOnSet(g, P) + g[next]
            BY <1>1, <3>1, SumAddElement, SetsOfPreview
        <3> QED BY <3>1, <3>2 DEF next
    <2>3. n + 1 \in Q
        BY <1>6
    <2> QED BY <1>2, <1>3, <2>2, <2>3
<1> QED BY <1>2, <1>5, <1>6

LEMMA RemittanceFields ==
    ASSUME Preview!PreviewAssumption, NEW r \in Preview!Remittances
    PROVE  /\ r.sender \in Parties /\ r.agent \in Parties /\ r.sender \in Nat /\ r.agent \in Nat
           /\ r.amount \in Int /\ r.fee \in Int
<1>1. r.sender \in Parties /\ r.agent \in Parties /\ r.amount \in Amounts /\ r.fee \in Amounts
    <2>1. r.sender \in Parties /\ r.agent \in Parties
        BY DEF Preview!Remittances
    <2>2. r.amount \in Amounts /\ r.fee \in Amounts
        BY DEF Preview!Remittances
    <2> QED BY <2>1, <2>2
<1>2. Parties \subseteq Nat /\ Amounts \subseteq Nat
    BY DEF Preview!PreviewAssumption
<1>3. r.sender \in Nat /\ r.agent \in Nat
    BY <1>1, <1>2
<1>4. r.amount \in Nat /\ r.fee \in Nat
    BY <1>1, <1>2
<1>5. r.amount \in Int /\ r.fee \in Int
    BY <1>4
<1> QED BY <1>1, <1>3, <1>5

LEMMA TwoParties ==
    ASSUME Preview!PreviewAssumption, NEW p \in Parties \X Parties
    PROVE  p = <<p[1], p[2]>> /\ p[1] \in Nat /\ p[2] \in Nat
<1>1. p = <<p[1], p[2]>> /\ p[1] \in Parties /\ p[2] \in Parties
    OBVIOUS
<1>2. Parties \subseteq Nat
    BY DEF Preview!PreviewAssumption
<1> QED BY <1>1, <1>2

LEMMA PairInOrder ==
    ASSUME Preview!PreviewAssumption, NEW r \in Preview!Remittances
    PROVE  /\ Preview!Pair(r) \in Parties \X Parties /\ Preview!Pair(r)[1] <= Preview!Pair(r)[2]
           /\ \A a, b \in Nat : a <= b /\ Preview!Pair(r) # <<a, b>> =>
                ~(r.sender = a /\ r.agent = b) /\ ~(r.sender = b /\ r.agent = a)
           /\ \A a, b \in Nat : a <= b /\ Preview!Pair(r) = <<a, b>> =>
                (r.sender = a /\ r.agent = b) \/ (r.sender = b /\ r.agent = a)
<1>1. r.sender \in Parties /\ r.agent \in Parties /\ r.sender \in Nat /\ r.agent \in Nat
    BY RemittanceFields
<1>2. CASE r.sender < r.agent
    <2>1. Preview!Pair(r) = <<r.sender, r.agent>>
        BY <1>2 DEF Preview!Pair
    <2> QED BY <1>1, <1>2, <2>1
<1>3. CASE ~(r.sender < r.agent)
    <2>1. Preview!Pair(r) = <<r.agent, r.sender>>
        BY <1>3 DEF Preview!Pair
    <2> QED BY <1>1, <1>3, <2>1
<1> QED BY <1>2, <1>3

\* One more remittance adds to the sums of its parties, if it is pending, and to no other.
LEMMA SumsGoOn ==
    ASSUME Preview!PreviewAssumption, NEW rs \in Seq(Preview!Remittances), NEW r \in Preview!Remittances, NEW a, NEW b
    PROVE  LET next == Append(rs, r)
               counts(x, y) == r.status = "Pending" /\ r.sender = x /\ r.agent = y
           IN  /\ Preview!SumOf(rs, a, b) \in Int /\ Preview!Fees(rs, a, b) \in Int
               /\ Preview!SumOf(next, a, b) = Preview!SumOf(rs, a, b) + IF counts(a, b) THEN r.amount ELSE 0
               /\ Preview!Fees(next, a, b) = Preview!Fees(rs, a, b) + IF counts(a, b) \/ counts(b, a) THEN r.fee ELSE 0
<1> DEFINE next == Append(rs, r)
           n == Len(rs)
           counts(x, y) == r.status = "Pending" /\ r.sender = x /\ r.agent = y
           both(s) == Preview!PendingOf(s, a, b) \cup Preview!PendingOf(s, b, a)
<1>1. n \in Nat /\ DOMAIN rs = 1..n /\ DOMAIN next = 1..(n + 1)
    OBVIOUS
<1>2. \A i \in 1..n : rs[i] \in Preview!Remittances /\ next[i] = rs[i]
    OBVIOUS
<1>3. next[n + 1] = r
    OBVIOUS
<1>4. \A x, y : Preview!PendingOf(next, x, y) = Preview!PendingOf(rs, x, y) \cup IF counts(x, y) THEN {n + 1} ELSE {}
    <2> TAKE x, y
    <2>1. \A i : i \in Preview!PendingOf(next, x, y) <=>
                   i \in 1..(n + 1) /\ next[i].status = "Pending" /\ next[i].sender = x /\ next[i].agent = y
        BY <1>1 DEF Preview!PendingOf
    <2>2. \A i : i \in Preview!PendingOf(rs, x, y) <=>
                   i \in 1..n /\ rs[i].status = "Pending" /\ rs[i].sender = x /\ rs[i].agent = y
        BY <1>1 DEF Preview!PendingOf
    <2>3. \A i : i \in 1..(n + 1) <=> i \in 1..n \/ i = n + 1
        BY <1>1
    <2> HIDE DEF next, n
    <2> QED BY <2>1, <2>2, <2>3, <1>2, <1>3
<1>5. \A x, y : Preview!PendingOf(rs, x, y) \in SUBSET (1..n) /\ n + 1 \notin Preview!PendingOf(rs, x, y)
    BY <1>1 DEF Preview!PendingOf
<1>6. /\ \A i \in 1..n : Preview!AmountsOf(rs)[i] \in Int /\ Preview!AmountsOf(next)[i] = Preview!AmountsOf(rs)[i]
      /\ Preview!AmountsOf(next)[n + 1] = r.amount /\ r.amount \in Int
    <2>1. \A i \in 1..n : rs[i].amount \in Int /\ next[i].amount = rs[i].amount
        BY <1>2, RemittanceFields
    <2>2. \A i \in 1..n : Preview!AmountsOf(rs)[i] = rs[i].amount
        BY <1>1 DEF Preview!AmountsOf
    <2>3. \A i \in 1..(n + 1) : Preview!AmountsOf(next)[i] = next[i].amount
        BY <1>1 DEF Preview!AmountsOf
    <2>4. n + 1 \in 1..(n + 1) /\ \A i \in 1..n : i \in 1..(n + 1)
        BY <1>1
    <2>5. r.amount \in Int
        BY RemittanceFields
    <2> HIDE DEF next, n
    <2> QED BY <2>1, <2>2, <2>3, <2>4, <2>5, <1>3
<1>7. /\ \A i \in 1..n : Preview!FeesOf(rs)[i] \in Int /\ Preview!FeesOf(next)[i] = Preview!FeesOf(rs)[i]
      /\ Preview!FeesOf(next)[n + 1] = r.fee /\ r.fee \in Int
    <2>1. \A i \in 1..n : rs[i].fee \in Int /\ next[i].fee = rs[i].fee
        BY <1>2, RemittanceFields
    <2>2. \A i \in 1..n : Preview!FeesOf(rs)[i] = rs[i].fee
        BY <1>1 DEF Preview!FeesOf
    <2>3. \A i \in 1..(n + 1) : Preview!FeesOf(next)[i] = next[i].fee
        BY <1>1 DEF Preview!FeesOf
    <2>4. n + 1 \in 1..(n + 1) /\ \A i \in 1..n : i \in 1..(n + 1)
        BY <1>1
    <2>5. r.fee \in Int
        BY RemittanceFields
    <2> HIDE DEF next, n
    <2> QED BY <2>1, <2>2, <2>3, <2>4, <2>5, <1>3
<1> HIDE DEF next, n
<1>8. /\ Preview!SumOf(rs, a, b) \in Int
      /\ Preview!SumOf(next, a, b) = Preview!SumOf(rs, a, b) + IF counts(a, b) THEN r.amount ELSE 0
    <2> DEFINE P == Preview!PendingOf(rs, a, b)
               Q == Preview!PendingOf(next, a, b)
    <2>1. P \in SUBSET (1..n) /\ (Q = P \/ Q = P \cup {n + 1}) /\ (n + 1 \in Q <=> counts(a, b))
        <3>1. CASE counts(a, b)
            BY <3>1, <1>4, <1>5
        <3>2. CASE ~counts(a, b)
            <4>1. Q = P \cup {}
                BY <3>2, <1>4
            <4>2. Q = P
                BY <4>1
            <4> QED BY <3>2, <4>2, <1>5
        <3> QED BY <3>1, <3>2
    <2> HIDE DEF P, Q
    <2>2. /\ Preview!SumFunctionOnSet(Preview!AmountsOf(rs), P) \in Int
          /\ Preview!SumFunctionOnSet(Preview!AmountsOf(next), Q)
               = Preview!SumFunctionOnSet(Preview!AmountsOf(rs), P) + IF n + 1 \in Q THEN Preview!AmountsOf(next)[n + 1] ELSE 0
        <3> DEFINE f == Preview!AmountsOf(rs)
                   g == Preview!AmountsOf(next)
        <3>1. \A i \in 1..n : f[i] \in Int /\ g[i] = f[i]
            BY <1>6
        <3>2. g[n + 1] \in Int
            BY <1>6
        <3>3. P \in SUBSET (1..n)
            BY <2>1
        <3>4. Q = P \/ Q = P \cup {n + 1}
            BY <2>1
        <3> HIDE DEF f, g
        <3>5. /\ Preview!SumFunctionOnSet(f, P) \in Int
              /\ Preview!SumFunctionOnSet(g, Q) = Preview!SumFunctionOnSet(f, P) + IF n + 1 \in Q THEN g[n + 1] ELSE 0
            BY <1>1, <3>1, <3>2, <3>3, <3>4, SumGoesOn
        <3> QED BY <3>5 DEF f, g
    <2> QED BY <2>1, <2>2, <1>6 DEF Preview!SumOf, P, Q
<1>9. /\ Preview!Fees(rs, a, b) \in Int
      /\ Preview!Fees(next, a, b) = Preview!Fees(rs, a, b) + IF counts(a, b) \/ counts(b, a) THEN r.fee ELSE 0
    <2> DEFINE P == both(rs)
               Q == both(next)
    <2>1. P \in SUBSET (1..n) /\ (Q = P \/ Q = P \cup {n + 1})
            /\ (n + 1 \in Q <=> counts(a, b) \/ counts(b, a))
        <3>1. CASE counts(a, b) \/ counts(b, a)
            BY <3>1, <1>4, <1>5
        <3>2. CASE ~(counts(a, b) \/ counts(b, a))
            BY <3>2, <1>4, <1>5
        <3> QED BY <3>1, <3>2
    <2> HIDE DEF P, Q
    <2>2. /\ Preview!SumFunctionOnSet(Preview!FeesOf(rs), P) \in Int
          /\ Preview!SumFunctionOnSet(Preview!FeesOf(next), Q)
               = Preview!SumFunctionOnSet(Preview!FeesOf(rs), P) + IF n + 1 \in Q THEN Preview!FeesOf(next)[n + 1] ELSE 0
        <3> DEFINE f == Preview!FeesOf(rs)
                   g == Preview!FeesOf(next)
        <3>1. \A i \in 1..n : f[i] \in Int /\ g[i] = f[i]
            BY <1>7
        <3>2. g[n + 1] \in Int
            BY <1>7
        <3>3. P \in SUBSET (1..n)
            BY <2>1
        <3>4. Q = P \/ Q = P \cup {n + 1}
            BY <2>1
        <3> HIDE DEF f, g
        <3>5. /\ Preview!SumFunctionOnSet(f, P) \in Int
              /\ Preview!SumFunctionOnSet(g, Q) = Preview!SumFunctionOnSet(f, P) + IF n + 1 \in Q THEN g[n + 1] ELSE 0
            BY <1>1, <3>1, <3>2, <3>3, <3>4, SumGoesOn
        <3> QED BY <3>5 DEF f, g
    <2> QED BY <2>1, <2>2, <1>7 DEF Preview!Fees, P, Q
<1> QED BY <1>8, <1>9 DEF next

\* Of a pair without a pending remittance the sums are none.
LEMMA NoneIsZero ==
    ASSUME NEW rs, NEW a, NEW b, Preview!PendingOf(rs, a, b) = {}, Preview!PendingOf(rs, b, a) = {}
    PROVE  Preview!Net(rs, a, b) = 0 /\ Preview!Fees(rs, a, b) = 0
<1>1. \A f : Preview!SumFunctionOnSet(f, {}) = 0
    BY SumEmpty, SetsOfPreview
<1>2. Preview!SumOf(rs, a, b) = 0 /\ Preview!SumOf(rs, b, a) = 0 /\ (a = b => Preview!SumOf(rs, a, a) = 0)
    BY <1>1 DEF Preview!SumOf
<1>3. Preview!Fees(rs, a, b) = 0
    <2>1. Preview!PendingOf(rs, a, b) \cup Preview!PendingOf(rs, b, a) = {}
        OBVIOUS
    <2> QED BY <1>1, <2>1 DEF Preview!Fees
<1> QED BY <1>2, <1>3 DEF Preview!Net

LEMMA PreviewBegins == ASSUME Preview!PreviewAssumption PROVE Preview!Init => Preview!IInv
<1> SUFFICES ASSUME Preview!Init PROVE Preview!IInv
    OBVIOUS
<1>1. x1 = <<>> /\ DOMAIN x2 = {} /\ DOMAIN x1 = {}
    BY DEF Preview!Init
<1>2. x1 \in Seq(Preview!Remittances) /\ Len(x1) <= MaxPreviewed
    BY <1>1 DEF Preview!PreviewAssumption
<1> QED BY <1>1, <1>2 DEF Preview!IInv, Preview!TypeOK

\* What the API has of a pair, which is nothing for a pair it has not met.
LEMMA SumsOfAPair ==
    ASSUME Preview!PreviewAssumption, Preview!IInv, NEW p \in Parties \X Parties, p[1] <= p[2]
    PROVE  LET has == IF p \in DOMAIN x2 THEN x2[p] ELSE [net |-> 0, fees |-> 0]
           IN  has.net = Preview!Net(x1, p[1], p[2]) /\ has.fees = Preview!Fees(x1, p[1], p[2])
<1>1. CASE p \in DOMAIN x2
    BY <1>1 DEF Preview!IInv
<1>2. CASE p \notin DOMAIN x2
    <2>1. p = <<p[1], p[2]>> /\ p[1] \in Nat /\ p[2] \in Nat
        BY TwoParties
    <2>2. ASSUME NEW i \in DOMAIN x1, x1[i].status = "Pending"
          PROVE  ~(x1[i].sender = p[1] /\ x1[i].agent = p[2])
                   /\ ~(x1[i].sender = p[2] /\ x1[i].agent = p[1])
        <3>1. Preview!Pair(x1[i]) \in DOMAIN x2
            BY <2>2 DEF Preview!IInv
        <3>2. Preview!Pair(x1[i]) # <<p[1], p[2]>>
            BY <3>1, <1>2, <2>1
        <3>3. x1[i] \in Preview!Remittances
            BY DEF Preview!IInv, Preview!TypeOK
        <3> QED BY <3>2, <3>3, <2>1, PairInOrder
    <2>3. Preview!PendingOf(x1, p[1], p[2]) = {} /\ Preview!PendingOf(x1, p[2], p[1]) = {}
        BY <2>2 DEF Preview!PendingOf
    <2> QED BY <1>2, <2>3, NoneIsZero
<1> QED BY <1>1, <1>2

LEMMA PreviewStep ==
    ASSUME Preview!PreviewAssumption PROVE Preview!IInv /\ (Preview!Next \/ UNCHANGED Preview!vars) => Preview!IInv'
<1> SUFFICES ASSUME Preview!IInv, (Preview!Next \/ UNCHANGED Preview!vars) PROVE Preview!IInv'
    OBVIOUS
<1>1. CASE UNCHANGED Preview!vars
    BY <1>1 DEF Preview!vars, Preview!IInv, Preview!TypeOK
<1>2. CASE Preview!Next
    <2>1. PICK r \in Preview!Remittances :
            /\ Len(x1) < MaxPreviewed
            /\ x1' = Append(x1, r)
            /\ x2' = IF r.status = "Pending" THEN Preview!Booked(x2, r) ELSE x2
        BY <1>2 DEF Preview!Next
    <2> DEFINE n == Len(x1)
               D == DOMAIN x2
    <2>2. Preview!TypeOK /\ x1 \in Seq(Preview!Remittances) /\ MaxPreviewed \in Nat
        BY DEF Preview!IInv, Preview!TypeOK, Preview!PreviewAssumption
    <2>3. x1' \in Seq(Preview!Remittances) /\ Len(x1') <= MaxPreviewed
        BY <2>1, <2>2
    <2>4. /\ n \in Nat /\ DOMAIN x1 = 1..n /\ DOMAIN x1' = 1..(n + 1)
          /\ \A i \in 1..n : x1'[i] = x1[i]
          /\ x1'[n + 1] = r
        BY <2>1, <2>2
    <2>5. D = {Preview!Pair(x1[i]) : i \in {j \in 1..n : x1[j].status = "Pending"}}
        BY <2>4 DEF Preview!IInv
    <2>6. DOMAIN x2' = IF r.status = "Pending" THEN D \cup {Preview!Pair(r)} ELSE D
        BY <2>1 DEF Preview!Booked
    <2>7. DOMAIN x2' = {Preview!Pair(x1'[i]) : i \in {j \in 1..(n + 1) : x1'[j].status = "Pending"}}
        <3>1. \A i : i \in 1..(n + 1) <=> i \in 1..n \/ i = n + 1
            BY <2>4
        <3> HIDE DEF n, D
        <3>2. \A p : p \in DOMAIN x2' <=> p \in D \/ (r.status = "Pending" /\ p = Preview!Pair(r))
            BY <2>6
        <3>3. \A p : p \in D <=> \E i \in 1..n : x1[i].status = "Pending" /\ p = Preview!Pair(x1[i])
            BY <2>5
        <3>4. \A p : p \in DOMAIN x2' <=>
                       \E i \in 1..(n + 1) : x1'[i].status = "Pending" /\ p = Preview!Pair(x1'[i])
            BY <3>1, <3>2, <3>3, <2>4
        <3> QED BY <3>4
    <2>8. DOMAIN x2' \subseteq Parties \X Parties
        BY <2>2, <2>6, PairInOrder DEF Preview!TypeOK
    <2>9. ASSUME NEW p \in DOMAIN x2'
          PROVE  /\ x2'[p] \in [net : Int, fees : Int]
                 /\ x2'[p].net = Preview!Net(x1', p[1], p[2])
                 /\ x2'[p].fees = Preview!Fees(x1', p[1], p[2])
        <3> DEFINE a == p[1]
                   b == p[2]
                   counts(x, y) == r.status = "Pending" /\ r.sender = x /\ r.agent = y
                   has == IF p \in D THEN x2[p] ELSE [net |-> 0, fees |-> 0]
        <3>1. p \in Parties \X Parties
            BY <2>8
        <3>2. p[1] <= p[2]
            <4>1. PICK i \in 1..(n + 1) : p = Preview!Pair(x1'[i])
                BY <2>7
            <4>2. x1'[i] \in Preview!Remittances
                BY <2>3, <2>4
            <4> QED BY <4>1, <4>2, PairInOrder
        <3>3. p = <<a, b>> /\ a \in Nat /\ b \in Nat /\ a <= b
            BY <3>1, <3>2, TwoParties
        <3>4. has.net = Preview!Net(x1, a, b) /\ has.fees = Preview!Fees(x1, a, b)
            BY <3>1, <3>2, SumsOfAPair
        <3>5. /\ Preview!SumOf(x1, a, b) \in Int /\ Preview!Fees(x1, a, b) \in Int
              /\ Preview!SumOf(x1', a, b) = Preview!SumOf(x1, a, b) + IF counts(a, b) THEN r.amount ELSE 0
              /\ Preview!Fees(x1', a, b) = Preview!Fees(x1, a, b) + IF counts(a, b) \/ counts(b, a) THEN r.fee ELSE 0
            BY <2>1, <2>2, SumsGoOn
        <3>6. /\ Preview!SumOf(x1, b, a) \in Int
              /\ Preview!SumOf(x1', b, a) = Preview!SumOf(x1, b, a) + IF counts(b, a) THEN r.amount ELSE 0
            BY <2>1, <2>2, SumsGoOn
        <3>7. /\ r.sender \in Nat /\ r.agent \in Nat /\ r.amount \in Int /\ r.fee \in Int
            BY RemittanceFields
        <3>8. Preview!Net(x1, a, b) \in Int
            BY <3>5, <3>6 DEF Preview!Net
        <3>9. CASE r.status = "Pending" /\ p = Preview!Pair(r)
            <4>1. x2'[p] = [net |-> has.net + r.amount * Preview!Direction(r), fees |-> has.fees + r.fee]
                BY <2>1, <2>6, <3>9 DEF Preview!Booked
            <4>2. counts(a, b) \/ counts(b, a)
                BY <3>3, <3>9, PairInOrder
            <4> HIDE DEF has
            <4>3. /\ x2'[p].net = Preview!Net(x1, a, b) + r.amount * Preview!Direction(r)
                  /\ x2'[p].fees = Preview!Fees(x1, a, b) + r.fee
                  /\ DOMAIN x2'[p] = {"net", "fees"}
                  /\ x2'[p] = [net |-> x2'[p].net, fees |-> x2'[p].fees]
                BY <3>4, <4>1
            <4>4. x2'[p].fees = Preview!Fees(x1', a, b) /\ x2'[p].fees \in Int
                BY <3>5, <3>7, <4>2, <4>3
            <4>5. x2'[p].net = Preview!Net(x1', a, b) /\ x2'[p].net \in Int
                <5>1. CASE a < b /\ counts(a, b)
                    <6>1. Preview!Direction(r) = 1 /\ ~counts(b, a) /\ a # b
                        BY <3>3, <5>1 DEF Preview!Direction
                    <6>2. x2'[p].net = Preview!Net(x1, a, b) + r.amount
                        BY <3>7, <3>8, <4>3, <6>1
                    <6> QED BY <3>5, <3>6, <3>7, <5>1, <6>1, <6>2 DEF Preview!Net
                <5>2. CASE a < b /\ counts(b, a)
                    <6>1. Preview!Direction(r) = -1 /\ ~counts(a, b) /\ a # b
                        BY <3>3, <5>2 DEF Preview!Direction
                    <6>2. x2'[p].net = Preview!Net(x1, a, b) - r.amount
                        BY <3>7, <3>8, <4>3, <6>1
                    <6> QED BY <3>5, <3>6, <3>7, <5>2, <6>1, <6>2 DEF Preview!Net
                <5>3. CASE a = b
                    <6>1. Preview!Direction(r) = -1 /\ counts(a, b)
                        BY <3>3, <4>2, <5>3 DEF Preview!Direction
                    <6>2. x2'[p].net = Preview!Net(x1, a, b) - r.amount
                        BY <3>7, <3>8, <4>3, <6>1
                    <6> QED BY <3>5, <3>6, <3>7, <5>3, <6>1, <6>2 DEF Preview!Net
                <5> QED BY <3>3, <4>2, <5>1, <5>2, <5>3
            <4> QED BY <4>3, <4>4, <4>5
        <3>10. CASE ~(r.status = "Pending" /\ p = Preview!Pair(r))
            <4>1. p \in D /\ x2'[p] = x2[p]
                BY <2>1, <2>6, <3>10 DEF Preview!Booked
            <4>2. ~counts(a, b) /\ ~counts(b, a)
                BY <3>3, <3>10, PairInOrder
            <4>3. Preview!Net(x1', a, b) = Preview!Net(x1, a, b) /\ Preview!Fees(x1', a, b) = Preview!Fees(x1, a, b)
                BY <3>5, <3>6, <4>2 DEF Preview!Net
            <4>4. x2[p] \in [net : Int, fees : Int]
                BY <2>2, <4>1 DEF Preview!TypeOK
            <4> QED BY <3>4, <4>1, <4>3, <4>4
        <3> QED BY <3>9, <3>10
    <2> QED BY <2>3, <2>4, <2>7, <2>8, <2>9 DEF Preview!IInv, Preview!TypeOK
<1> QED BY <1>1, <1>2

LEMMA PreviewHolds ==
    ASSUME Preview!PreviewAssumption PROVE Preview!IInv => Preview!TypeOK /\ Preview!PreviewIsSettlement
<1> SUFFICES ASSUME Preview!IInv PROVE Preview!TypeOK /\ Preview!PreviewIsSettlement
    OBVIOUS
<1> DEFINE D == DOMAIN x2
           n == Len(x1)
           G == Preview!Settlement(x1)
           f == Preview!FeesOf(x1)
           pending == {i \in 1..n : x1[i].status = "Pending"}
           pairs == {t.pair : t \in G}
           S == {i \in pending : Preview!Pair(x1[i]) \in pairs}
           Transfer(p) == [pair |-> p, net |-> Preview!Net(x1, p[1], p[2]), fees |-> Preview!Fees(x1, p[1], p[2])]
<1>1. Preview!TypeOK /\ n \in Nat /\ DOMAIN x1 = 1..n /\ D \subseteq Parties \X Parties
    BY DEF Preview!IInv, Preview!TypeOK
<1>2. \A i \in 1..n : x1[i] \in Preview!Remittances
    BY DEF Preview!IInv, Preview!TypeOK
<1>3. D = {Preview!Pair(x1[i]) : i \in pending}
    BY <1>1 DEF Preview!IInv
<1>4. \A p \in D : x2[p].net = Preview!Net(x1, p[1], p[2]) /\ x2[p].fees = Preview!Fees(x1, p[1], p[2])
    BY DEF Preview!IInv
<1>5. \A p : p \in D /\ x2[p].net # 0 <=>
               p \in Parties \X Parties /\ p[1] <= p[2] /\ Preview!Net(x1, p[1], p[2]) # 0
    <2> TAKE p
    <2>1. ASSUME p \in D PROVE p \in Parties \X Parties /\ p[1] <= p[2]
        <3>1. PICK i \in pending : p = Preview!Pair(x1[i])
            BY <2>1, <1>3
        <3> QED BY <2>1, <3>1, <1>2, PairInOrder
    <2>2. ASSUME p \in Parties \X Parties, p[1] <= p[2], Preview!Net(x1, p[1], p[2]) # 0
          PROVE  p \in D
        <3>1. p \notin D => Preview!Net(x1, p[1], p[2]) = 0
            BY <2>2, SumsOfAPair
        <3> QED BY <3>1, <2>2
    <2> QED BY <2>1, <2>2, <1>4
<1>6. Preview!Preview(x2) = G
    <2>1. Preview!Preview(x2) = {Transfer(p) : p \in {q \in D : x2[q].net # 0}}
        <3>1. \A p \in {q \in D : x2[q].net # 0} :
                [pair |-> p, net |-> x2[p].net, fees |-> x2[p].fees] = Transfer(p)
            BY <1>4
        <3> HIDE DEF Transfer
        <3> QED BY <3>1 DEF Preview!Preview
    <2>2. {q \in D : x2[q].net # 0}
            = {q \in Parties \X Parties : q[1] <= q[2] /\ Preview!Net(x1, q[1], q[2]) # 0}
        BY <1>5
    <2> QED BY <2>1, <2>2 DEF Preview!Settlement
<1>7. \A t \in G : /\ t = Transfer(t.pair)
                   /\ t.pair \in D /\ t.pair \in Parties \X Parties /\ t.pair[1] <= t.pair[2]
    <2> TAKE t \in G
    <2>1. PICK p \in {q \in Parties \X Parties : q[1] <= q[2] /\ Preview!Net(x1, q[1], q[2]) # 0} : t = Transfer(p)
        BY DEF Preview!Settlement
    <2>2. t.pair = p
        BY <2>1
    <2> QED BY <2>1, <2>2, <1>5
<1>8. Preview!IsFiniteSet(S) /\ S \in SUBSET (1..n)
    <2>1. Preview!IsFiniteSet(1..n)
        BY <1>1, FS_Interval, SetsOfPreview
    <2>2. S \in SUBSET (1..n)
        OBVIOUS
    <2> HIDE DEF S
    <2> QED BY <2>1, <2>2, FS_Subset, SetsOfPreview
<1>9. \A i \in S : f[i] \in Int
    <2>1. \A i \in 1..n : f[i] = x1[i].fee
        BY <1>1 DEF Preview!FeesOf
    <2>2. \A i \in 1..n : x1[i].fee \in Int
        BY <1>2, RemittanceFields
    <2> QED BY <2>1, <2>2, <1>8
<1> DEFINE k == [i \in S |-> Transfer(Preview!Pair(x1[i]))]
           B == [t \in G |-> {i \in S : Preview!Pair(x1[i]) = t.pair}]
           F == [t \in G |-> t.fees]
<1>10. \A i \in S : k[i] \in G /\ k[i].pair = Preview!Pair(x1[i])
    <2> TAKE i \in S
    <2>1. PICK t \in G : t.pair = Preview!Pair(x1[i])
        OBVIOUS
    <2>2. t = Transfer(Preview!Pair(x1[i]))
        BY <2>1, <1>7
    <2> QED BY <2>1, <2>2
<1>11. \A t \in G : \E i \in S : k[i] = t
    <2> TAKE t \in G
    <2>1. PICK i \in pending : t.pair = Preview!Pair(x1[i])
        BY <1>3, <1>7
    <2>2. i \in S
        BY <2>1
    <2> QED BY <2>1, <2>2, <1>7
<1>12. \A t \in G : B[t] \in SUBSET S /\ \A i \in S : i \in B[t] <=> k[i] = t
    <2> TAKE t \in G
    <2>1. B[t] = {i \in S : Preview!Pair(x1[i]) = t.pair}
        OBVIOUS
    <2>2. ASSUME NEW i \in S PROVE Preview!Pair(x1[i]) = t.pair <=> k[i] = t
        <3>1. k[i] = Transfer(Preview!Pair(x1[i])) /\ k[i].pair = Preview!Pair(x1[i])
            OBVIOUS
        <3>2. t = Transfer(t.pair)
            BY <1>7
        <3> QED BY <3>1, <3>2
    <2> HIDE DEF B, S, k
    <2> QED BY <2>1, <2>2
<1>13. \A t \in G : F[t] = Preview!SumFunctionOnSet(f, B[t])
    <2> TAKE t \in G
    <2> DEFINE a == t.pair[1]
               b == t.pair[2]
    <2>1. t.fees = Preview!Fees(x1, a, b)
        <3>1. t = Transfer(t.pair)
            BY <1>7
        <3> QED BY <3>1
    <2>2. t.pair = <<a, b>> /\ a \in Nat /\ b \in Nat /\ a <= b
        BY <1>7, TwoParties
    <2>3. ASSUME NEW i \in 1..n
          PROVE  Preview!Pair(x1[i]) = t.pair <=> \/ x1[i].sender = a /\ x1[i].agent = b
                                                  \/ x1[i].sender = b /\ x1[i].agent = a
        BY <2>2, <1>2, PairInOrder
    <2>4. B[t] = Preview!PendingOf(x1, a, b) \cup Preview!PendingOf(x1, b, a)
        <3>1. \A i : i \in B[t] <=> i \in pending /\ Preview!Pair(x1[i]) = t.pair
            OBVIOUS
        <3>2. \A i : i \in Preview!PendingOf(x1, a, b) \cup Preview!PendingOf(x1, b, a) <=>
                       i \in pending /\ \/ x1[i].sender = a /\ x1[i].agent = b
                                        \/ x1[i].sender = b /\ x1[i].agent = a
            BY <1>1 DEF Preview!PendingOf
        <3> HIDE DEF B
        <3> QED BY <2>3, <3>1, <3>2
    <2> QED BY <2>1, <2>4 DEF Preview!Fees
<1>14. Preview!IsFiniteSet(G)
    <2>1. k \in Surjection(S, G)
        <3>1. k \in [S -> G]
            BY <1>10
        <3> HIDE DEF k
        <3> QED BY <3>1, <1>11 DEF Surjection
    <2> HIDE DEF k, S, G
    <2> QED BY <2>1, <1>8, FS_Surjection, SetsOfPreview
<1>15. Preview!TotalFees(G) = Preview!SumFunctionOnSet(f, S)
    <2>1. Preview!TotalFees(G) = Preview!SumFunctionOnSet(F, G)
        BY DEF Preview!TotalFees
    <2>2. \A i \in S : k[i] \in G
        BY <1>10
    <2> HIDE DEF k, S, G, B, F, f, pending, pairs
    <2>3. Preview!IsFiniteSet(S) /\ Preview!IsFiniteSet(G) /\ \A i \in S : f[i] \in Int
        BY <1>8, <1>9, <1>14
    <2>4. \A t \in G : B[t] \in SUBSET S /\ \A i \in S : i \in B[t] <=> k[i] = t
        BY <1>12
    <2>5. \A t \in G : F[t] = Preview!SumFunctionOnSet(f, B[t])
        BY <1>13
    <2>6. Preview!SumFunctionOnSet(F, G) = Preview!SumFunctionOnSet(f, S)
        BY <2>2, <2>3, <2>4, <2>5, SumByClass, SetsOfPreview
    <2> QED BY <2>1, <2>6
<1>16. S = {i \in DOMAIN x1 : x1[i].status = "Pending" /\ Preview!Pair(x1[i]) \in {t.pair : t \in G}}
    BY <1>1
<1> HIDE DEF S, G, f
<1>17. Preview!TotalFees(Preview!Preview(x2)) = Preview!SumFunctionOnSet(f, S)
    BY <1>6, <1>15
<1> QED BY <1>1, <1>6, <1>16, <1>17 DEF Preview!PreviewIsSettlement, G, f


-----------------------------------------------------------------------------
(***************************************************************************)
(* Parts begins as the part at work begins, and a step of Parts is a step  *)
(* of that part, or leaves its variables alone.                            *)
(***************************************************************************)
LEMMA BeginningOfThePart ==
    Init =>
        /\ part = "send limits" => Limits!Init
        /\ part = "inbound webhooks" => Inbound!Init
        /\ part = "kyc" => Kycs!Init
        /\ part = "agent kyc" => Agents!Init
        /\ part = "screens" => Loading!Init
        /\ part = "admin api" => Admin!Init
        /\ part = "migrations" => Migrating!Init
        /\ part = "fx rates" => Fx!Init
        /\ part = "secret cache" => Secrets!Init
        /\ part = "auth tokens" => Tokens!Init
        /\ part = "send flow" => Sending!Init
        /\ part = "chain buttons" => Buttons!Init
        /\ part = "subscriber delivery" => Deliveries!Init
        /\ part = "webhook registry" => Registry!Init
        /\ part = "remittance updates" => Updates!Init
        /\ part = "ramp" => Ramps!Init
        /\ part = "compliance" => Flags!Init
        /\ part = "anchor health" => Health!Init
        /\ part = "asset verification" => Assets!Init
        /\ part = "sdk writes" => Writes!Init
        /\ part = "sdk proposals" => Scan!Init
        /\ part = "sdk events" => Reader!Init
        /\ part = "status tracker" => Tracker!Init
        /\ part = "wallet session" => Wallet!Init
        /\ part = "history screen" => History!Init
        /\ part = "address book" => Book!Init
        /\ part = "error boundary" => Boundary!Init
        /\ part = "pages" => Lists!Init
        /\ part = "anchor directory" => Directory!Init
        /\ part = "settlement preview" => Preview!Init
BY DEF Init

LEMMA StepOfThePart ==
    [Next]_vars =>
        /\ part' = part
        /\ part = "send limits" => Limits!Next \/ UNCHANGED Limits!vars
        /\ part = "inbound webhooks" => Inbound!Next \/ UNCHANGED Inbound!vars
        /\ part = "kyc" => Kycs!Next \/ UNCHANGED Kycs!vars
        /\ part = "agent kyc" => Agents!Next \/ UNCHANGED Agents!vars
        /\ part = "screens" => Loading!Next \/ UNCHANGED Loading!screenVars
        /\ part = "admin api" => Admin!Next \/ UNCHANGED Admin!vars
        /\ part = "migrations" => Migrating!Next \/ UNCHANGED Migrating!vars
        /\ part = "fx rates" => Fx!Next \/ UNCHANGED Fx!vars
        /\ part = "secret cache" => Secrets!Next \/ UNCHANGED Secrets!vars
        /\ part = "auth tokens" => Tokens!Next \/ UNCHANGED Tokens!vars
        /\ part = "send flow" => Sending!Next \/ UNCHANGED Sending!vars
        /\ part = "chain buttons" => Buttons!Next \/ UNCHANGED Buttons!vars
        /\ part = "subscriber delivery" => Deliveries!Next \/ UNCHANGED Deliveries!vars
        /\ part = "webhook registry" => Registry!Next \/ UNCHANGED Registry!vars
        /\ part = "remittance updates" => Updates!Next \/ UNCHANGED Updates!vars
        /\ part = "ramp" => Ramps!Next \/ UNCHANGED Ramps!vars
        /\ part = "compliance" => Flags!Next \/ UNCHANGED Flags!vars
        /\ part = "anchor health" => Health!Next \/ UNCHANGED Health!vars
        /\ part = "asset verification" => Assets!Next \/ UNCHANGED Assets!vars
        /\ part = "sdk writes" => Writes!Next \/ UNCHANGED Writes!writeVars
        /\ part = "sdk proposals" => Scan!Next \/ UNCHANGED Scan!scanVars
        /\ part = "sdk events" => Reader!Next \/ UNCHANGED Reader!eventVars
        /\ part = "status tracker" => Tracker!Next \/ UNCHANGED Tracker!vars
        /\ part = "wallet session" => Wallet!Next \/ UNCHANGED Wallet!vars
        /\ part = "history screen" => History!Next \/ UNCHANGED History!vars
        /\ part = "address book" => Book!Next \/ UNCHANGED Book!vars
        /\ part = "error boundary" => Boundary!Next \/ UNCHANGED Boundary!vars
        /\ part = "pages" => Lists!Next \/ UNCHANGED Lists!vars
        /\ part = "anchor directory" => Directory!Next \/ UNCHANGED Directory!vars
        /\ part = "settlement preview" => Preview!Next \/ UNCHANGED Preview!vars
<1>1. CASE Next
  <2>1. part = "send limits" => Limits!Next
      BY <1>1 DEF Next, Moves
  <2>2. part = "inbound webhooks" => Inbound!Next
      BY <1>1 DEF Next, Moves
  <2>3. part = "kyc" => Kycs!Next
      BY <1>1 DEF Next, Moves
  <2>4. part = "agent kyc" => Agents!Next
      BY <1>1 DEF Next, Moves
  <2>5. part = "screens" => Loading!Next
      BY <1>1 DEF Next, Moves
  <2>6. part = "admin api" => Admin!Next
      BY <1>1 DEF Next, Moves
  <2>7. part = "migrations" => Migrating!Next
      BY <1>1 DEF Next, Moves
  <2>8. part = "fx rates" => Fx!Next
      BY <1>1 DEF Next, Moves
  <2>9. part = "secret cache" => Secrets!Next
      BY <1>1 DEF Next, Moves
  <2>10. part = "auth tokens" => Tokens!Next
      BY <1>1 DEF Next, Moves
  <2>11. part = "send flow" => Sending!Next
      BY <1>1 DEF Next, Moves
  <2>12. part = "chain buttons" => Buttons!Next
      BY <1>1 DEF Next, Moves
  <2>13. part = "subscriber delivery" => Deliveries!Next
      BY <1>1 DEF Next, Moves
  <2>14. part = "webhook registry" => Registry!Next
      BY <1>1 DEF Next, Moves
  <2>15. part = "remittance updates" => Updates!Next
      BY <1>1 DEF Next, Moves
  <2>16. part = "ramp" => Ramps!Next
      BY <1>1 DEF Next, Moves
  <2>17. part = "compliance" => Flags!Next
      BY <1>1 DEF Next, Moves
  <2>18. part = "anchor health" => Health!Next
      BY <1>1 DEF Next, Moves
  <2>19. part = "asset verification" => Assets!Next
      BY <1>1 DEF Next, Moves
  <2>20. part = "sdk writes" => Writes!Next
      BY <1>1 DEF Next, Moves
  <2>21. part = "sdk proposals" => Scan!Next
      BY <1>1 DEF Next, Moves
  <2>22. part = "sdk events" => Reader!Next
      BY <1>1 DEF Next, Moves
  <2>23. part = "status tracker" => Tracker!Next
      BY <1>1 DEF Next, Moves
  <2>24. part = "wallet session" => Wallet!Next
      BY <1>1 DEF Next, Moves
  <2>25. part = "history screen" => History!Next
      BY <1>1 DEF Next, Moves
  <2>26. part = "address book" => Book!Next
      BY <1>1 DEF Next, Moves
  <2>27. part = "error boundary" => Boundary!Next
      BY <1>1 DEF Next, Moves
  <2>28. part = "pages" => Lists!Next
      BY <1>1 DEF Next, Moves
  <2>29. part = "anchor directory" => Directory!Next
      BY <1>1 DEF Next, Moves
  <2>30. part = "settlement preview" => Preview!Next
      BY <1>1 DEF Next, Moves
  <2> QED
      BY <1>1, <2>1, <2>2, <2>3, <2>4, <2>5, <2>6, <2>7, <2>8, <2>9, <2>10, <2>11, <2>12,
         <2>13, <2>14, <2>15, <2>16, <2>17, <2>18, <2>19, <2>20, <2>21, <2>22, <2>23, <2>24,
         <2>25, <2>26, <2>27, <2>28, <2>29, <2>30 DEF Next
<1>2. CASE UNCHANGED vars
  <2>1. /\ part' = part /\ x1' = x1 /\ x2' = x2 /\ x3' = x3 /\ x4' = x4 /\ x5' = x5
        /\ x6' = x6 /\ x7' = x7 /\ x8' = x8 /\ x9' = x9 /\ x10' = x10 /\ x11' = x11
        /\ x12' = x12 /\ x13' = x13 /\ x14' = x14
      BY <1>2 DEF vars
  <2>2. UNCHANGED Limits!vars
      BY <2>1 DEF Limits!vars
  <2>3. UNCHANGED Inbound!vars
      BY <2>1 DEF Inbound!vars, Inbound!rows, Inbound!memory
  <2>4. UNCHANGED Kycs!vars
      BY <2>1 DEF Kycs!vars, Kycs!settings
  <2>5. UNCHANGED Agents!vars
      BY <2>1 DEF Agents!vars
  <2>6. UNCHANGED Loading!screenVars
      BY <2>1 DEF Loading!screenVars
  <2>7. UNCHANGED Admin!vars
      BY <2>1 DEF Admin!vars
  <2>8. UNCHANGED Migrating!vars
      BY <2>1 DEF Migrating!vars
  <2>9. UNCHANGED Fx!vars
      BY <2>1 DEF Fx!vars, Fx!market, Fx!quotes
  <2>10. UNCHANGED Secrets!vars
      BY <2>1 DEF Secrets!vars
  <2>11. UNCHANGED Tokens!vars
      BY <2>1 DEF Tokens!vars
  <2>12. UNCHANGED Sending!vars
      BY <2>1 DEF Sending!vars
  <2>13. UNCHANGED Buttons!vars
      BY <2>1 DEF Buttons!vars
  <2>14. UNCHANGED Deliveries!vars
      BY <2>1 DEF Deliveries!vars
  <2>15. UNCHANGED Registry!vars
      BY <2>1 DEF Registry!vars
  <2>16. UNCHANGED Updates!vars
      BY <2>1 DEF Updates!vars
  <2>17. UNCHANGED Ramps!vars
      BY <2>1 DEF Ramps!vars
  <2>18. UNCHANGED Flags!vars
      BY <2>1 DEF Flags!vars
  <2>19. UNCHANGED Health!vars
      BY <2>1 DEF Health!vars
  <2>20. UNCHANGED Assets!vars
      BY <2>1 DEF Assets!vars
  <2>21. UNCHANGED Writes!writeVars
      BY <2>1 DEF Writes!writeVars
  <2>22. UNCHANGED Scan!scanVars
      BY <2>1 DEF Scan!scanVars
  <2>23. UNCHANGED Reader!eventVars
      BY <2>1 DEF Reader!eventVars
  <2>24. UNCHANGED Tracker!vars
      BY <2>1 DEF Tracker!vars
  <2>25. UNCHANGED Wallet!vars
      BY <2>1 DEF Wallet!vars
  <2>26. UNCHANGED History!vars
      BY <2>1 DEF History!vars
  <2>27. UNCHANGED Book!vars
      BY <2>1 DEF Book!vars
  <2>28. UNCHANGED Boundary!vars
      BY <2>1 DEF Boundary!vars
  <2>29. UNCHANGED Lists!vars
      BY <2>1 DEF Lists!vars
  <2>30. UNCHANGED Directory!vars
      BY <2>1 DEF Directory!vars
  <2>31. UNCHANGED Preview!vars
      BY <2>1 DEF Preview!vars
  <2> QED
      BY <2>1, <2>2, <2>3, <2>4, <2>5, <2>6, <2>7, <2>8, <2>9, <2>10, <2>11, <2>12, <2>13,
         <2>14, <2>15, <2>16, <2>17, <2>18, <2>19, <2>20, <2>21, <2>22, <2>23, <2>24, <2>25,
         <2>26, <2>27, <2>28, <2>29, <2>30, <2>31
<1> QED
    BY <1>1, <1>2

-----------------------------------------------------------------------------
(***************************************************************************)
(* The theorems about Parts.                                               *)
(***************************************************************************)
\* What the steps of the creations keep.
LimitsInv == part = "send limits" => Limits!IInv

LEMMA LimitsKept == Spec => []LimitsInv
<1>1. Init => LimitsInv
    BY BeginningOfThePart, LimitsBegin, PartsAssumptions DEF LimitsInv
<1>2. LimitsInv /\ [Next]_vars => LimitsInv'
    BY StepOfThePart, LimitsStep, PartsAssumptions DEF LimitsInv
<1> QED
    BY <1>1, <1>2, PTL DEF Spec

\* However creations of any kind, retries, ends and changes of the limits follow each
\* other, no remittance exceeds the daily limit that stood, the counted is what was sent
\* or repeated, and a key makes no second remittance, but for the case the property
\* states (lib.rs, storage.rs).
THEOREM CreationsAlwaysGuarded == Spec => []CreationsStayGuarded
<1>1. LimitsInv => CreationsStayGuarded
    BY LimitsHold, PartsAssumptions DEF LimitsInv, CreationsStayGuarded
<1> QED
    BY LimitsKept, <1>1, PTL DEF Spec

\* What the steps of the rates keep.
RatesInv == part = "fx rates" => Fx!IInv

LEMMA RatesKept == Spec => []RatesInv
<1>1. Init => RatesInv
    BY BeginningOfThePart, RatesBegin, PartsAssumptions DEF RatesInv
<1>2. RatesInv /\ [Next]_vars => RatesInv'
    BY StepOfThePart, RatesStep, PartsAssumptions DEF RatesInv
<1> QED
    BY <1>1, <1>2, PTL DEF Spec

\* However requests, fetches, failures and clients come between each other, there is one
\* fetch under way, every client shows the rate stored last, and the rate kept for a
\* transaction is the one promised first (fx-rate-cache.ts, fx-rate-websocket.ts, api.ts).
THEOREM RatesAlwaysHoldTogether == Spec => []RatesHoldTogether
<1>1. RatesInv => RatesHoldTogether
    BY RatesAreRight DEF RatesInv, RatesHoldTogether
<1> QED
    BY RatesKept, <1>1, PTL DEF Spec

\* What the steps of the secrets and of the tokens keep.
CredentialsInv ==
    /\ part = "secret cache" => Secrets!IInv
    /\ part = "auth tokens" => Tokens!IInv

LEMMA CredentialsKept == Spec => []CredentialsInv
<1>1. Init => CredentialsInv
    BY BeginningOfThePart, SecretsBegin, TokensBegin, PartsAssumptions DEF CredentialsInv
<1>2. CredentialsInv /\ [Next]_vars => CredentialsInv'
    BY StepOfThePart, SecretsStep, TokensStep, PartsAssumptions DEF CredentialsInv
<1> QED
    BY <1>1, <1>2, PTL DEF Spec

\* However rotations cross reads, a secret is served within its time to live and its hook
\* is ahead of the cache only there; a refresh token is exchanged once, and a tab keeps a
\* good one (secrets-manager.ts, auth.ts).
THEOREM CredentialsAlwaysRotate == Spec => []CredentialsRotate
<1>1. CredentialsInv => CredentialsRotate
    BY SecretsHold, PartsAssumptions DEF CredentialsInv, CredentialsRotate, Tokens!IInv
<1> QED
    BY CredentialsKept, <1>1, PTL DEF Spec

\* What the steps of the form and of the buttons keep.
PaymentsInv ==
    /\ part = "send flow" => Sending!IInv
    /\ part = "chain buttons" => Buttons!IInv

LEMMA PaymentsKept == Spec => []PaymentsInv
<1>1. Init => PaymentsInv
    BY BeginningOfThePart, SendingBegins, ButtonsBegin, PartsAssumptions DEF PaymentsInv
<1>2. PaymentsInv /\ [Next]_vars => PaymentsInv'
    BY StepOfThePart, SendingStep, ButtonsStep, PartsAssumptions DEF PaymentsInv
<1> QED
    BY <1>1, <1>2, PTL DEF Spec

\* Whatever is retried, lost, edited or pressed again, the screen knows of every payment
\* whose answer was not lost and completes as often as it paid (the web flow once, without
\* a payment only if it has no sender's key), invalid fields are confirmed only in the
\* app and only as an amount that it cannot read, and a remittance is shown in the wrong
\* state only after a refusal (SendMoneyFlow.tsx, SendMoneyScreen.tsx, RemittanceList.jsx).
THEOREM AlwaysPaidAsConfirmed == Spec => []PaidAsConfirmed
<1>1. PaymentsInv => PaidAsConfirmed
    BY SendingHolds DEF PaymentsInv, PaidAsConfirmed, Buttons!IInv
<1> QED
    BY PaymentsKept, <1>1, PTL DEF Spec

\* What the steps of the confirmations, the replays and the migrations keep.
AdminStepsInv ==
    /\ part = "admin api" => PeopleInv /\ ReplayInv /\ RestTyped
    /\ part = "migrations" => Migrating!IInv

LEMMA AdminStepsKept == Spec => []AdminStepsInv
<1>1. Init => AdminStepsInv
    BY BeginningOfThePart, PeopleBegin, ReplaysBegin, RestBegins, MigrationsBegin,
       PartsAssumptions DEF AdminStepsInv
<1>2. AdminStepsInv /\ [Next]_vars => AdminStepsInv'
    BY StepOfThePart, PeopleStayTwo, ReplaysStayCounted, RestStays, MigrationsStep,
       PartsAssumptions DEF AdminStepsInv
<1> QED
    BY <1>1, <1>2, PTL DEF Spec

\* However confirmations race with each other, with expiry and with the purge, a critical
\* action takes two names; a letter marked as replayed was received; and instances that
\* start, race, fail and roll back leave rows that tell which migrations are in force
\* (admin.ts, admin-confirmation.ts, migrate.ts).
THEOREM AdminStepsAlwaysHold == Spec => []AdminStepsHold
<1>1. AdminStepsInv => AdminStepsHold
    BY ReplaysHold, PartsAssumptions
       DEF AdminStepsInv, AdminStepsHold, PeopleInv, Migrating!IInv
<1> QED
    BY AdminStepsKept, <1>1, PTL DEF Spec

\* What the steps of the anchors' webhooks and of the users' KYC keep.
NoticesInv == part = "inbound webhooks" =>
    Inbound!HandlersInv /\ Inbound!LogInv /\ Inbound!CountInv /\ Inbound!PathInv
    /\ Inbound!MemoryInv
KycInv ==
    /\ part = "kyc" => Kycs!IInv
    /\ part = "agent kyc" => Agents!IInv

LEMMA NoticesKept == Spec => []NoticesInv
<1>1. Init => NoticesInv
    BY BeginningOfThePart, Inbound!HandlersBegin, Inbound!LogBegins, Inbound!CountBegins,
       Inbound!PathBegins, Inbound!MemoryBegins, PartsAssumptions DEF NoticesInv
<1>2. NoticesInv /\ [Next]_vars => NoticesInv'
    BY StepOfThePart, Inbound!HandlersNext, Inbound!LogNext, Inbound!CountNext,
       Inbound!PathNext, Inbound!MemoryNext, PartsAssumptions DEF NoticesInv
<1> QED
    BY <1>1, <1>2, PTL DEF Spec

\* However often a notice is repeated, and whatever fails and restarts, it is processed
\* once at most, a creation is announced at most as often as it was recorded, and a
\* transaction's history follows the table of its kind (webhook-handler.ts,
\* transaction-state.ts).
THEOREM NoticesAlwaysHandledOnce == Spec => []NoticesAreHandledOnce
<1>1. NoticesInv => NoticesAreHandledOnce
    BY Inbound!CountsHold, PartsAssumptions DEF NoticesInv, NoticesAreHandledOnce, Inbound!PathInv
<1> QED
    BY NoticesKept, <1>1, PTL DEF Spec

LEMMA KycKept == Spec => []KycInv
<1>1. Init => KycInv
    BY BeginningOfThePart, KycBegins, AgentsBegin, PartsAssumptions DEF KycInv
<1>2. KycInv /\ [Next]_vars => KycInv'
    BY StepOfThePart, KycStep, AgentsStep, PartsAssumptions DEF KycInv
<1> QED
    BY <1>1, <1>2, PTL DEF Spec

\* However polls, pushes and notifications race, when no decision is on its way the contract
\* holds the last one and the transfer guard agrees with it; an approved agent was accepted
\* (kyc-service.ts, kyc-upsert-service.ts, transfer-guard.ts, agent-kyc-service.ts).
THEOREM KycAlwaysHoldsTogether == Spec => []KycHoldsTogether
<1>1. KycInv => KycHoldsTogether
    BY KycHolds DEF KycInv, KycHoldsTogether, Agents!IInv
<1> QED
    BY KycKept, <1>1, PTL DEF Spec

\* However handlers and workers race, a completed or refunded transaction changes only by a
\* dispute that had read it before, and a rejection is taken back only by newer word or by
\* a worker that had read the row before (webhook-handler.ts, kyc-service.ts).
THEOREM DecisionsAlwaysStand == Spec => DecisionsStand
<1>1. NoticesInv /\ KycInv /\ [Next]_vars =>
          [/\ part = "inbound webhooks" => Inbound!FinalLeft
           /\ part = "kyc" => Kycs!RejectionRevisedLate]_vars
    BY StepOfThePart, Inbound!FinalStep, RejectionStep, PartsAssumptions DEF NoticesInv, KycInv
<1> QED
    BY NoticesKept, KycKept, <1>1, PTL DEF Spec, DecisionsStand

\* What the steps of a screen that loads keep.
LoadingInv == part = "screens" => Loading!IInv

LEMMA LoadingKept == Spec => []LoadingInv
<1>1. Init => LoadingInv
    BY BeginningOfThePart, ScreensBegin, PartsAssumptions DEF LoadingInv
<1>2. LoadingInv /\ [Next]_vars => LoadingInv'
    BY StepOfThePart, ScreensStep, PartsAssumptions DEF LoadingInv
<1> QED
    BY <1>1, <1>2, PTL DEF Spec

\* Whatever key changes, timers and answers cross, a component that guards itself never
\* puts on the screen an answer about another key (the components that set a cancelled
\* flag, such as AnchorSelector and KycStatusBadge).
THEOREM LateAnswersAreGuardedAgainst == Spec => GuardedAgainstLateAnswers
<1>1. LoadingInv /\ [Next]_vars => [part = "screens" => Loading!GuardedChange]_vars
    BY StepOfThePart, GuardedStep DEF LoadingInv
<1> QED
    BY LoadingKept, <1>1, PTL DEF Spec, GuardedAgainstLateAnswers

\* What the steps of the parts that serve subscribers keep.
SubscribersInv ==
    /\ part = "subscriber delivery" => Deliveries!IInv
    /\ part = "webhook registry" => Registry!IInv
    /\ part = "ramp" => Ramps!IInv /\ Ramps!RepeatsTyped
    /\ part = "remittance updates" => Updates!IInv

LEMMA SubscribersKept == Spec => []SubscribersInv
<1>1. Init => SubscribersInv
    BY BeginningOfThePart, DeliveriesBegin, RegistryBegins, RampBegins, RepeatsBegin,
       UpdatesBegin, PartsAssumptions DEF SubscribersInv
<1>2. SubscribersInv /\ [Next]_vars => SubscribersInv'
    BY StepOfThePart, DeliveriesStep, RegistryStep, RampStep, RepeatsStep, UpdatesStep,
       PartsAssumptions DEF SubscribersInv
<1> QED
    BY <1>1, <1>2, PTL DEF Spec

\* However sends, sweeps, rotations, registrations, handlers and crashes come between each
\* other: a delivery is given up only with its last attempt, a grace period covers a late
\* notice, subscriptions stay within the limit but for crossing registrations, a good
\* answer reached every handler, and a remittance leaves the path of its statuses only
\* where updates cross (webhook-dispatcher.ts, webhooks/store.ts, ramp-webhook-handler.ts,
\* remittanceService.ts).
THEOREM SubscribersAlwaysServed == Spec => []SubscribersAreServed
<1>1. SubscribersInv => SubscribersAreServed
    BY RegistryHolds, UpdatesHold, PartsAssumptions
    DEF SubscribersInv, SubscribersAreServed, Deliveries!IInv, Ramps!IInv
<1> QED
    BY SubscribersKept, <1>1, PTL DEF Spec

\* What the steps of the checks on assets, creations and anchors keep.
ChecksInv ==
    /\ part = "asset verification" => Assets!IInv
    /\ part = "compliance" => Flags!IInv
    /\ part = "anchor health" => Health!IInv

LEMMA ChecksKept == Spec => []ChecksInv
<1>1. Init => ChecksInv
    BY BeginningOfThePart, AssetsBegin, ComplianceBegins, HealthBegins, PartsAssumptions
       DEF ChecksInv
<1>2. ChecksInv /\ [Next]_vars => ChecksInv'
    BY StepOfThePart, AssetsStep, ComplianceStep, HealthStep, PartsAssumptions DEF ChecksInv
<1> QED
    BY <1>1, <1>2, PTL DEF Spec

\* However reports, checks, failures and restarts come between each other: once nothing is
\* under way an asset reported five times is suspicious unless a report was cut short, and
\* the contract follows the row unless telling it failed or came late; a creation over a
\* threshold is flagged unless flagging failed; and a health report that no probe crossed
\* hangs together (verifier.ts, compliance.ts, anchor-health-checker.ts).
THEOREM ChecksAlwaysStand == Spec => []ChecksStand
<1>1. ChecksInv => ChecksStand
    BY AssetsHold, HealthHolds DEF ChecksInv, ChecksStand, Flags!IInv
<1> QED
    BY ChecksKept, <1>1, PTL DEF Spec

\* What the steps of the calls of the SDK keep.
CallsInv ==
    /\ part = "sdk writes" => Writes!IInv
    /\ part = "sdk proposals" => Scan!IInv
    /\ part = "sdk events" => Reader!IInv

LEMMA CallsKept == Spec => []CallsInv
<1>1. Init => CallsInv
    BY BeginningOfThePart, WritesBegin, ScanBegins, ReaderBegins, PartsAssumptions DEF CallsInv
<1>2. CallsInv /\ [Next]_vars => CallsInv'
    BY StepOfThePart, WritesStep, ScanStep, ReaderStep, PartsAssumptions DEF CallsInv
<1> QED
    BY <1>1, <1>2, PTL DEF Spec

\* Whatever sends are lost, retried or answered late, a request is applied at most once for
\* each time it was prepared, and what is reported as a success was applied; a scan below
\* its limit and with no failure finds every proposal that was active all along, up to
\* the first identifier whose proposal was expired or cleaned up, where it ends; and a
\* callback sees an event once at most, in the contract's order (client.ts of the SDK).
THEOREM CallsAlwaysWhole == Spec => []CallsAreWhole
<1>1. CallsInv => CallsAreWhole
    BY WritesHold, PartsAssumptions DEF CallsInv, CallsAreWhole, Scan!IInv, Reader!IInv
<1> QED
    BY CallsKept, <1>1, PTL DEF Spec

\* What the steps of the screens keep.
ScreensInv ==
    /\ part = "screens" => Loading!IInv
    /\ part = "history screen" => History!IInv
    /\ part = "address book" => Book!IInv
    /\ part = "wallet session" => Wallet!IInv
    /\ part = "status tracker" => Tracker!IInv
    /\ part = "error boundary" => Boundary!IInv

LEMMA ScreensKept == Spec => []ScreensInv
<1>1. Init => ScreensInv
    BY BeginningOfThePart, ScreensBegin, HistoryBegins, BookBegins, WalletBegins,
       TrackerBegins, BoundaryBegins, PartsAssumptions DEF ScreensInv
<1>2. ScreensInv /\ [Next]_vars => ScreensInv'
    BY StepOfThePart, ScreensStep, HistoryStep, BookStep, WalletStep, TrackerStep,
       BoundaryStep, PartsAssumptions DEF ScreensInv
<1> QED
    BY <1>1, <1>2, PTL DEF Spec

\* Whatever the user, the browser's history, other tabs, the wallet, timers and late answers
\* do: a screen that waits for nothing shows the answer to its last question, the address
\* says what the history shows, the book is what was entered in all the tabs, the account
\* shown is the one stored, and so on, each but for the cases its property names (the
\* components of the web client).
THEOREM ScreensAlwaysShowWhatHolds == Spec => []ScreensShowWhatHolds
<1>1. ScreensInv => ScreensShowWhatHolds
    BY ScreensHold, HistoryHolds, TrackerHolds, BoundaryHolds
    DEF ScreensInv, ScreensShowWhatHolds, Loading!IInv, Book!IInv, Wallet!IInv
<1> QED
    BY ScreensKept, <1>1, PTL DEF Spec

\* What the steps of the lists and of the preview keep.
ReadersInv ==
    /\ part = "pages" => Lists!IInv
    /\ part = "anchor directory" => Directory!IInv
    /\ part = "settlement preview" => Preview!IInv

LEMMA ReadersKept == Spec => []ReadersInv
<1>1. Init => ReadersInv
    BY BeginningOfThePart, PagesBegin, DirectoryBegins, PreviewBegins, PartsAssumptions
       DEF ReadersInv
<1>2. ReadersInv /\ [Next]_vars => ReadersInv'
    BY StepOfThePart, PagesStep, DirectoryStep, PreviewStep, PartsAssumptions DEF ReadersInv
<1> QED
    BY <1>1, <1>2, PTL DEF Spec

\* However lists grow and are purged or edited between the pages, and in whatever order a
\* batch comes: a client that reads to the end was given all that stood throughout, and
\* nothing twice, but for the cases the property states; and the previewed netting is, pair
\* by pair, the one the contract settles (remittanceStore.ts, admin-audit-log.ts,
\* database.ts, anchorStore.ts, settlements.ts).
THEOREM ReadersAlwaysMissNothing == Spec => []ReadersMissNothing
<1>1. ReadersInv => ReadersMissNothing
    BY PagesHold, DirectoryHolds, PreviewHolds, PartsAssumptions
       DEF ReadersInv, ReadersMissNothing
<1> QED
    BY ReadersKept, <1>1, PTL DEF Spec

\* The types are part of what every step of a part keeps, or follow from it.
LEMMA TypesOfTheParts ==
    /\ LimitsInv /\ RatesInv /\ CredentialsInv /\ PaymentsInv /\ AdminStepsInv /\ NoticesInv
    /\ KycInv /\ SubscribersInv /\ ChecksInv /\ CallsInv /\ ScreensInv /\ ReadersInv
    => PartTypeOK
<1>1. LimitsInv => (part = "send limits" => Limits!TypeOK)
    BY DEF LimitsInv, Limits!IInv
<1>2. RatesInv => (part = "fx rates" => Fx!TypeOK)
    BY DEF RatesInv, Fx!IInv
<1>3. CredentialsInv =>
        /\ part = "secret cache" => Secrets!TypeOK
        /\ part = "auth tokens" => Tokens!TypeOK
    BY SecretsTyped, PartsAssumptions DEF CredentialsInv, Tokens!IInv
<1>4. PaymentsInv =>
        /\ part = "send flow" => Sending!TypeOK
        /\ part = "chain buttons" => Buttons!TypeOK
    BY DEF PaymentsInv, Sending!IInv, Buttons!IInv
<1>5. AdminStepsInv =>
        /\ part = "admin api" => Admin!TypeOK
        /\ part = "migrations" => Migrating!TypeOK
    BY AdminTyped DEF AdminStepsInv, PeopleInv, Migrating!IInv
<1>6. NoticesInv => (part = "inbound webhooks" => Inbound!TypeOK)
    BY Inbound!InboundTyped DEF NoticesInv
<1>7. KycInv =>
        /\ part = "kyc" => Kycs!TypeOK
        /\ part = "agent kyc" => Agents!TypeOK
    BY DEF KycInv, Kycs!IInv, Agents!IInv
<1>8. SubscribersInv =>
        /\ part = "subscriber delivery" => Deliveries!TypeOK
        /\ part = "webhook registry" => Registry!TypeOK
        /\ part = "ramp" => Ramps!TypeOK
        /\ part = "remittance updates" => Updates!TypeOK
    BY RampTyped DEF SubscribersInv, Deliveries!IInv, Registry!IInv, Updates!IInv
<1>9. ChecksInv =>
        /\ part = "asset verification" => Assets!AssetTypeOK
        /\ part = "compliance" => Flags!TypeOK
        /\ part = "anchor health" => Health!TypeOK
    BY AssetsTyped, PartsAssumptions DEF ChecksInv, Flags!IInv, Health!IInv
<1>10. CallsInv =>
        /\ part = "sdk writes" => Writes!WritesTypeOK
        /\ part = "sdk proposals" => Scan!ProposalsTypeOK
        /\ part = "sdk events" => Reader!EventsTypeOK
    BY DEF CallsInv, Writes!IInv, Scan!IInv, Reader!IInv
<1>11. ScreensInv =>
        /\ part = "screens" => Loading!ScreensTypeOK
        /\ part = "history screen" => History!TypeOK
        /\ part = "address book" => Book!TypeOK
        /\ part = "wallet session" => Wallet!TypeOK
        /\ part = "status tracker" => Tracker!TypeOK
        /\ part = "error boundary" => Boundary!TypeOK
    BY BookTyped DEF ScreensInv, Loading!IInv, History!IInv, Wallet!IInv, Tracker!IInv, Boundary!IInv
<1>12. ReadersInv =>
        /\ part = "pages" => Lists!TypeOK
        /\ part = "anchor directory" => Directory!TypeOK
        /\ part = "settlement preview" => Preview!TypeOK
    BY DEF ReadersInv, Lists!IInv, Directory!IInv, Preview!IInv
<1> QED
    BY <1>1, <1>2, <1>3, <1>4, <1>5, <1>6, <1>7, <1>8, <1>9, <1>10, <1>11, <1>12 DEF PartTypeOK

\* Whichever part runs, its rows, requests, timers and screens keep to their types.
THEOREM PartsAlwaysTyped == Spec => []PartTypeOK
    BY LimitsKept, RatesKept, CredentialsKept, PaymentsKept, AdminStepsKept, NoticesKept,
       KycKept, SubscribersKept, ChecksKept, CallsKept, ScreensKept, ReadersKept,
       TypesOfTheParts, PTL
=============================================================================
