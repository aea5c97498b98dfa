# A TLA+ verification of daddy-config (SwiftRemit)

daddy-config is a remittance system. A Soroban smart contract (`src/src/`, Rust) holds the
senders' tokens in escrow, pays agents, keeps fees and is governed by its administrators. A
Node backend (`src/backend/`) follows the contract and the anchors, delivers webhooks, polls
SEP-24 transactions, synchronises KYC and exchange rates. A REST API (`src/api/`), a TypeScript
SDK (`src/sdk/`), a web client (`src/frontend/`) and a mobile app (`src/mobile/`) sit on top.

This directory holds TLA+ models of the parts whose correctness depends on the *order* of
things, TLC configurations that check them on small instances, and proofs, checked by TLAPS,
of what holds for every instance. `PROJECT.json` lists the components, the runs with the
properties each checks, a mutant for every property (a plausible mistake in one definition
that breaks it), the source lines behind every definition, the hazards and the theorems.

1. Inventory, 2. Modules, 3. Runs and bounds, 4. Fairness, 5. Proofs, 6. What the models
found, 7. Not modelled.

## 1. Inventory

### The contract

A contract call is atomic: one that returns an error or panics rolls back everything it did.
Concurrency is the free interleaving of calls of many parties (senders, agents,
administrators, anyone for the sweeps), so every entry point is one action, enabled when the
call succeeds.

| Component (source) | State | Operations | What makes it correct |
|---|---|---|---|
| Remittance lifecycle (`lib.rs`, `transitions.rs`, `validation.rs`) | records, counter, partial disbursements, settlement hashes, token balances, volume counters | create (single, corridor, batch), confirm_payout, confirm_partial_payout, mark_failed, cancel, process_expired, disputes | one outcome per deposit; closed is final; payee within deposit; balance covers what is owed |
| Fees (`fee_service.rs`, `fee_strategy.rs`, `fee_management.rs`) | platform, token and protocol rates, strategy, accumulated fees | update, breakdown, accumulate and flush, withdraw | a breakdown splits the amount; no fee lost or flushed twice |
| Netting (`netting.rs`) | none of its own | offset opposing remittances, pay the difference | settles once; spends no other deposit |
| Limits and idempotency (`lib.rs`, `storage.rs`, `hashing.rs`) | transfers of each sender, limits, key records, the key of each remittance | every creation counts; a creation with a known key answers with the earlier remittance; ends clear the key | the limit holds over every window; a repeated request moves no money |
| Admin council (`lib.rs`, `storage.rs`) | admin flags, Admin role, admin count, legacy admin, pending transfer | add, remove, propose and accept transfer, assign and remove role | count = admins; one admin remains; the legacy admin is an admin |
| Circuit breaker (`circuit_breaker.rs`) | paused flag, pause sequence, records, votes, timelock, quorum | pause, unpause, emergency pause and unpause, vote, settings | a pause ends only after its own timelock and votes |
| Governance (`governance.rs`) | proposals, votes, quorum, timelock, active fee proposal | propose, vote, execute, expire, cleanup, migrate | executed once, after quorum and timelock; one open fee proposal |
| Multisig (`multisig.rs`) | configuration, pending operations, approvals | configure, propose, approve (executes), expire | executes once, with its threshold of approvals |
| Transaction controller (`transaction_controller.rs`) | transaction records | execute_transaction | its checks guard a payout |
| Escrow of transfers, migration, upgrade, digests, views | | | see section 7 |

### The backend and the API

Node runs one event loop per process and several processes may run: every `await` is a point
where another handler goes on. State is in Postgres rows that are mostly updated without a
condition, and in memory that is gone with the process.

| Component (source) | State | Operations | What is hard |
|---|---|---|---|
| Webhook delivery (`webhooks/dispatcher.ts`, `store.ts`) | delivery rows, dead letters, backoff timers | dispatch, attempt, retry sweep, unregister | the sweep races the in-process retry; crash in a backoff; a subscriber that trickles |
| Webhook registry (`webhooks/service.ts`, `remittance/events.ts`) | registrations | register, unregister, announce | limit and uniqueness checked before the insert |
| Subscriber delivery (`webhook-dispatcher.ts`) | rows of the older tables, secrets | enqueue, attempt, sweep, rotate | a delivery signs with the secrets it read |
| Inbound webhooks (`webhook-handler.ts`, `webhook-middleware.ts`, `transaction-state.ts`) | nonces, statuses, logs | gate, verify, process | nonce stored before processing; disputes without the row lock |
| SEP-24 (`sep24-service.ts`) | one row per flow | initiate, poll, notification, refund | a status read before an await is written after it |
| Scheduler (`scheduler.ts`, `distributed-lock.ts`, `job-tracker.ts`) | advisory lock, `job_runs` | tick, run, release | the lock goes with its session, the job goes on |
| KYC, agent KYC (`kyc-*.ts`, `transfer-guard.ts`, `agent-kyc-service.ts`) | rows, the contract's flag | poll, upsert, notice, expire, guard, review | row and chain written in different orders |
| Admin confirmation (`admin-confirmation.ts`, `routes/admin.ts`) | pending actions, dead letters | request, confirm, simulate, replay | check, update and audit row are three statements |
| Migrations (`migrate.ts`) | `schema_migrations` | up at start, down | several instances start at once, no lock |
| FX rates (`fx-rate-cache.ts`, `fx-provider.ts`, `fx-rate-websocket.ts`) | cache, shared fetch, followers, stored rates | get, refresh, clear, broadcast, store | a fetch is stored after a clear |
| Asset verification, compliance, anchor health, secrets, sign-in, ramps | rows, caches, tokens | verify and report, flag, probe, rotate, refresh, notice | two writers of one row; a cached verdict; overlapping requests |
| Remittance store, lists, anchor directory (`remittanceService.ts`, `remittanceStore.ts`, `anchorStore.ts`, `admin-audit-log.ts`) | rows, watchers | update, announce, page | two updates read one status; rows arrive while a client pages |

### The clients

| Component (source) | State | What is hard |
|---|---|---|
| SDK (`client.ts`) | none but a subscription's cursor | a lost answer is retried; events and proposals come while they are read, and proposals go |
| Screens that fetch (`frontend/src/components`, `mobile/src/screens`) | what is shown, questions under way | answers to an earlier key arrive late |
| Send-money flow, buttons on the contract | form, confirmations, optimistic status | an answer is lost after the payment went through |
| Wallet session, status tracker, history, address book, error boundary | storage, socket and timers, address of the page | another tab, a switched account, a session past its time, a timer that was overwritten, two vocabularies of statuses |

### Interactions

The contract's switches (roles, registration, blacklist, KYC, pause, migration) are read by the
remittance entry points and only refuse calls. Fees and remittances share the balance and the
accumulated-fee counter. Governance, multisig, circuit breaker and direct entry points all write
the same admin set, paused flag and fee rate: `Control` composes them. The SEP-24 poll is one of
the scheduler's jobs and cancels remittances on chain: `Sep24` composes it with the job's lock,
the anchor's notifications and the chain. The KYC services write the contract's flag, the verifier
the contract's asset record: each module has that record as part of its state. The remaining
components call each other without sharing state that both write; they are composed one at a
time (`EachPart`, `Parts`).

## 2. Modules

### The contract

`Remittance` holds the fee arithmetic as pure operators and models every entry point of the
lifecycle but disputes. `rem` is the map of records, `disbursed` the partial-disbursement
entries, `settled` the settlement hashes, `held` the contract's token balances, `accumulated`
the fee counter, `processing` and `completed` the volume counters. `flow` is a history variable: it
says where the money of each id went, and no guard reads it. The switches are elements of one
set `bars`; every guard that reads one appears in the entry point that has it in the code, and is
missing where the code does not look (cancel, the sweep and mark_failed work while paused).
`ConfirmPartialPayout` and `ConfirmLastPartialPayout` are the two outcomes of one entry point.
A transfer the token contract would refuse for lack of balance rolls the call back: it is a
guard on `held`. `EscrowPromise` is the abstract specification of one deposit (opened once,
given out within the deposit, closed once); `KeepsPromise` states that `Remittance` implements it.

`SendLimits` holds what creations leave behind besides remittances: `transfers` of each sender, as a
set of records (`nr` tells apart those that say the same; only their sum is asked for), pruned to the
window with every creation, `limits` per country, `record` under each key and `keyOf`
each remittance. The order in the code matters and is kept: a creation counts before its key is
looked up, so a repeated one counts again; every remittance keeps its key, so its end removes
whatever record the key has by then (`struck` is the history of that). Of a remittance's end only
whether it clears the key is here. Whether the rest of a creation succeeds is for `Remittance`.

`AdminCouncil`, `CircuitBreaker`, `Governance` and `MultiSig` extend one another, and `Control`
joins their actions into one Next. `admins` is the set of flagged addresses, `roleAdmins` of
those with the Admin role (both exist in the code and diverge), `adminCount` the stored counter,
`legacy` the single-admin storage. Votes are kept by pause sequence; `pause` and `executions` are
history. The effect of a proposal or operation runs inside the action that executes it. Actions
on settings no modelled component reads are one kind, "Other", without effect.

### Backend and API

Every statement, HTTP request and timer is a step of its own, because at each of them the event
loop may go on with another handler; between two of them a handler runs undisturbed and is one
action. A statement that fails has had no effect.

| Module | State, as in the code | Steps |
|---|---|---|
| `WebhookDelivery` | `row` and `order` are `webhook_deliveries`, `deadLetters` a count; each of `Runs` is one `dispatch` or `retryPendingDeliveries` in hand: the list it still works through and the await it stands at | take up, insert, POST, record, back off, bury; crash, failed statement, unregister, rows growing seven days old; over either store |
| `Sep24` | `stage`, `holder`, `jobRun` of a job; `row` of each flow, `anchor` and `mail`, `poll` of each instance with the snapshot it works through, `chain` | tick, lock, run, release; initiate, poll, answer, stall, cancel on chain, refund, notification; lost session, crash |
| `InboundWebhooks` | `nonces`, `status`, what each handler has in hand and read, the log | gate, record nonce, verify, read, lock and write, dispute in two statements, answer; repetition, restart |
| `Kyc`, `AgentKyc` | one user's rows in either schema, the contract's flag, workers under way; one agent's row and the anchor's verdict | poll, notice, upsert, registration on chain, expiry, guard; submit, sync, review |
| `AdminApi` | `action`, `letter`, requests at the await they stand at; administrators are the names requests give, all under one key | request, read and check, update, log and answer, expire, purge, simulate, replay |
| `Migrations` | `records`, `inForce`, `instance` | start, run, record, fail, serve, roll back; crash |
| `FxRates` | cache, shared fetch, failover's last rate, followers, kept rates | get, answer, refresh, clear, broadcast, store |
| `SubscriberDelivery` | subscriber's secrets, the row, senders, what the subscriber knows | enqueue, send, succeed, fail, sweep, rotate, forget the old secret |
| `WebhookRegistry` | `sub`, callers past the limit, what was heard | check, insert, end, announce |
| `RemittanceUpdates`, `Pages`, `AnchorDirectory` | a row with its updates and a watcher; a list, its rows' times and a client's place; the directory and a client's cursor | read, check, write, announce, join; insert, next page |
| `AssetVerification`, `Compliance`, `AnchorHealth` | row, cache, contract record, job and requests; thresholds and flags; the probe, the kept checks and a report under way | verify, report, re-verify, tell the contract; create, look up, flag; probe, trickle, go quiet, time out, save, report |
| `SecretCache`, `AuthTokens`, `Ramp` | entries with their stamps and the store's value; tokens the server takes and the browser's cookie; handlers and notices | read, rotate, hook; sign in, refresh, log out; receive, hand out, answer |
| `SettlementPreview` | the batch, the API's sums per pair | the API's one pass, a remittance at a time, against the contract's sums per pair |

### SDK and clients

| Module | What it models |
|---|---|
| `SdkWrites` | prepare, sign, send with the write policy, poll with the read policy, over one account's sequence numbers; the network applies a transaction whose number is next |
| `SdkProposals`, `SdkEvents` | a scan over proposals that are made, decided and deleted meanwhile; a subscription that pages through growing events, of which some have no number where it reads one |
| `Screens` | the pattern all fetching components follow, as a record of the six choices in which they differ, and that record for every component |
| `SendFlow`, `ChainButtons` | the confirmation of a payment in both clients, and in a web flow given nothing to pay with; the buttons on a remittance, shown before the ledger has decided |
| `WalletSession`, `StatusTracker`, `HistoryScreen`, `AddressBook`, `ErrorBoundary` | one component each, with the effects React runs after a render as part of the event that caused them; the tracker's statuses are words of the API or of the component; tabs share the wallet's session and the book |

`Parts` composes the components of the backend, the SDK and the clients that work by themselves,
which `EachPart` instantiates: `part` says which one a behaviour is of, its variables stand in `x1` to
`x14` in the order in which it declares them, its actions are those of its module by INSTANCE. So
one run checks them all, at the cost of the sum of their states and not of the product, and one
theorem can speak of several. `MCRemittance` and `MCParts` hold the constants of instances.

## 3. Runs and bounds

All runs end within about two minutes with two workers. Deadlock checking is off: a bounded
instance stops when its ids, its faults or its time are used up, and the system itself may receive
no call for ever.

| Run | Question | Bounds and why they are enough |
|---|---|---|
| `remittance_tokens` | one outcome per deposit, final, volumes match, `EscrowPromise` implemented | 2 remittances, so one can be paid from the other's deposit; 2 tokens, so refunds in the wrong token occur; partial amounts 40 and 55 add up to the net of 95; MaxFees 8 < 2 fees of 5, so a flush happens; 1 tick, so expiry happens; a switch of each sort |
| `remittance_fees` | payee within the deposit, exact split, while fees change | two platform rates, a token rate, two protocol rates, three strategies; partial amounts of 40 to 55 reach every net payout |
| `remittance_netting` | netting next to the other payouts | two parties who send to each other, 3 remittances of 60: a batch in which 2 oppose 1, and one left outside; 2 tokens, so one token's refunds and fees are paid from the other's deposits |
| `control_governance` | where count, legacy admin and quorum come apart; proposals execute once; the fee guard | 2 addresses, 2 proposals of any kind; time stands still with timelock and time-to-live 0: a proposal may be expired or executed at once, which is the race |
| `control_pause` | votes and timelock end the pause they belong to; operations need their threshold | 2 recorded pauses, so stale votes exist; quorum 1 or 2, timelock 0 or 1, 2 ticks; one operation of each type |
| `webhook_races` | duplicates and wrong dead letters only from overlapping runs, crashes and failed statements; settled stays settled; what a run has in hand ends | one event, 2 subscribers, so a run has one delivery in hand and one to come; 2 runs at a time; MaxRetries 2, so every comparison with the maximum has both outcomes; sweeps of 2 rows, which PostgreSQL's cannot read; both stores; one subscriber that may trickle or leave; one fault |
| `sep24_ends` | one instance at work, closed flows change only late, every flow ends | 1 flow, 2 instances, 2 notifications, 1 fault (crash, lost session, failed call); flows do not write each other's rows, the lock is what they share |
| `components` | the safety of every other component | per component two overlapping requests (three steps of one already interleave with all of another), one fault, and counters of 2 to 4 so that each limit is met and passed once; the constants stand in `Components.cfg` and `MCParts`. Overlapping requests are interchangeable: symmetry. For `SendLimits`: window and time-to-live of 2 ticks up to tick 4, a limit of 2 for single amounts, 3 remittances to two countries, one key |
| `ends` | what must happen: checks of silent anchors end, polling brings a transaction's end, readable events reach their callback | 2 anchors; 2 statuses before the end and 2 ends, of which the component knows one, and 2 requests; 3 events in pages of 2 |
| `pending_backed`, `duplicate`, `emitted` | findings: what a test or comment says and the code does not do | one violated property each, section 6 |

The names of the grouped properties of `components` stand for the properties of the modules, which
are stated and explained there; the comment above each group says which.

## 4. Fairness

Nothing obliges anyone to call the contract, so its models assume none and only safety is checked.
Liveness is checked where the code itself schedules the next step:

- `WebhookDelivery`: weak fairness of each run's next step (a silent POST has a timeout, the backoff is a
  timer, a statement returns or fails), but not while the run stands at a webhook of `Slow`: the timeout
  is of an idle socket, and an answer may trickle for ever. None of the sweep, which nothing in the
  program calls; none of dispatches or of subscribers' answers.
- `Sep24`: weak fairness of a tick once begun, of some instance's beginning one (cron), and of time.
  Nothing of the anchor, of notifications or users. `EveryFlowEnds` excepts a poll that waits for a
  dropped transaction for ever, which the code does.
- `AnchorHealth`: weak fairness of the timeout while the socket is quiet, and of the row's being saved or
  refused. That an answer which trickles ends or goes quiet is not assumed, so `EveryCheckEnds` excepts
  it. `StatusTracker`: the interval ticks, and of its requests one is answered now and then (one that
  hangs does not keep the next from being sent). `SdkEvents`: the subscription's loop goes on, and
  `getEvents` does not fail for ever.

Crashes and failures are bounded in number, not in time.

## 5. Proofs

Assumptions are those of the modules (`...Assumption`): types and ranges the code validates, and that
there are finitely many addresses. Nothing is assumed about how many senders, tokens, remittances,
proposals, events, runs, handlers or requests there are (only that there are finitely many where
they are counted). The proofs about the contract and about the components of `Parts` have modules of
their own, the others stand behind the properties they prove.

**`RemittanceProofs`**: `TypeCorrectness`, `RefundsExcludeSettlement`, `PayeeStaysWithinDeposit`,
`ExactSplitWithoutPartialPayouts`, `SettlementHashExact`, `ClosedStaysClosed`, `VolumesAlwaysMatch`,
`ShortfallAlwaysExplained`, and `ImplementsPromise`, the refinement of `EscrowPromise`. The inductive
invariant `IInv` is the types, and for each remittance a relation between its record and its `flow`
that depends on its status: a pending one has moved nothing, a processing one has given exactly
`disbursed`, no more than its deposit, a completed one has its hash. The safety properties alone are not
inductive: that the payee stays within the deposit at the *last* partial payout needs that what was
given before is what `disbursed` counts, and that the amount of an open remittance is still its deposit.
Each action has a lemma that it preserves `IInv`. The volumes and the shortfall are sums over sets of
remittances that a step moves members between: `FiniteSums` says what a sum over a set with one member
more, less or changed is, each action says which members it moves, and the shortfall adds up what its
tokens get and give. `FeeAtLeastMinFee`, `DiscountNeverRaisesFee` and `BreakdownSplitsAmount` are about
the fee arithmetic.

**`ControlProofs`**: `ControlTypeCorrectness`, `VoteCountsAreExact`, `RecordedPausesEarnTheirEnd`,
`FeeGuardIsExact`, `ProposalsExecuteOnce`, `ApprovedOperationsExecute`, `GovernanceNeverLosesItsQuorum`,
`LegacySeatIsKept`, `AdminCountDriftsAreKnown`. Here `IInv` has one part per component and three facts
without which they are not inductive. `ActiveWasRecorded`: the active pause sequence is one already given
out, otherwise a vote could wait under a number still to come. `RecordIsOfThisPause`: while a recorded
pause lasts, the votes and the time under its number are its own. `NothingUnderIdsToCome`: no vote or
execution is stored under a proposal id not yet given out, although `cleanup` leaves votes behind. The
components write each other's state in few places, so each component's step has a lemma and the rest
is by frame lemmas.

**`Sep24`**: `OneAtWork` from `LockIsHeld` (as long as no session was lost, an instance in the middle of a
tick is the one that holds the lock), and `ClosedFlowsStay` from `ReadWasOpen` (what a poll has read was
open then, and it stands at a row when it waits for an answer about one).

**`WebhookDelivery`**: `SettledForGood`, `NoSecondDelivery`, `OneDeadLetter`, `WebhooksTyped`. `BaseInv` gives
types, and says that whatever is recorded or in hand belongs to an event already dispatched. The
difficulty is that a row and the runs that hold it change in different steps. `HandsFollow` says how a
run's list may change in one step, whichever it is (it goes on, drops the head, or takes up a new list
when idle); `SentInv` follows from it: rows are inserted once, and a delivery not sent yet is in the list
of the dispatch that will send it. `OutcomeInv` ties, for a delivery that was never in two hands,
acceptance, dead letters and row together at each await. `AttemptsInv` bounds the attempts: in PostgreSQL
a pending row has an attempt left, and so has a run in its backoff, so no stale attempt leads past
`maxRetries`. In memory there is no such bound: a sweep reads the attempt from the row when it comes to
the delivery, and a run that writes its own low attempt late makes a spent row due again. With three
runs and three retries TLC reaches a sixth attempt; `TypeOK` says only that attempts are numbers there.

**`InboundWebhooks`**: `FinalIsKept` from `HandlersInv` (a handler past its first read of a dispute saw the
status a dispute may change), `TakenUpOnce` from `LogInv` and `CountInv` (whoever is between the nonce and
the log has its nonce stored and is alone with its event, and what is counted is what was logged), and
`HistoriesArePaths` from `PathInv` (the last status of a history is the row's, which a handler under the
row lock has read).

**`EachPart` and `Parts`** prove the properties of `Parts`. Each component has an inductive invariant
`IInv` in its own module, checked by TLC before it was proved (of `InboundWebhooks` and `AdminApi` the
parts are named apart); a section of `EachPart`, or of `Parts` for nine of them, shows that it holds at
the beginning and is kept by every action, in the component's definitions and with its variables by
their places. A lemma of `Parts` combines the sections of the components a property speaks of, and the
theorem follows from it. The operators on finite sets that a component's definitions use are, under
the names its INSTANCE gives them, those of the library: a lemma `SetsOf...` says so, and makes the
library's theorems and those of `FiniteSums` apply.

| Theorem | Components, and what their inductive invariants add to the property |
|---|---|
| `CreationsAlwaysGuarded` | `SendLimits`: what is counted for a sender is what it sent or repeated not only within the window that ends now, but within every window that ends later (as time passes, both lose the same); a record counted is older than the next; an open remittance has its key, and its record unless another one's end struck it or its time is over; a record is of a remittance made under its key. `LimitHolds` alone is not inductive: the limit is held against what is counted, and a record pruned now must never be asked for again |
| `NoticesAlwaysHandledOnce` | `InboundWebhooks`, above |
| `KycAlwaysHoldsTogether`, `DecisionsAlwaysStand` | `Kyc`: a worker is at one row, which was not rejected when it read it; one that is alone in sending a decision sends the last; where the upserts' columns are, they alone write. `AgentKyc`: data in hand was submitted, an approval in hand was heard of the anchor |
| `AdminStepsAlwaysHold` | `AdminApi`: a name past the checks of confirm did not initiate the action, and the row is what it was then, or is purged; a name on the row was told so, is about to be, or something failed; replays of a letter are at most what it received, failures and requests in hand included; `Migrations`: an instance that records a failure has the file before it |
| `RatesAlwaysHoldTogether` | `FxRates`: the requests that joined a fetch are counted, a rate is kept before it is cached, the cache holds nothing or the latest rate |
| `SubscribersAlwaysServed` | `SubscriberDelivery`: a sender has an attempt left, and signs with a secret the subscriber knows unless it missed one; `WebhookRegistry`: registrations past the limit count as well; `RemittanceUpdates`: what is to be written is a transition from what was read, and whoever is to announce the present status has it in hand; `Ramp`: while a request has no answer, those called for its notice and no longer at it have seen it through |
| `CredentialsAlwaysRotate` | `SecretCache`: every copy in hand was the secret when it was asked for; `AuthTokens`: a token the server takes was not exchanged; without an excuse one request is under way at most, and carries a token the server takes |
| `AlwaysPaidAsConfirmed` | `SendFlow`: one try at a time, which waits instead of paying only in a flow that cannot pay; every payment is accounted for; the steps behind the present one hold what their checks let pass, which in the app is more than good values; `ChainButtons`: a press under way is of a button with an outcome |
| `ChecksAlwaysStand` | `AssetVerification`: where the row needs a mark or the contract a word, a worker is at it, and reports in hand and in rows written back are among those made; `Compliance`: a due remittance reaches a threshold in force; `AnchorHealth`: a report no probe crossed has read what the rows still say |
| `CallsAlwaysWhole` | `SdkWrites`: the transactions made for a request, with one still to be built, are no more than its preparations; `SdkProposals`: identifiers follow one another, deleted ones included, and a scan has found the steady proposals below the next it asks for, where it stops at the first gap; `SdkEvents`: the page in hand follows the cursor, behind which every call was, whether a page is read to its end or abandoned at an event that cannot be read |
| `LateAnswersAreGuardedAgainst` | `Screens`: unless the timer runs, the last question is about the present key, and its answer no older than the component's own last change |
| `ScreensAlwaysShowWhatHolds` | `Screens`, as above; `HistoryScreen`: the address has the filter and the page shown, and the search, or one brought back that is still to be taken over; `AddressBook`, `WalletSession`: the properties themselves, with types (whatever another tab, an older restoration or an effect run again does to the stored session is recorded until the page's next own change); `StatusTracker`: a timer is lost sight of only where that is recorded, and otherwise a status that is terminal in the component's own words leaves no socket and no timer; `ErrorBoundary`: without a late answer the flag is about the error of the state |
| `ReadersAlwaysMissNothing` | `Pages`: by cursor, what was received stands before the cursor, and what is owed was received or stands behind it; by number of rows, a row still owed has as many newer ones as were skipped (whatever comes in, this number never falls, and a purge takes the oldest rows), and in a list that did not grow what was received is among the rows skipped, with all as new. `AnchorDirectory`: what was given stands up to the cursor, and what stood throughout and stands there was given. `SettlementPreview`: the API's sums are the contract's for each pair that had a pending remittance, and there is no other pair |
| `PartsAlwaysTyped` | all of them: the types are part of what each keeps, or follow from it |

**`FiniteSums`**: what the sum of a function over a finite set is when a member comes, goes or changes,
that it grows with the set and with its terms, that the sum over a part of what is sent is no more than
the whole, and that the sums of the classes of a set make up the sum of the set. The deposits, volumes
and limits of the contract and the preview of a settlement rest on it. The sum is a fold, so this is
proved by an induction over the cardinality of the set. Likewise of places: in a strict order of a finite
set the number of the elements before one is its place, the places are the numbers from 0, each taken
once and in the order of the elements, and as many elements have a place between two numbers as there
are numbers between them. Pages and the directory's listing are stated by places, so no list is sorted
in the model.

Every safety and every action property of the passing runs is stated by a theorem. Only model-checked, being out of the
prover's reach: liveness under fairness and ENABLED (`EveryDeliveryEnds`, `EveryFlowEnds` and the run
`ends`), and what a recursive definition computes for every input.

## 6. What the models found

With a run that shows it:

1. After a partial payout, `mark_failed` refunds the whole amount: the difference comes out of other
   senders' deposits (`pending_backed`). `ShortfallExplained` states how much may be missing and why.
2. The nonce of an anchor's notice is stored before the notice is processed, so a notice whose
   processing failed is acknowledged as a duplicate when it is repeated (`duplicate`).
3. The SDK reads the second topic of every event as a number, after it has moved its cursor there. The
   contract's topics are symbols, so no created, completed or cancelled event reaches a callback
   (`emitted`). `EveryReadableCalled` states what holds of the others.

Stated by the exceptions of a property that holds, each with its quotation in `PROJECT.json`:

4. `update_fee` does not touch the rate `initialize` stored for USDC, which creation prefers.
5. Netting leaves the offset part of the deposits in the contract, owed to nobody.
6. `accept_admin` by an address that already is an admin loses one admin without counting it, after
   which `remove_admin` removes the last (`CountDriftsOnlyThere`).
7. A multi-signature pause is not recorded: timelock and votes of another pause, or none, end it
   (`RecordedPauseEarnsItsEnd`).
8. The end of a remittance removes the idempotency record of a newer one under the same key
   (`RetryMakesNoSecond`).
9. The transfer guard refuses a user with any expired approval (`GuardAgreesWithChain`); `drain` waits for
   dispatches only; the SDK's `getActiveProposals` finds nothing from its default offset and
   nothing behind a deleted proposal (`ScanFindsSteady`); the audit-log export repeats and skips rows, and the remittance cursor skips rows of one
   millisecond (`PagesCoverOnce`).
10. Nothing in the program calls the retry sweep of `webhooks/dispatcher.ts` (only an example does), and in
   PostgreSQL it could not read a row: `JSON.parse` of a JSONB column throws. A delivery left pending by a
   crash stays pending (`EveryDeliveryEnds`).
11. `confirm` throws when its audit row fails, although the action is confirmed by then (`TwoNames`).

No contradiction of a document, but worth knowing:

- A repeated creation that is answered with the earlier remittance counts against the daily limit
  again. `set_idempotency_ttl` has no entry point. The last partial payout and netting leave the key.
- An admin that removes itself stays the legacy admin. The dispute path needs a Failed remittance, and
  `mark_failed` leaves a Cancelled one.
- The retry sweep, where it is called, takes up deliveries whose retry is only backing off; rows of
  unregistered webhooks can fill its limit. In Postgres the URL of an ended registration stays taken.
- A subscriber whose answer trickles keeps the dispatch's other subscribers waiting, and an anchor that does
  keeps the health job's lock: both timeouts are of a silent socket.
- The two administrators of a confirmation are names in requests under one key: `TwoNames` is about names.
- `cancelRemittanceOnChain` asks for a dropped transaction for ever and keeps the job's lock; it signs as
  admin, while the contract asks for the sender. A response cut in its middle never settles a probe.
- Nothing calls the purges of nonces and logs, or `retryPendingDeliveries` of the older dispatcher, or
  `initializeSecretRotation`. The branch that serves a stale rate is never reached; a rate kept by the
  failover is stored as new.
- An anchor without a check in 24 hours is reported up 100 %. Compliance holds every amount against the
  USD thresholds. The slower of two overlapping refreshes clears the cookie the faster one set.
- A transaction the API calls refunded, expired or error is polled for ever: the tracker's terminal words
  are completed, failed and cancelled.
- In the clients: the app confirms an amount such as ".", which it cannot read; the web flow without a key
  and without a caller's confirmation reports success and pays nothing; a wallet session past its time is
  removed while the page stays connected; an expired quote does not block the confirmation, the mobile
  Back works while a confirmation is under way, a late report marks a later error as reported, opening a
  paged address shows page 1.

## 7. Not modelled

Numbers are integers: amounts stay below the i128 range, where checked arithmetic reverts the call.
`SettlementPreview` has the contract's side only as the sums that `netting.rs` comes to.

- *Disputes* of the contract: reachable only from a Failed remittance, which only imported state has.
- *Escrow of transfers* (`create_escrow` and its sweep): a second escrow next to the remittances, with the
  one-outcome question `Remittance` asks already.
- *Corridor and agent caps*: `check_and_increment_corridor_volume` and `check_and_record_agent_withdrawal` are called
  and defined nowhere; what they do cannot be told. *Rate windows* (`rate_limit.rs`, `abuse_protection.rs`) may
  only refuse a call, and every call of the models may simply not happen.
- *Migration and upgrade* of the contract: the correctness of an export is its digest's; an ongoing
  migration is a switch of `Remittance`. *Digests, events, views*: without state.
- *execute_transaction* of the transaction controller with its retry records; its checks are guards.
- *Sender rooms* (`websocket-subscription.ts`), `settlement-cache.ts`, the API's own `idempotency.ts` and
  `services/webhook.ts`: nothing but tests reaches them.
- *Read-only routes*, exports but the paged ones, notifications, metrics, tracing, e-mail: no state another
  part reads. *Navigation, layout, Storybook variants*, a form without a contract call.
- *Deployment, scripts, fuzzing, benchmarks*: no program logic of the system.
