------------------------------ MODULE EachPart ------------------------------
(***************************************************************************)
(* The components that work by themselves, of the contract, the backend,   *)
(* the API, the SDK and the web client: each with the places of its        *)
(* variables, and what is proved of it for any values of the constants.    *)
(*                                                                         *)
(* The variables of a component stand in x1 to x14, in the order in which  *)
(* it declares them.  Constants that two components declare under one name *)
(* have one value here, but for those an INSTANCE renames.                 *)
(*                                                                         *)
(* The proofs.  Each component has a section: its inductive invariant IInv *)
(* holds at the beginning and every step keeps it.  The section speaks of  *)
(* the component's own definitions, and of its variables by their places;  *)
(* it begins with what stands there.                                       *)
(***************************************************************************)
EXTENDS Integers, FiniteSums, SequenceTheorems, WellFoundedInduction, TLAPS

CONSTANTS
    Procs,      \* processes, requests or tabs at work at a time
    \* SendLimits
    Senders, RetryKeys, SentAmounts, Countries, LimitsOfADay, Window, MaxBatch, MaxMade,
    MaxRetries, MaxLedgerTime,
    \* InboundWebhooks
    Events, Deposits, Withdrawals, MaxSends, MaxFaults,
    \* Kyc
    KycAnchors, MaxVerified, MaxPushes,
    \* AgentKyc
    MaxSubmissions,
    \* AdminApi
    AdminNames, Actions, Letters,
    \* Migrations
    Files, Instances, Failing, Reversible, MaxStarts, MaxCrashes,
    \* FxRates
    Clients, MaxQuotes, MaxClears,
    \* SubscriberDelivery
    MaxAttempts, MaxDispatches, MaxSecrets, SweepRuns,
    \* WebhookRegistry
    Urls, EventKinds, WebhookLimit,
    \* RemittanceUpdates
    MaxUpdates,
    \* AssetVerification
    Evidence, MaxReports, MaxChecks,
    \* SecretCache
    Readers, Checks, Ttl, MaxCacheTime, MaxChanges,
    \* AuthTokens
    MaxTokens,
    \* Compliance
    Created, Corridors, Amounts,
    \* Ramp
    Registered, RampNotices, HookHandlers,
    \* AnchorHealth
    AnchorCount, Kept,
    \* SdkWrites
    WriteRetries, ReadRetries, MaxSeq, MaxPrepares,
    \* SdkProposals
    MaxProposals, FirstId, ScanLimit,
    \* Screens
    Keys, MaxAsks, MaxVersion,
    \* SendFlow
    MaxTries, MaxFormEdits,
    \* WalletSession
    Accounts, MaxSwitches,
    \* ChainButtons
    MaxPresses,
    \* HistoryScreen
    MaxHistoryPages, FirstPage, MaxEntries, MaxShrinks,
    \* AddressBook
    MaxBookEdits,
    \* ErrorBoundary
    MaxErrors,
    \* StatusTracker
    LastStatus, MaxReconnects, MaxSockets, MaxLost,
    \* SdkEvents
    MaxEvents, PageSize, HasCursor,
    \* Pages
    Listings, RowIds, FineStep, MaxInstant, PageLimit, MaxPages,
    \* AnchorDirectory
    ListedAnchors, DependentTables, MaxDirectoryEdits,
    \* SettlementPreview
    Parties, PreviewStatuses, MaxPreviewed

VARIABLES x1, x2, x3, x4, x5, x6, x7, x8, x9, x10, x11, x12, x13, x14

-----------------------------------------------------------------------------
(***************************************************************************)
(* SendLimits: x1 now, x2 limits, x3 transfers, x4 record, x5 keyOf,       *)
(* x6 made, x7 retried, x8 struck.                                         *)
(***************************************************************************)
Limits == INSTANCE SendLimits WITH Keys <- RetryKeys, Amounts <- SentAmounts,
    Limits <- LimitsOfADay, MaxTime <- MaxLedgerTime, now <- x1, limits <- x2,
    transfers <- x3, record <- x4, keyOf <- x5, made <- x6, retried <- x7, struck <- x8

\* The operators on finite sets are those of the library.
LEMMA SetsOfLimits ==
    /\ \A S : Limits!Cardinality(S) = Cardinality(S)
    /\ \A S : Limits!IsFiniteSet(S) <=> IsFiniteSet(S)
    /\ \A f, S : Limits!SumFunctionOnSet(f, S) = SumFunctionOnSet(f, S)
BY DEF Cardinality, IsFiniteSet, SumFunctionOnSet, FoldFunctionOnSet, MapThenFoldSet,
   Limits!Cardinality, Limits!IsFiniteSet, Limits!SumFunctionOnSet, Limits!FoldFunctionOnSet,
   Limits!MapThenFoldSet

-----------------------------------------------------------------------------
(***************************************************************************)
(* The proofs.  First the sums: what is added to a list, or to the records *)
(* of a sender, is added to the sums that it counts in.                    *)
(***************************************************************************)
LEMMA SumOfZeros ==
    ASSUME NEW S, Limits!IsFiniteSet(S), NEW f, \A x \in S : f[x] = 0
    PROVE  Limits!SumFunctionOnSet(f, S) = 0
<1>1. {} \in SUBSET S /\ \A x \in S : f[x] \in Int /\ f[x] = IF x \in {} THEN f[x] ELSE 0
    OBVIOUS
<1>2. Limits!SumFunctionOnSet(f, {}) = Limits!SumFunctionOnSet(f, S)
    BY <1>1, SumOfPart, SetsOfLimits
<1> QED
    BY <1>2, SumEmpty, SetsOfLimits

LEMMA SumOfOne ==
    ASSUME NEW f, NEW x, f[x] \in Int
    PROVE  Limits!SumFunctionOnSet(f, {x}) = f[x]
<1> DEFINE none == {}
           one == {x}
<1>1. Limits!IsFiniteSet(none) /\ x \notin none /\ one = none \cup {x}
    BY FS_EmptySet, SetsOfLimits
<1>2. Limits!SumFunctionOnSet(f, none) = 0
    BY SumEmpty, SetsOfLimits
<1>3. \A y \in none \cup {x} : f[y] \in Int
    OBVIOUS
<1> HIDE DEF none
<1>4. Limits!SumFunctionOnSet(f, none \cup {x}) = Limits!SumFunctionOnSet(f, none) + f[x]
    BY <1>1, <1>3, SumAddElement, SetsOfLimits
<1> HIDE DEF one
<1>5. Limits!SumFunctionOnSet(f, one) = f[x]
    BY <1>1, <1>2, <1>4
<1> QED
    BY <1>5 DEF one

LEMMA SumOfFewer ==
    ASSUME NEW S, Limits!IsFiniteSet(S), NEW R \in SUBSET S, NEW f, \A x \in S : f[x] \in Nat
    PROVE  Limits!SumFunctionOnSet(f, R) <= Limits!SumFunctionOnSet(f, S)
<1> DEFINE g == [x \in S |-> IF x \in R THEN f[x] ELSE 0]
<1>1. \A x \in S : f[x] \in Int /\ g[x] \in Int /\ g[x] <= f[x] /\ g[x] = IF x \in R THEN f[x] ELSE 0
    OBVIOUS
<1> HIDE DEF g
<1>2. Limits!SumFunctionOnSet(f, R) = Limits!SumFunctionOnSet(g, S)
    BY <1>1, SumOfPart, SetsOfLimits
<1>3. Limits!SumFunctionOnSet(g, S) <= Limits!SumFunctionOnSet(f, S)
    BY <1>1, SumMonotone, SetsOfLimits
<1> QED
    BY <1>2, <1>3

\* What is sent or answered is a list of these.
Entries(E) == \A e \in E : e.amount \in Nat /\ e.at \in Nat

LEMMA UpToIsFinite == \A k \in Nat : Limits!IsFiniteSet(1..k)
<1> TAKE k \in Nat
<1>1. 1 \in Int /\ k \in Int
    OBVIOUS
<1> QED
    BY <1>1, FS_Interval, SetsOfLimits

LEMMA SumAtNat ==
    ASSUME NEW E, Entries(E), NEW list \in Seq(E), NEW s, NEW c, NEW n
    PROVE  /\ Limits!SumAt(list, s, c, n) \in Nat
           /\ Limits!IsFiniteSet(Limits!SentAt(list, s, c, n)) /\ Limits!SentAt(list, s, c, n) \in SUBSET (1..Len(list))
           /\ \A i \in 1..Len(list) : Limits!AmountsOf(list)[i] \in Nat
<1>1. DOMAIN list = 1..Len(list) /\ Len(list) \in Nat /\ \A i \in 1..Len(list) : list[i] \in E
    OBVIOUS
<1>2. \A i \in 1..Len(list) : Limits!AmountsOf(list)[i] \in Nat
    BY <1>1 DEF Limits!AmountsOf, Entries
<1>3. Limits!SentAt(list, s, c, n) \in SUBSET (1..Len(list))
    BY <1>1 DEF Limits!SentAt
<1>4. Limits!IsFiniteSet(Limits!SentAt(list, s, c, n))
    BY <1>1, <1>3, UpToIsFinite, FS_Subset, SetsOfLimits
<1>5. \A i \in Limits!SentAt(list, s, c, n) : Limits!AmountsOf(list)[i] \in Nat
    BY <1>2, <1>3
<1>6. Limits!SumAt(list, s, c, n) \in Nat
    BY <1>4, <1>5, SumType, SetsOfLimits DEF Limits!SumAt
<1> QED
    BY <1>2, <1>3, <1>4, <1>6

LEMMA SumOfAdded ==
    ASSUME NEW E, Entries(E), NEW list \in Seq(E), NEW new \in Seq(E), NEW s, NEW c, NEW n
    PROVE  Limits!SumAt(list \o new, s, c, n) = Limits!SumAt(list, s, c, n) + Limits!SumAt(new, s, c, n)
<1> DEFINE l == Len(list)
           m == Len(new)
           all == list \o new
           f == Limits!AmountsOf(all)
           g == [i \in 1..(l + m) |-> IF i \in Limits!SentAt(all, s, c, n) THEN f[i] ELSE 0]
           e == [j \in 1..m |-> g[l + j]]
<1>1. /\ l \in Nat /\ m \in Nat /\ all \in Seq(E) /\ Len(all) = l + m
      /\ \A i \in 1..l : all[i] = list[i]
      /\ \A j \in 1..m : all[l + j] = new[j] /\ l + j \in 1..(l + m)
      /\ DOMAIN all = 1..(l + m) /\ DOMAIN list = 1..l /\ DOMAIN new = 1..m
    OBVIOUS
<1> HIDE DEF l, m, all
<1>2. \A i \in 1..(l + m) : f[i] \in Nat /\ Limits!SentAt(all, s, c, n) \in SUBSET (1..(l + m))
    BY <1>1, SumAtNat
<1>3. \A i \in 1..(l + m) : /\ f[i] \in Int /\ g[i] \in Int
                            /\ g[i] = IF i \in Limits!SentAt(all, s, c, n) THEN f[i] ELSE 0
    BY <1>2
<1>4. Limits!IsFiniteSet(1..(l + m)) /\ Limits!IsFiniteSet(1..l) /\ Limits!IsFiniteSet(1..m)
  <2>1. l + m \in Nat
      BY <1>1
  <2> QED
      BY <1>1, <2>1, UpToIsFinite
<1>5. Limits!SumAt(all, s, c, n) = Limits!SumFunctionOnSet(g, 1..(l + m))
  <2> DEFINE S == 1..(l + m)
             R == Limits!SentAt(all, s, c, n)
  <2>1. Limits!IsFiniteSet(S) /\ R \in SUBSET S
        /\ \A x \in S : f[x] \in Int /\ g[x] = IF x \in R THEN f[x] ELSE 0
      BY <1>1, <1>2, <1>3, <1>4, SumAtNat
  <2> HIDE DEF f, g, R, S
  <2>2. Limits!SumFunctionOnSet(f, R) = Limits!SumFunctionOnSet(g, S)
      BY <2>1, SumOfPart, SetsOfLimits
  <2> QED
      BY <2>2 DEF Limits!SumAt, f, R, S
<1>6. \A j \in 1..m : e[j] = g[l + j] /\ e[j] \in Int
    BY <1>1, <1>3
<1>7. Limits!SumFunctionOnSet(g, 1..(l + m)) = Limits!SumFunctionOnSet(g, 1..l) + Limits!SumFunctionOnSet(e, 1..m)
  <2>1. \A i \in 1..(l + m) : g[i] \in Int
      BY <1>3
  <2>2. \A j \in 1..m : e[j] = g[l + j]
      BY <1>6
  <2>3. l \in Nat /\ m \in Nat
      BY <1>1
  <2> HIDE DEF g, e
  <2> QED
      BY <2>1, <2>2, <2>3, SumOfNext, SetsOfLimits
<1>8. Limits!SumFunctionOnSet(g, 1..l) = Limits!SumAt(list, s, c, n)
  <2> DEFINE S == 1..l
             R == Limits!SentAt(list, s, c, n)
             h == Limits!AmountsOf(list)
  <2>1. R \in SUBSET S /\ \A i \in S : h[i] \in Nat
      BY SumAtNat DEF l
  <2>2. \A i \in S : i \in 1..(l + m) /\ (i \in Limits!SentAt(all, s, c, n) <=> i \in R)
      BY <1>1 DEF Limits!SentAt
  <2>3. \A i \in S : f[i] = h[i]
      BY <1>1, <2>2 DEF Limits!AmountsOf
  <2>4. Limits!IsFiniteSet(S) /\ \A x \in S : h[x] \in Int /\ g[x] = IF x \in R THEN h[x] ELSE 0
      BY <1>3, <1>4, <2>1, <2>2, <2>3
  <2> HIDE DEF g, h, R, S
  <2>5. Limits!SumFunctionOnSet(h, R) = Limits!SumFunctionOnSet(g, S)
      BY <2>1, <2>4, SumOfPart, SetsOfLimits
  <2> QED
      BY <2>5 DEF Limits!SumAt, h, R, S
<1>9. Limits!SumFunctionOnSet(e, 1..m) = Limits!SumAt(new, s, c, n)
  <2> DEFINE S == 1..m
             R == Limits!SentAt(new, s, c, n)
             h == Limits!AmountsOf(new)
  <2>1. R \in SUBSET S /\ \A j \in S : h[j] \in Nat
      BY SumAtNat DEF m
  <2>2. \A j \in S : l + j \in 1..(l + m) /\ (l + j \in Limits!SentAt(all, s, c, n) <=> j \in R)
      BY <1>1 DEF Limits!SentAt
  <2>3. \A j \in S : f[l + j] = h[j]
      BY <1>1, <2>2 DEF Limits!AmountsOf
  <2>4. Limits!IsFiniteSet(S) /\ \A x \in S : h[x] \in Int /\ e[x] = IF x \in R THEN h[x] ELSE 0
      BY <1>3, <1>4, <1>6, <2>1, <2>2, <2>3
  <2> HIDE DEF e, h, R, S
  <2>5. Limits!SumFunctionOnSet(h, R) = Limits!SumFunctionOnSet(e, S)
      BY <2>1, <2>4, SumOfPart, SetsOfLimits
  <2> QED
      BY <2>5 DEF Limits!SumAt, h, R, S
<1> QED
    BY <1>5, <1>7, <1>8, <1>9 DEF all

\* The sum over entries that are alike: all of them count, or none.
SentAlike(new, s, c, at) ==
    \A j \in 1..Len(new) : new[j].sender = s /\ new[j].country = c /\ new[j].at = at

LEMMA SumOfNew ==
    ASSUME NEW E, NEW new \in Seq(E), NEW sender, NEW country, NEW at,
           SentAlike(new, sender, country, at)
    PROVE  \A s, c, n : Limits!SumAt(new, s, c, n)
              = IF sender = s /\ country = c /\ at + Window > n
                THEN Limits!SumFunctionOnSet(Limits!AmountsOf(new), 1..Len(new)) ELSE 0
<1> TAKE s, c, n
<1>1. CASE sender = s /\ country = c /\ at + Window > n
  <2>1. Limits!SentAt(new, s, c, n) = 1..Len(new)
      BY <1>1 DEF Limits!SentAt, SentAlike
  <2> QED
      BY <1>1, <2>1 DEF Limits!SumAt
<1>2. CASE ~(sender = s /\ country = c /\ at + Window > n)
  <2>1. Limits!SentAt(new, s, c, n) = {}
      BY <1>2 DEF Limits!SentAt, SentAlike
  <2>2. Limits!SumFunctionOnSet(Limits!AmountsOf(new), {}) = 0
      BY SumEmpty, SetsOfLimits
  <2> QED
      BY <1>2, <2>1, <2>2 DEF Limits!SumAt
<1> QED
    BY <1>1, <1>2

LEMMA TotalInt ==
    ASSUME NEW ts \in SUBSET Limits!Transfer, Limits!IsFiniteSet(ts)
    PROVE  Limits!Total(ts) \in Int
<1>1. \A x \in ts : [y \in ts |-> y.amount][x] \in Int
    BY DEF Limits!Transfer
<1> QED
    BY <1>1, SumType, SetsOfLimits DEF Limits!Total

LEMMA TotalOfMore ==
    ASSUME NEW ts \in SUBSET Limits!Transfer, Limits!IsFiniteSet(ts), NEW t \in Limits!Transfer, t \notin ts
    PROVE  Limits!Total(ts \cup {t}) = Limits!Total(ts) + t.amount
<1> DEFINE more == ts \cup {t}
           f == [x \in more |-> x.amount]
           g == [x \in ts |-> x.amount]
<1>1. \A x \in more : f[x] = x.amount /\ f[x] \in Int
    BY DEF Limits!Transfer
<1>2. \A x \in ts : f[x] = g[x]
    OBVIOUS
<1>3. Limits!Total(more) = Limits!SumFunctionOnSet(f, more) /\ Limits!Total(ts) = Limits!SumFunctionOnSet(g, ts)
    BY DEF Limits!Total
<1> HIDE DEF f, g
<1>4. Limits!SumFunctionOnSet(f, ts) = Limits!SumFunctionOnSet(g, ts)
    BY <1>2, SumCongruence, SetsOfLimits
<1>5. Limits!SumFunctionOnSet(f, ts \cup {t}) = Limits!SumFunctionOnSet(f, ts) + f[t]
    BY <1>1, SumAddElement, SetsOfLimits
<1> QED
    BY <1>1, <1>3, <1>4, <1>5

\* A record that is added counts at the times that its window reaches; what is pruned is
\* past its window at any time from now on.
LEMMA CountedOfMore ==
    ASSUME Limits!TypeOK, Limits!SendLimitsAssumption, Limits!CountedBefore,
           NEW s \in Senders, NEW c \in Countries, NEW amount \in Nat,
           Limits!CountsAgainstLimit(s, c, amount),
           NEW s1 \in Senders, NEW c1 \in Countries, NEW n \in Nat, n >= x1
    PROVE  Limits!Total(Limits!CountedAt(s1, c1, n)') = Limits!Total(Limits!CountedAt(s1, c1, n))
             + IF s = s1 /\ c = c1 /\ x1 + Window > n THEN amount ELSE 0
<1> DEFINE t == [nr |-> Len(x6) + Len(x7), country |-> c, amount |-> amount, at |-> x1]
           ts == x3[s1]
           old == Limits!CountedAt(s1, c1, n)
           new == Limits!CountedAt(s1, c1, n)'
           reached == x1 + Window > n
<1>1. x1 \in Nat /\ Window \in Nat /\ Len(x6) \in Nat /\ Len(x7) \in Nat
    BY DEF Limits!TypeOK, Limits!SendLimitsAssumption
<1>2. t \in Limits!Transfer
    BY <1>1 DEF Limits!Transfer
<1>3. ts \in SUBSET Limits!Transfer /\ Limits!IsFiniteSet(ts) /\ t \notin ts
  <2>1. \A x \in ts : x.nr < Len(x6) + Len(x7)
      BY DEF Limits!CountedBefore
  <2>2. t.nr = Len(x6) + Len(x7) /\ ~(t.nr < Len(x6) + Len(x7))
      BY <1>1
  <2> QED
      BY <2>1, <2>2 DEF Limits!TypeOK, Limits!CountedBefore
<1>4. old \in SUBSET Limits!Transfer /\ Limits!IsFiniteSet(old) /\ t \notin old
  <2>1. old \subseteq ts
      BY DEF Limits!CountedAt
  <2> QED
      BY <1>3, <2>1, FS_Subset, SetsOfLimits
<1>5. x3' = [x3 EXCEPT ![s] = {x \in x3[s] : x.at + Window > x1} \cup {t}]
    BY DEF Limits!CountsAgainstLimit, Limits!Pruned
<1>6. CASE s # s1
  <2>1. x3'[s1] = x3[s1]
      BY <1>5, <1>6 DEF Limits!TypeOK
  <2>2. new = old
      BY <2>1 DEF Limits!CountedAt
  <2>3. Limits!Total(old) \in Int
      BY <1>4, TotalInt
  <2> QED
      BY <1>6, <2>2, <2>3
<1>7. CASE s = s1
  <2>1. x3'[s1] = {x \in ts : x.at + Window > x1} \cup {t}
      BY <1>5, <1>7 DEF Limits!TypeOK
  <2>2. \A x \in ts : x.at + Window > n => x.at + Window > x1
    <3>1. \A x \in ts : x.at \in Nat
        BY <1>3 DEF Limits!Transfer
    <3> QED
        BY <3>1, <1>1
  <2>3. t.at = x1 /\ t.country = c /\ t.amount = amount
      OBVIOUS
  <2> HIDE DEF t
  <2>4. CASE c = c1 /\ reached
    <3>1. new = old \cup {t}
        BY <2>1, <2>2, <2>3, <2>4 DEF Limits!CountedAt
    <3>2. Limits!Total(old \cup {t}) = Limits!Total(old) + t.amount
        BY <1>2, <1>4, TotalOfMore
    <3> QED
        BY <1>7, <2>3, <2>4, <3>1, <3>2
  <2>5. CASE ~(c = c1 /\ reached)
    <3>1. new = old
        BY <2>1, <2>2, <2>3, <2>5 DEF Limits!CountedAt
    <3>2. Limits!Total(old) \in Int
        BY <1>4, TotalInt
    <3> QED
        BY <2>5, <3>1, <3>2
  <2> QED
      BY <2>4, <2>5
<1> QED
    BY <1>6, <1>7
LEMMA EntriesAreCounted == Entries(Limits!Remittance) /\ Entries(Limits!Answer)
BY DEF Entries, Limits!Remittance, Limits!Answer

\* A call that counts an amount, and makes or answers as much.
LEMMA CountedStep ==
    ASSUME Limits!TypeOK, Limits!SendLimitsAssumption, Limits!CountedBefore, Limits!CountedFromNowOn,
           NEW s \in Senders, NEW c \in Countries, NEW amount \in Nat,
           Limits!CountsAgainstLimit(s, c, amount), x1' = x1,
           Len(x6') \in Nat, Len(x7') \in Nat,
           Len(x6') + Len(x7') > Len(x6) + Len(x7),
           \A s1 \in Senders, c1 \in Countries, n \in Nat :
               Limits!SumAt(x6', s1, c1, n) + Limits!SumAt(x7', s1, c1, n)
                 = Limits!SumAt(x6, s1, c1, n) + Limits!SumAt(x7, s1, c1, n)
                   + IF s = s1 /\ c = c1 /\ x1 + Window > n THEN amount ELSE 0
    PROVE  Limits!CountedBefore' /\ Limits!CountedFromNowOn'
<1> DEFINE t == [nr |-> Len(x6) + Len(x7), country |-> c, amount |-> amount, at |-> x1]
<1>1. x1 \in Nat /\ Window \in Nat /\ MaxLedgerTime \in Nat /\ Len(x6) \in Nat /\ Len(x7) \in Nat
    BY DEF Limits!TypeOK, Limits!SendLimitsAssumption
<1>2. x3' = [x3 EXCEPT ![s] = {x \in x3[s] : x.at + Window > x1} \cup {t}]
    BY DEF Limits!CountsAgainstLimit, Limits!Pruned
<1>3. Limits!CountedBefore'
  <2> SUFFICES ASSUME NEW s1 \in Senders
               PROVE  /\ Limits!IsFiniteSet(x3'[s1])
                      /\ \A x \in x3'[s1] : x.nr < Len(x6') + Len(x7')
      BY DEF Limits!CountedBefore
  <2>1. Limits!IsFiniteSet(x3[s1]) /\ \A x \in x3[s1] : x.nr < Len(x6) + Len(x7)
      BY DEF Limits!CountedBefore
  <2>2. \A x \in x3[s1] : x.nr \in Nat
      BY DEF Limits!TypeOK, Limits!Transfer
  <2>3. \A x \in x3[s1] : x.nr < Len(x6') + Len(x7')
      BY <2>1, <2>2, <1>1
  <2>4. t.nr = Len(x6) + Len(x7) /\ t.nr < Len(x6') + Len(x7')
      BY <1>1
  <2> HIDE DEF t
  <2>5. CASE s1 # s
      BY <2>1, <2>3, <2>5, <1>2 DEF Limits!TypeOK
  <2>6. CASE s1 = s
    <3> DEFINE kept == {x \in x3[s] : x.at + Window > x1}
    <3>1. x3'[s1] = kept \cup {t}
        BY <2>6, <1>2 DEF Limits!TypeOK
    <3>2. kept \subseteq x3[s1]
        BY <2>6
    <3>3. Limits!IsFiniteSet(kept)
        BY <2>1, <3>2, FS_Subset, SetsOfLimits
    <3> HIDE DEF kept
    <3>4. Limits!IsFiniteSet(kept \cup {t})
        BY <3>3, FS_AddElement, SetsOfLimits
    <3> QED
        BY <2>3, <2>4, <3>1, <3>2, <3>4
  <2> QED
      BY <2>5, <2>6
<1>4. Limits!CountedFromNowOn'
  <2> SUFFICES ASSUME NEW n \in x1..MaxLedgerTime, NEW s1 \in Senders, NEW c1 \in Countries
               PROVE  Limits!Total(Limits!CountedAt(s1, c1, n)') = Limits!SumAt(x6', s1, c1, n) + Limits!SumAt(x7', s1, c1, n)
      BY DEF Limits!CountedFromNowOn, Limits!SumAt, Limits!SentAt, Limits!AmountsOf,
         Limits!Total
  <2>1. n \in Nat /\ n >= x1
      BY <1>1
  <2>2. Limits!Total(Limits!CountedAt(s1, c1, n)) = Limits!SumAt(x6, s1, c1, n) + Limits!SumAt(x7, s1, c1, n)
      BY DEF Limits!CountedFromNowOn
  <2>3. Limits!Total(Limits!CountedAt(s1, c1, n)') = Limits!Total(Limits!CountedAt(s1, c1, n))
             + IF s = s1 /\ c = c1 /\ x1 + Window > n THEN amount ELSE 0
      BY <2>1, CountedOfMore
  <2> QED
      BY <2>1, <2>2, <2>3
<1> QED
    BY <1>3, <1>4

\* The limit that stood holds for each of the new remittances, and the older ones are as
\* they were.
LEMMA LimitStep ==
    ASSUME Limits!TypeOK, Limits!SendLimitsAssumption, Limits!CountedFromNowOn, Limits!LimitHolds,
           NEW s \in Senders, NEW c \in Countries, NEW amount \in Nat,
           Limits!CountsAgainstLimit(s, c, amount),
           NEW new \in Seq(Limits!Remittance), x6' = x6 \o new,
           \A j \in 1..Len(new) : /\ new[j].sender = s /\ new[j].country = c
                                  /\ new[j].at = x1 /\ new[j].limit = x2[c],
           Limits!SumFunctionOnSet(Limits!AmountsOf(new), 1..Len(new)) = amount
    PROVE  Limits!LimitHolds'
<1> DEFINE l == Len(x6)
           m == Len(new)
<1>1. /\ l \in Nat /\ m \in Nat /\ x6' \in Seq(Limits!Remittance) /\ Len(x6') = l + m
      /\ \A i \in 1..l : x6'[i] = x6[i]
      /\ \A j \in 1..m : x6'[l + j] = new[j] /\ l + j \in 1..(l + m)
      /\ DOMAIN x6' = 1..(l + m) /\ DOMAIN x6 = 1..l
    BY DEF Limits!TypeOK
<1>2. x1 \in Nat /\ x1 \in x1..MaxLedgerTime /\ LimitsOfADay \subseteq Nat /\ Window \in Nat
    BY DEF Limits!TypeOK, Limits!SendLimitsAssumption
<1>3. \A i \in 1..(l + m) : Limits!AmountsOf(x6')[i] = x6'[i].amount /\ Limits!AmountsOf(x6')[i] \in Nat
  <2>1. \A i \in 1..(l + m) : x6'[i] \in Limits!Remittance
      BY <1>1
  <2>2. \A i \in 1..(l + m) : x6'[i].amount \in Nat
      BY <2>1 DEF Limits!Remittance
  <2> QED
      BY <1>1, <2>2 DEF Limits!AmountsOf
<1>4. Limits!SumAt(x6', s, c, x1) <= Limits!SumAt(x6, s, c, x1) + amount
  <2>1. x1 + Window > x1
      BY <1>2 DEF Limits!SendLimitsAssumption
  <2>2. Limits!SumAt(x6, s, c, x1) \in Nat
      BY EntriesAreCounted, SumAtNat DEF Limits!TypeOK
  <2>3. x6 \in Seq(Limits!Remittance) /\ Entries(Limits!Remittance)
      BY EntriesAreCounted DEF Limits!TypeOK
  <2>4. Limits!SumAt(x6', s, c, x1) = Limits!SumAt(x6, s, c, x1) + Limits!SumAt(new, s, c, x1)
      BY <2>3, SumOfAdded
  <2>6. Limits!SumAt(new, s, c, x1) = amount
    <3>1. \A j \in 1..m : new[j].sender = s /\ new[j].country = c /\ new[j].at + Window > x1
        BY <2>1
    <3>2. DOMAIN new = 1..m
        OBVIOUS
    <3>3. Limits!SentAt(new, s, c, x1) = 1..m
        BY <3>1, <3>2 DEF Limits!SentAt
    <3> QED
        BY <3>3 DEF Limits!SumAt
  <2>5. Limits!SumAt(x6', s, c, x1) = Limits!SumAt(x6, s, c, x1) + amount
      BY <2>4, <2>6
  <2> QED
      BY <2>2, <2>5
<1>5. Limits!SumAt(x6, s, c, x1) <= Limits!Total(Limits!Within(x3[s], c)) /\ Limits!SumAt(x6, s, c, x1) \in Nat
      /\ Limits!SumAt(x6', s, c, x1) \in Nat /\ Limits!Total(Limits!Within(x3[s], c)) \in Nat
  <2>1. Limits!Within(x3[s], c) = Limits!CountedAt(s, c, x1)
      BY DEF Limits!Within, Limits!CountedAt
  <2>2. Limits!Total(Limits!CountedAt(s, c, x1)) = Limits!SumAt(x6, s, c, x1) + Limits!SumAt(x7, s, c, x1)
      BY <1>2 DEF Limits!CountedFromNowOn
  <2>3. Limits!SumAt(x6, s, c, x1) \in Nat /\ Limits!SumAt(x7, s, c, x1) \in Nat
        /\ Limits!SumAt(x6', s, c, x1) \in Nat
      BY <1>1, EntriesAreCounted, SumAtNat DEF Limits!TypeOK
  <2> QED
      BY <2>1, <2>2, <2>3
<1>6. \A limit \in x2[c] : Limits!SumAt(x6', s, c, x1) <= limit
  <2> SUFFICES ASSUME NEW limit \in x2[c] PROVE Limits!SumAt(x6', s, c, x1) <= limit
      OBVIOUS
  <2>1. limit \in Nat
      BY <1>2 DEF Limits!TypeOK
  <2>2. Limits!Total(Limits!Within(x3[s], c)) + amount <= limit
      BY DEF Limits!CountsAgainstLimit
  <2> QED
      BY <1>4, <1>5, <2>1, <2>2
<1> SUFFICES ASSUME NEW i \in 1..(l + m), NEW limit \in x6'[i].limit
             PROVE  Limits!SumFunctionOnSet(Limits!AmountsOf(x6'), Limits!SentBefore(i)') <= limit
    BY <1>1 DEF Limits!LimitHolds, Limits!AmountsOf
<1>7. CASE i \in 1..l
  <2>1. Limits!SentBefore(i)' = Limits!SentBefore(i)
      BY <1>1, <1>7 DEF Limits!SentBefore
  <2>2. Limits!SentBefore(i) \in SUBSET (1..l) /\ Limits!IsFiniteSet(Limits!SentBefore(i))
    <3>1. Limits!SentBefore(i) \subseteq 1..l
        BY <1>1, <1>7 DEF Limits!SentBefore
    <3>2. Limits!IsFiniteSet(1..l)
        BY <1>1, UpToIsFinite
    <3> QED
        BY <3>1, <3>2, FS_Subset, SetsOfLimits
  <2>3. \A j \in Limits!SentBefore(i) : Limits!AmountsOf(x6')[j] = Limits!AmountsOf(x6)[j]
      BY <1>1, <2>2 DEF Limits!AmountsOf
  <2>4. Limits!SumFunctionOnSet(Limits!AmountsOf(x6'), Limits!SentBefore(i)) = Limits!SumFunctionOnSet(Limits!AmountsOf(x6), Limits!SentBefore(i))
      BY <2>2, <2>3, SumCongruence, SetsOfLimits
  <2>5. limit \in x6[i].limit /\ i \in DOMAIN x6
      BY <1>1, <1>7
  <2> QED
      BY <2>1, <2>4, <2>5 DEF Limits!LimitHolds
<1>8. CASE i \notin 1..l
  <2> DEFINE sent == Limits!SentAt(x6', s, c, x1)
  <2>1. i - l \in 1..m /\ x6'[i] = new[i - l]
    <3>1. i - l \in 1..m /\ l + (i - l) = i
        BY <1>1, <1>8
    <3> QED
        BY <3>1, <1>1
  <2>2. x6'[i].sender = s /\ x6'[i].country = c /\ x6'[i].at = x1 /\ limit \in x2[c]
      BY <2>1
  <2>3. Limits!SentBefore(i)' \in SUBSET sent
      BY <1>1, <2>2 DEF Limits!SentBefore, Limits!SentAt
  <2>4. Limits!IsFiniteSet(sent) /\ sent \in SUBSET (1..(l + m))
      BY <1>1, EntriesAreCounted, SumAtNat
  <2>5. \A j \in sent : Limits!AmountsOf(x6')[j] \in Nat
      BY <1>3, <2>4
  <2> HIDE DEF sent
  <2>6. Limits!SumFunctionOnSet(Limits!AmountsOf(x6'), Limits!SentBefore(i)') <= Limits!SumFunctionOnSet(Limits!AmountsOf(x6'), sent)
      BY <2>3, <2>4, <2>5, SumOfFewer
  <2>7. Limits!SumFunctionOnSet(Limits!AmountsOf(x6'), Limits!SentBefore(i)') \in Int
    <3>1. \A j \in sent : Limits!AmountsOf(x6')[j] \in Int
        BY <2>5
    <3> QED
        BY <2>3, <2>4, <3>1, SumInt, SetsOfLimits
  <2>8. Limits!SumFunctionOnSet(Limits!AmountsOf(x6'), sent) <= limit
      BY <1>6, <2>2 DEF sent, Limits!SumAt
  <2>9. Limits!SumFunctionOnSet(Limits!AmountsOf(x6'), sent) \in Nat /\ limit \in Nat
      BY <1>2, <1>5, <2>2 DEF sent, Limits!SumAt, Limits!TypeOK
  <2> QED
      BY <2>6, <2>7, <2>8, <2>9
<1> QED
    BY <1>7, <1>8

-----------------------------------------------------------------------------
(***************************************************************************)
(* A call that makes remittances, all of them under one key or none.       *)
(***************************************************************************)
LEMMA Joined ==
    ASSUME NEW E, NEW list \in Seq(E), NEW new \in Seq(E)
    PROVE  /\ list \o new \in Seq(E) /\ Len(list \o new) = Len(list) + Len(new)
           /\ Len(list) \in Nat /\ Len(new) \in Nat
           /\ DOMAIN (list \o new) = 1..(Len(list) + Len(new))
           /\ DOMAIN list = 1..Len(list) /\ DOMAIN new = 1..Len(new)
           /\ \A i \in 1..Len(list) : (list \o new)[i] = list[i]
           /\ \A i \in 1..(Len(list) + Len(new)) : i \notin 1..Len(list) =>
                 i - Len(list) \in 1..Len(new) /\ (list \o new)[i] = new[i - Len(list)]
OBVIOUS

Alike(new, s, c, key) ==
    \A j \in 1..Len(new) :
        /\ new[j].sender = s /\ new[j].country = c /\ new[j].at = x1
        /\ new[j].limit = x2[c] /\ new[j].key = key /\ new[j].end = "open"

\* What such a call does: new is made, and r0 is the record of the key.
MakesUnder(key, new, s, c, keys, r0) ==
    /\ new \in Seq(Limits!Remittance) /\ Len(new) > 0 /\ Alike(new, s, c, key)
    /\ key \in SUBSET RetryKeys /\ (key # {} => Len(new) = 1 /\ r0 \in Limits!Record)
    /\ \A k \in key : Limits!Live(k) = {}
    /\ keys \in Seq(SUBSET RetryKeys) /\ Len(keys) = Len(new) /\ \A j \in 1..Len(new) : keys[j] = key
    /\ r0.id = Len(x6) + 1 /\ r0.expires = x1 + Ttl
    /\ x6' = x6 \o new /\ x5' = x5 \o keys
    /\ x4' = [k \in RetryKeys |-> IF k \in key THEN {r0} ELSE x4[k]]
    /\ UNCHANGED <<x1, x2, x7, x8>>

LEMMA MakeCounts ==
    ASSUME Limits!IInv, Limits!SendLimitsAssumption, NEW s \in Senders, NEW c \in Countries,
           NEW amount \in Nat, Limits!CountsAgainstLimit(s, c, amount),
           NEW key, NEW new, NEW keys, NEW r0, MakesUnder(key, new, s, c, keys, r0),
           Limits!SumFunctionOnSet(Limits!AmountsOf(new), 1..Len(new)) = amount
    PROVE  Limits!CountedBefore' /\ Limits!CountedFromNowOn' /\ Limits!LimitHolds'
<1>0. /\ new \in Seq(Limits!Remittance) /\ Len(new) > 0 /\ Alike(new, s, c, key)
      /\ x6' = x6 \o new /\ x1' = x1 /\ x7' = x7
    BY DEF MakesUnder
<1>1. /\ x6 \in Seq(Limits!Remittance) /\ x7 \in Seq(Limits!Answer) /\ x1 \in Nat
      /\ Entries(Limits!Remittance) /\ Entries(Limits!Answer)
    BY EntriesAreCounted DEF Limits!IInv, Limits!TypeOK, Limits!SendLimitsAssumption
<1>2. Len(x6') = Len(x6) + Len(new) /\ Len(x6) \in Nat /\ Len(new) \in Nat /\ Len(x7) \in Nat
      /\ DOMAIN new = 1..Len(new)
    BY <1>0, <1>1, Joined
<1>3. SentAlike(new, s, c, x1)
    BY <1>0 DEF Alike, SentAlike
<1>4. \A s1, c1, n : Limits!SumAt(new, s1, c1, n)
                     = IF s = s1 /\ c = c1 /\ x1 + Window > n THEN amount ELSE 0
    BY <1>0, <1>3, SumOfNew
<1>5. ASSUME NEW s1 \in Senders, NEW c1 \in Countries, NEW n \in Nat
      PROVE  Limits!SumAt(x6', s1, c1, n) + Limits!SumAt(x7', s1, c1, n)
               = Limits!SumAt(x6, s1, c1, n) + Limits!SumAt(x7, s1, c1, n)
                 + IF s = s1 /\ c = c1 /\ x1 + Window > n THEN amount ELSE 0
  <2>1. Limits!SumAt(x6', s1, c1, n) = Limits!SumAt(x6, s1, c1, n) + Limits!SumAt(new, s1, c1, n)
      BY <1>0, <1>1, SumOfAdded
  <2>2. Limits!SumAt(x6, s1, c1, n) \in Nat /\ Limits!SumAt(x7, s1, c1, n) \in Nat
      BY <1>1, SumAtNat
  <2> QED
      BY <1>0, <1>4, <2>1, <2>2
<1>6. Limits!CountedBefore' /\ Limits!CountedFromNowOn'
  <2>1. Len(x6') + Len(x7') > Len(x6) + Len(x7)
        /\ Len(x6') \in Nat /\ Len(x7') \in Nat
      BY <1>0, <1>2
  <2> QED
      BY <1>0, <1>5, <2>1, CountedStep DEF Limits!IInv
<1>7. Limits!LimitHolds'
  <2>1. \A j \in 1..Len(new) : /\ new[j].sender = s /\ new[j].country = c
                                /\ new[j].at = x1 /\ new[j].limit = x2[c]
      BY <1>0 DEF Alike
  <2> QED
      BY <1>0, <2>1, LimitStep DEF Limits!IInv
<1> QED
    BY <1>6, <1>7

LEMMA MakeKeepsKeys ==
    ASSUME Limits!IInv, Limits!SendLimitsAssumption, NEW key, NEW new, NEW s, NEW c, NEW keys, NEW r0,
           MakesUnder(key, new, s, c, keys, r0)
    PROVE  /\ Limits!RecordsOfTheirKeys' /\ Limits!OpenHasKey' /\ Limits!OpenHasRecord'
           /\ Limits!RetryMakesNoSecond' /\ Limits!KeyOutlivesOnlyQuietEnds'
<1>0. /\ new \in Seq(Limits!Remittance) /\ Len(new) > 0 /\ Alike(new, s, c, key)
      /\ key \in SUBSET RetryKeys /\ (key # {} => Len(new) = 1) /\ (\A k \in key : Limits!Live(k) = {})
      /\ keys \in Seq(SUBSET RetryKeys) /\ Len(keys) = Len(new) /\ (\A j \in 1..Len(new) : keys[j] = key)
      /\ r0.id = Len(x6) + 1 /\ r0.expires = x1 + Ttl
      /\ x6' = x6 \o new /\ x5' = x5 \o keys /\ x1' = x1 /\ x8' = x8
      /\ x4' = [k \in RetryKeys |-> IF k \in key THEN {r0} ELSE x4[k]]
    BY DEF MakesUnder
<1> DEFINE l == Len(x6)
           m == Len(new)
<1>1. /\ l \in Nat /\ m \in Nat /\ m > 0 /\ x1 \in Nat /\ Ttl \in Nat
      /\ DOMAIN x6' = 1..(l + m) /\ DOMAIN x6 = 1..l
      /\ \A i \in 1..l : x6'[i] = x6[i] /\ x6[i].at \in Nat /\ x6[i].key \in SUBSET RetryKeys
      /\ \A i \in 1..(l + m) : i \notin 1..l => i - l \in 1..m /\ x6'[i] = new[i - l]
  <2>1. x6 \in Seq(Limits!Remittance) /\ x1 \in Nat /\ Ttl \in Nat
      BY DEF Limits!IInv, Limits!TypeOK, Limits!SendLimitsAssumption
  <2>2. \A i \in 1..l : x6[i] \in Limits!Remittance
      BY <2>1
  <2>3. \A i \in 1..l : x6[i].at \in Nat /\ x6[i].key \in SUBSET RetryKeys
      BY <2>2 DEF Limits!Remittance
  <2> QED
      BY <1>0, <2>1, <2>3, Joined
<1>2. \A i \in 1..(l + m) : i \notin 1..l =>
          x6'[i].at = x1 /\ x6'[i].key = key /\ x6'[i].end = "open"
  <2>1. \A j \in 1..m : new[j].at = x1 /\ new[j].key = key /\ new[j].end = "open"
      BY <1>0 DEF Alike
  <2> HIDE DEF l, m
  <2> QED
      BY <1>1, <2>1
<1>3. /\ \A i \in 1..l : x5'[i] = x5[i]
      /\ \A i \in 1..(l + m) : i \notin 1..l => x5'[i] = key
  <2>1. x5 \in Seq(SUBSET RetryKeys) /\ Len(x5) = l
      BY DEF Limits!IInv, Limits!TypeOK
  <2>2. /\ \A i \in 1..l : x5'[i] = x5[i]
        /\ \A i \in 1..(l + m) : i \notin 1..l => i - l \in 1..m /\ x5'[i] = keys[i - l]
      BY <1>0, <2>1, Joined
  <2> QED
      BY <1>0, <2>2
<1>4. key # {} => l + m = l + 1 /\ l + 1 \in 1..(l + m) /\ l + 1 \notin 1..l
  <2>1. key # {} => m = 1
      BY <1>0
  <2> HIDE DEF l, m
  <2> QED
      BY <1>0, <1>1, <2>1
<1>5. /\ \A k \in RetryKeys : \A r \in x4[k] :
             r.id \in 1..l /\ k \in x6[r.id].key /\ r.expires = x6[r.id].at + Ttl
      /\ \A k \in RetryKeys : x4'[k] = IF k \in key THEN {r0} ELSE x4[k]
      /\ \A k \in key : \A r \in x4[k] : ~(x1 < r.expires)
    BY <1>0, <1>1 DEF Limits!IInv, Limits!RecordsOfTheirKeys, Limits!Live
<1>6. \A i \in 1..l : x6[i].end = "open" /\ i \notin x8 =>
          \A k \in x6[i].key : (\E r \in x4[k] : r.id = i) \/ x1 >= x6[i].at + Ttl
    BY <1>0, <1>1 DEF Limits!IInv, Limits!OpenHasRecord
<1> HIDE DEF l, m
<1>7. Limits!RecordsOfTheirKeys'
  <2> SUFFICES ASSUME NEW k \in RetryKeys, NEW r \in x4'[k]
               PROVE  /\ r.id \in DOMAIN x6' /\ k \in x6'[r.id].key
                      /\ r.expires = x6'[r.id].at + Ttl
      BY DEF Limits!RecordsOfTheirKeys
  <2>1. CASE k \in key
    <3>1. r = r0 /\ r.id = l + 1 /\ r.expires = x1 + Ttl
        BY <1>0, <1>5, <2>1 DEF l
    <3> QED
        BY <1>0, <1>1, <1>2, <1>4, <2>1, <3>1
  <2>2. CASE k \notin key
    <3>1. r.id \in 1..l /\ k \in x6[r.id].key /\ r.expires = x6[r.id].at + Ttl
        BY <1>0, <1>5, <2>2
    <3> QED
        BY <1>0, <1>1, <3>1
  <2> QED
      BY <1>0, <2>1, <2>2
<1>8. Limits!OpenHasKey'
  <2> SUFFICES ASSUME NEW i \in 1..(l + m), x6'[i].end = "open"
               PROVE  x5'[i] = x6'[i].key
      BY <1>0, <1>1 DEF Limits!OpenHasKey
  <2>1. CASE i \in 1..l
      BY <1>0, <1>1, <1>3, <2>1 DEF Limits!IInv, Limits!OpenHasKey
  <2>2. CASE i \notin 1..l
      BY <1>0, <1>2, <1>3, <2>2
  <2> QED
      BY <1>0, <2>1, <2>2
<1>9. Limits!OpenHasRecord'
  <2> SUFFICES ASSUME NEW i \in 1..(l + m), x6'[i].end = "open", i \notin x8,
                      NEW k \in x6'[i].key
               PROVE  (\E r \in x4'[k] : r.id = i) \/ x1 >= x6'[i].at + Ttl
      BY <1>0, <1>1 DEF Limits!OpenHasRecord
  <2>1. CASE i \in 1..l
    <3>1. x6'[i] = x6[i] /\ k \in RetryKeys
        BY <1>0, <1>1, <2>1
    <3>2. (\E r \in x4[k] : r.id = i) \/ x1 >= x6[i].at + Ttl
        BY <1>0, <1>6, <2>1, <3>1
    <3>3. CASE k \in key
      <4>1. ASSUME NEW r \in x4[k], r.id = i
            PROVE  x1 >= x6[i].at + Ttl
        <5>1. r.expires = x6[i].at + Ttl /\ ~(x1 < r.expires)
            BY <1>0, <1>5, <3>1, <3>3, <4>1
        <5>2. x6[i].at \in Nat
            BY <1>0, <1>1, <2>1
        <5> QED
            BY <1>0, <1>1, <5>1, <5>2
      <4> QED
          BY <1>0, <3>1, <3>2, <4>1
    <3>4. CASE k \notin key
        BY <1>0, <1>5, <3>1, <3>2, <3>4
    <3> QED
        BY <1>0, <3>3, <3>4
  <2>2. CASE i \notin 1..l
    <3>1. k \in key /\ i = l + 1
        BY <1>0, <1>1, <1>2, <1>4, <2>2
    <3>2. r0 \in x4'[k] /\ r0.id = i
        BY <1>0, <1>5, <3>1 DEF l
    <3> QED
        BY <1>0, <3>2
  <2> QED
      BY <1>0, <2>1, <2>2
<1>10. Limits!RetryMakesNoSecond'
  <2> SUFFICES ASSUME NEW i \in 1..(l + m), NEW j \in 1..(l + m), i < j,
                      x6'[i].key # {}, x6'[i].key = x6'[j].key,
                      x6'[i].end = "open", x6'[j].at < x6'[i].at + Ttl
               PROVE  i \in x8
      BY <1>0, <1>1 DEF Limits!RetryMakesNoSecond
  <2>1. CASE j \in 1..l
    <3>1. i \in 1..l
        BY <1>0, <1>1, <2>1
    <3> QED
        BY <1>0, <1>1, <2>1, <3>1 DEF Limits!IInv, Limits!RetryMakesNoSecond
  <2>2. CASE j \notin 1..l
    <3>1. x6'[j].key = key /\ x6'[j].at = x1
        BY <1>0, <1>2, <2>2
    <3>2. i \in 1..l
        BY <1>0, <1>1, <1>4, <3>1
    <3>3. x6[i].key = key /\ x6[i].end = "open" /\ x1 < x6[i].at + Ttl
        BY <1>0, <1>1, <3>1, <3>2
    <3>4. PICK k \in key : TRUE
        BY <1>0, <3>1
    <3>5. SUFFICES ASSUME i \notin x8
                   PROVE  FALSE
        OBVIOUS
    <3>6. ~(x1 >= x6[i].at + Ttl)
        BY <1>0, <1>1, <3>2, <3>3
    <3>7. PICK r \in x4[k] : r.id = i
        BY <1>0, <1>6, <3>2, <3>3, <3>5, <3>6
    <3>8. r.expires = x6[i].at + Ttl /\ ~(x1 < r.expires)
        BY <1>0, <1>5, <3>4, <3>7
    <3> QED
        BY <1>0, <3>3, <3>8
  <2> QED
      BY <1>0, <2>1, <2>2
<1>11. Limits!KeyOutlivesOnlyQuietEnds'
  <2> SUFFICES ASSUME NEW k \in RetryKeys, NEW r \in x4'[k]
               PROVE  x6'[r.id].end # "cleared"
      BY DEF Limits!KeyOutlivesOnlyQuietEnds
  <2>1. CASE k \in key
    <3>1. r.id = l + 1
        BY <1>0, <1>5, <2>1 DEF l
    <3>2. x6'[r.id].end = "open"
        BY <1>0, <1>2, <1>4, <2>1, <3>1
    <3> QED
        BY <1>0, <3>2
  <2>2. CASE k \notin key
    <3>1. r \in x4[k] /\ r.id \in 1..l
        BY <1>0, <1>5, <2>2
    <3> QED
        BY <1>0, <1>1, <3>1 DEF Limits!IInv, Limits!KeyOutlivesOnlyQuietEnds
  <2> QED
      BY <1>0, <2>1, <2>2
<1> QED
    BY <1>0, <1>7, <1>8, <1>9, <1>10, <1>11

LEMMA CountKeepsTypes ==
    ASSUME Limits!TypeOK, Limits!SendLimitsAssumption, NEW s \in Senders, NEW c \in Countries,
           NEW amount \in Nat, Limits!CountsAgainstLimit(s, c, amount)
    PROVE  x3' \in [Senders -> SUBSET Limits!Transfer]
<1> DEFINE t == [nr |-> Len(x6) + Len(x7), country |-> c, amount |-> amount, at |-> x1]
<1>1. t \in Limits!Transfer
  <2>1. x1 \in Nat /\ Len(x6) \in Nat /\ Len(x7) \in Nat
      BY DEF Limits!TypeOK, Limits!SendLimitsAssumption
  <2> QED
      BY <2>1 DEF Limits!Transfer
<1>2. x3' = [x3 EXCEPT ![s] = {x \in x3[s] : x.at + Window > x1} \cup {t}]
    BY DEF Limits!CountsAgainstLimit, Limits!Pruned
<1> HIDE DEF t
<1> QED
    BY <1>1, <1>2 DEF Limits!TypeOK

LEMMA MakeStep ==
    ASSUME Limits!IInv, Limits!SendLimitsAssumption, NEW s \in Senders, NEW c \in Countries,
           NEW amount \in Nat, Limits!CountsAgainstLimit(s, c, amount),
           NEW key, NEW new, NEW keys, NEW r0, MakesUnder(key, new, s, c, keys, r0),
           Limits!SumFunctionOnSet(Limits!AmountsOf(new), 1..Len(new)) = amount
    PROVE  Limits!IInv'
<1>1. Limits!CountedBefore' /\ Limits!CountedFromNowOn' /\ Limits!LimitHolds'
    BY MakeCounts
<1>2. /\ Limits!RecordsOfTheirKeys' /\ Limits!OpenHasKey' /\ Limits!OpenHasRecord'
      /\ Limits!RetryMakesNoSecond' /\ Limits!KeyOutlivesOnlyQuietEnds'
    BY MakeKeepsKeys
<1>3. Limits!TypeOK'
  <2>1. Limits!TypeOK
      BY DEF Limits!IInv
  <2>2. /\ x6' \in Seq(Limits!Remittance) /\ DOMAIN x6 \subseteq DOMAIN x6'
        /\ Len(x6') = Len(x6) + Len(new)
    <3>1. x6 \in Seq(Limits!Remittance) /\ new \in Seq(Limits!Remittance) /\ x6' = x6 \o new
        BY <2>1 DEF Limits!TypeOK, MakesUnder
    <3> QED
        BY <3>1, Joined
  <2>3. x5' \in Seq(SUBSET RetryKeys) /\ Len(x5') = Len(x5) + Len(new)
    <3>1. /\ x5 \in Seq(SUBSET RetryKeys) /\ keys \in Seq(SUBSET RetryKeys)
          /\ x5' = x5 \o keys /\ Len(keys) = Len(new)
        BY <2>1 DEF Limits!TypeOK, MakesUnder
    <3>2. x5 \o keys \in Seq(SUBSET RetryKeys) /\ Len(x5 \o keys) = Len(x5) + Len(keys)
        BY <3>1
    <3> QED
        BY <3>1, <3>2
  <2>4. x4' \in [RetryKeys -> SUBSET Limits!Record]
      BY <2>1 DEF Limits!TypeOK, MakesUnder
  <2>5. x3' \in [Senders -> SUBSET Limits!Transfer]
      BY <2>1, CountKeepsTypes
  <2> QED
      BY <2>1, <2>2, <2>3, <2>4, <2>5 DEF Limits!TypeOK, MakesUnder
<1> QED
    BY <1>1, <1>2, <1>3 DEF Limits!IInv

\* A call that makes one remittance, and one that makes several without a key.
LEMMA OneMade ==
    ASSUME NEW E, NEW list \in Seq(E), NEW e \in E
    PROVE  Append(list, e) = list \o <<e>> /\ <<e>> \in Seq(E) /\ Len(<<e>>) = 1 /\ <<e>>[1] = e
OBVIOUS

LEMMA MadeIsTyped ==
    ASSUME Limits!TypeOK, Limits!SendLimitsAssumption, NEW s \in Senders, NEW c \in Countries,
           NEW amount \in Nat, NEW key \in SUBSET RetryKeys
    PROVE  Limits!Made(s, c, amount, key) \in Limits!Remittance
<1>1. x1 \in Nat /\ x2[c] \in SUBSET LimitsOfADay
    BY DEF Limits!TypeOK, Limits!SendLimitsAssumption
<1> QED
    BY <1>1 DEF Limits!Made, Limits!Remittance

LEMMA MakeOne ==
    ASSUME Limits!IInv, Limits!SendLimitsAssumption, NEW s \in Senders, NEW c \in Countries,
           NEW amount \in SentAmounts, Limits!CountsAgainstLimit(s, c, amount),
           NEW key \in SUBSET RetryKeys, \A k \in key : Limits!Live(k) = {},
           NEW r0, r0.id = Len(x6) + 1, r0.expires = x1 + Ttl, key # {} => r0 \in Limits!Record,
           x6' = Append(x6, Limits!Made(s, c, amount, key)), x5' = Append(x5, key),
           x4' = [k \in RetryKeys |-> IF k \in key THEN {r0} ELSE x4[k]],
           UNCHANGED <<x1, x2, x7, x8>>
    PROVE  Limits!IInv'
<1> DEFINE e == Limits!Made(s, c, amount, key)
           new == <<e>>
           keys == <<key>>
<1>1. Limits!TypeOK /\ amount \in Nat /\ x6 \in Seq(Limits!Remittance) /\ x5 \in Seq(SUBSET RetryKeys)
    BY DEF Limits!IInv, Limits!TypeOK, Limits!SendLimitsAssumption
<1>2. e \in Limits!Remittance
    BY <1>1, MadeIsTyped
<1>3. /\ e.sender = s /\ e.country = c /\ e.at = x1 /\ e.limit = x2[c] /\ e.key = key
      /\ e.end = "open" /\ e.amount = amount
    BY DEF Limits!Made
<1> HIDE DEF e
<1>4. new \in Seq(Limits!Remittance) /\ Len(new) = 1 /\ new[1] = e /\ x6' = x6 \o new
    BY <1>1, <1>2, OneMade DEF e
<1>5. keys \in Seq(SUBSET RetryKeys) /\ Len(keys) = 1 /\ keys[1] = key /\ x5' = x5 \o keys
    BY <1>1, OneMade
<1> HIDE DEF new, keys
<1>6. Alike(new, s, c, key) /\ \A j \in 1..Len(new) : keys[j] = key
    BY <1>3, <1>4, <1>5 DEF Alike
<1>7. Limits!SumFunctionOnSet(Limits!AmountsOf(new), 1..Len(new)) = amount
  <2>1. Limits!AmountsOf(new)[1] = amount /\ 1..Len(new) = {1}
      BY <1>3, <1>4 DEF Limits!AmountsOf
  <2>2. Limits!AmountsOf(new)[1] \in Int
      BY <1>1, <2>1
  <2>3. Limits!SumFunctionOnSet(Limits!AmountsOf(new), {1}) = Limits!AmountsOf(new)[1]
      BY <2>2, SumOfOne
  <2> DEFINE one == {1}
  <2>4. Limits!SumFunctionOnSet(Limits!AmountsOf(new), one) = amount /\ 1..Len(new) = one
      BY <2>1, <2>3
  <2> HIDE DEF one
  <2> QED
      BY <2>4
<1>8. Len(new) > 0 /\ Len(keys) = Len(new)
    BY <1>4, <1>5
<1>9. MakesUnder(key, new, s, c, keys, r0)
    BY <1>4, <1>5, <1>6, <1>8 DEF MakesUnder
<1> QED
    BY <1>1, <1>7, <1>9, MakeStep

LEMMA CreateStep ==
    ASSUME Limits!IInv, Limits!SendLimitsAssumption, NEW s \in Senders, NEW amount \in SentAmounts,
           NEW key \in {{}} \cup {{k} : k \in RetryKeys}, Limits!Create(s, amount, key)
    PROVE  Limits!IInv'
<1> DEFINE r0 == [request |-> Limits!Request(s, amount), id |-> Len(x6) + 1, expires |-> Limits!Expiry]
<1>1. "GLOBAL" \in Countries /\ key \in SUBSET RetryKeys /\ x1 \in Nat /\ Ttl \in Nat /\ Len(x6) \in Nat
    BY DEF Limits!IInv, Limits!TypeOK, Limits!SendLimitsAssumption
<1>2. r0.id = Len(x6) + 1 /\ r0.expires = x1 + Ttl
    BY DEF Limits!Expiry
<1>3. r0 \in Limits!Record
    BY <1>1 DEF Limits!Record, Limits!Request, Limits!Expiry
<1>4. x4' = [k \in RetryKeys |-> IF k \in key THEN {r0} ELSE x4[k]]
    BY DEF Limits!Create
<1> HIDE DEF r0
<1> QED
    BY <1>1, <1>2, <1>3, <1>4, MakeOne DEF Limits!Create

LEMMA CreateWithCorridorStep ==
    ASSUME Limits!IInv, Limits!SendLimitsAssumption, NEW s \in Senders, NEW amount \in SentAmounts,
           NEW c \in Countries, Limits!CreateWithCorridor(s, amount, c)
    PROVE  Limits!IInv'
<1> DEFINE r0 == [id |-> Len(x6) + 1, expires |-> x1 + Ttl]
<1>1. r0.id = Len(x6) + 1 /\ r0.expires = x1 + Ttl
    OBVIOUS
<1>2. x4' = [k \in RetryKeys |-> IF k \in {} THEN {r0} ELSE x4[k]]
    BY DEF Limits!CreateWithCorridor, Limits!IInv, Limits!TypeOK
<1>3. {} \in SUBSET RetryKeys /\ \A k \in {} : Limits!Live(k) = {}
    OBVIOUS
<1> HIDE DEF r0
<1> QED
    BY <1>1, <1>2, <1>3, MakeOne DEF Limits!CreateWithCorridor

LEMMA CreateBatchStep ==
    ASSUME Limits!IInv, Limits!SendLimitsAssumption, NEW s \in Senders, NEW n \in 2..MaxBatch,
           NEW amounts \in [1..n -> SentAmounts], Limits!CreateBatch(s, amounts)
    PROVE  Limits!IInv'
<1>1. Limits!TypeOK /\ n \in Nat /\ n >= 2 /\ DOMAIN amounts = 1..n /\ "GLOBAL" \in Countries
    BY DEF Limits!IInv, Limits!SendLimitsAssumption
<1>14. \A j \in 1..n : amounts[j] \in Nat
    BY DEF Limits!SendLimitsAssumption
<1> DEFINE r0 == [id |-> Len(x6) + 1, expires |-> x1 + Ttl]
           new == [j \in 1..n |-> Limits!Made(s, "GLOBAL", amounts[j], {})]
           keys == [j \in 1..n |-> {}]
           total == Limits!SumFunctionOnSet(amounts, 1..n)
<1>2. \A j \in 1..n : new[j] \in Limits!Remittance
    BY <1>1, <1>14, MadeIsTyped
<1>3. new \in Seq(Limits!Remittance) /\ Len(new) = n
    BY <1>1, <1>2
<1>4. keys \in Seq(SUBSET RetryKeys) /\ Len(keys) = n /\ \A j \in 1..n : keys[j] = {}
    BY <1>1
<1>5. \A j \in 1..n : new[j].amount = amounts[j]
    BY DEF Limits!Made
<1>6. Alike(new, s, "GLOBAL", {})
    BY <1>3 DEF Alike, Limits!Made
<1>7. Limits!CountsAgainstLimit(s, "GLOBAL", total) /\ x6' = x6 \o new /\ x5' = x5 \o keys
      /\ UNCHANGED <<x1, x2, x4, x7, x8>>
    BY <1>1 DEF Limits!CreateBatch
<1>8. x4' = [k \in RetryKeys |-> IF k \in {} THEN {r0} ELSE x4[k]]
    BY <1>1, <1>7 DEF Limits!TypeOK
<1>9. r0.id = Len(x6) + 1 /\ r0.expires = x1 + Ttl
    OBVIOUS
<1> HIDE DEF new, keys, r0
<1>10. Limits!IsFiniteSet(1..n)
    BY <1>1, UpToIsFinite
<1>11. total \in Nat
    BY <1>10, <1>14, SumType, SetsOfLimits
<1>12. Limits!SumFunctionOnSet(Limits!AmountsOf(new), 1..Len(new)) = total
  <2>1. \A j \in 1..n : Limits!AmountsOf(new)[j] = amounts[j]
      BY <1>3, <1>5 DEF Limits!AmountsOf
  <2>2. Limits!SumFunctionOnSet(Limits!AmountsOf(new), 1..n) = Limits!SumFunctionOnSet(amounts, 1..n)
      BY <1>10, <2>1, SumCongruence, SetsOfLimits
  <2> QED
      BY <1>3, <2>2
<1>13. {} \in SUBSET RetryKeys /\ (\A k \in {} : Limits!Live(k) = {}) /\ Len(new) > 0
    BY <1>1, <1>3
<1>15. MakesUnder({}, new, s, "GLOBAL", keys, r0)
    BY <1>3, <1>4, <1>6, <1>7, <1>8, <1>9, <1>13 DEF MakesUnder
<1> HIDE DEF total
<1> QED
    BY <1>1, <1>7, <1>11, <1>12, <1>15, MakeStep

LEMMA RetryStep ==
    ASSUME Limits!IInv, Limits!SendLimitsAssumption, NEW s \in Senders, NEW amount \in SentAmounts,
           NEW k \in RetryKeys, Limits!Retry(s, amount, k)
    PROVE  Limits!IInv'
<1> DEFINE e == [sender |-> s, country |-> "GLOBAL", amount |-> amount, at |-> x1]
           new == <<e>>
<1>1. /\ Limits!TypeOK /\ amount \in Nat /\ "GLOBAL" \in Countries /\ x1 \in Nat
      /\ x6 \in Seq(Limits!Remittance) /\ x7 \in Seq(Limits!Answer)
    BY DEF Limits!IInv, Limits!TypeOK, Limits!SendLimitsAssumption
<1>2. Limits!CountsAgainstLimit(s, "GLOBAL", amount) /\ x7' = Append(x7, e)
      /\ UNCHANGED <<x1, x2, x6, x4, x5, x8>>
    BY DEF Limits!Retry
<1>3. e \in Limits!Answer
    BY <1>1 DEF Limits!Answer
<1>4. e.sender = s /\ e.country = "GLOBAL" /\ e.at = x1 /\ e.amount = amount
    OBVIOUS
<1> HIDE DEF e
<1>5. new \in Seq(Limits!Answer) /\ Len(new) = 1 /\ new[1] = e /\ x7' = x7 \o new
    BY <1>1, <1>2, <1>3, OneMade DEF e
<1> HIDE DEF new
<1>6. x7' \in Seq(Limits!Answer) /\ Len(x7') = Len(x7) + 1
      /\ Len(x7) \in Nat /\ Len(x6) \in Nat
    BY <1>1, <1>2, <1>3
<1>7. Limits!SumFunctionOnSet(Limits!AmountsOf(new), 1..Len(new)) = amount
  <2>1. Limits!AmountsOf(new)[1] = amount /\ 1..Len(new) = {1}
      BY <1>4, <1>5 DEF Limits!AmountsOf
  <2>2. Limits!SumFunctionOnSet(Limits!AmountsOf(new), {1}) = Limits!AmountsOf(new)[1]
    <3>1. Limits!AmountsOf(new)[1] \in Int
        BY <1>1, <2>1
    <3> QED
        BY <3>1, SumOfOne
  <2> DEFINE one == {1}
  <2>3. Limits!SumFunctionOnSet(Limits!AmountsOf(new), one) = amount /\ 1..Len(new) = one
      BY <2>1, <2>2
  <2> HIDE DEF one
  <2> QED
      BY <2>3
<1>8. SentAlike(new, s, "GLOBAL", x1)
    BY <1>4, <1>5 DEF SentAlike
<1>9. \A s1, c1, n : Limits!SumAt(new, s1, c1, n)
                     = IF s = s1 /\ "GLOBAL" = c1 /\ x1 + Window > n THEN amount ELSE 0
    BY <1>5, <1>7, <1>8, SumOfNew
<1>10. ASSUME NEW s1 \in Senders, NEW c1 \in Countries, NEW n \in Nat
       PROVE  Limits!SumAt(x6', s1, c1, n) + Limits!SumAt(x7', s1, c1, n)
                = Limits!SumAt(x6, s1, c1, n) + Limits!SumAt(x7, s1, c1, n)
                  + IF s = s1 /\ "GLOBAL" = c1 /\ x1 + Window > n THEN amount ELSE 0
  <2>1. Limits!SumAt(x7', s1, c1, n) = Limits!SumAt(x7, s1, c1, n) + Limits!SumAt(new, s1, c1, n)
      BY <1>1, <1>5, EntriesAreCounted, SumOfAdded
  <2>2. Limits!SumAt(x6, s1, c1, n) \in Nat /\ Limits!SumAt(x7, s1, c1, n) \in Nat
      BY <1>1, EntriesAreCounted, SumAtNat
  <2> QED
      BY <1>1, <1>2, <1>9, <2>1, <2>2
<1>11. Limits!CountedBefore' /\ Limits!CountedFromNowOn'
  <2>1. Len(x6') + Len(x7') > Len(x6) + Len(x7)
        /\ Len(x6') \in Nat /\ Len(x7') \in Nat
      BY <1>2, <1>6
  <2>2. x1' = x1
      BY <1>2
  <2> QED
      BY <1>1, <1>2, <1>10, <2>1, <2>2, CountedStep DEF Limits!IInv
<1>12. Limits!TypeOK'
  <2>1. x3' \in [Senders -> SUBSET Limits!Transfer]
      BY <1>1, <1>2, CountKeepsTypes
  <2> QED
      BY <1>1, <1>2, <1>6, <2>1 DEF Limits!TypeOK
<1>13. Limits!LimitHolds'
    BY <1>2 DEF Limits!IInv, Limits!LimitHolds, Limits!SentBefore
<1>14. Limits!RecordsOfTheirKeys' /\ Limits!OpenHasKey' /\ Limits!OpenHasRecord'
    BY <1>2 DEF Limits!IInv, Limits!RecordsOfTheirKeys, Limits!OpenHasKey,
       Limits!OpenHasRecord
<1>15. Limits!RetryMakesNoSecond' /\ Limits!KeyOutlivesOnlyQuietEnds'
    BY <1>2 DEF Limits!IInv, Limits!RetryMakesNoSecond, Limits!KeyOutlivesOnlyQuietEnds
<1> QED
    BY <1>11, <1>12, <1>13, <1>14, <1>15 DEF Limits!IInv

-----------------------------------------------------------------------------
(***************************************************************************)
(* The end of a remittance takes nothing back of what was counted.         *)
(***************************************************************************)
EndsAs(i, end) == x6' = [x6 EXCEPT ![i].end = end]

LEMMA EndKeepsSums ==
    ASSUME Limits!IInv, Limits!SendLimitsAssumption, NEW i \in DOMAIN x6, NEW end \in Limits!Ends, EndsAs(i, end),
           UNCHANGED <<x1, x3, x7>>
    PROVE  /\ x6' \in Seq(Limits!Remittance) /\ Len(x6') = Len(x6) /\ DOMAIN x6' = DOMAIN x6
           /\ \A j \in DOMAIN x6 : /\ x6'[j].at = x6[j].at /\ x6'[j].key = x6[j].key
                                   /\ (j # i => x6'[j].end = x6[j].end)
           /\ x6'[i].end = end
           /\ Limits!CountedBefore' /\ Limits!CountedFromNowOn' /\ Limits!LimitHolds'
<1>1. /\ x6 \in Seq(Limits!Remittance) /\ x7 \in Seq(Limits!Answer) /\ x1 \in Nat
      /\ Entries(Limits!Remittance) /\ Entries(Limits!Answer)
    BY EntriesAreCounted DEF Limits!IInv, Limits!TypeOK, Limits!SendLimitsAssumption
<1>2. \A j \in DOMAIN x6 : x6[j] \in Limits!Remittance
    BY <1>1
<1>3. x6' = [x6 EXCEPT ![i] = [x6[i] EXCEPT !.end = end]]
    BY DEF EndsAs
<1>4. [x6[i] EXCEPT !.end = end] \in Limits!Remittance
    BY <1>2 DEF Limits!Remittance
<1>5. x6' \in Seq(Limits!Remittance) /\ Len(x6') = Len(x6) /\ DOMAIN x6' = DOMAIN x6
    BY <1>1, <1>3, <1>4
<1>6. \A j \in DOMAIN x6 : j # i => x6'[j] = x6[j]
    BY <1>1, <1>3
<1>7. x6'[i] = [x6[i] EXCEPT !.end = end]
    BY <1>1, <1>3
<1>8. /\ x6'[i].sender = x6[i].sender /\ x6'[i].country = x6[i].country
      /\ x6'[i].amount = x6[i].amount /\ x6'[i].at = x6[i].at
      /\ x6'[i].limit = x6[i].limit /\ x6'[i].key = x6[i].key /\ x6'[i].end = end
  <2>1. x6[i] \in Limits!Remittance
      BY <1>2
  <2> QED
      BY <1>7, <2>1 DEF Limits!Remittance
<1>9. \A j \in DOMAIN x6 :
          /\ x6'[j].sender = x6[j].sender /\ x6'[j].country = x6[j].country
          /\ x6'[j].amount = x6[j].amount /\ x6'[j].at = x6[j].at
          /\ x6'[j].limit = x6[j].limit /\ x6'[j].key = x6[j].key
    BY <1>6, <1>8
<1>10. Limits!AmountsOf(x6') = Limits!AmountsOf(x6)
    BY <1>5, <1>9 DEF Limits!AmountsOf
<1>11. \A s, c, n : Limits!SentAt(x6', s, c, n) = Limits!SentAt(x6, s, c, n)
    BY <1>5, <1>9 DEF Limits!SentAt
<1>12. \A s, c, n : Limits!SumAt(x6', s, c, n) = Limits!SumAt(x6, s, c, n)
    BY <1>10, <1>11 DEF Limits!SumAt
<1>13. Limits!CountedBefore'
    BY <1>5 DEF Limits!IInv, Limits!CountedBefore
<1>14. Limits!CountedFromNowOn'
  <2> SUFFICES ASSUME NEW n \in x1..MaxLedgerTime, NEW s1 \in Senders, NEW c1 \in Countries
               PROVE  Limits!Total(Limits!CountedAt(s1, c1, n)') = Limits!SumAt(x6', s1, c1, n) + Limits!SumAt(x7', s1, c1, n)
      BY DEF Limits!CountedFromNowOn, Limits!SumAt, Limits!SentAt, Limits!AmountsOf,
         Limits!Total
  <2>1. Limits!Total(Limits!CountedAt(s1, c1, n)) = Limits!SumAt(x6, s1, c1, n) + Limits!SumAt(x7, s1, c1, n)
      BY DEF Limits!IInv, Limits!CountedFromNowOn
  <2>2. Limits!CountedAt(s1, c1, n)' = Limits!CountedAt(s1, c1, n)
      BY DEF Limits!CountedAt
  <2>3. x7' = x7
      OBVIOUS
  <2> QED
      BY <1>12, <2>1, <2>2, <2>3
<1>15. Limits!LimitHolds'
  <2> SUFFICES ASSUME NEW j \in DOMAIN x6, NEW limit \in x6'[j].limit
               PROVE  Limits!SumFunctionOnSet(Limits!AmountsOf(x6'), Limits!SentBefore(j)') <= limit
      BY <1>5 DEF Limits!LimitHolds, Limits!AmountsOf
  <2>1. limit \in x6[j].limit
      BY <1>9
  <2>2. Limits!SentBefore(j)' = Limits!SentBefore(j)
    <3>1. \A h \in 1..j : h \in DOMAIN x6
        BY <1>1
    <3> QED
        BY <1>9, <3>1 DEF Limits!SentBefore
  <2> QED
      BY <1>10, <2>1, <2>2 DEF Limits!IInv, Limits!LimitHolds
<1> QED
    BY <1>5, <1>6, <1>8, <1>9, <1>13, <1>14, <1>15

LEMMA EndAndClearStep ==
    ASSUME Limits!IInv, Limits!SendLimitsAssumption, NEW i \in DOMAIN x6, Limits!EndAndClear(i)
    PROVE  Limits!IInv'
<1> DEFINE stricken == {r.id : r \in UNION {x4[k] : k \in x5[i]}} \ {i}
<1>1. /\ Limits!TypeOK /\ x6[i].end = "open" /\ EndsAs(i, "cleared") /\ "cleared" \in Limits!Ends
      /\ x8' = x8 \cup stricken
      /\ x4' = [k \in RetryKeys |-> IF k \in x5[i] THEN {} ELSE x4[k]]
      /\ x5' = [x5 EXCEPT ![i] = {}]
      /\ UNCHANGED <<x1, x2, x3, x7>>
    BY DEF Limits!EndAndClear, EndsAs, Limits!Ends, Limits!IInv
<1>2. /\ x6' \in Seq(Limits!Remittance) /\ Len(x6') = Len(x6) /\ DOMAIN x6' = DOMAIN x6
      /\ \A j \in DOMAIN x6 : /\ x6'[j].at = x6[j].at /\ x6'[j].key = x6[j].key
                              /\ (j # i => x6'[j].end = x6[j].end)
      /\ x6'[i].end = "cleared"
      /\ Limits!CountedBefore' /\ Limits!CountedFromNowOn' /\ Limits!LimitHolds'
    BY <1>1, EndKeepsSums
<1>3. x5[i] = x6[i].key /\ x5[i] \in SUBSET RetryKeys
  <2>1. x5 \in Seq(SUBSET RetryKeys) /\ Len(x5) = Len(x6) /\ x6 \in Seq(Limits!Remittance)
      BY <1>1 DEF Limits!TypeOK
  <2>2. x5[i] \in SUBSET RetryKeys
      BY <2>1
  <2> QED
      BY <1>1, <2>2 DEF Limits!IInv, Limits!OpenHasKey
<1>4. \A k \in RetryKeys : \A r \in x4[k] :
          r.id \in DOMAIN x6 /\ k \in x6[r.id].key /\ r.expires = x6[r.id].at + Ttl
    BY DEF Limits!IInv, Limits!RecordsOfTheirKeys
<1>5. \A k \in RetryKeys : x4'[k] = IF k \in x5[i] THEN {} ELSE x4[k]
    BY <1>1
<1>6. \A k \in x5[i] : \A r \in x4[k] : r.id # i => r.id \in x8'
    BY <1>1
<1>7. x8 \subseteq x8'
    BY <1>1
<1>8. Limits!TypeOK'
  <2>1. stricken \subseteq DOMAIN x6
      BY <1>3, <1>4
  <2>2. x4' \in [RetryKeys -> SUBSET Limits!Record]
      BY <1>1 DEF Limits!TypeOK
  <2>3. x5' \in Seq(SUBSET RetryKeys) /\ Len(x5') = Len(x5)
      BY <1>1 DEF Limits!TypeOK
  <2> HIDE DEF stricken
  <2> QED
      BY <1>1, <1>2, <2>1, <2>2, <2>3 DEF Limits!TypeOK
<1> HIDE DEF stricken
<1>9. Limits!RecordsOfTheirKeys'
    BY <1>2, <1>4, <1>5 DEF Limits!RecordsOfTheirKeys
<1>10. Limits!OpenHasKey'
  <2> SUFFICES ASSUME NEW j \in DOMAIN x6, x6'[j].end = "open"
               PROVE  x5'[j] = x6'[j].key
      BY <1>2 DEF Limits!OpenHasKey
  <2>1. j # i /\ x6[j].end = "open"
      BY <1>2
  <2>2. x5'[j] = x5[j]
      BY <1>1, <2>1 DEF Limits!TypeOK
  <2> QED
      BY <1>2, <2>1, <2>2 DEF Limits!IInv, Limits!OpenHasKey
<1>11. Limits!OpenHasRecord'
  <2> SUFFICES ASSUME NEW j \in DOMAIN x6, x6'[j].end = "open", j \notin x8',
                      NEW k \in x6'[j].key
               PROVE  (\E r \in x4'[k] : r.id = j) \/ x1' >= x6'[j].at + Ttl
      BY <1>2 DEF Limits!OpenHasRecord
  <2>1. j # i /\ x6[j].end = "open" /\ j \notin x8 /\ k \in x6[j].key
      BY <1>2, <1>7
  <2>2. k \in RetryKeys
    <3>1. x6 \in Seq(Limits!Remittance)
        BY <1>1 DEF Limits!TypeOK
    <3>2. x6[j] \in Limits!Remittance
        BY <3>1
    <3> QED
        BY <2>1, <3>2 DEF Limits!Remittance
  <2>3. (\E r \in x4[k] : r.id = j) \/ x1 >= x6[j].at + Ttl
      BY <2>1 DEF Limits!IInv, Limits!OpenHasRecord
  <2>4. k \in x5[i] => ~\E r \in x4[k] : r.id = j
      BY <1>6, <2>1
  <2> QED
      BY <1>1, <1>2, <1>5, <2>2, <2>3, <2>4
<1>12. Limits!RetryMakesNoSecond'
  <2> SUFFICES ASSUME NEW h \in DOMAIN x6, NEW j \in DOMAIN x6, h < j, x6'[h].key # {},
                      x6'[h].key = x6'[j].key, x6'[h].end = "open",
                      x6'[j].at < x6'[h].at + Ttl
               PROVE  h \in x8'
      BY <1>2 DEF Limits!RetryMakesNoSecond
  <2>1. x6[h].end = "open"
      BY <1>2
  <2>2. h \in x8
      BY <1>2, <2>1 DEF Limits!IInv, Limits!RetryMakesNoSecond
  <2> QED
      BY <1>7, <2>2
<1>13. Limits!KeyOutlivesOnlyQuietEnds'
  <2> SUFFICES ASSUME NEW k \in RetryKeys, NEW r \in x4'[k]
               PROVE  x6'[r.id].end # "cleared"
      BY DEF Limits!KeyOutlivesOnlyQuietEnds
  <2>1. k \notin x5[i] /\ r \in x4[k]
      BY <1>5
  <2>2. r.id \in DOMAIN x6 /\ r.id # i
      BY <1>3, <1>4, <2>1
  <2> QED
      BY <1>2, <2>1, <2>2 DEF Limits!IInv, Limits!KeyOutlivesOnlyQuietEnds
<1> QED
    BY <1>2, <1>8, <1>9, <1>10, <1>11, <1>12, <1>13 DEF Limits!IInv

LEMMA EndQuietlyStep ==
    ASSUME Limits!IInv, Limits!SendLimitsAssumption, NEW i \in DOMAIN x6, Limits!EndQuietly(i)
    PROVE  Limits!IInv'
<1>1. /\ Limits!TypeOK /\ x6[i].end = "open" /\ EndsAs(i, "quiet") /\ "quiet" \in Limits!Ends
      /\ UNCHANGED <<x1, x2, x3, x4, x5, x7, x8>>
    BY DEF Limits!EndQuietly, EndsAs, Limits!Ends, Limits!IInv
<1>2. /\ x6' \in Seq(Limits!Remittance) /\ Len(x6') = Len(x6) /\ DOMAIN x6' = DOMAIN x6
      /\ \A j \in DOMAIN x6 : /\ x6'[j].at = x6[j].at /\ x6'[j].key = x6[j].key
                              /\ (j # i => x6'[j].end = x6[j].end)
      /\ x6'[i].end = "quiet"
      /\ Limits!CountedBefore' /\ Limits!CountedFromNowOn' /\ Limits!LimitHolds'
    BY <1>1, EndKeepsSums
<1>3. Limits!TypeOK'
    BY <1>1, <1>2 DEF Limits!TypeOK
<1>4. Limits!RecordsOfTheirKeys'
    BY <1>1, <1>2 DEF Limits!IInv, Limits!RecordsOfTheirKeys
<1>5. \A j \in DOMAIN x6 : x6'[j].end = "open" => x6[j].end = "open"
    BY <1>2
<1>6. Limits!OpenHasKey'
    BY <1>1, <1>2, <1>5 DEF Limits!IInv, Limits!OpenHasKey
<1>7. Limits!OpenHasRecord'
    BY <1>1, <1>2, <1>5 DEF Limits!IInv, Limits!OpenHasRecord
<1>8. Limits!RetryMakesNoSecond'
    BY <1>1, <1>2, <1>5 DEF Limits!IInv, Limits!RetryMakesNoSecond
<1>9. Limits!KeyOutlivesOnlyQuietEnds'
  <2>1. \A j \in DOMAIN x6 : x6'[j].end = "cleared" => x6[j].end = "cleared"
      BY <1>2
  <2>2. \A k \in RetryKeys : \A r \in x4[k] : r.id \in DOMAIN x6
      BY DEF Limits!IInv, Limits!RecordsOfTheirKeys
  <2> QED
      BY <1>1, <2>1, <2>2 DEF Limits!IInv, Limits!KeyOutlivesOnlyQuietEnds
<1> QED
    BY <1>2, <1>3, <1>4, <1>6, <1>7, <1>8, <1>9 DEF Limits!IInv

-----------------------------------------------------------------------------
(***************************************************************************)
(* A limit is set, and time passes; nothing else changes.                  *)
(***************************************************************************)
Same == UNCHANGED <<x3, x4, x5, x6, x7, x8>>

LEMMA SameKeeps ==
    ASSUME Limits!IInv, Limits!SendLimitsAssumption, Same, x1' >= x1, x1' \in Nat
    PROVE  /\ Limits!CountedBefore' /\ Limits!CountedFromNowOn' /\ Limits!LimitHolds'
           /\ Limits!RecordsOfTheirKeys' /\ Limits!OpenHasKey' /\ Limits!OpenHasRecord'
           /\ Limits!RetryMakesNoSecond' /\ Limits!KeyOutlivesOnlyQuietEnds'
<1>1. /\ x3' = x3 /\ x4' = x4 /\ x5' = x5 /\ x6' = x6
      /\ x7' = x7 /\ x8' = x8
    BY DEF Same
<1>2. x1 \in Nat /\ MaxLedgerTime \in Nat /\ Ttl \in Nat
    BY DEF Limits!IInv, Limits!TypeOK, Limits!SendLimitsAssumption
<1>3. Limits!CountedBefore'
    BY <1>1 DEF Limits!IInv, Limits!CountedBefore
<1>4. Limits!CountedFromNowOn'
  <2> SUFFICES ASSUME NEW n \in x1'..MaxLedgerTime, NEW s1 \in Senders, NEW c1 \in Countries
               PROVE  Limits!Total(Limits!CountedAt(s1, c1, n)') = Limits!SumAt(x6', s1, c1, n) + Limits!SumAt(x7', s1, c1, n)
      BY DEF Limits!CountedFromNowOn, Limits!SumAt, Limits!SentAt, Limits!AmountsOf,
         Limits!Total
  <2>1. n \in x1..MaxLedgerTime
      BY <1>2
  <2>2. Limits!Total(Limits!CountedAt(s1, c1, n)) = Limits!SumAt(x6, s1, c1, n) + Limits!SumAt(x7, s1, c1, n)
      BY <2>1 DEF Limits!IInv, Limits!CountedFromNowOn
  <2>3. Limits!CountedAt(s1, c1, n)' = Limits!CountedAt(s1, c1, n)
      BY <1>1 DEF Limits!CountedAt
  <2> QED
      BY <1>1, <2>2, <2>3
<1>5. Limits!LimitHolds'
    BY <1>1 DEF Limits!IInv, Limits!LimitHolds, Limits!SentBefore
<1>6. Limits!RecordsOfTheirKeys' /\ Limits!OpenHasKey' /\ Limits!RetryMakesNoSecond' /\ Limits!KeyOutlivesOnlyQuietEnds'
    BY <1>1 DEF Limits!IInv, Limits!RecordsOfTheirKeys, Limits!OpenHasKey,
       Limits!RetryMakesNoSecond, Limits!KeyOutlivesOnlyQuietEnds
<1>7. Limits!OpenHasRecord'
  <2> SUFFICES ASSUME NEW j \in DOMAIN x6, x6[j].end = "open", j \notin x8,
                      NEW k \in x6[j].key
               PROVE  (\E r \in x4[k] : r.id = j) \/ x1' >= x6[j].at + Ttl
      BY <1>1 DEF Limits!OpenHasRecord
  <2>1. (\E r \in x4[k] : r.id = j) \/ x1 >= x6[j].at + Ttl
      BY DEF Limits!IInv, Limits!OpenHasRecord
  <2>2. x6[j].at \in Nat
    <3>1. x6 \in Seq(Limits!Remittance)
        BY DEF Limits!IInv, Limits!TypeOK
    <3>2. x6[j] \in Limits!Remittance
        BY <3>1
    <3> QED
        BY <3>2 DEF Limits!Remittance
  <2> QED
      BY <1>2, <2>1, <2>2
<1> QED
    BY <1>3, <1>4, <1>5, <1>6, <1>7

LEMMA TickAndLimitStep ==
    ASSUME Limits!IInv, Limits!SendLimitsAssumption,
           \/ Limits!Tick \/ \E c \in Countries, limit \in LimitsOfADay : Limits!SetDailyLimit(c, limit)
           \/ UNCHANGED Limits!vars
    PROVE  Limits!IInv'
<1>1. Limits!TypeOK /\ x1 \in Nat
    BY DEF Limits!IInv, Limits!TypeOK, Limits!SendLimitsAssumption
<1>2. CASE Limits!Tick
  <2>1. Same /\ x1' >= x1 /\ x1' \in Nat
      BY <1>1, <1>2 DEF Limits!Tick, Same
  <2>2. Limits!TypeOK'
      BY <1>1, <1>2 DEF Limits!Tick, Limits!TypeOK, Limits!SendLimitsAssumption
  <2> QED
      BY <2>1, <2>2, SameKeeps DEF Limits!IInv
<1>3. ASSUME NEW c \in Countries, NEW limit \in LimitsOfADay, Limits!SetDailyLimit(c, limit)
      PROVE  Limits!IInv'
  <2>1. Same /\ x1' >= x1 /\ x1' \in Nat
      BY <1>1, <1>3 DEF Limits!SetDailyLimit, Same
  <2>2. Limits!TypeOK'
      BY <1>1, <1>3 DEF Limits!SetDailyLimit, Limits!TypeOK
  <2> QED
      BY <2>1, <2>2, SameKeeps DEF Limits!IInv
<1>4. CASE UNCHANGED Limits!vars
  <2>1. Same /\ x1' >= x1 /\ x1' \in Nat
      BY <1>1, <1>4 DEF Limits!vars, Same
  <2>2. Limits!TypeOK'
      BY <1>1, <1>4 DEF Limits!vars, Limits!TypeOK
  <2> QED
      BY <2>1, <2>2, SameKeeps DEF Limits!IInv
<1> QED
    BY <1>2, <1>3, <1>4

-----------------------------------------------------------------------------
LEMMA LimitsBegin ==
    ASSUME Limits!SendLimitsAssumption, Limits!Init
    PROVE  Limits!IInv
<1>1. Limits!TypeOK
    BY DEF Limits!Init, Limits!TypeOK, Limits!SendLimitsAssumption
<1>2. x3 = [s \in Senders |-> {}] /\ x6 = <<>> /\ x7 = <<>> /\ x4 = [k \in RetryKeys |-> {}]
    BY DEF Limits!Init
<1>3. Limits!CountedBefore
    BY <1>2, FS_EmptySet, SetsOfLimits DEF Limits!CountedBefore
<1>4. Limits!CountedFromNowOn
  <2> SUFFICES ASSUME NEW n \in x1..MaxLedgerTime, NEW s \in Senders, NEW c \in Countries
               PROVE  Limits!Total(Limits!CountedAt(s, c, n)) = Limits!SumAt(x6, s, c, n) + Limits!SumAt(x7, s, c, n)
      BY DEF Limits!CountedFromNowOn
  <2>1. Limits!CountedAt(s, c, n) = {} /\ Limits!SentAt(x6, s, c, n) = {} /\ Limits!SentAt(x7, s, c, n) = {}
      BY <1>2 DEF Limits!CountedAt, Limits!SentAt
  <2>2. Limits!Total({}) = 0
      BY SumEmpty, SetsOfLimits DEF Limits!Total
  <2>3. \A f : Limits!SumFunctionOnSet(f, {}) = 0
      BY SumEmpty, SetsOfLimits
  <2>4. Limits!SumAt(x6, s, c, n) = 0 /\ Limits!SumAt(x7, s, c, n) = 0
      BY <2>1, <2>3 DEF Limits!SumAt
  <2> QED
      BY <2>1, <2>2, <2>4
<1>5. Limits!LimitHolds /\ Limits!OpenHasKey /\ Limits!OpenHasRecord /\ Limits!RetryMakesNoSecond
    BY <1>2 DEF Limits!LimitHolds, Limits!OpenHasKey, Limits!OpenHasRecord,
       Limits!RetryMakesNoSecond
<1>6. Limits!RecordsOfTheirKeys /\ Limits!KeyOutlivesOnlyQuietEnds
    BY <1>2 DEF Limits!RecordsOfTheirKeys, Limits!KeyOutlivesOnlyQuietEnds
<1> QED
    BY <1>1, <1>3, <1>4, <1>5, <1>6 DEF Limits!IInv

LEMMA LimitsStep ==
    ASSUME Limits!IInv, Limits!SendLimitsAssumption, Limits!Next \/ UNCHANGED Limits!vars
    PROVE  Limits!IInv'
<1>1. ASSUME NEW s \in Senders, NEW amount \in SentAmounts,
             NEW key \in {{}} \cup {{k} : k \in RetryKeys}, Limits!Create(s, amount, key)
      PROVE  Limits!IInv'
    BY <1>1, CreateStep
<1>2. ASSUME NEW s \in Senders, NEW amount \in SentAmounts, NEW k \in RetryKeys, Limits!Retry(s, amount, k)
      PROVE  Limits!IInv'
    BY <1>2, RetryStep
<1>3. ASSUME NEW s \in Senders, NEW amount \in SentAmounts, NEW c \in Countries,
             Limits!CreateWithCorridor(s, amount, c)
      PROVE  Limits!IInv'
    BY <1>3, CreateWithCorridorStep
<1>4. ASSUME NEW s \in Senders, NEW n \in 2..MaxBatch, NEW amounts \in [1..n -> SentAmounts],
             Limits!CreateBatch(s, amounts)
      PROVE  Limits!IInv'
    BY <1>4, CreateBatchStep
<1>5. ASSUME NEW i \in DOMAIN x6, Limits!EndAndClear(i) \/ Limits!EndQuietly(i)
      PROVE  Limits!IInv'
    BY <1>5, EndAndClearStep, EndQuietlyStep
<1> QED
    BY <1>1, <1>2, <1>3, <1>4, <1>5, TickAndLimitStep DEF Limits!Next

LEMMA LimitsHold ==
    ASSUME Limits!IInv, Limits!SendLimitsAssumption
    PROVE  /\ Limits!TypeOK /\ Limits!LimitHolds /\ Limits!CountedIsSentOrRetried
           /\ Limits!RetryMakesNoSecond /\ Limits!KeyOutlivesOnlyQuietEnds
<1>1. x1 \in x1..MaxLedgerTime
    BY DEF Limits!IInv, Limits!TypeOK, Limits!SendLimitsAssumption
<1>2. \A s \in Senders, c \in Countries : Limits!Within(x3[s], c) = Limits!CountedAt(s, c, x1)
    BY DEF Limits!Within, Limits!CountedAt
<1>3. Limits!CountedIsSentOrRetried
    BY <1>1, <1>2 DEF Limits!IInv, Limits!CountedFromNowOn, Limits!CountedIsSentOrRetried
<1> QED
    BY <1>3 DEF Limits!IInv

-----------------------------------------------------------------------------
(***************************************************************************)
(* Kyc: x1 schema, x2 row, x3 chain, x4 work, x5 decided, x6 enabled,      *)
(* x7 polled, x8 missed, x9 pushes, x10 faults.                            *)
(***************************************************************************)
Kycs == INSTANCE Kyc WITH Workers <- Procs, Anchors <- KycAnchors, schema <- x1, row <- x2, chain <- x3,
    work <- x4, decided <- x5, enabled <- x6, polled <- x7, missed <- x8, pushes <- x9,
    faults <- x10

LEMMA KycBegins == Kycs!KycAssumption /\ Kycs!Init => Kycs!IInv
<1> SUFFICES ASSUME Kycs!KycAssumption, Kycs!Init PROVE Kycs!IInv
    OBVIOUS
<1>1. /\ 0 \in 0..MaxVerified /\ 0 \in 0..MaxPushes /\ 0 \in 0..MaxFaults
      /\ \A w \in Procs : x4[w].step = "idle"
      /\ \A a \in KycAnchors : x2[a].status = "none"
      /\ x5.what = "none"
    BY DEF Kycs!Init, Kycs!KycAssumption, Kycs!Idle, Kycs!NoRow
<1>2. Kycs!TypeOK
    BY <1>1 DEF Kycs!Init, Kycs!TypeOK, Kycs!Idle, Kycs!NoRow, Kycs!Statuses, Kycs!Answers,
       Kycs!Terms
<1> QED
    BY <1>1, <1>2 DEF Kycs!IInv, Kycs!Init, Kycs!WorkersHoldARow, Kycs!TheOneSentIsTheLast,
       Kycs!UpsertsDecide,
                      Kycs!ChainFollowsDecision, Kycs!Quiet, Kycs!At

LEMMA KycStep == Kycs!KycAssumption /\ Kycs!IInv /\ (Kycs!Next \/ UNCHANGED Kycs!vars) => Kycs!IInv'
<1> SUFFICES ASSUME Kycs!KycAssumption, Kycs!IInv, (Kycs!Next \/ UNCHANGED Kycs!vars)
             PROVE  Kycs!IInv'
    OBVIOUS
<1> DEFINE RowType == [status : Kycs!Statuses \cup {"none"}, until : Kycs!Terms, old : BOOLEAN,
                       verified : 0..MaxVerified]
           WorkType == [step : {"idle", "ask", "save", "sync", "notice"},
                        on : SUBSET KycAnchors, saw : Kycs!Statuses \cup {"none"},
                        answer : Kycs!Answers \cup {"none"}, until : Kycs!Terms]
           DecisionType == [by : SUBSET KycAnchors, what : {"none", "approved", "rejected"}]
           CountersOK == /\ x9 \in 0..MaxPushes /\ x10 \in 0..MaxFaults /\ x8 \in BOOLEAN
                         /\ x6 \subseteq KycAnchors /\ x7 \subseteq KycAnchors
\* What a worker may be at.
           Fine(x) == /\ x \in WorkType
                      /\ x.step # "idle" => \E a \in KycAnchors : x.on = {a}
                      /\ x.step \in {"ask", "save", "notice"} => x.saw # "rejected"
                      /\ x.step = "sync" => x.answer \in {"approved", "rejected"}
                      /\ x1 = "kyc_status" => x.step \in {"idle", "sync"}
\* What the rows and the last decision are to each other.
           RowsFit(r, d) == x1 = "kyc_status" =>
                               /\ d.what = "none" => \A a \in KycAnchors : r[a].status # "approved"
                               /\ d.what = "rejected" => \E a \in d.by : r[a].status # "approved"
<1>1. /\ x1 \in Kycs!Columns /\ x2 \in [KycAnchors -> RowType]
      /\ x3 \in {"none", "approved", "rejected"} /\ x5 \in DecisionType
      /\ CountersOK /\ x4 \in [Procs -> WorkType]
      /\ Kycs!TheOneSentIsTheLast /\ Kycs!ChainFollowsDecision /\ RowsFit(x2, x5)
    BY DEF Kycs!IInv, Kycs!TypeOK, Kycs!UpsertsDecide
<1>2. \A w \in Procs : Fine(x4[w])
  <2>1. ASSUME NEW w \in Procs PROVE Fine(x4[w])
    <3>1. x4[w] \in WorkType
        BY <1>1
    <3>2. /\ x4[w].step # "idle" => \E a \in KycAnchors : x4[w].on = {a}
          /\ x4[w].step \in {"ask", "save", "notice"} => x4[w].saw # "rejected"
          /\ x4[w].step = "sync" => x4[w].answer \in {"approved", "rejected"}
        BY DEF Kycs!IInv, Kycs!WorkersHoldARow, Kycs!At
    <3>3. x1 = "kyc_status" => x4[w].step \in {"idle", "sync"}
        BY DEF Kycs!IInv, Kycs!UpsertsDecide, Kycs!At
    <3> QED
        BY <3>1, <3>2, <3>3
  <2> QED
      BY <2>1
\* The invariant from its parts.
<1>3. ASSUME UNCHANGED x1, x2' \in [KycAnchors -> RowType], x5' \in DecisionType,
             x3' \in {"none", "approved", "rejected"}, CountersOK',
             DOMAIN x4' = Procs, \A w \in Procs : Fine(x4'[w]),
             x4' \in [Procs -> WorkType],
             RowsFit(x2', x5'), Kycs!TheOneSentIsTheLast', Kycs!ChainFollowsDecision'
      PROVE  Kycs!IInv'
  <2>1. Kycs!TypeOK'
      BY <1>1, <1>3 DEF Kycs!TypeOK
  <2>2. Kycs!WorkersHoldARow'
      BY <1>3 DEF Kycs!WorkersHoldARow, Kycs!At
  <2>3. Kycs!UpsertsDecide'
      BY <1>3 DEF Kycs!UpsertsDecide, Kycs!At
  <2> QED
      BY <1>3, <2>1, <2>2, <2>3 DEF Kycs!IInv
<1>4. /\ Kycs!Idle \in WorkType /\ Kycs!Idle.step = "idle" /\ Fine(Kycs!Idle)
  <2>1. Kycs!Idle \in WorkType /\ Kycs!Idle.step = "idle"
      BY DEF Kycs!Idle, Kycs!Answers, Kycs!Statuses, Kycs!Terms
  <2> QED
      BY <2>1
<1>5. \A w \in Procs : x4[w].step # "idle" => Kycs!OnAnchor(w) \in KycAnchors /\ x4[w].on = {Kycs!OnAnchor(w)}
    BY <1>2 DEF Kycs!OnAnchor
\* A worker goes on with x.
<1>6. ASSUME NEW w \in Procs, NEW x, Fine(x), x4' = [x4 EXCEPT ![w] = x]
      PROVE  /\ x4' \in [Procs -> WorkType] /\ DOMAIN x4' = Procs
             /\ x4'[w] = x /\ \A v \in Procs \ {w} : x4'[v] = x4[v]
             /\ \A v \in Procs : Fine(x4'[v])
  <2>1. x \in WorkType
      BY <1>6
  <2>2. /\ x4' \in [Procs -> WorkType] /\ DOMAIN x4' = Procs
        /\ x4'[w] = x /\ \A v \in Procs \ {w} : x4'[v] = x4[v]
      BY <1>1, <1>6, <2>1
  <2> HIDE DEF Fine
  <2> QED
      BY <1>2, <1>6, <2>2
\* It sends nothing, or was sending and stops: it does not change who else sends.
<1>7. ASSUME NEW w \in Procs, NEW x, Fine(x), x4' = [x4 EXCEPT ![w] = x], x.step # "sync",
             ~Kycs!At(w, "sync") \/ x8', UNCHANGED <<x1, x3, x5>>, x8 => x8',
             x2' \in [KycAnchors -> RowType], CountersOK', RowsFit(x2', x5)
      PROVE  Kycs!IInv'
  <2>1. /\ x4' \in [Procs -> WorkType] /\ DOMAIN x4' = Procs
        /\ x4'[w] = x /\ \A v \in Procs \ {w} : x4'[v] = x4[v]
        /\ \A v \in Procs : Fine(x4'[v])
      BY <1>6, <1>7
  <2> HIDE DEF Fine, RowsFit, CountersOK, RowType, WorkType, DecisionType
  <2>2. ~x8' => \A v \in Procs : Kycs!At(v, "sync") <=> Kycs!At(v, "sync")'
      BY <1>7, <2>1 DEF Kycs!At
  <2>3. Kycs!TheOneSentIsTheLast'
      BY <1>1, <1>7, <2>1, <2>2 DEF Kycs!TheOneSentIsTheLast, Kycs!At
  <2>4. Kycs!ChainFollowsDecision'
      BY <1>1, <1>7, <2>2 DEF Kycs!ChainFollowsDecision, Kycs!Quiet
  <2> QED
      BY <1>1, <1>3, <1>7, <2>1, <2>3, <2>4
\* It is about to send what was decided.
<1>8. ASSUME NEW w \in Procs, NEW x, Fine(x), x4' = [x4 EXCEPT ![w] = x], x.step = "sync",
             x5'.what = x.answer, UNCHANGED <<x1, x3, x8, x9, x10, x6, x7>>,
             x5' \in DecisionType, x2' \in [KycAnchors -> RowType], RowsFit(x2', x5')
      PROVE  Kycs!IInv'
  <2>1. /\ x4' \in [Procs -> WorkType] /\ DOMAIN x4' = Procs
        /\ x4'[w] = x /\ \A v \in Procs \ {w} : x4'[v] = x4[v]
        /\ \A v \in Procs : Fine(x4'[v])
      BY <1>6, <1>8
  <2>2. CountersOK'
      BY <1>1, <1>8
  <2> HIDE DEF Fine, RowsFit, CountersOK, RowType, WorkType, DecisionType
  <2>3. Kycs!TheOneSentIsTheLast' /\ Kycs!ChainFollowsDecision'
      BY <1>8, <2>1 DEF Kycs!TheOneSentIsTheLast, Kycs!ChainFollowsDecision, Kycs!Quiet,
         Kycs!At
  <2> QED
      BY <1>1, <1>3, <1>8, <2>1, <2>2, <2>3
\* Nobody moves, and nothing is decided.
<1>9. ASSUME UNCHANGED <<x1, x3, x4, x5, x8>>, x2' \in [KycAnchors -> RowType],
             CountersOK', RowsFit(x2', x5)
      PROVE  Kycs!IInv'
  <2>1. Kycs!TheOneSentIsTheLast' /\ Kycs!ChainFollowsDecision'
      BY <1>1, <1>9 DEF Kycs!TheOneSentIsTheLast, Kycs!ChainFollowsDecision, Kycs!Quiet,
         Kycs!At
  <2>2. DOMAIN x4' = Procs /\ \A w \in Procs : Fine(x4'[w])
      BY <1>1, <1>2, <1>9
  <2> HIDE DEF Fine, RowsFit, CountersOK, RowType, WorkType, DecisionType
  <2> QED
      BY <1>1, <1>3, <1>9, <2>1, <2>2
<1>10. ASSUME NEW w \in Procs, NEW a \in KycAnchors, Kycs!PollReads(w, a) \/ Kycs!NoticeReads(w, a)
       PROVE  Kycs!IInv'
  <2>1. /\ x1 = "status" /\ Kycs!At(w, "idle") /\ x2[a].status \in Kycs!Statuses \ {"rejected"}
        /\ UNCHANGED <<Kycs!settings, x1, x2, x3, x5, x8, x9, x10>>
      BY <1>10 DEF Kycs!PollReads, Kycs!NoticeReads, Kycs!NeedsCheck, Kycs!Statuses,
         Kycs!Answers
  <2>2. PICK s \in {"ask", "notice"} :
            x4' = [x4 EXCEPT ![w] = [Kycs!Idle EXCEPT !.step = s, !.on = {a}, !.saw = x2[a].status]]
    <3>1. Kycs!NoticeReads(w, a) => x2[a].status = "approved"
        BY DEF Kycs!NoticeReads
    <3> QED
        BY <1>10, <3>1 DEF Kycs!PollReads, Kycs!NoticeReads
  <2> DEFINE x == [Kycs!Idle EXCEPT !.step = s, !.on = {a}, !.saw = x2[a].status]
  <2>3. x \in WorkType /\ x.step = s /\ x.on = {a} /\ x.saw = x2[a].status
    <3>1. s \in {"idle", "ask", "save", "sync", "notice"} /\ {a} \in SUBSET KycAnchors
          /\ x2[a].status \in Kycs!Statuses \cup {"none"}
        BY <2>1, <2>2
    <3> QED
        BY <3>1 DEF Kycs!Idle, Kycs!Answers, Kycs!Terms
  <2> HIDE DEF x
  <2>4. Fine(x)
      BY <2>1, <2>2, <2>3
  <2>5. CountersOK'
      BY <1>1, <2>1 DEF Kycs!settings
  <2> HIDE DEF Fine, RowsFit, CountersOK, RowType, WorkType, DecisionType
  <2> QED
      BY <1>1, <1>7, <2>1, <2>2, <2>3, <2>4, <2>5 DEF Kycs!At, x
<1>11. ASSUME NEW w \in Procs, Kycs!PollAsks(w) PROVE Kycs!IInv'
  <2>1. Kycs!At(w, "ask") /\ UNCHANGED <<Kycs!settings, x1, x2, x3, x5, x8, x9, x10>>
      BY <1>11 DEF Kycs!PollAsks
  <2>2. CountersOK'
      BY <1>1, <2>1 DEF Kycs!settings
  <2>3. CASE Kycs!Done(w)
    <3> HIDE DEF Fine, RowsFit, CountersOK, RowType, WorkType, DecisionType
    <3> QED
        BY <1>1, <1>4, <1>7, <2>1, <2>2, <2>3 DEF Kycs!At, Kycs!Done
  <2>4. ASSUME NEW s \in Kycs!Answers, NEW u \in {"none", "soon"},
               x4' = [x4 EXCEPT ![w].step = "save", ![w].answer = s, ![w].until = u]
        PROVE  Kycs!IInv'
    <3> DEFINE x == [x4[w] EXCEPT !.step = "save", !.answer = s, !.until = u]
    <3>1. x \in WorkType /\ x.step = "save" /\ x.on = x4[w].on /\ x.saw = x4[w].saw
      <4>1. x4[w] \in WorkType /\ s \in Kycs!Answers \cup {"none"} /\ u \in Kycs!Terms
          BY <1>1, <2>4 DEF Kycs!Terms
      <4> QED
          BY <4>1
    <3>2. x4' = [x4 EXCEPT ![w] = x]
        BY <1>1, <2>4
    <3> HIDE DEF x
    <3>3. Fine(x)
        BY <1>2, <2>1, <3>1 DEF Kycs!At
    <3> HIDE DEF Fine, RowsFit, CountersOK, RowType, WorkType, DecisionType
    <3> QED
        BY <1>1, <1>7, <2>1, <2>2, <3>1, <3>2, <3>3 DEF Kycs!At
  <2> QED
      BY <1>11, <2>3, <2>4 DEF Kycs!PollAsks
\* What a statement on the row makes of it.
<1>12. ASSUME NEW a \in KycAnchors, NEW s \in Kycs!Statuses \cup {"none"}, NEW u \in Kycs!Terms, Kycs!Saved(a, s, u)
       PROVE  x2' \in [KycAnchors -> RowType]
  <2>1. [status |-> s, until |-> u, old |-> FALSE, verified |-> x2[a].verified] \in RowType
      BY <1>1 DEF Kycs!Terms
  <2>2. x2' = [x2 EXCEPT ![a] = [status |-> s, until |-> u, old |-> FALSE, verified |-> x2[a].verified]]
      BY <1>1, <1>12 DEF Kycs!Saved
  <2> HIDE DEF RowType
  <2> QED
      BY <1>1, <2>1, <2>2
<1>13. ASSUME NEW w \in Procs, Kycs!PollSaves(w) PROVE Kycs!IInv'
  <2> DEFINE a == Kycs!OnAnchor(w)
             s == x4[w].answer
  <2>1. /\ Kycs!At(w, "save") /\ a \in KycAnchors /\ x4[w].on = {a} /\ x1 # "kyc_status"
        /\ Kycs!Saved(a, s, x4[w].until) /\ Kycs!Decided(a, s)
        /\ IF Kycs!Decides(s) THEN x4' = [x4 EXCEPT ![w].step = "sync"] ELSE Kycs!Done(w)
        /\ UNCHANGED <<Kycs!settings, x1, x3, x8, x9, x10>>
      BY <1>2, <1>5, <1>13 DEF Kycs!PollSaves, Kycs!At
  <2>2. x4[w] \in WorkType /\ s \in Kycs!Answers \cup {"none"} /\ x4[w].until \in Kycs!Terms
      BY <1>1
  <2>3. x2' \in [KycAnchors -> RowType]
    <3>1. s \in Kycs!Statuses \cup {"none"}
        BY <2>2 DEF Kycs!Statuses
    <3> HIDE DEF s, a, RowType
    <3> QED
        BY <1>12, <2>1, <2>2, <3>1
  <2>4. CountersOK' /\ (\A d : RowsFit(x2', d)) /\ x8' = x8 /\ UNCHANGED <<x1, x3>>
      BY <1>1, <2>1 DEF Kycs!settings
  <2>5. CASE Kycs!Decides(s)
    <3> DEFINE x == [x4[w] EXCEPT !.step = "sync"]
    <3>1. x \in WorkType /\ x.step = "sync" /\ x.on = x4[w].on /\ x.answer = s
        BY <2>2
    <3>2. x4' = [x4 EXCEPT ![w] = x] /\ x5' = [by |-> {a}, what |-> s]
          /\ s \in {"approved", "rejected"}
        BY <1>1, <2>1, <2>5 DEF Kycs!Decides, Kycs!Decided
    <3>3. x5' \in DecisionType /\ x5'.what = s
        BY <2>1, <3>2
    <3> HIDE DEF x, s, a
    <3>4. Fine(x)
        BY <2>1, <3>1, <3>2
    <3> HIDE DEF Fine, RowsFit, CountersOK, RowType, WorkType, DecisionType
    <3> QED
        BY <1>8, <2>1, <2>3, <2>4, <3>1, <3>2, <3>3, <3>4 DEF Kycs!settings
  <2>6. CASE ~Kycs!Decides(s)
    <3>1. x4' = [x4 EXCEPT ![w] = Kycs!Idle] /\ x5' = x5
        BY <2>1, <2>6 DEF Kycs!Decides, Kycs!Decided, Kycs!Done
    <3>2. CountersOK' /\ RowsFit(x2', x5) /\ UNCHANGED <<x1, x3, x5>>
        BY <2>4, <3>1
    <3>3. (~Kycs!At(w, "sync") \/ x8') /\ (x8 => x8')
        BY <2>1, <2>4 DEF Kycs!At
    <3> HIDE DEF s, a, Fine, RowsFit, CountersOK, RowType, WorkType, DecisionType
    <3>4. Fine(Kycs!Idle) /\ Kycs!Idle.step # "sync"
        BY <1>4
    <3> QED
        BY <1>7, <2>3, <3>1, <3>2, <3>3, <3>4
  <2> QED
      BY <2>5, <2>6
<1>14. ASSUME NEW w \in Procs, Kycs!Sync(w) PROVE Kycs!IInv'
  <2>1. /\ Kycs!At(w, "sync") /\ x3' = x4[w].answer /\ x4' = [x4 EXCEPT ![w] = Kycs!Idle]
        /\ x8' = (x8 \/ \E v \in Procs \ {w} : Kycs!At(v, "sync"))
        /\ UNCHANGED <<Kycs!settings, x1, x2, x5, x9, x10>>
      BY <1>14 DEF Kycs!Sync, Kycs!Done
  <2>2. /\ x4' \in [Procs -> WorkType] /\ DOMAIN x4' = Procs
        /\ x4'[w] = Kycs!Idle /\ \A v \in Procs \ {w} : x4'[v] = x4[v]
        /\ \A v \in Procs : Fine(x4'[v])
      BY <1>4, <1>6, <2>1
  <2>3. CountersOK' /\ RowsFit(x2', x5') /\ x3' \in {"none", "approved", "rejected"}
      BY <1>1, <1>2, <2>1 DEF Kycs!settings, Kycs!At
  <2> HIDE DEF Fine, RowsFit, CountersOK, RowType, WorkType, DecisionType
  <2>4. ~x8' => \A v \in Procs : ~Kycs!At(v, "sync")'
      BY <1>4, <2>1, <2>2 DEF Kycs!At
  <2>5. Kycs!TheOneSentIsTheLast'
      BY <2>4 DEF Kycs!TheOneSentIsTheLast
  <2>6. Kycs!ChainFollowsDecision'
      BY <1>1, <2>1 DEF Kycs!ChainFollowsDecision, Kycs!Quiet, Kycs!TheOneSentIsTheLast
  <2> QED
      BY <1>1, <1>3, <2>1, <2>2, <2>3, <2>5, <2>6
<1>15. ASSUME NEW w \in Procs, Kycs!WorkFails(w) \/ Kycs!NoticeSaves(w) PROVE Kycs!IInv'
  <2>1. /\ ~Kycs!At(w, "idle") /\ x4' = [x4 EXCEPT ![w] = Kycs!Idle]
        /\ UNCHANGED <<Kycs!settings, x1, x3, x5>> /\ x9' = x9
        /\ x10' \in 0..MaxFaults /\ x8' = (x8 \/ Kycs!At(w, "sync"))
    <3>1. CASE Kycs!WorkFails(w)
        BY <1>1, <3>1 DEF Kycs!WorkFails, Kycs!Done, Kycs!Fault, Kycs!KycAssumption
    <3>2. CASE Kycs!NoticeSaves(w)
        BY <1>1, <3>2 DEF Kycs!NoticeSaves, Kycs!Done, Kycs!At
    <3> QED
        BY <1>15, <3>1, <3>2
  <2>2. CountersOK'
      BY <1>1, <2>1 DEF Kycs!settings, Kycs!At
  <2>3. x2' \in [KycAnchors -> RowType] /\ RowsFit(x2', x5)
    <3>1. CASE Kycs!WorkFails(w)
        BY <1>1, <3>1 DEF Kycs!WorkFails
    <3>2. CASE Kycs!NoticeSaves(w)
      <4>1. Kycs!At(w, "notice") /\ x1 # "kyc_status" /\ Kycs!OnAnchor(w) \in KycAnchors
          BY <1>2, <1>5, <3>2 DEF Kycs!NoticeSaves, Kycs!At
      <4>2. x2' = [x2 EXCEPT ![Kycs!OnAnchor(w)].status = "re_verification_pending", ![Kycs!OnAnchor(w)].old = FALSE]
          BY <3>2 DEF Kycs!NoticeSaves
      <4>3. [x2[Kycs!OnAnchor(w)] EXCEPT !.status = "re_verification_pending", !.old = FALSE] \in RowType
          BY <1>1, <4>1 DEF Kycs!Statuses
      <4>4. x2' = [x2 EXCEPT ![Kycs!OnAnchor(w)] =
                      [x2[Kycs!OnAnchor(w)] EXCEPT !.status = "re_verification_pending", !.old = FALSE]]
          BY <1>1, <4>1, <4>2
      <4>5. x2' \in [KycAnchors -> RowType]
        <5> HIDE DEF RowType
        <5> QED
            BY <1>1, <4>1, <4>3, <4>4
      <4> QED
          BY <2>1, <4>1, <4>5
    <3> QED
        BY <1>15, <3>1, <3>2
  <2> HIDE DEF Fine, RowsFit, CountersOK, RowType, WorkType, DecisionType
  <2> QED
      BY <1>1, <1>4, <1>7, <2>1, <2>2, <2>3
<1>16. ASSUME NEW a \in KycAnchors, Kycs!Register(a) \/ \E s \in Kycs!Answers \cup {"needs_info"} : Kycs!Notified(a, s)
       PROVE  Kycs!IInv'
  <2>1. PICK s \in Kycs!Answers \cup {"needs_info"} : Kycs!Saved(a, s, "none")
      BY <1>16 DEF Kycs!Register, Kycs!Notified, Kycs!Answers
  <2>2. /\ x1 = "status" /\ x9' \in 0..MaxPushes
        /\ UNCHANGED <<Kycs!settings, x1, x3, x4, x5, x8, x10>>
      BY <1>1, <1>16 DEF Kycs!Register, Kycs!Notified, Kycs!Push, Kycs!KycAssumption
  <2>3. s \in Kycs!Statuses \cup {"none"} /\ "none" \in Kycs!Terms
      BY DEF Kycs!Statuses, Kycs!Terms
  <2>4. CountersOK' /\ RowsFit(x2', x5)
      BY <1>1, <2>2 DEF Kycs!settings
  <2> HIDE DEF Fine, RowsFit, CountersOK, RowType, WorkType, DecisionType
  <2> QED
      BY <1>9, <1>12, <2>1, <2>2, <2>3, <2>4
<1>17. ASSUME NEW a \in KycAnchors, Kycs!Configure(a) PROVE Kycs!IInv'
  <2>1. /\ x9' \in 0..MaxPushes /\ x6' \subseteq KycAnchors
        /\ UNCHANGED <<x7, x1, x2, x3, x4, x5, x8, x10>>
      BY <1>1, <1>17 DEF Kycs!Configure, Kycs!Push, Kycs!KycAssumption
  <2>2. CountersOK' /\ x2' \in [KycAnchors -> RowType] /\ RowsFit(x2', x5)
      BY <1>1, <2>1
  <2> HIDE DEF Fine, RowsFit, CountersOK, RowType, WorkType, DecisionType
  <2> QED
      BY <1>9, <2>1, <2>2
<1>18. ASSUME NEW a \in KycAnchors, Kycs!RowAges(a) PROVE Kycs!IInv'
  <2>1. UNCHANGED <<Kycs!settings, x1, x3, x4, x5, x8, x9, x10>>
      BY <1>18 DEF Kycs!RowAges
  <2>2. x2' \in [KycAnchors -> RowType] /\ \A b \in KycAnchors : x2'[b].status = x2[b].status
    <3>1. x2[a] \in RowType
        BY <1>1
    <3>2. PICK r \in {[x2[a] EXCEPT !.old = TRUE], [x2[a] EXCEPT !.until = "past"]} :
              x2' = [x2 EXCEPT ![a] = r]
        BY <1>1, <1>18 DEF Kycs!RowAges
    <3>3. r \in RowType /\ r.status = x2[a].status
        BY <3>1, <3>2 DEF Kycs!Terms
    <3> HIDE DEF RowType
    <3> QED
        BY <1>1, <3>2, <3>3
  <2>3. CountersOK' /\ RowsFit(x2', x5)
    <3>1. x5.by \subseteq KycAnchors
        BY <1>1
    <3> QED
        BY <1>1, <2>1, <2>2, <3>1 DEF Kycs!settings
  <2> HIDE DEF Fine, RowsFit, CountersOK, RowType, WorkType, DecisionType
  <2> QED
      BY <1>9, <2>1, <2>2, <2>3
<1>19. ASSUME NEW w \in Procs, NEW a \in KycAnchors, NEW s \in Kycs!Answers, NEW v \in 1..MaxVerified,
              NEW u \in {"none", "soon"}, Kycs!Upsert(w, a, s, v, u)
       PROVE  Kycs!IInv'
  <2>1. /\ x1 = "kyc_status" /\ Kycs!At(w, "idle") /\ Kycs!Decided(a, s)
        /\ x2' = [x2 EXCEPT ![a] = [status |-> s, until |-> u, old |-> FALSE, verified |-> v]]
        /\ UNCHANGED <<Kycs!settings, x1, x3, x8, x9, x10>>
      BY <1>19 DEF Kycs!Upsert
  <2>2. [status |-> s, until |-> u, old |-> FALSE, verified |-> v] \in RowType
    <3>1. s \in Kycs!Statuses \cup {"none"} /\ u \in Kycs!Terms /\ v \in 0..MaxVerified
        BY DEF Kycs!Statuses, Kycs!Terms, Kycs!KycAssumption
    <3> QED
        BY <3>1
  <2>3. /\ x2' \in [KycAnchors -> RowType] /\ x2'[a].status = s
        /\ \A b \in KycAnchors \ {a} : x2'[b] = x2[b]
    <3> HIDE DEF RowType
    <3> QED
        BY <1>1, <2>1, <2>2
  <2>4. CountersOK' /\ x8' = x8 /\ UNCHANGED <<x1, x3, x9, x10, x6, x7>>
      BY <1>1, <2>1 DEF Kycs!settings
  <2>5. CASE Kycs!Decides(s)
    <3> DEFINE x == [Kycs!Idle EXCEPT !.step = "sync", !.on = {a}, !.answer = s]
    <3>1. x \in WorkType /\ x.step = "sync" /\ x.on = {a} /\ x.answer = s
      <4>1. {a} \in SUBSET KycAnchors /\ s \in Kycs!Answers \cup {"none"}
          OBVIOUS
      <4> QED
          BY <4>1 DEF Kycs!Idle, Kycs!Answers, Kycs!Statuses, Kycs!Terms
    <3>2. x4' = [x4 EXCEPT ![w] = x] /\ x5' = [by |-> {a}, what |-> s]
          /\ s \in {"approved", "rejected"}
        BY <1>19, <2>1, <2>5 DEF Kycs!Upsert, Kycs!Decides, Kycs!Decided
    <3>3. x5' \in DecisionType /\ x5'.what = s /\ x5'.by = {a}
        BY <3>2
    <3>4. RowsFit(x2', x5')
        BY <2>3, <3>2, <3>3
    <3> HIDE DEF x
    <3>5. Fine(x)
        BY <3>1, <3>2
    <3> HIDE DEF Fine, RowsFit, CountersOK, RowType, WorkType, DecisionType
    <3> QED
        BY <1>8, <2>3, <2>4, <3>1, <3>2, <3>3, <3>4, <3>5
  <2>6. CASE ~Kycs!Decides(s)
    <3>1. x4' = x4 /\ x5' = x5 /\ s # "approved"
        BY <1>19, <2>1, <2>6 DEF Kycs!Upsert, Kycs!Decides, Kycs!Decided
    <3>2. RowsFit(x2', x5)
      <4>1. x5.by \subseteq KycAnchors
          BY <1>1
      <4> QED
          BY <1>1, <2>1, <2>3, <3>1, <4>1
    <3> HIDE DEF Fine, RowsFit, CountersOK, RowType, WorkType, DecisionType
    <3> QED
        BY <1>9, <2>3, <2>4, <3>1, <3>2
  <2> QED
      BY <2>5, <2>6
<1>20. ASSUME Kycs!Restart PROVE Kycs!IInv'
  <2>1. /\ x4' = [w \in Procs |-> Kycs!Idle] /\ x7' = x6 /\ x10' \in 0..MaxFaults
        /\ x8' = (x8 \/ \E w \in Procs : Kycs!At(w, "sync"))
        /\ UNCHANGED <<x6, x1, x2, x3, x5, x9>>
      BY <1>1, <1>20 DEF Kycs!Restart, Kycs!Fault, Kycs!KycAssumption
  <2>2. /\ x4' \in [Procs -> WorkType] /\ DOMAIN x4' = Procs
        /\ \A w \in Procs : x4'[w] = Kycs!Idle
      BY <1>4, <2>1
  <2>3. \A w \in Procs : Fine(x4'[w])
      BY <1>4, <2>1, <2>2
  <2>4. CountersOK' /\ RowsFit(x2', x5')
      BY <1>1, <2>1
  <2> HIDE DEF Fine, RowsFit, CountersOK, RowType, WorkType, DecisionType
  <2>5. Kycs!TheOneSentIsTheLast'
      BY <1>4, <2>2 DEF Kycs!TheOneSentIsTheLast, Kycs!At
  <2>6. Kycs!ChainFollowsDecision'
      BY <1>1, <2>1 DEF Kycs!ChainFollowsDecision, Kycs!Quiet
  <2> QED
      BY <1>1, <1>3, <2>1, <2>2, <2>3, <2>4, <2>5, <2>6
<1>21. ASSUME UNCHANGED Kycs!vars PROVE Kycs!IInv'
  <2>1. CountersOK' /\ RowsFit(x2', x5') /\ x2' \in [KycAnchors -> RowType]
        /\ UNCHANGED <<x1, x3, x4, x5, x8>>
      BY <1>1, <1>21 DEF Kycs!vars, Kycs!settings
  <2> HIDE DEF Fine, RowsFit, CountersOK, RowType, WorkType, DecisionType
  <2> QED
      BY <1>9, <2>1
<1> QED
    BY <1>10, <1>11, <1>13, <1>14, <1>15, <1>16, <1>17, <1>18, <1>19, <1>20, <1>21
       DEF Kycs!Next

LEMMA KycHolds == Kycs!IInv => Kycs!ChainFollowsDecision /\ Kycs!GuardAgreesWithChain
<1> SUFFICES ASSUME Kycs!IInv, Kycs!Guard = "let through", Kycs!Quiet
             PROVE  x3 = "approved" \/ \E a \in x5.by : x2[a].status # "approved"
    BY DEF Kycs!IInv, Kycs!GuardAgreesWithChain
<1>1. x1 = "kyc_status" /\ Kycs!CanTransfer
    BY DEF Kycs!Guard, Kycs!IInv, Kycs!TypeOK, Kycs!Columns
<1>2. PICK a \in KycAnchors : x2[a].status = "approved"
    BY <1>1 DEF Kycs!CanTransfer, Kycs!Rows
<1>3. /\ x3 = x5.what
      /\ x5.what \in {"none", "approved", "rejected"}
    BY DEF Kycs!IInv, Kycs!ChainFollowsDecision, Kycs!TypeOK
<1> QED
    BY <1>1, <1>2, <1>3 DEF Kycs!IInv, Kycs!UpsertsDecide

\* A rejection is taken back by a push, by newer word, or by a worker that had read the row.
LEMMA RejectionStep ==
    Kycs!KycAssumption /\ Kycs!IInv /\ (Kycs!Next \/ UNCHANGED Kycs!vars) => Kycs!RejectionRevisedLate
<1> SUFFICES ASSUME Kycs!KycAssumption, Kycs!IInv, Kycs!Next, NEW a \in KycAnchors, Kycs!RejectionTakenBack(a)
             PROVE  \/ x9' # x9
                    \/ x2'[a].verified > x2[a].verified
                    \/ \E w \in Procs : a \in x4[w].on /\ x4[w].saw # "rejected" /\ x4'[w] # x4[w]
    BY DEF Kycs!RejectionRevisedLate, Kycs!RejectionTakenBack, Kycs!vars
<1>1. Kycs!TypeOK /\ Kycs!WorkersHoldARow
    BY DEF Kycs!IInv
<1>2. x2[a].status = "rejected" /\ x2'[a].status # "rejected"
    BY DEF Kycs!RejectionTakenBack
<1>3. CASE \E w \in Procs : Kycs!PollSaves(w) \/ Kycs!NoticeSaves(w)
  <2>1. PICK w \in Procs : Kycs!PollSaves(w) \/ Kycs!NoticeSaves(w)
      BY <1>3
  <2>2. /\ Kycs!At(w, "save") \/ Kycs!At(w, "notice")
        /\ Kycs!OnAnchor(w) \in KycAnchors /\ x4[w].on = {Kycs!OnAnchor(w)} /\ x4[w].saw # "rejected"
      BY <1>1, <2>1 DEF Kycs!PollSaves, Kycs!NoticeSaves, Kycs!WorkersHoldARow, Kycs!At,
         Kycs!OnAnchor
  <2>3. \A b \in KycAnchors \ {Kycs!OnAnchor(w)} : x2'[b] = x2[b]
      BY <1>1, <2>1, <2>2 DEF Kycs!PollSaves, Kycs!NoticeSaves, Kycs!Saved, Kycs!TypeOK
  <2>4. Kycs!OnAnchor(w) = a
      BY <1>2, <2>2, <2>3
  <2>5. x4'[w].step \in {"sync", "idle"}
      BY <1>1, <2>1 DEF Kycs!PollSaves, Kycs!NoticeSaves, Kycs!Done, Kycs!Idle, Kycs!TypeOK
  <2> QED
      BY <2>2, <2>4, <2>5 DEF Kycs!At
<1>4. CASE \E b \in KycAnchors : Kycs!Register(b) \/ \E s \in Kycs!Answers \cup {"needs_info"} : Kycs!Notified(b, s)
    BY <1>1, <1>4 DEF Kycs!Register, Kycs!Notified, Kycs!Push, Kycs!TypeOK
<1>5. CASE \E w \in Procs : \E b \in KycAnchors, s \in Kycs!Answers, v \in 1..MaxVerified, u \in {"none", "soon"} :
               Kycs!Upsert(w, b, s, v, u)
  <2>1. PICK w \in Procs, b \in KycAnchors, s \in Kycs!Answers, v \in 1..MaxVerified, u \in {"none", "soon"} :
            Kycs!Upsert(w, b, s, v, u)
      BY <1>5
  <2>2. /\ x2' = [x2 EXCEPT ![b] = [status |-> s, until |-> u, old |-> FALSE, verified |-> v]]
        /\ Kycs!Newer(b, v)
      BY <2>1 DEF Kycs!Upsert
  <2>3. \A c \in KycAnchors \ {b} : x2'[c] = x2[c]
      BY <1>1, <2>2 DEF Kycs!TypeOK
  <2>4. a = b /\ x2'[a].verified = v
      BY <1>1, <1>2, <2>2, <2>3 DEF Kycs!TypeOK
  <2> QED
      BY <1>2, <2>2, <2>4 DEF Kycs!Newer
<1>6. CASE \E b \in KycAnchors : Kycs!RowAges(b)
  <2>1. PICK b \in KycAnchors : Kycs!RowAges(b)
      BY <1>6
  <2>2. x2'[a].status = x2[a].status
      BY <1>1, <2>1 DEF Kycs!RowAges, Kycs!TypeOK
  <2> QED
      BY <1>2, <2>2
<1>7. CASE \/ \E w \in Procs : \/ \E b \in KycAnchors : Kycs!PollReads(w, b) \/ Kycs!NoticeReads(w, b)
                               \/ Kycs!PollAsks(w) \/ Kycs!Sync(w) \/ Kycs!WorkFails(w)
           \/ (\E b \in KycAnchors : Kycs!Configure(b)) \/ Kycs!Restart
    BY <1>2, <1>7 DEF Kycs!PollReads, Kycs!NoticeReads, Kycs!PollAsks, Kycs!Sync,
       Kycs!WorkFails, Kycs!Configure, Kycs!Restart
<1> QED
    BY <1>3, <1>4, <1>5, <1>6, <1>7 DEF Kycs!Next

-----------------------------------------------------------------------------
(***************************************************************************)
(* AgentKyc: x1 agent, x2 customer, x3 task, x4 submitted, x5 accepted,    *)
(* x6 faults.                                                              *)
(***************************************************************************)
Agents == INSTANCE AgentKyc WITH Tasks <- Procs, agent <- x1, customer <- x2, task <- x3,
    submitted <- x4, accepted <- x5, faults <- x6

LEMMA AgentsBegin == Agents!AgentKycAssumption /\ Agents!Init => Agents!IInv
<1> SUFFICES ASSUME Agents!AgentKycAssumption, Agents!Init PROVE Agents!IInv
    OBVIOUS
<1>1. /\ "none" \in Agents!RowStatuses /\ "PROCESSING" \in Agents!Verdicts
      /\ 0 \in 0..MaxSubmissions /\ 0 \in 0..MaxFaults
    BY DEF Agents!RowStatuses, Agents!Verdicts, Agents!AgentKycAssumption
<1>2. /\ x1.status = "none" /\ x1.known = FALSE /\ x2.verdict = "PROCESSING"
      /\ \A t \in Procs : x3[t].step = "idle"
    BY DEF Agents!Init, Agents!NoTask
<1>3. Agents!TypeOK
    BY <1>1 DEF Agents!Init, Agents!TypeOK, Agents!NoTask
<1> QED
    BY <1>2, <1>3 DEF Agents!IInv, Agents!InHandWasSubmitted, Agents!ApprovalWasHeard,
       Agents!ApprovedWasAccepted, Agents!At

LEMMA AgentsStep ==
    Agents!AgentKycAssumption /\ Agents!IInv /\ (Agents!Next \/ UNCHANGED Agents!vars) => Agents!IInv'
<1> SUFFICES ASSUME Agents!AgentKycAssumption, Agents!IInv, (Agents!Next \/ UNCHANGED Agents!vars)
             PROVE  Agents!IInv'
    OBVIOUS
<1> DEFINE RowType == [status : Agents!RowStatuses, data : 0..MaxSubmissions, known : BOOLEAN]
           TaskType == [step : {"idle", "store", "ask", "reread", "write"},
                        data : 0..MaxSubmissions, status : Agents!RowStatuses, known : BOOLEAN]
<1>1. /\ Agents!InHandWasSubmitted /\ Agents!ApprovalWasHeard /\ Agents!ApprovedWasAccepted
      /\ x4 \in Nat /\ x4 <= MaxSubmissions /\ MaxSubmissions \in Nat
      /\ x6 \in Nat /\ x6 <= MaxFaults /\ MaxFaults \in Nat
      /\ x3 \in [Procs -> TaskType] /\ x1 \in RowType /\ x5 \in BOOLEAN
      /\ x2 \in [data : 0..MaxSubmissions, verdict : Agents!Verdicts]
    BY DEF Agents!IInv, Agents!TypeOK, Agents!AgentKycAssumption
<1>2. /\ x1.status \in Agents!RowStatuses /\ x1.data \in 0..MaxSubmissions
      /\ x2.verdict \in Agents!Verdicts
      /\ \A t \in Procs : /\ x3[t] \in TaskType /\ x3[t].status \in Agents!RowStatuses
                          /\ x3[t].data \in 0..MaxSubmissions
    BY <1>1
<1>3. Agents!NoTask \in TaskType /\ Agents!NoTask.step = "idle"
    BY <1>1 DEF Agents!NoTask, Agents!RowStatuses
\* The invariant from its parts.
<1>4. ASSUME x3' \in [Procs -> TaskType], x1' \in RowType, x5' \in BOOLEAN,
             x2' \in [data : 0..MaxSubmissions, verdict : Agents!Verdicts],
             x4' \in Nat, x4' <= MaxSubmissions, x6' \in Nat, x6' <= MaxFaults,
             Agents!InHandWasSubmitted', Agents!ApprovalWasHeard', Agents!ApprovedWasAccepted'
      PROVE  Agents!IInv'
    BY <1>1, <1>4 DEF Agents!IInv, Agents!TypeOK
\* A task goes on with x.
<1>5. ASSUME NEW t \in Procs, NEW x \in TaskType, x3' = [x3 EXCEPT ![t] = x]
      PROVE  /\ x3' \in [Procs -> TaskType] /\ x3'[t] = x
             /\ \A u \in Procs \ {t} : x3'[u] = x3[u]
    BY <1>1, <1>5
<1> HIDE DEF TaskType, RowType
<1>7. ASSUME NEW t \in Procs, Agents!Submit(t) PROVE Agents!IInv'
  <2>1. PICK x \in {[step |-> "store", data |-> x4 + 1, status |-> "under_review", known |-> TRUE],
                    [step |-> "store", data |-> x4 + 1, status |-> "submitted", known |-> FALSE]} :
          x3' = [x3 EXCEPT ![t] = x]
      BY <1>7 DEF Agents!Submit
  <2>2. /\ x4 < MaxSubmissions /\ x4' = x4 + 1
        /\ x2' \in {x2, [data |-> x4 + 1, verdict |-> "PROCESSING"]}
        /\ UNCHANGED <<x1, x5, x6>>
      BY <1>7 DEF Agents!Submit
  <2>3. x4 + 1 \in 1..MaxSubmissions /\ "under_review" \in Agents!RowStatuses /\ "submitted" \in Agents!RowStatuses
      BY <1>1, <2>2 DEF Agents!RowStatuses
  <2>4. /\ [step |-> "store", data |-> x4 + 1, status |-> "under_review", known |-> TRUE] \in TaskType
        /\ [step |-> "store", data |-> x4 + 1, status |-> "submitted", known |-> FALSE] \in TaskType
        /\ x.step = "store" /\ x.data = x4 + 1 /\ x.status # "approved"
      BY <2>1, <2>3 DEF TaskType
  <2>5. /\ x3' \in [Procs -> TaskType] /\ x3'[t] = x
        /\ \A u \in Procs \ {t} : x3'[u] = x3[u]
      BY <1>5, <2>1, <2>4
  <2>6. /\ x2' \in [data : 0..MaxSubmissions, verdict : Agents!Verdicts]
        /\ x2'.verdict \in {x2.verdict, "PROCESSING"}
      BY <1>1, <2>2, <2>3 DEF Agents!Verdicts
  <2>7. \A n : n \in 1..x4 => n \in 1..x4'
      BY <1>1, <2>2
  <2>8. Agents!InHandWasSubmitted'
      BY <1>1, <2>2, <2>3, <2>4, <2>5, <2>7 DEF Agents!InHandWasSubmitted, Agents!At
  <2>9. Agents!ApprovalWasHeard'
      BY <1>1, <2>2, <2>4, <2>5, <2>6 DEF Agents!ApprovalWasHeard, Agents!At
  <2>10. Agents!ApprovedWasAccepted'
      BY <1>1, <2>2, <2>7 DEF Agents!ApprovedWasAccepted
  <2> QED
      BY <1>1, <1>4, <2>2, <2>5, <2>6, <2>8, <2>9, <2>10
\* A task ends with its row written.
<1>8. ASSUME NEW t \in Procs, Agents!StoreSubmission(t) \/ Agents!ReviewWrites(t) PROVE Agents!IInv'
  <2>1. /\ x1' = [status |-> x3[t].status, data |-> x3[t].data,
                  known |-> x3[t].known \/ x1.known]
        /\ x3' = [x3 EXCEPT ![t] = Agents!NoTask] /\ (Agents!At(t, "store") \/ Agents!At(t, "write"))
        /\ UNCHANGED <<x2, x4, x5, x6>>
      BY <1>8 DEF Agents!StoreSubmission, Agents!ReviewWrites, Agents!Store, Agents!Finish
  <2>2. /\ x3[t].data \in 1..x4
        /\ x3[t].status = "approved" => x5
      BY <1>1, <2>1 DEF Agents!InHandWasSubmitted, Agents!ApprovalWasHeard
  <2>3. /\ x1' \in RowType /\ x1'.data = x3[t].data /\ x1'.status = x3[t].status
        /\ x1.known => x1'.known
      BY <1>2, <2>1 DEF RowType
  <2>4. /\ x3' \in [Procs -> TaskType] /\ x3'[t].step = "idle"
        /\ \A u \in Procs \ {t} : x3'[u] = x3[u]
    <3>2. x3' \in [Procs -> TaskType] /\ x3'[t] = Agents!NoTask
          /\ \A u \in Procs \ {t} : x3'[u] = x3[u]
        BY <1>3, <1>5, <2>1
    <3> QED
        BY <1>3, <3>2
  <2>5. Agents!InHandWasSubmitted'
      BY <1>1, <2>1, <2>2, <2>3, <2>4 DEF Agents!InHandWasSubmitted, Agents!At
  <2>6. Agents!ApprovalWasHeard' /\ Agents!ApprovedWasAccepted'
      BY <1>1, <2>1, <2>2, <2>3, <2>4 DEF Agents!ApprovalWasHeard,
         Agents!ApprovedWasAccepted, Agents!At
  <2> QED
      BY <1>1, <1>4, <2>1, <2>3, <2>4, <2>5, <2>6
\* A task goes on and writes no row.
<1>9. ASSUME NEW t \in Procs, NEW x \in TaskType, x3' = [x3 EXCEPT ![t] = x],
             UNCHANGED <<x1, x2, x4, x5>>, x6' \in Nat, x6' <= MaxFaults,
             x.step # "store",
             x.step \in {"ask", "reread"} => x1.known,
             x.step = "write" => x.data \in 1..x4,
             x.step \in {"reread", "write"} /\ x.status = "approved" => x5
      PROVE  Agents!IInv'
  <2>1. /\ x3' \in [Procs -> TaskType] /\ x3'[t] = x
        /\ \A u \in Procs \ {t} : x3'[u] = x3[u]
      BY <1>5, <1>9
  <2>2. Agents!InHandWasSubmitted'
      BY <1>1, <1>9, <2>1 DEF Agents!InHandWasSubmitted, Agents!At
  <2>3. Agents!ApprovalWasHeard' /\ Agents!ApprovedWasAccepted'
      BY <1>1, <1>9, <2>1 DEF Agents!ApprovalWasHeard, Agents!ApprovedWasAccepted, Agents!At
  <2> QED
      BY <1>1, <1>4, <1>9, <2>1, <2>2, <2>3
<1>10. ASSUME NEW s \in Agents!RowStatuses, NEW step \in {"ask", "reread"}
       PROVE  /\ [Agents!NoTask EXCEPT !.step = step, !.status = s] \in TaskType
              /\ [Agents!NoTask EXCEPT !.step = step, !.status = s].step = step
              /\ [Agents!NoTask EXCEPT !.step = step, !.status = s].status = s
  <2>1. step \in {"idle", "store", "ask", "reread", "write"} /\ 0 \in 0..MaxSubmissions
      BY <1>1
  <2> QED
      BY <1>10, <2>1 DEF TaskType, Agents!NoTask
<1>11. ASSUME NEW t \in Procs, Agents!SyncReads(t) PROVE Agents!IInv'
  <2> DEFINE x == [Agents!NoTask EXCEPT !.step = "ask", !.status = x1.status]
  <2>1. x \in TaskType /\ x.step = "ask"
      BY <1>2, <1>10
  <2>2. x3' = [x3 EXCEPT ![t] = x] /\ x1.known
        /\ UNCHANGED <<x1, x2, x4, x5, x6>>
      BY <1>11 DEF Agents!SyncReads
  <2> HIDE DEF x
  <2> QED
      BY <1>1, <1>9, <2>1, <2>2
<1>12. ASSUME NEW t \in Procs, Agents!SyncAsks(t) PROVE Agents!IInv'
  <2> DEFINE s == Agents!Verdict(x2.verdict)
             x == [Agents!NoTask EXCEPT !.step = "reread", !.status = s]
  <2>1. s \in Agents!RowStatuses /\ (s = "approved" => x5)
      BY <1>1, <1>2 DEF Agents!Verdict, Agents!Verdicts, Agents!RowStatuses,
         Agents!ApprovalWasHeard
  <2>2. /\ x3' \in {[x3 EXCEPT ![t] = x], [x3 EXCEPT ![t] = Agents!NoTask]} /\ x1.known
        /\ UNCHANGED <<x1, x2, x4, x5, x6>>
      BY <1>1, <1>12 DEF Agents!SyncAsks, Agents!Finish, Agents!InHandWasSubmitted
  <2> HIDE DEF s
  <2>3. x \in TaskType /\ x.step = "reread" /\ x.status = s
      BY <1>10, <2>1
  <2> HIDE DEF x
  <2>4. CASE x3' = [x3 EXCEPT ![t] = x]
      BY <1>1, <1>9, <2>1, <2>2, <2>3, <2>4
  <2>5. CASE x3' = [x3 EXCEPT ![t] = Agents!NoTask]
      BY <1>1, <1>3, <1>9, <2>2, <2>5
  <2> QED
      BY <2>2, <2>4, <2>5
<1>13. ASSUME NEW t \in Procs, Agents!ReviewReads(t) PROVE Agents!IInv'
  <2> DEFINE x == [x3[t] EXCEPT !.step = "write", !.data = x1.data, !.known = x1.known]
  <2>1. x3[t].step = "reread" /\ x3' = [x3 EXCEPT ![t] = x]
        /\ UNCHANGED <<x1, x2, x4, x5, x6>>
      BY <1>1, <1>13 DEF Agents!ReviewReads, Agents!At, TaskType
  <2>2. x1.known \in BOOLEAN /\ x3[t] \in TaskType
      BY <1>1 DEF RowType
  <2>3. x \in TaskType /\ x.step = "write" /\ x.data = x1.data /\ x.status = x3[t].status
      BY <1>2, <2>2 DEF TaskType
  <2>4. x1.data \in 1..x4 /\ (x.status = "approved" => x5)
      BY <1>1, <2>1, <2>3 DEF Agents!InHandWasSubmitted, Agents!ApprovalWasHeard, Agents!At
  <2> HIDE DEF x
  <2> QED
      BY <1>1, <1>9, <2>1, <2>3, <2>4
<1>14. ASSUME NEW t \in Procs, Agents!TaskFails(t) PROVE Agents!IInv'
  <2>1. x3' = [x3 EXCEPT ![t] = Agents!NoTask] /\ x6' \in Nat /\ x6' <= MaxFaults
        /\ UNCHANGED <<x1, x2, x4, x5>>
      BY <1>1, <1>14 DEF Agents!TaskFails, Agents!Finish
  <2> QED
      BY <1>3, <1>9, <2>1
<1>15. ASSUME NEW v \in Agents!Verdicts, Agents!AnchorDecides(v) PROVE Agents!IInv'
  <2>1. /\ x2' = [x2 EXCEPT !.verdict = v] /\ x5' = (x5 \/ v = "ACCEPTED")
        /\ UNCHANGED <<x1, x3, x4, x6>>
      BY <1>15 DEF Agents!AnchorDecides
  <2>2. /\ x2' \in [data : 0..MaxSubmissions, verdict : Agents!Verdicts] /\ x2'.verdict = v
        /\ x5' \in BOOLEAN
      BY <1>1, <2>1
  <2>3. Agents!InHandWasSubmitted' /\ Agents!ApprovalWasHeard' /\ Agents!ApprovedWasAccepted'
      BY <1>1, <2>1, <2>2 DEF Agents!InHandWasSubmitted, Agents!ApprovalWasHeard,
         Agents!ApprovedWasAccepted, Agents!At
  <2> QED
      BY <1>1, <1>4, <2>1, <2>2, <2>3
<1>16. ASSUME UNCHANGED Agents!vars PROVE Agents!IInv'
    BY <1>1, <1>16 DEF Agents!vars, Agents!IInv, Agents!TypeOK, Agents!InHandWasSubmitted,
       Agents!ApprovalWasHeard,
                       Agents!ApprovedWasAccepted, Agents!At
<1> QED
    BY <1>7, <1>8, <1>11, <1>12, <1>13, <1>14, <1>15, <1>16 DEF Agents!Next

-----------------------------------------------------------------------------
(***************************************************************************)
(* AdminApi: x1 action, x2 letter, x3 hook, x4 request, x5 confirmed,      *)
(* x6 received, x7 through, x8 faults.                                     *)
(***************************************************************************)
Admin == INSTANCE AdminApi WITH Requests <- Procs, action <- x1, letter <- x2, hook <- x3,
    request <- x4, confirmed <- x5, received <- x6, through <- x7, faults <- x8

\* The operators on finite sets are those of the library.
LEMMA SetsOfAdmin ==
    /\ \A S : Admin!Cardinality(S) = Cardinality(S)
    /\ \A S : Admin!IsFiniteSet(S) <=> IsFiniteSet(S)
BY DEF Cardinality, IsFiniteSet, Admin!Cardinality, Admin!IsFiniteSet

-----------------------------------------------------------------------------
(***************************************************************************)
(* Two names behind an x1, for any names and requests.                 *)
(***************************************************************************)
PendingActionType == [by : SUBSET AdminNames, second : SUBSET AdminNames, expired : BOOLEAN]
AdminRequestType == [step : {"idle", "confirm", "tell", "post", "mark"},
                id : SUBSET (Actions \cup Letters), who : SUBSET AdminNames]

RowsInv ==
    /\ x1 \in [Actions -> PendingActionType] /\ x5 \in [Actions -> SUBSET AdminNames]
    /\ x4 \in [Procs -> AdminRequestType] /\ x7 \subseteq Actions

\* An action has at most one initiator, and none confirms before there is one.
ByOne ==
    \A a \in Actions :
        /\ x1[a].by # {} => \E w \in AdminNames : x1[a].by = {w}
        /\ x1[a].by = {} => x1[a] \in {Admin!NoAction, Admin!Purged}
        /\ x1[a] = Admin!NoAction => x5[a] = {}

\* Whoever is past the checks of confirm gave a name that did not initiate the
\* action, and its row stays what it was then, or is purged; past the UPDATE the
\* row, when there is one, holds a second name.
Confirming(r) ==
    \E a \in Actions, w \in AdminNames :
        /\ x4[r].id = {a} /\ x1[a] # Admin!NoAction
        /\ x4[r].who = {w} /\ w \notin x1[a].by
        /\ Admin!At(r, "tell") => x1[a].second # {} \/ x1[a] = Admin!Purged
ConfirmersInv == \A r \in Procs : Admin!At(r, "confirm") \/ Admin!At(r, "tell") => Confirming(r)

PeopleInv == RowsInv /\ x8 \in Nat /\ ByOne /\ ConfirmersInv /\ Admin!TwoNames

LEMMA RowsStayRows == RowsInv /\ (Admin!Next \/ UNCHANGED Admin!vars) => RowsInv'
<1> SUFFICES ASSUME RowsInv, (Admin!Next \/ UNCHANGED Admin!vars) PROVE RowsInv'
  OBVIOUS
<1>0. Admin!NoRequest \in AdminRequestType
  BY DEF Admin!NoRequest, AdminRequestType
<1> USE DEF RowsInv
<1>1. ASSUME NEW a \in Actions, NEW who \in AdminNames, Admin!Initiate(a, who) PROVE RowsInv'
  BY <1>1 DEF Admin!Initiate, PendingActionType
<1>2. ASSUME NEW r \in Procs, NEW a \in Actions, NEW who \in AdminNames, Admin!ConfirmReads(r, a, who)
      PROVE  RowsInv'
  <2>1. [step |-> "confirm", id |-> {a}, who |-> {who}] \in AdminRequestType
    BY DEF AdminRequestType
  <2> QED
    BY <1>2, <2>1 DEF Admin!ConfirmReads, Admin!Begin
<1>3. ASSUME NEW r \in Procs, Admin!ConfirmWrites(r) PROVE RowsInv'
  <2>1. x4[r].who \in SUBSET AdminNames
    BY DEF AdminRequestType
  <2>2. x4' \in [Procs -> AdminRequestType]
    BY <1>3 DEF Admin!ConfirmWrites, AdminRequestType
  <2>3. x1' \in [Actions -> PendingActionType]
    BY <1>3, <2>1 DEF Admin!ConfirmWrites, PendingActionType
  <2>4. x5' \in [Actions -> SUBSET AdminNames]
    BY <1>3 DEF Admin!ConfirmWrites
  <2> QED
    BY <1>3, <2>2, <2>3, <2>4 DEF Admin!ConfirmWrites
<1>4. CASE Admin!PurgeExpired
  BY <1>4 DEF Admin!PurgeExpired, Admin!Purged, Admin!NoAction, PendingActionType
<1>5. ASSUME NEW a \in Actions, Admin!Expires(a) PROVE RowsInv'
  BY <1>5 DEF Admin!Expires, PendingActionType
<1>6. ASSUME NEW r \in Procs, NEW l \in Letters, Admin!ReplayReads(r, l) PROVE RowsInv'
  <2>1. [step |-> "post", id |-> {l}, who |-> {}] \in AdminRequestType
    BY DEF AdminRequestType
  <2> QED
    BY <1>6, <2>1 DEF Admin!ReplayReads, Admin!Begin
<1>7. ASSUME NEW r \in Procs, Admin!Post(r) PROVE RowsInv'
  BY <1>7, <1>0 DEF Admin!Post, Admin!Posted, Admin!Answered, AdminRequestType
<1>8. ASSUME NEW r \in Procs, Admin!Mark(r) \/ Admin!RequestFails(r) PROVE RowsInv'
  BY <1>8, <1>0 DEF Admin!Mark, Admin!RequestFails, Admin!Answered
<1>9. ASSUME NEW a \in Actions, Admin!Simulate(a) PROVE RowsInv'
  BY <1>9 DEF Admin!Simulate
<1>10. CASE Admin!Deactivate \/ UNCHANGED Admin!vars
  BY <1>10 DEF Admin!Deactivate, Admin!vars
<1>11. ASSUME NEW r \in Procs, Admin!ConfirmTold(r) PROVE RowsInv'
  <2>1. x4[r].who \in SUBSET AdminNames
    BY DEF AdminRequestType
  <2> QED
    BY <1>11, <1>0, <2>1 DEF Admin!ConfirmTold, Admin!Answered
<1> QED
  BY <1>1, <1>2, <1>3, <1>4, <1>5, <1>6, <1>7, <1>8, <1>9, <1>10, <1>11 DEF Admin!Next

\* What the steps do to what the invariant speaks of: the rows of the actions
\* and the names answered, and the requests past the checks of confirm.
SameRows == UNCHANGED <<x1, x5, x7>>
InConfirm(r) == Admin!At(r, "confirm") \/ Admin!At(r, "tell")
NoneStartsToConfirm ==
    \A r \in Procs : InConfirm(r)' => x4'[r] = x4[r]
NoneStopsToTell ==
    \A r \in Procs : Admin!At(r, "tell") => x4'[r] = x4[r]

LEMMA OtherStepsKeepPeople ==
    ASSUME PeopleInv, RowsInv', SameRows, NoneStartsToConfirm,
           \/ x8' = x8 /\ NoneStopsToTell
           \/ x8' = x8 + 1
    PROVE  PeopleInv'
<1>1. ByOne' /\ x8' \in Nat
  BY DEF PeopleInv, SameRows, ByOne
<1>2. ConfirmersInv'
  <2> SUFFICES ASSUME NEW r \in Procs, InConfirm(r)' PROVE Confirming(r)'
    BY DEF ConfirmersInv, InConfirm
  <2>1. x4'[r] = x4[r] /\ Confirming(r)
    BY DEF NoneStartsToConfirm, PeopleInv, ConfirmersInv, InConfirm, Admin!At
  <2> QED
    BY <2>1 DEF Confirming, SameRows, Admin!At
<1>3. ASSUME x8' = 0, NEW a \in Actions, NEW w \in x1[a].second
      PROVE  w \in x5[a] \/ \E r \in Procs : Admin!Telling(r, a, w)'
  <2>1. x8 = 0 /\ NoneStopsToTell
    BY <1>3 DEF PeopleInv
  <2> QED
    BY <2>1 DEF PeopleInv, Admin!TwoNames, Admin!Telling, NoneStopsToTell, Admin!At
<1>4. Admin!TwoNames'
  BY <1>3 DEF PeopleInv, Admin!TwoNames, SameRows
<1> QED
  BY <1>1, <1>2, <1>4 DEF PeopleInv

\* A step that leaves the requests, the names answered and the failures alone, and the
\* names on the rows that are left.
LEMMA RowStepsKeepPeople ==
    ASSUME PeopleInv, RowsInv', ByOne', UNCHANGED <<x4, x5, x7, x8>>,
           \A a \in Actions :
               \/ x1'[a] = Admin!Purged /\ x1[a].second = {}
               \/ /\ x1'[a].second = x1[a].second /\ x1'[a].by = x1[a].by
                  /\ x1[a] \notin {Admin!NoAction, Admin!Purged}
               \/ x1'[a] = x1[a]
               \/ x1[a] = Admin!NoAction /\ x1'[a] # Admin!NoAction /\ x1'[a].second = {}
    PROVE  PeopleInv'
<1>0. Admin!Purged.by = {} /\ Admin!Purged.second = {} /\ Admin!Purged # Admin!NoAction /\ Admin!NoAction.second = {} /\ Admin!NoAction.by = {}
  BY DEF Admin!Purged, Admin!NoAction
<1>2. ConfirmersInv'
  <2> SUFFICES ASSUME NEW r \in Procs, InConfirm(r) PROVE Confirming(r)'
    BY DEF ConfirmersInv, InConfirm, Admin!At
  <2>1. PICK a \in Actions, w \in AdminNames :
            /\ x4[r].id = {a} /\ x1[a] # Admin!NoAction
            /\ x4[r].who = {w} /\ w \notin x1[a].by
            /\ Admin!At(r, "tell") => x1[a].second # {} \/ x1[a] = Admin!Purged
    BY DEF PeopleInv, ConfirmersInv, Confirming, InConfirm
  <2>2. x1'[a] # Admin!NoAction /\ w \notin x1'[a].by
    <3>1. CASE x1[a] \notin {Admin!NoAction, Admin!Purged} /\ x1'[a].by = x1[a].by
      <4>1. x1[a].by # {}
        BY <3>1 DEF PeopleInv, ByOne
      <4> QED
        BY <1>0, <2>1, <3>1, <4>1
    <3> QED
      BY <1>0, <2>1, <3>1
  <2>3. Admin!At(r, "tell") => x1'[a].second # {} \/ x1'[a] = Admin!Purged
    BY <1>0, <2>1
  <2> QED
    BY <2>1, <2>2, <2>3 DEF Confirming, Admin!At
<1>3. ASSUME NEW a \in Actions
      PROVE  /\ x1'[a].by \cap (x1'[a].second \cup x5[a]) = {}
             /\ x5[a] # {} => x1'[a].second # {} \/ x1'[a] = Admin!Purged
             /\ x1'[a].second \subseteq x1[a].second
             /\ a \in x7 => x1'[a].by # {} /\ x1'[a].second # {}
  <2>1. /\ x1[a].by \cap (x1[a].second \cup x5[a]) = {}
        /\ x5[a] # {} => x1[a].second # {} \/ x1[a] = Admin!Purged
        /\ a \in x7 => x1[a].by # {} /\ x1[a].second # {}
        /\ x1[a] = Admin!NoAction => x5[a] = {}
    BY DEF PeopleInv, Admin!TwoNames, ByOne
  <2> QED
    BY <1>0, <2>1
<1>4. Admin!TwoNames'
  <2>1. ASSUME x8 = 0, NEW a \in Actions, NEW w \in x1'[a].second
        PROVE  w \in x5[a] \/ \E r \in Procs : Admin!Telling(r, a, w)
    BY <1>3, <2>1 DEF PeopleInv, Admin!TwoNames
  <2>2. \A r \in Procs, a \in Actions : \A w : Admin!Telling(r, a, w)' <=> Admin!Telling(r, a, w)
    BY DEF Admin!Telling, Admin!At
  <2>3. x7 \subseteq Actions
    BY DEF PeopleInv, RowsInv
  <2> QED
    BY <1>3, <2>1, <2>2, <2>3 DEF Admin!TwoNames
<1> QED
  BY <1>2, <1>4 DEF PeopleInv

LEMMA PeopleBegin == Admin!Init => PeopleInv
  BY DEF Admin!Init, PeopleInv, RowsInv, PendingActionType, AdminRequestType, ByOne,
     ConfirmersInv, Admin!TwoNames,
         Admin!NoAction, Admin!NoRequest, Admin!At

LEMMA PeopleStayTwo == PeopleInv /\ (Admin!Next \/ UNCHANGED Admin!vars) => PeopleInv'
<1> SUFFICES ASSUME PeopleInv, (Admin!Next \/ UNCHANGED Admin!vars) PROVE PeopleInv'
  OBVIOUS
<1>0. /\ RowsInv /\ RowsInv' /\ ByOne
      /\ Admin!Purged.by = {} /\ Admin!Purged.second = {} /\ Admin!Purged # Admin!NoAction
  BY RowsStayRows DEF PeopleInv, Admin!Purged, Admin!NoAction
<1>1. ASSUME NEW a \in Actions, NEW who \in AdminNames, Admin!Initiate(a, who) PROVE PeopleInv'
  <2>1. /\ x1[a] = Admin!NoAction /\ x1' = [x1 EXCEPT ![a].by = {who}]
        /\ UNCHANGED <<x4, x5, x7, x8>>
    BY <1>1 DEF Admin!Initiate
  <2>2. /\ x1'[a].by = {who} /\ x1'[a].second = {} /\ x1'[a] # Admin!NoAction
        /\ \A b \in Actions \ {a} : x1'[b] = x1[b]
    <3>1. /\ x1'[a] = [Admin!NoAction EXCEPT !.by = {who}]
          /\ \A b \in Actions \ {a} : x1'[b] = x1[b]
      BY <1>0, <2>1 DEF RowsInv
    <3> QED
      BY <3>1 DEF Admin!NoAction
  <2>3. ByOne'
    BY <1>0, <2>1, <2>2 DEF ByOne
  <2> QED
    BY <1>0, <2>1, <2>2, <2>3, RowStepsKeepPeople
<1>2. ASSUME NEW r \in Procs, NEW a \in Actions, NEW who \in AdminNames, Admin!ConfirmReads(r, a, who)
      PROVE  PeopleInv'
  <2>1. /\ Admin!MayConfirm(a, who) /\ UNCHANGED <<x1, x5, x7, x8>>
        /\ x4'[r] = [step |-> "confirm", id |-> {a}, who |-> {who}] /\ Admin!At(r, "idle")
        /\ \A q \in Procs \ {r} : x4'[q] = x4[q]
    BY <1>0, <1>2 DEF Admin!ConfirmReads, Admin!Begin, RowsInv
  <2>2. x1[a] # Admin!NoAction /\ who \notin x1[a].by
    BY <1>0, <2>1 DEF Admin!MayConfirm, ByOne, Admin!NoAction
  <2>3. Confirming(r)'
    BY <2>1, <2>2 DEF Confirming, Admin!At, Admin!NoAction
  <2>4. ConfirmersInv'
    <3> SUFFICES ASSUME NEW q \in Procs \ {r}, InConfirm(q)' PROVE Confirming(q)'
      BY <2>3 DEF ConfirmersInv, InConfirm
    <3>1. x4'[q] = x4[q] /\ Confirming(q)
      BY <2>1 DEF PeopleInv, ConfirmersInv, InConfirm, Admin!At
    <3> QED
      BY <2>1, <3>1 DEF Confirming, Admin!At, Admin!NoAction, Admin!Purged
  <2>5. \A q \in Procs, b \in Actions : \A w : Admin!Telling(q, b, w) => Admin!Telling(q, b, w)'
    BY <2>1 DEF Admin!Telling, Admin!At
  <2>6. Admin!TwoNames'
    BY <2>1, <2>5 DEF PeopleInv, Admin!TwoNames, Admin!Purged, Admin!NoAction
  <2> QED
    BY <1>0, <2>1, <2>4, <2>6 DEF PeopleInv, ByOne, Admin!NoAction, Admin!Purged
<1>3. ASSUME NEW r \in Procs, Admin!ConfirmWrites(r) PROVE PeopleInv'
  <2>1. PICK a \in Actions, w \in AdminNames :
            /\ x4[r].id = {a} /\ x1[a] # Admin!NoAction
            /\ x4[r].who = {w} /\ w \notin x1[a].by
    BY <1>3 DEF Admin!ConfirmWrites, PeopleInv, ConfirmersInv, Confirming
  <2>2. Admin!Id(r) = a
    BY <2>1 DEF Admin!Id
  <2>3. /\ x4' = [x4 EXCEPT ![r].step = "tell"] /\ UNCHANGED <<x5, x7, x8>>
        /\ x4'[r].step = "tell" /\ x4'[r].id = {a} /\ x4'[r].who = {w}
        /\ \A q \in Procs \ {r} : x4'[q] = x4[q]
    BY <1>0, <1>3, <2>1 DEF Admin!ConfirmWrites, RowsInv, AdminRequestType
  <2>4. /\ x1'[a].by = x1[a].by /\ \A b \in Actions \ {a} : x1'[b] = x1[b]
        /\ x1[a].by # {} => x1'[a].second = {w}
        /\ x1[a].by = {} => x1'[a] = Admin!Purged /\ x1'[a] = x1[a]
    BY <1>0, <1>3, <2>1, <2>2 DEF Admin!ConfirmWrites, RowsInv, PendingActionType, ByOne
  <2>5. /\ \A b \in Actions : x1'[b].by = x1[b].by
        /\ \A b \in Actions : x1[b] # Admin!NoAction => x1'[b] # Admin!NoAction
        /\ \A b \in Actions : x1[b] = Admin!Purged => x1'[b] = Admin!Purged
        /\ \A b \in Actions : x1'[b] = Admin!NoAction => x1[b] = Admin!NoAction
        /\ \A b \in Actions : x1[b].second # {} => x1'[b].second # {}
    BY <1>0, <2>1, <2>4 DEF Admin!NoAction
  <2>6. ByOne'
    BY <1>0, <2>3, <2>4, <2>5 DEF ByOne
  <2>7. ConfirmersInv'
    <3>1. Confirming(r)'
      BY <2>1, <2>3, <2>4, <2>5 DEF Confirming
    <3> SUFFICES ASSUME NEW q \in Procs \ {r}, InConfirm(q)' PROVE Confirming(q)'
      BY <3>1 DEF ConfirmersInv, InConfirm
    <3>2. x4'[q] = x4[q] /\ Confirming(q)
      BY <2>3 DEF PeopleInv, ConfirmersInv, InConfirm, Admin!At
    <3>3. PICK b \in Actions, v \in AdminNames :
            /\ x4[q].id = {b} /\ x1[b] # Admin!NoAction
            /\ x4[q].who = {v} /\ v \notin x1[b].by
            /\ Admin!At(q, "tell") => x1[b].second # {} \/ x1[b] = Admin!Purged
      BY <3>2 DEF Confirming
    <3> QED
      BY <2>5, <3>2, <3>3 DEF Confirming, Admin!At
  <2>8. ASSUME x8 = 0, NEW b \in Actions, NEW v \in x1'[b].second
        PROVE  v \in x5[b] \/ \E q \in Procs : Admin!Telling(q, b, v)'
    <3>1. CASE b = a /\ x1[a].by # {}
      BY <2>3, <2>4, <2>8, <3>1 DEF Admin!Telling, Admin!At
    <3>2. CASE ~(b = a /\ x1[a].by # {})
      <4>1. x1'[b] = x1[b]
        BY <2>4, <3>2
      <4>2. v \in x5[b] \/ \E q \in Procs : Admin!Telling(q, b, v)
        BY <2>8, <4>1 DEF PeopleInv, Admin!TwoNames
      <4>3. \A q \in Procs : Admin!Telling(q, b, v) => Admin!Telling(q, b, v)'
        BY <1>3, <2>3 DEF Admin!ConfirmWrites, Admin!Telling, Admin!At
      <4> QED
        BY <4>2, <4>3
    <3> QED
      BY <3>1, <3>2
  <2>9. Admin!TwoNames'
    <3>1. \A b \in Actions : x1'[b].by \cap (x1'[b].second \cup x5[b]) = {}
      BY <1>0, <2>1, <2>4, <2>5 DEF PeopleInv, Admin!TwoNames
    <3>2. \A b \in Actions : x5[b] # {} => x1'[b].second # {} \/ x1'[b] = Admin!Purged
      BY <2>5 DEF PeopleInv, Admin!TwoNames
    <3>3. \A b \in x7 : x1'[b].by # {} /\ x1'[b].second # {}
      BY <1>0, <2>5 DEF PeopleInv, Admin!TwoNames, RowsInv
    <3>4. (\A b \in Actions :
              /\ x1[b].by \cap (x1[b].second \cup x5[b]) = {}
              /\ x5[b] # {} => x1[b].second # {} \/ x1[b] = Admin!Purged
              /\ x8 = 0 =>
                    \A v \in x1[b].second :
                        v \in x5[b] \/ \E q \in Procs : Admin!Telling(q, b, v))'
      BY <2>3, <2>8, <3>1, <3>2
    <3> QED
      BY <2>3, <3>3, <3>4 DEF Admin!TwoNames
  <2> QED
    BY <1>0, <2>3, <2>6, <2>7, <2>9 DEF PeopleInv
<1>4. CASE Admin!PurgeExpired
  <2>1. PICK gone \in SUBSET Actions :
            /\ \A a \in gone : x1[a].by # {} /\ x1[a].second = {} /\ x1'[a] = Admin!Purged
            /\ \A a \in Actions \ gone : x1'[a] = x1[a]
    <3> DEFINE gone == {a \in Actions : x1[a].by # {} /\ x1[a].expired /\ x1[a].second = {}}
    <3>1. x1' = [a \in Actions |-> IF a \in gone THEN Admin!Purged ELSE x1[a]]
      BY <1>4 DEF Admin!PurgeExpired
    <3> QED
      BY <3>1
  <2>2. UNCHANGED <<x4, x5, x7, x8>>
    BY <1>4 DEF Admin!PurgeExpired
  <2>3. ByOne'
    BY <1>0, <2>1, <2>2 DEF ByOne
  <2> QED
    BY <1>0, <2>1, <2>2, <2>3, RowStepsKeepPeople
<1>5. ASSUME NEW a \in Actions, Admin!Expires(a) PROVE PeopleInv'
  <2>1. /\ x1[a].by # {} /\ x1' = [x1 EXCEPT ![a].expired = TRUE]
        /\ UNCHANGED <<x4, x5, x7, x8>>
    BY <1>5 DEF Admin!Expires
  <2>2. /\ \A b \in Actions : x1'[b].by = x1[b].by /\ x1'[b].second = x1[b].second
        /\ \A b \in Actions \ {a} : x1'[b] = x1[b]
    BY <1>0, <2>1 DEF RowsInv, PendingActionType
  <2>3. x1[a] \notin {Admin!NoAction, Admin!Purged} /\ x1'[a] \notin {Admin!NoAction, Admin!Purged}
    <3>1. x1[a].by # {} /\ x1'[a].by # {}
      BY <2>1, <2>2
    <3> QED
      BY <1>0, <3>1 DEF Admin!NoAction
  <2>4. ByOne'
    BY <1>0, <2>1, <2>2, <2>3 DEF ByOne
  <2> QED
    BY <1>0, <2>1, <2>2, <2>3, <2>4, RowStepsKeepPeople
<1>6. ASSUME NEW r \in Procs, NEW l \in Letters, Admin!ReplayReads(r, l) PROVE PeopleInv'
  <2>1. /\ x4' = [x4 EXCEPT ![r] = [step |-> "post", id |-> {l}, who |-> {}]] /\ SameRows
        /\ Admin!At(r, "idle") /\ x8' = x8
    BY <1>6 DEF Admin!ReplayReads, Admin!Begin, SameRows
  <2>2. NoneStartsToConfirm /\ NoneStopsToTell
    BY <1>0, <2>1 DEF RowsInv, NoneStartsToConfirm, NoneStopsToTell, InConfirm, Admin!At
  <2> QED
    BY <1>0, <2>1, <2>2, OtherStepsKeepPeople
<1>7. ASSUME NEW r \in Procs, Admin!Post(r) PROVE PeopleInv'
  <2>1. Admin!At(r, "post") /\ SameRows /\ x8' = x8
    BY <1>7 DEF Admin!Post, Admin!Posted, SameRows
  <2>2. \/ x4' = [x4 EXCEPT ![r].step = "mark"]
        \/ x4' = [x4 EXCEPT ![r] = Admin!NoRequest]
    BY <1>7 DEF Admin!Post, Admin!Posted, Admin!Answered
  <2>3. x4'[r].step \in {"mark", "idle"} /\ \A q \in Procs \ {r} : x4'[q] = x4[q]
    BY <1>0, <2>2 DEF RowsInv, AdminRequestType, Admin!NoRequest
  <2>4. NoneStartsToConfirm /\ NoneStopsToTell
    BY <2>1, <2>3 DEF NoneStartsToConfirm, NoneStopsToTell, InConfirm, Admin!At
  <2> QED
    BY <1>0, <2>1, <2>4, OtherStepsKeepPeople
<1>8. ASSUME NEW r \in Procs, Admin!Mark(r) \/ Admin!RequestFails(r) PROVE PeopleInv'
  <2>1. /\ x4' = [x4 EXCEPT ![r] = Admin!NoRequest] /\ SameRows
        /\ (Admin!At(r, "mark") /\ x8' = x8) \/ x8' = x8 + 1
    BY <1>8 DEF Admin!Mark, Admin!RequestFails, Admin!Answered, SameRows
  <2>2. NoneStartsToConfirm /\ (Admin!At(r, "mark") => NoneStopsToTell)
    BY <1>0, <2>1 DEF RowsInv, Admin!NoRequest, NoneStartsToConfirm, NoneStopsToTell,
       InConfirm, Admin!At
  <2> QED
    BY <1>0, <2>1, <2>2, OtherStepsKeepPeople
<1>9. ASSUME NEW a \in Actions, Admin!Simulate(a) PROVE PeopleInv'
  <2>1. /\ x1[a].second # {} /\ x7' = x7 \cup {a}
        /\ UNCHANGED <<x1, x4, x5, x8>>
    BY <1>9 DEF Admin!Simulate, Admin!Verified
  <2>2. x1[a].by # {}
    BY <1>0, <2>1 DEF ByOne, Admin!NoAction
  <2>3. Admin!TwoNames'
    <3>1. \A r \in Procs, b \in Actions : \A w : Admin!Telling(r, b, w)' <=> Admin!Telling(r, b, w)
      BY <2>1 DEF Admin!Telling, Admin!At
    <3> QED
      BY <2>1, <2>2, <3>1 DEF PeopleInv, Admin!TwoNames
  <2> QED
    BY <1>0, <2>1, <2>3 DEF PeopleInv, ByOne, ConfirmersInv, Confirming, Admin!At,
       Admin!Purged, Admin!NoAction
<1>10. CASE Admin!Deactivate \/ UNCHANGED Admin!vars
  BY <1>0, <1>10, OtherStepsKeepPeople
     DEF Admin!Deactivate, Admin!vars, SameRows, NoneStartsToConfirm, NoneStopsToTell,
        Admin!At
\* The answer: what the request was about to tell is now told.
<1>11. ASSUME NEW r \in Procs, Admin!ConfirmTold(r) PROVE PeopleInv'
  <2>1. PICK a \in Actions, w \in AdminNames :
            /\ x4[r].id = {a} /\ x1[a] # Admin!NoAction
            /\ x4[r].who = {w} /\ w \notin x1[a].by
            /\ x1[a].second # {} \/ x1[a] = Admin!Purged
    BY <1>11 DEF Admin!ConfirmTold, PeopleInv, ConfirmersInv, Confirming
  <2>2. Admin!Id(r) = a
    BY <2>1 DEF Admin!Id
  <2>3. /\ UNCHANGED <<x1, x7, x8>> /\ x4'[r] = Admin!NoRequest
        /\ \A q \in Procs \ {r} : x4'[q] = x4[q]
        /\ x5'[a] = x5[a] \cup {w}
        /\ \A b \in Actions \ {a} : x5'[b] = x5[b]
    BY <1>0, <1>11, <2>1, <2>2 DEF Admin!ConfirmTold, Admin!Answered, RowsInv
  <2>4. ByOne'
    BY <1>0, <2>1, <2>3 DEF ByOne, Admin!NoAction, Admin!Purged
  <2>5. ConfirmersInv'
    <3> SUFFICES ASSUME NEW q \in Procs \ {r}, InConfirm(q)' PROVE Confirming(q)'
      BY <2>3 DEF ConfirmersInv, InConfirm, Admin!At, Admin!NoRequest
    <3>1. x4'[q] = x4[q] /\ Confirming(q)
      BY <2>3 DEF PeopleInv, ConfirmersInv, InConfirm, Admin!At
    <3> QED
      BY <2>3, <3>1 DEF Confirming, Admin!At, Admin!NoAction, Admin!Purged
  <2>6. ASSUME x8 = 0, NEW b \in Actions, NEW v \in x1[b].second
        PROVE  v \in x5'[b] \/ \E q \in Procs : Admin!Telling(q, b, v)'
    <3>1. v \in x5[b] \/ \E q \in Procs : Admin!Telling(q, b, v)
      BY <2>6 DEF PeopleInv, Admin!TwoNames
    <3>2. CASE v \in x5[b]
      BY <2>3, <3>2
    <3>3. ASSUME NEW q \in Procs, Admin!Telling(q, b, v)
          PROVE  v \in x5'[b] \/ Admin!Telling(q, b, v)'
      <4>1. CASE q = r
        <5>1. b = a /\ v = w
          BY <2>1, <3>3, <4>1 DEF Admin!Telling
        <5> QED
          BY <2>3, <5>1
      <4>2. CASE q # r
        BY <2>3, <3>3, <4>2 DEF Admin!Telling, Admin!At
      <4> QED
        BY <4>1, <4>2
    <3> QED
      BY <3>1, <3>2, <3>3
  <2>7. Admin!TwoNames'
    <3>1. ASSUME NEW b \in Actions
          PROVE  /\ x1[b].by \cap (x1[b].second \cup x5'[b]) = {}
                 /\ x5'[b] # {} => x1[b].second # {} \/ x1[b] = Admin!Purged
      BY <2>1, <2>3 DEF PeopleInv, Admin!TwoNames
    <3> QED
      BY <2>3, <2>6, <3>1 DEF PeopleInv, Admin!TwoNames, Admin!Purged, Admin!NoAction
  <2> QED
    BY <1>0, <2>3, <2>4, <2>5, <2>7 DEF PeopleInv
<1> QED
  BY <1>1, <1>2, <1>3, <1>4, <1>5, <1>6, <1>7, <1>8, <1>9, <1>10, <1>11 DEF Admin!Next

-----------------------------------------------------------------------------
(***************************************************************************)
(* Replayed letters were x6, for any letters and requests.           *)
(***************************************************************************)
\* The requests that are about to post the letter, and to mark it.
Posting(l) == {r \in Procs : Admin!At(r, "post") /\ x4[r].id = {l}}
Marking(l) == {r \in Procs : Admin!At(r, "mark") /\ x4[r].id = {l}}

\* Until the letter is marked, each good answer has a request that is about to mark it,
\* or a failure; once it is marked, nobody starts to post it.
ReplaysCounted(l) ==
    /\ ~x2[l].replayed => x6[l] <= Admin!Cardinality(Marking(l)) + x8
    /\ x2[l].replayed => x6[l] + Admin!Cardinality(Posting(l)) <= Admin!Cardinality(Procs) + x8
    /\ Marking(l) # {} \/ x2[l].replayed => x6[l] > 0

ReplayInv ==
    /\ x4 \in [Procs -> AdminRequestType]
    /\ x2 \in [Letters -> [replayed : BOOLEAN]]
    /\ x6 \in [Letters -> Nat] /\ x8 \in Nat
    /\ \A r \in Procs :
          Admin!At(r, "post") \/ Admin!At(r, "mark") => \E l \in Letters : x4[r].id = {l}
    /\ \A l \in Letters : ReplaysCounted(l)

LEMMA RequestsOfALetter ==
    ASSUME Admin!AdminApiAssumption, NEW l
    PROVE  /\ Admin!IsFiniteSet(Posting(l)) /\ Admin!IsFiniteSet(Marking(l))
           /\ Admin!Cardinality(Posting(l)) \in Nat /\ Admin!Cardinality(Marking(l)) \in Nat
           /\ Admin!Cardinality(Procs) \in Nat
           /\ Admin!Cardinality(Marking(l)) + Admin!Cardinality(Posting(l)) <= Admin!Cardinality(Procs)
<1>1. Posting(l) \subseteq Procs /\ Marking(l) \subseteq Procs
  BY DEF Posting, Marking
<1>2. /\ Admin!IsFiniteSet(Posting(l)) /\ Admin!IsFiniteSet(Marking(l))
      /\ Admin!Cardinality(Posting(l)) \in Nat /\ Admin!Cardinality(Marking(l)) \in Nat
      /\ Admin!Cardinality(Procs) \in Nat
  BY <1>1, FS_Subset, FS_CardinalityType, SetsOfAdmin DEF Admin!AdminApiAssumption
<1>3. Marking(l) \cap Posting(l) = {}
  BY DEF Posting, Marking, Admin!At
<1>4. Admin!Cardinality(Marking(l) \cup Posting(l)) = Admin!Cardinality(Marking(l)) + Admin!Cardinality(Posting(l))
  <2>1. Admin!Cardinality(Marking(l) \cap Posting(l)) = 0
    BY <1>3, FS_EmptySet, SetsOfAdmin
  <2>2. /\ Admin!IsFiniteSet(Marking(l) \cup Posting(l))
        /\ Admin!Cardinality(Marking(l) \cup Posting(l)) =
              Admin!Cardinality(Marking(l)) + Admin!Cardinality(Posting(l)) - Admin!Cardinality(Marking(l) \cap Posting(l))
    BY <1>2, FS_Union, Zenon, SetsOfAdmin
  <2> QED
    BY <1>2, <2>1, <2>2
<1>5. Marking(l) \cup Posting(l) \subseteq Procs
  BY <1>1
<1>6. Admin!Cardinality(Marking(l) \cup Posting(l)) <= Admin!Cardinality(Procs)
  BY <1>5, FS_Subset, SetsOfAdmin DEF Admin!AdminApiAssumption
<1> QED
  BY <1>2, <1>4, <1>6

LEMMA ReplaysStayCounted ==
    Admin!AdminApiAssumption /\ ReplayInv /\ (Admin!Next \/ UNCHANGED Admin!vars) => ReplayInv'
<1> SUFFICES ASSUME Admin!AdminApiAssumption, ReplayInv, (Admin!Next \/ UNCHANGED Admin!vars)
             PROVE  ReplayInv'
  OBVIOUS
<1>0. Admin!NoRequest \in AdminRequestType /\ MaxFaults \in Nat
  BY DEF Admin!NoRequest, AdminRequestType, Admin!AdminApiAssumption
<1>1. /\ x4 \in [Procs -> AdminRequestType] /\ x2 \in [Letters -> [replayed : BOOLEAN]]
      /\ x6 \in [Letters -> Nat] /\ x8 \in Nat
      /\ \A r \in Procs :
            Admin!At(r, "post") \/ Admin!At(r, "mark") => \E l \in Letters : x4[r].id = {l}
      /\ \A l \in Letters : ReplaysCounted(l)
  BY DEF ReplayInv
<1>2. \A l \in Letters : /\ Admin!IsFiniteSet(Posting(l)) /\ Admin!IsFiniteSet(Marking(l))
                         /\ Admin!Cardinality(Posting(l)) \in Nat /\ Admin!Cardinality(Marking(l)) \in Nat
                         /\ Admin!Cardinality(Procs) \in Nat
                         /\ Admin!Cardinality(Marking(l)) + Admin!Cardinality(Posting(l)) <= Admin!Cardinality(Procs)
  BY RequestsOfALetter
\* One request moves, and it keeps its letter.
<1> DEFINE Moved(r, v) ==
        /\ x4' \in [Procs -> AdminRequestType]
        /\ \A q \in Procs : Admin!At(q, "post")' \/ Admin!At(q, "mark")' =>
              \E l \in Letters : x4'[q].id = {l}
        /\ \A l \in Letters :
              /\ v.step # "post" \/ v.id # {l} => Posting(l)' = Posting(l) \ {r}
              /\ v.step # "mark" \/ v.id # {l} => Marking(l)' = Marking(l) \ {r}
              /\ v.step = "mark" /\ v.id = {l} => Marking(l)' = Marking(l) \cup {r}
              /\ r \notin Posting(l) => Posting(l) \ {r} = Posting(l)
              /\ r \notin Marking(l) => Marking(l) \ {r} = Marking(l)
<1>3. ASSUME NEW r \in Procs, NEW v \in AdminRequestType, x4' = [x4 EXCEPT ![r] = v],
             v.step \in {"post", "mark"} => \E l \in Letters : v.id = {l}
      PROVE  Moved(r, v)
  <2>1. x4'[r] = v /\ \A q \in Procs \ {r} : x4'[q] = x4[q]
    BY <1>1, <1>3
  <2>2. x4' \in [Procs -> AdminRequestType]
    BY <1>1, <1>3
  <2>3. \A q \in Procs : Admin!At(q, "post")' \/ Admin!At(q, "mark")' =>
                   \E l \in Letters : x4'[q].id = {l}
    BY <1>1, <1>3, <2>1 DEF Admin!At
  <2>4. ASSUME NEW l \in Letters, v.step # "post" \/ v.id # {l}
        PROVE  Posting(l)' = Posting(l) \ {r}
    BY <2>1, <2>4 DEF Admin!At, Posting
  <2>5. ASSUME NEW l \in Letters, v.step # "mark" \/ v.id # {l}
        PROVE  Marking(l)' = Marking(l) \ {r}
    BY <2>1, <2>5 DEF Admin!At, Marking
  <2>6. ASSUME NEW l \in Letters, v.step = "mark" /\ v.id = {l}
        PROVE  Marking(l)' = Marking(l) \cup {r}
    BY <2>1, <2>6 DEF Admin!At, Marking
  <2> QED
    BY <2>2, <2>3, <2>4, <2>5, <2>6
<1> HIDE DEF Moved
<1>4. ASSUME x4' \in [Procs -> AdminRequestType],
             \A q \in Procs : Admin!At(q, "post")' \/ Admin!At(q, "mark")' =>
                   \E l \in Letters : x4'[q].id = {l},
             x2' \in [Letters -> [replayed : BOOLEAN]],
             x6' \in [Letters -> Nat], x8' \in Nat,
             \A l \in Letters : ReplaysCounted(l)'
      PROVE  ReplayInv'
  BY <1>4 DEF ReplayInv
\* What leaves the posts and the marks as they are.
<1>5. ASSUME UNCHANGED <<x2, x6>>, x8' \in Nat, x8 <= x8',
             x4' \in [Procs -> AdminRequestType],
             \A q \in Procs : Admin!At(q, "post")' \/ Admin!At(q, "mark")' =>
                   \E l \in Letters : x4'[q].id = {l},
             \A l \in Letters : Posting(l)' = Posting(l) /\ Marking(l)' = Marking(l)
      PROVE  ReplayInv'
  BY <1>1, <1>2, <1>4, <1>5 DEF ReplaysCounted
<1>6. ASSUME UNCHANGED <<x2, x6, x8, x4>> PROVE ReplayInv'
  <2>1. \A l \in Letters : Posting(l)' = Posting(l) /\ Marking(l)' = Marking(l)
    BY <1>6 DEF Posting, Marking, Admin!At
  <2> QED
    BY <1>1, <1>5, <1>6, <2>1 DEF Admin!At
<1>7. ASSUME NEW r \in Procs, NEW a \in Actions, NEW who \in AdminNames, Admin!ConfirmReads(r, a, who)
      PROVE  ReplayInv'
  <2> DEFINE v == [step |-> "confirm", id |-> {a}, who |-> {who}]
  <2>1. /\ Admin!At(r, "idle") /\ x4' = [x4 EXCEPT ![r] = v] /\ v \in AdminRequestType
        /\ UNCHANGED <<x2, x6, x8>>
    BY <1>7 DEF Admin!ConfirmReads, Admin!Begin, AdminRequestType
  <2>2. \A l \in Letters : r \notin Posting(l) /\ r \notin Marking(l)
    BY <2>1 DEF Posting, Marking, Admin!At
  <2>3. v.step = "confirm"
    OBVIOUS
  <2> HIDE DEF v
  <2>4. /\ x4' \in [Procs -> AdminRequestType]
        /\ \A q \in Procs : Admin!At(q, "post")' \/ Admin!At(q, "mark")' =>
              \E l \in Letters : x4'[q].id = {l}
        /\ \A l \in Letters : Posting(l)' = Posting(l) /\ Marking(l)' = Marking(l)
    <3>1. Moved(r, v)
      BY <1>3, <2>1, <2>3
    <3> QED
      BY <2>2, <2>3, <3>1 DEF Moved
  <2> QED
    BY <1>1, <1>5, <2>1, <2>4
<1>8. ASSUME NEW r \in Procs, Admin!ConfirmTold(r) PROVE ReplayInv'
  <2>1. /\ Admin!At(r, "tell") /\ x4' = [x4 EXCEPT ![r] = Admin!NoRequest]
        /\ UNCHANGED <<x2, x6, x8>> /\ Admin!NoRequest.step = "idle"
    BY <1>8 DEF Admin!ConfirmTold, Admin!Answered, Admin!NoRequest
  <2>2. \A l \in Letters : r \notin Posting(l) /\ r \notin Marking(l)
    BY <2>1 DEF Posting, Marking, Admin!At
  <2>4. /\ x4' \in [Procs -> AdminRequestType]
        /\ \A q \in Procs : Admin!At(q, "post")' \/ Admin!At(q, "mark")' =>
              \E l \in Letters : x4'[q].id = {l}
        /\ \A l \in Letters : Posting(l)' = Posting(l) /\ Marking(l)' = Marking(l)
    <3>1. Moved(r, Admin!NoRequest)
      BY <1>0, <1>3, <2>1
    <3> QED
      BY <2>1, <2>2, <3>1 DEF Moved
  <2> QED
    BY <1>1, <1>5, <2>1, <2>4
<1>13. ASSUME NEW r \in Procs, Admin!ConfirmWrites(r) PROVE ReplayInv'
  <2> DEFINE v == [x4[r] EXCEPT !.step = "tell"]
  <2>1. /\ Admin!At(r, "confirm") /\ x4' = [x4 EXCEPT ![r] = v] /\ v \in AdminRequestType
        /\ UNCHANGED <<x2, x6, x8>> /\ v.step = "tell"
    BY <1>1, <1>13 DEF Admin!ConfirmWrites, AdminRequestType
  <2>2. \A l \in Letters : r \notin Posting(l) /\ r \notin Marking(l)
    BY <2>1 DEF Posting, Marking, Admin!At
  <2> HIDE DEF v
  <2>4. /\ x4' \in [Procs -> AdminRequestType]
        /\ \A q \in Procs : Admin!At(q, "post")' \/ Admin!At(q, "mark")' =>
              \E l \in Letters : x4'[q].id = {l}
        /\ \A l \in Letters : Posting(l)' = Posting(l) /\ Marking(l)' = Marking(l)
    <3>1. Moved(r, v)
      BY <1>3, <2>1
    <3> QED
      BY <2>1, <2>2, <3>1 DEF Moved
  <2> QED
    BY <1>1, <1>5, <2>1, <2>4
<1>9. ASSUME NEW r \in Procs, NEW m \in Letters, Admin!ReplayReads(r, m) PROVE ReplayInv'
  <2> DEFINE v == [step |-> "post", id |-> {m}, who |-> {}]
  <2>1. /\ ~x2[m].replayed /\ Admin!At(r, "idle") /\ x4' = [x4 EXCEPT ![r] = v]
        /\ v \in AdminRequestType /\ UNCHANGED <<x2, x6, x8>>
    BY <1>9 DEF Admin!ReplayReads, Admin!Begin, AdminRequestType
  <2>2. \A l \in Letters : r \notin Posting(l) /\ r \notin Marking(l)
    BY <2>1 DEF Posting, Marking, Admin!At
  <2>3. v.step = "post" /\ v.id = {m}
    OBVIOUS
  <2> HIDE DEF v
  <2>4. \A l \in Letters : /\ Marking(l)' = Marking(l)
                           /\ l # m => Posting(l)' = Posting(l)
    <3>1. Moved(r, v)
      BY <1>3, <2>1, <2>3
    <3>2. \A l \in Letters \ {m} : v.id # {l}
      BY <2>3
    <3> QED
      BY <2>2, <2>3, <3>1, <3>2 DEF Moved
  <2>5. \A l \in Letters : ReplaysCounted(l)'
    BY <1>1, <2>1, <2>4 DEF ReplaysCounted
  <2> QED
    BY <1>1, <1>3, <1>4, <2>1, <2>3, <2>5 DEF Moved
\* The subscriber's answer.
<1>10. ASSUME NEW r \in Procs, Admin!Post(r) PROVE ReplayInv'
  <2>1. /\ Admin!At(r, "post") /\ UNCHANGED <<x2, x8>>
    BY <1>10 DEF Admin!Post, Admin!Posted
  <2>2. PICK m \in Letters : x4[r].id = {m}
    BY <1>1, <2>1
  <2>3. /\ Admin!Id(r) = m /\ \A l \in Letters : r \notin Marking(l)
        /\ \A l \in Letters : r \in Posting(l) <=> l = m
    BY <2>1, <2>2 DEF Admin!Id, Posting, Marking, Admin!At
  <2>4. CASE x6' = [x6 EXCEPT ![Admin!Id(r)] = @ + 1]
             /\ x4' = [x4 EXCEPT ![r].step = "mark"]
    <3> DEFINE v == [x4[r] EXCEPT !.step = "mark"]
    <3>1. v \in AdminRequestType /\ v.step = "mark" /\ v.id = {m}
      BY <1>1, <2>2 DEF AdminRequestType
    <3>2. x4' = [x4 EXCEPT ![r] = v]
      BY <2>4
    <3> HIDE DEF v
    <3>3. /\ \A l \in Letters \ {m} : Posting(l)' = Posting(l) /\ Marking(l)' = Marking(l)
          /\ Posting(m)' = Posting(m) \ {r} /\ Marking(m)' = Marking(m) \cup {r}
      <4>1. Moved(r, v)
        BY <1>3, <3>1, <3>2
      <4>2. \A l \in Letters \ {m} : v.id # {l}
        BY <3>1
      <4> QED
        BY <2>3, <3>1, <4>1, <4>2 DEF Moved
    <3>4. /\ x6' \in [Letters -> Nat] /\ x6'[m] = x6[m] + 1
          /\ \A l \in Letters \ {m} : x6'[l] = x6[l]
      BY <1>1, <2>3, <2>4
    <3>5. /\ Admin!Cardinality(Posting(m)') = Admin!Cardinality(Posting(m)) - 1
          /\ Admin!Cardinality(Marking(m)') = Admin!Cardinality(Marking(m)) + 1
      <4>1. /\ Admin!IsFiniteSet(Posting(m)) /\ r \in Posting(m)
            /\ Admin!IsFiniteSet(Marking(m)) /\ r \notin Marking(m)
        BY <1>2, <2>3
      <4>2. Admin!Cardinality(Posting(m) \ {r}) = Admin!Cardinality(Posting(m)) - 1
        BY <4>1, FS_RemoveElement, SetsOfAdmin
      <4>3. Admin!Cardinality(Marking(m) \cup {r}) = Admin!Cardinality(Marking(m)) + 1
        BY <4>1, FS_AddElement, SetsOfAdmin
      <4> QED
        BY <3>3, <4>2, <4>3
    <3>6. ReplaysCounted(m)'
      BY <1>1, <1>2, <2>1, <3>4, <3>5 DEF ReplaysCounted
    <3>7. \A l \in Letters \ {m} : ReplaysCounted(l)'
      BY <1>1, <2>1, <3>3, <3>4 DEF ReplaysCounted
    <3> QED
      <4>1. Moved(r, v)
        BY <1>3, <3>1, <3>2
      <4> QED
        BY <1>1, <1>4, <2>1, <3>4, <3>6, <3>7, <4>1 DEF Moved
  <2>5. CASE Admin!Answered(r) /\ UNCHANGED x6
    <3>1. x4' = [x4 EXCEPT ![r] = Admin!NoRequest] /\ Admin!NoRequest.step = "idle"
      BY <2>5 DEF Admin!Answered, Admin!NoRequest
    <3>2. /\ \A l \in Letters \ {m} : Posting(l)' = Posting(l) /\ Marking(l)' = Marking(l)
          /\ Posting(m)' = Posting(m) \ {r} /\ Marking(m)' = Marking(m)
      <4>1. Moved(r, Admin!NoRequest)
        BY <1>0, <1>3, <3>1
      <4> QED
        BY <2>3, <3>1, <4>1 DEF Moved
    <3>3. Admin!Cardinality(Posting(m)') = Admin!Cardinality(Posting(m)) - 1
      BY <1>2, <2>3, <3>2, FS_RemoveElement, SetsOfAdmin
    <3>4. ReplaysCounted(m)'
      BY <1>1, <1>2, <2>1, <2>5, <3>2, <3>3 DEF ReplaysCounted
    <3>5. \A l \in Letters \ {m} : ReplaysCounted(l)'
      BY <1>1, <2>1, <2>5, <3>2 DEF ReplaysCounted
    <3> QED
      <4>1. Moved(r, Admin!NoRequest)
        BY <1>0, <1>3, <3>1
      <4> QED
        BY <1>1, <1>4, <2>1, <2>5, <3>4, <3>5, <4>1 DEF Moved
  <2> QED
    BY <1>10, <2>4, <2>5 DEF Admin!Post, Admin!Posted
\* The letter is marked: those who are about to mark it have all posted it.
<1>11. ASSUME NEW r \in Procs, Admin!Mark(r) PROVE ReplayInv'
  <2>1. /\ Admin!At(r, "mark") /\ x4' = [x4 EXCEPT ![r] = Admin!NoRequest]
        /\ x2' = [x2 EXCEPT ![Admin!Id(r)].replayed = TRUE] /\ UNCHANGED <<x6, x8>>
        /\ Admin!NoRequest.step = "idle"
    BY <1>11 DEF Admin!Mark, Admin!Answered, Admin!NoRequest
  <2>2. PICK m \in Letters : x4[r].id = {m}
    BY <1>1, <2>1
  <2>3. /\ Admin!Id(r) = m /\ \A l \in Letters : r \notin Posting(l)
        /\ \A l \in Letters : r \in Marking(l) <=> l = m
    BY <2>1, <2>2 DEF Admin!Id, Posting, Marking, Admin!At
  <2>4. /\ \A l \in Letters \ {m} : Marking(l)' = Marking(l)
        /\ \A l \in Letters : Posting(l)' = Posting(l)
    <3>1. Moved(r, Admin!NoRequest)
      BY <1>0, <1>3, <2>1
    <3> QED
      BY <2>1, <2>3, <3>1 DEF Moved
  <2>5. /\ x2' \in [Letters -> [replayed : BOOLEAN]] /\ x2'[m].replayed = TRUE
        /\ \A l \in Letters \ {m} : x2'[l] = x2[l]
    BY <1>1, <2>1, <2>3
  <2>6. x6[m] > 0
    BY <1>1, <2>3 DEF ReplaysCounted
  <2>7. x6[m] + Admin!Cardinality(Posting(m)) <= Admin!Cardinality(Procs) + x8
    BY <1>1, <1>2 DEF ReplaysCounted
  <2>8. ReplaysCounted(m)'
    BY <2>1, <2>4, <2>5, <2>6, <2>7 DEF ReplaysCounted
  <2>9. \A l \in Letters \ {m} : ReplaysCounted(l)'
    BY <1>1, <2>1, <2>4, <2>5 DEF ReplaysCounted
  <2> QED
    <3>1. Moved(r, Admin!NoRequest)
      BY <1>0, <1>3, <2>1
    <3> QED
      BY <1>1, <1>4, <2>1, <2>5, <2>8, <2>9, <3>1 DEF Moved
<1>12. ASSUME NEW r \in Procs, Admin!RequestFails(r) PROVE ReplayInv'
  <2>1. /\ x4' = [x4 EXCEPT ![r] = Admin!NoRequest] /\ x8' = x8 + 1
        /\ UNCHANGED <<x2, x6>> /\ Admin!NoRequest.step = "idle"
    BY <1>12 DEF Admin!RequestFails, Admin!Answered, Admin!NoRequest
  <2>2. \A l \in Letters : Posting(l)' = Posting(l) \ {r} /\ Marking(l)' = Marking(l) \ {r}
    <3>1. Moved(r, Admin!NoRequest)
      BY <1>0, <1>3, <2>1
    <3> QED
      BY <2>1, <3>1 DEF Moved
  <2>3. ASSUME NEW l \in Letters
        PROVE  /\ Admin!Cardinality(Posting(l)') \in Nat /\ Admin!Cardinality(Marking(l)') \in Nat
               /\ Admin!Cardinality(Posting(l)') <= Admin!Cardinality(Posting(l))
               /\ Admin!Cardinality(Marking(l)') >= Admin!Cardinality(Marking(l)) - 1
    <3>1. /\ Admin!Cardinality(Posting(l) \ {r}) =
               IF r \in Posting(l) THEN Admin!Cardinality(Posting(l)) - 1 ELSE Admin!Cardinality(Posting(l))
          /\ Admin!IsFiniteSet(Posting(l) \ {r})
      BY <1>2, FS_RemoveElement, SetsOfAdmin
    <3>2. /\ Admin!Cardinality(Marking(l) \ {r}) =
               IF r \in Marking(l) THEN Admin!Cardinality(Marking(l)) - 1 ELSE Admin!Cardinality(Marking(l))
          /\ Admin!IsFiniteSet(Marking(l) \ {r})
      BY <1>2, FS_RemoveElement, SetsOfAdmin
    <3>3. Admin!Cardinality(Posting(l) \ {r}) \in Nat /\ Admin!Cardinality(Marking(l) \ {r}) \in Nat
      BY <3>1, <3>2, FS_CardinalityType, SetsOfAdmin
    <3>4. Posting(l)' = Posting(l) \ {r} /\ Marking(l)' = Marking(l) \ {r}
      BY <2>2
    <3> QED
      BY <1>2, <3>1, <3>2, <3>3, <3>4
  <2>4. \A l \in Letters : ReplaysCounted(l)'
    BY <1>1, <1>2, <2>1, <2>2, <2>3 DEF ReplaysCounted
  <2>5. /\ x4' \in [Procs -> AdminRequestType] /\ x8' \in Nat
        /\ \A q \in Procs : Admin!At(q, "post")' \/ Admin!At(q, "mark")' =>
              \E l \in Letters : x4'[q].id = {l}
    <3>1. Moved(r, Admin!NoRequest)
      BY <1>0, <1>3, <2>1
    <3> QED
      BY <1>1, <2>1, <3>1 DEF Moved
  <2> QED
    BY <1>1, <1>4, <2>1, <2>4, <2>5
<1> QED
  BY <1>6, <1>7, <1>8, <1>9, <1>10, <1>11, <1>12, <1>13
     DEF Admin!Next, Admin!Initiate, Admin!Simulate, Admin!Expires, Admin!PurgeExpired,
        Admin!Deactivate, Admin!vars

LEMMA ReplaysBegin == Admin!Init => ReplayInv
<1> SUFFICES ASSUME Admin!Init PROVE ReplayInv
  OBVIOUS
<1>1. \A l \in Letters : Posting(l) = {} /\ Marking(l) = {}
  BY DEF Admin!Init, Posting, Marking, Admin!At, Admin!NoRequest
<1>2. \A l \in Letters : ReplaysCounted(l)
  <2> SUFFICES ASSUME NEW l \in Letters PROVE ReplaysCounted(l)
    OBVIOUS
  <2>1. Marking(l) = {} /\ Admin!Cardinality(Marking(l)) = 0
    BY <1>1, FS_EmptySet, SetsOfAdmin
  <2>2. ~x2[l].replayed /\ x6[l] = 0 /\ x8 = 0
    BY DEF Admin!Init
  <2> QED
    BY <2>1, <2>2 DEF ReplaysCounted
<1> QED
  BY <1>2 DEF Admin!Init, ReplayInv, AdminRequestType, Admin!NoRequest, Admin!At

LEMMA ReplaysHold == Admin!AdminApiAssumption /\ ReplayInv => Admin!ReplayedWasReceived
<1> SUFFICES ASSUME Admin!AdminApiAssumption, ReplayInv, NEW l \in Letters
             PROVE  /\ x2[l].replayed => x6[l] > 0
                    /\ x6[l] <= Admin!Cardinality(Procs) + x8
  BY DEF Admin!ReplayedWasReceived
<1>1. ReplaysCounted(l) /\ x6[l] \in Nat /\ x8 \in Nat
  BY DEF ReplayInv
<1> QED
  BY <1>1, RequestsOfALetter DEF ReplaysCounted

\* The rest of what is kept: the webhook of the letters, what was let through, the faults.
RestTyped == x3 \in BOOLEAN /\ x7 \in SUBSET Actions /\ x8 \in 0..MaxFaults

LEMMA RestBegins == Admin!AdminApiAssumption /\ Admin!Init => RestTyped
  BY DEF Admin!AdminApiAssumption, Admin!Init, RestTyped

LEMMA RestStays ==
    Admin!AdminApiAssumption /\ RestTyped /\ (Admin!Next \/ UNCHANGED Admin!vars) => RestTyped'
<1> SUFFICES ASSUME Admin!AdminApiAssumption, RestTyped, (Admin!Next \/ UNCHANGED Admin!vars)
             PROVE  RestTyped'
  OBVIOUS
<1>1. ASSUME NEW r \in Procs, NEW a \in Actions, NEW who \in AdminNames, Admin!ConfirmReads(r, a, who)
      PROVE  RestTyped'
  BY <1>1 DEF Admin!ConfirmReads, RestTyped
<1>2. ASSUME NEW a \in Actions, NEW who \in AdminNames, Admin!Initiate(a, who) PROVE RestTyped'
  BY <1>2 DEF Admin!Initiate, RestTyped
<1>3. ASSUME NEW a \in Actions, Admin!Simulate(a) \/ Admin!Expires(a) PROVE RestTyped'
  BY <1>3 DEF Admin!Simulate, Admin!Expires, RestTyped
<1>4. CASE Admin!PurgeExpired \/ Admin!Deactivate \/ UNCHANGED Admin!vars
  BY <1>4 DEF Admin!PurgeExpired, Admin!Deactivate, Admin!vars, RestTyped
<1>5. ASSUME NEW r \in Procs, Admin!ConfirmWrites(r) \/ Admin!ConfirmTold(r) \/ Admin!Post(r) \/ Admin!Mark(r)
      PROVE  RestTyped'
  BY <1>5 DEF Admin!ConfirmWrites, Admin!ConfirmTold, Admin!Post, Admin!Mark, RestTyped
<1>6. ASSUME NEW r \in Procs, Admin!RequestFails(r) PROVE RestTyped'
  BY <1>6 DEF Admin!RequestFails, RestTyped, Admin!AdminApiAssumption
<1>7. ASSUME NEW r \in Procs, NEW l \in Letters, Admin!ReplayReads(r, l) PROVE RestTyped'
  BY <1>7 DEF Admin!ReplayReads, RestTyped
<1> QED
  BY <1>1, <1>2, <1>3, <1>4, <1>5, <1>6, <1>7 DEF Admin!Next

LEMMA AdminTyped == RowsInv /\ ReplayInv /\ RestTyped => Admin!TypeOK
  BY DEF RowsInv, ReplayInv, RestTyped, Admin!TypeOK, PendingActionType, AdminRequestType

-----------------------------------------------------------------------------
(***************************************************************************)
(* Migrations: x1 records, x2 inForce, x3 instance, x4 pending, x5 starts, *)
(* x6 crashes.                                                             *)
(***************************************************************************)
Migrating == INSTANCE Migrations WITH records <- x1, inForce <- x2, instance <- x3,
    pending <- x4, starts <- x5, crashes <- x6

\* A set of numbers that is not empty has a least one, the file that is next.
LEMMA NextIsPending ==
    ASSUME Migrating!MigrationsAssumption, Migrating!TypeOK, NEW i \in Instances, x4[i] # {}
    PROVE  Migrating!Next1(i) \in x4[i] /\ Migrating!Next1(i) \in Files
<1>1. x4[i] \subseteq Files /\ Files \subseteq Nat
    BY DEF Migrating!MigrationsAssumption, Migrating!TypeOK
<1>2. PICK f \in x4[i] : \A g \in x4[i] : ~ (<<g, f>> \in OpToRel(<, Nat))
    BY <1>1, NatLessThanWellFounded, WFMin
<1>3. \A g \in x4[i] : ~ (g < f)
  <2>1. \A g, h \in Nat : g < h => <<g, h>> \in OpToRel(<, Nat)
      BY Zenon DEF OpToRel
  <2> QED
      BY <1>1, <1>2, <2>1
<1>4. \A g \in x4[i] : f <= g
  <2>1. \A g \in x4[i] : g \in Nat
      BY <1>1
  <2> QED
      BY <1>3, <2>1
<1> QED
    BY <1>1, <1>4 DEF Migrating!Next1

LEMMA MigrationsBegin == Migrating!MigrationsAssumption /\ Migrating!Init => Migrating!IInv
BY DEF Migrating!MigrationsAssumption, Migrating!Init, Migrating!IInv, Migrating!TypeOK,
   Migrating!FailingHasItsFile, Migrating!RecordsTellWhatIsInForce,
       Migrating!States, Migrating!Recorded

LEMMA MigrationsStep ==
    Migrating!MigrationsAssumption /\ Migrating!IInv /\ (Migrating!Next \/ UNCHANGED Migrating!vars) => Migrating!IInv'
<1> SUFFICES ASSUME Migrating!MigrationsAssumption, Migrating!IInv, (Migrating!Next \/ UNCHANGED Migrating!vars)
             PROVE  Migrating!IInv'
    OBVIOUS
<1>1. /\ Migrating!TypeOK /\ Migrating!FailingHasItsFile /\ Migrating!RecordsTellWhatIsInForce
      /\ MaxStarts \in Nat /\ MaxCrashes \in Nat
    BY DEF Migrating!IInv, Migrating!MigrationsAssumption
<1>2. /\ x1 \in Seq([file : Files, failed : BOOLEAN]) /\ Len(x1) \in Nat
      /\ DOMAIN x1 = 1..Len(x1)
      /\ \A k \in 1..Len(x1) : /\ x1[k] \in [file : Files, failed : BOOLEAN]
                              /\ x1[k].file \in Files /\ x1[k].failed \in BOOLEAN
  <2>1. x1 \in Seq([file : Files, failed : BOOLEAN])
      BY <1>1 DEF Migrating!TypeOK
  <2>2. \A k \in 1..Len(x1) : x1[k] \in [file : Files, failed : BOOLEAN]
      BY <2>1, ElementOfSeq
  <2> QED
      BY <2>1, <2>2
\* What leaves the records alone.
<1>3. ASSUME UNCHANGED <<x1, x2>> PROVE Migrating!RecordsTellWhatIsInForce'
    BY <1>1, <1>3 DEF Migrating!RecordsTellWhatIsInForce, Migrating!Recorded
\* What makes one more.
<1>4. ASSUME NEW f \in Files \ Migrating!Recorded, NEW failed \in BOOLEAN,
             x1' = Append(x1, [file |-> f, failed |-> failed]),
             x2' = IF failed THEN x2 ELSE x2 \cup {f}
      PROVE  Migrating!RecordsTellWhatIsInForce' /\ x1' \in Seq([file : Files, failed : BOOLEAN])
  <2>1. /\ DOMAIN x1' = 1..(Len(x1) + 1)
        /\ \A k \in DOMAIN x1 : k \in DOMAIN x1' /\ x1'[k] = x1[k]
        /\ x1'[Len(x1) + 1] = [file |-> f, failed |-> failed]
        /\ Len(x1) + 1 \in DOMAIN x1'
        /\ \A k \in DOMAIN x1' : k \in DOMAIN x1 \/ k = Len(x1) + 1
      BY <1>2, <1>4
  <2>2. Migrating!Recorded \subseteq Migrating!Recorded' /\ f \in Migrating!Recorded'
      BY <2>1 DEF Migrating!Recorded
  <2>3. \A j, k \in DOMAIN x1' : x1'[j].file = x1'[k].file => j = k
      BY <1>1, <1>4, <2>1 DEF Migrating!RecordsTellWhatIsInForce, Migrating!Recorded
  <2>4. x2' \subseteq Migrating!Recorded'
      BY <1>1, <1>4, <2>2 DEF Migrating!RecordsTellWhatIsInForce
  <2>5. \A k \in DOMAIN x1' : ~x1'[k].failed => x1'[k].file \in x2'
      BY <1>1, <1>4, <2>1 DEF Migrating!RecordsTellWhatIsInForce
  <2> QED
      BY <1>2, <1>4, <2>3, <2>4, <2>5 DEF Migrating!RecordsTellWhatIsInForce
<1>5. ASSUME NEW i \in Instances, Migrating!Start(i) PROVE Migrating!IInv'
  <2>1. Migrating!TypeOK' /\ Migrating!FailingHasItsFile'
      BY <1>1, <1>5 DEF Migrating!Start, Migrating!TypeOK, Migrating!FailingHasItsFile,
         Migrating!States
  <2> QED
      BY <1>3, <1>5, <2>1 DEF Migrating!Start, Migrating!IInv
<1>6. ASSUME NEW i \in Instances, Migrating!Apply(i) PROVE Migrating!IInv'
  <2>1. /\ Migrating!Next1(i) \in x4[i] /\ Migrating!Next1(i) \in Files
        /\ x3[i] = "migrating" /\ x4[i] # {} /\ UNCHANGED <<x5, x6>>
      BY <1>1, <1>6, NextIsPending DEF Migrating!Apply
  <2>2. CASE Migrating!Next1(i) \notin Failing /\ Migrating!Next1(i) \notin Migrating!Recorded
    <3>1. /\ x1' = Append(x1, [file |-> Migrating!Next1(i), failed |-> FALSE])
          /\ x2' = x2 \cup {Migrating!Next1(i)}
          /\ x4' = [x4 EXCEPT ![i] = @ \ {Migrating!Next1(i)}]
          /\ UNCHANGED x3
        BY <1>6, <2>2 DEF Migrating!Apply
    <3>2. Migrating!RecordsTellWhatIsInForce' /\ x1' \in Seq([file : Files, failed : BOOLEAN])
        BY <1>4, <2>1, <2>2, <3>1
    <3>3. x2' \subseteq Files /\ x4' \in [Instances -> SUBSET Files]
        BY <1>1, <2>1, <3>1 DEF Migrating!TypeOK
    <3>4. Migrating!TypeOK'
        BY <1>1, <2>1, <3>1, <3>2, <3>3 DEF Migrating!TypeOK
    <3>5. Migrating!FailingHasItsFile'
        BY <1>1, <2>1, <3>1 DEF Migrating!FailingHasItsFile, Migrating!TypeOK
    <3> QED
        BY <3>2, <3>4, <3>5 DEF Migrating!IInv
  <2>3. CASE ~ (Migrating!Next1(i) \notin Failing /\ Migrating!Next1(i) \notin Migrating!Recorded)
    <3>1. /\ x3' = [x3 EXCEPT ![i] = "failing"]
          /\ UNCHANGED <<x1, x2, x4>>
        BY <1>6, <2>3 DEF Migrating!Apply
    <3>2. Migrating!TypeOK' /\ Migrating!FailingHasItsFile'
        BY <1>1, <2>1, <3>1 DEF Migrating!TypeOK, Migrating!FailingHasItsFile,
           Migrating!States
    <3> QED
        BY <1>3, <3>1, <3>2 DEF Migrating!IInv
  <2> QED
      BY <2>2, <2>3
<1>7. ASSUME NEW i \in Instances, Migrating!RecordFailure(i) PROVE Migrating!IInv'
  <2> DEFINE f == Migrating!Next1(i)
  <2>1. /\ x3[i] = "failing" /\ f \in Files
        /\ x1' = IF f \in Migrating!Recorded
                 THEN [k \in DOMAIN x1 |->
                          IF x1[k].file = f THEN [file |-> f, failed |-> TRUE]
                                            ELSE x1[k]]
                 ELSE Append(x1, [file |-> f, failed |-> TRUE])
        /\ x3' = [x3 EXCEPT ![i] = "down"]
        /\ x4' = [x4 EXCEPT ![i] = {}]
        /\ UNCHANGED <<x2, x5, x6>>
      BY <1>1, <1>7, NextIsPending DEF Migrating!RecordFailure, Migrating!FailingHasItsFile
  <2> HIDE DEF f
  <2>2. Migrating!RecordsTellWhatIsInForce' /\ x1' \in Seq([file : Files, failed : BOOLEAN])
    <3>1. CASE f \notin Migrating!Recorded
        BY <1>4, <2>1, <3>1
    <3>2. CASE f \in Migrating!Recorded
      <4>0. x1' = [k \in DOMAIN x1 |->
                      IF x1[k].file = f THEN [file |-> f, failed |-> TRUE]
                                        ELSE x1[k]]
          BY <2>1, <3>2
      <4>6. \A k \in DOMAIN x1 : x1[k] \in [file : Files, failed : BOOLEAN]
          BY <1>2
      <4>7. \A k \in DOMAIN x1 :
               \/ x1[k].file = f /\ x1'[k] = [file |-> f, failed |-> TRUE]
               \/ x1[k].file # f /\ x1'[k] = x1[k]
          BY <4>0
      <4>1. /\ DOMAIN x1' = 1..Len(x1)
            /\ \A k \in DOMAIN x1 :
                  /\ x1'[k].file = x1[k].file
                  /\ ~x1'[k].failed => x1'[k] = x1[k]
                  /\ x1'[k] \in [file : Files, failed : BOOLEAN]
        <5>1. DOMAIN x1' = 1..Len(x1)
            BY <1>2, <4>0
        <5>2. ASSUME NEW k \in DOMAIN x1
              PROVE  /\ x1'[k].file = x1[k].file
                     /\ ~x1'[k].failed => x1'[k] = x1[k]
                     /\ x1'[k] \in [file : Files, failed : BOOLEAN]
            BY <1>2, <2>1, <4>7, <5>2
        <5> QED
            BY <5>1, <5>2
      <4>2. x1' \in [1..Len(x1) -> [file : Files, failed : BOOLEAN]]
          BY <1>2, <4>0, <4>1
      <4>3. x1' \in Seq([file : Files, failed : BOOLEAN])
          BY <1>2, <4>2
      <4>4. Migrating!Recorded' = Migrating!Recorded
          BY <1>2, <4>1 DEF Migrating!Recorded
      <4>5. Migrating!RecordsTellWhatIsInForce'
          BY <1>1, <1>2, <2>1, <4>1, <4>4 DEF Migrating!RecordsTellWhatIsInForce
      <4> QED
          BY <4>3, <4>5
    <3> QED
        BY <3>1, <3>2
  <2>3. Migrating!TypeOK'
      BY <1>1, <2>1, <2>2 DEF Migrating!TypeOK, Migrating!States
  <2>4. Migrating!FailingHasItsFile'
      BY <1>1, <2>1 DEF Migrating!TypeOK, Migrating!FailingHasItsFile
  <2> QED
      BY <2>2, <2>3, <2>4 DEF Migrating!IInv
<1>8. ASSUME NEW i \in Instances, Migrating!Serve(i) PROVE Migrating!IInv'
  <2>1. Migrating!TypeOK' /\ Migrating!FailingHasItsFile'
      BY <1>1, <1>8 DEF Migrating!Serve, Migrating!TypeOK, Migrating!FailingHasItsFile,
         Migrating!States
  <2> QED
      BY <1>3, <1>8, <2>1 DEF Migrating!Serve, Migrating!IInv
<1>9. ASSUME NEW i \in Instances, Migrating!Stop(i) PROVE Migrating!IInv'
  <2>1. Migrating!TypeOK' /\ Migrating!FailingHasItsFile'
      BY <1>1, <1>9 DEF Migrating!Stop, Migrating!TypeOK, Migrating!FailingHasItsFile,
         Migrating!States
  <2> QED
      BY <1>3, <1>9, <2>1 DEF Migrating!Stop, Migrating!IInv
<1>10. ASSUME Migrating!Rollback PROVE Migrating!IInv'
  <2> DEFINE n == Len(x1)
  <2>1. /\ x1 # <<>> /\ n \in Nat \ {0} /\ n \in DOMAIN x1
        /\ x1' = SubSeq(x1, 1, n - 1)
        /\ x2' = x2 \ {x1[n].file}
        /\ x5 < MaxStarts /\ x5' = x5 + 1
        /\ UNCHANGED <<x3, x4, x6>>
      BY <1>2, <1>10 DEF Migrating!Rollback, Migrating!LastFile
  <2>2. /\ x1' \in Seq([file : Files, failed : BOOLEAN])
        /\ DOMAIN x1' = 1..(n - 1)
        /\ \A k \in 1..(n - 1) : k \in DOMAIN x1 /\ x1'[k] = x1[k] /\ k # n
    <3>1. /\ n - 1 \in Nat /\ 1 \in Int /\ n - 1 \in Int
          /\ \A k \in 1..(n - 1) : k \in DOMAIN x1 /\ k # n
                                 /\ x1[k] \in [file : Files, failed : BOOLEAN]
      <4>1. DOMAIN x1 = 1..n /\ n \in Nat \ {0}
            /\ \A k \in 1..n : x1[k] \in [file : Files, failed : BOOLEAN]
          BY <1>2, <2>1
      <4> HIDE DEF n
      <4> QED
          BY <4>1
    <3> HIDE DEF n
    <3>2. /\ x1' \in Seq([file : Files, failed : BOOLEAN])
          /\ Len(x1') = IF 1 <= n - 1 THEN (n - 1) - 1 + 1 ELSE 0
          /\ \A k \in 1..((n - 1) - 1 + 1) : x1'[k] = x1[1 + k - 1]
        BY <2>1, <3>1, SubSeqProperties
    <3>3. Len(x1') = n - 1
        BY <3>1, <3>2
    <3>4. DOMAIN x1' = 1..(n - 1)
        BY <3>2, <3>3
    <3> QED
        BY <3>1, <3>2, <3>4
  <2>3. n - 1 \in Nat
      BY <2>1
  <2>4. \A k \in DOMAIN x1 : k \in DOMAIN x1' \/ k = n
    <3>1. DOMAIN x1 = 1..n /\ n \in Nat
        BY <1>2, <2>1
    <3> HIDE DEF n
    <3> QED
        BY <2>2, <3>1
  <2> HIDE DEF n
  <2>5. \A j, k \in DOMAIN x1' : x1'[j].file = x1'[k].file => j = k
      BY <1>1, <2>2 DEF Migrating!RecordsTellWhatIsInForce
  <2>6. x2' \subseteq Migrating!Recorded'
    <3>1. \A f \in x2' : \E k \in DOMAIN x1 : x1[k].file = f /\ k # n
        BY <1>1, <2>1 DEF Migrating!RecordsTellWhatIsInForce, Migrating!Recorded
    <3>2. \A f \in x2' : \E k \in DOMAIN x1' : x1'[k].file = f
        BY <2>2, <2>4, <3>1
    <3> QED
        BY <3>2 DEF Migrating!Recorded
  <2>7. \A k \in DOMAIN x1' : ~x1'[k].failed => x1'[k].file \in x2'
      BY <1>1, <2>1, <2>2 DEF Migrating!RecordsTellWhatIsInForce
  <2>8. Migrating!TypeOK'
      BY <1>1, <2>1, <2>2 DEF Migrating!TypeOK
  <2>9. Migrating!FailingHasItsFile'
      BY <1>1, <2>1 DEF Migrating!FailingHasItsFile
  <2> QED
      BY <2>5, <2>6, <2>7, <2>8, <2>9 DEF Migrating!IInv, Migrating!RecordsTellWhatIsInForce
<1>11. ASSUME UNCHANGED Migrating!vars PROVE Migrating!IInv'
  <2>1. Migrating!TypeOK' /\ Migrating!FailingHasItsFile'
      BY <1>1, <1>11 DEF Migrating!vars, Migrating!TypeOK, Migrating!FailingHasItsFile
  <2> QED
      BY <1>3, <1>11, <2>1 DEF Migrating!vars, Migrating!IInv
<1> QED
    BY <1>5, <1>6, <1>7, <1>8, <1>9, <1>10, <1>11 DEF Migrating!Next

-----------------------------------------------------------------------------
(***************************************************************************)
(* SubscriberDelivery: x1 subscriber, x2 delivery, x3 sender, x4 knows,    *)
(* x5 notices, x6 dispatches, x7 received, x8 unverified, x9 missed,       *)
(* x10 crossed, x11 faults.                                                *)
(***************************************************************************)
Deliveries == INSTANCE SubscriberDelivery WITH Senders <- Procs, subscriber <- x1,
    delivery <- x2, sender <- x3, knows <- x4, notices <- x5, dispatches <- x6,
    received <- x7, unverified <- x8, missed <- x9, crossed <- x10, faults <- x11

LEMMA DeliveriesBegin == Deliveries!SubscriberAssumption /\ Deliveries!Init => Deliveries!IInv
<1> SUFFICES ASSUME Deliveries!SubscriberAssumption, Deliveries!Init PROVE Deliveries!IInv
    OBVIOUS
<1>1. 1 \in 1..MaxSecrets /\ 0 \in 0..MaxSecrets /\ 0 \in 0..MaxAttempts /\ 0 \in 0..MaxDispatches
      /\ 0 \in 0..MaxFaults /\ MaxAttempts > 0
    BY DEF Deliveries!SubscriberAssumption
<1>2. x1 \in [secret : 1..MaxSecrets, previous : 0..MaxSecrets, grace : BOOLEAN]
    BY <1>1 DEF Deliveries!Init
<1>3. x2 \in Deliveries!Row
    BY <1>1 DEF Deliveries!Init, Deliveries!Row
<1>4. x3 \in [Procs -> [step : {"idle", "post", "mark", "fail"},
                        attempts : 0..MaxAttempts, signs : SUBSET (1..MaxSecrets)]]
    BY <1>1 DEF Deliveries!Init, Deliveries!NoSender
<1>5. Deliveries!TypeOK
    BY <1>1, <1>2, <1>3, <1>4 DEF Deliveries!Init, Deliveries!TypeOK
<1>6. \A s \in Procs : Deliveries!At(s, "idle") /\ ~Deliveries!At(s, "post")
    BY DEF Deliveries!Init, Deliveries!NoSender, Deliveries!At
<1> QED
    BY <1>1, <1>5, <1>6 DEF Deliveries!Init, Deliveries!IInv, Deliveries!GivenUpWhenSpent,
       Deliveries!GraceCoversALateNotice,
                            Deliveries!SendersHaveAttempts, Deliveries!SubscriberKnows,
                               Deliveries!SignsWithKnown

LEMMA DeliveriesStep ==
    Deliveries!SubscriberAssumption /\ Deliveries!IInv /\ (Deliveries!Next \/ UNCHANGED Deliveries!vars) => Deliveries!IInv'
<1> SUFFICES ASSUME Deliveries!SubscriberAssumption, Deliveries!IInv, (Deliveries!Next \/ UNCHANGED Deliveries!vars)
             PROVE  Deliveries!IInv'
    OBVIOUS
<1> DEFINE SenderType == [step : {"idle", "post", "mark", "fail"},
                          attempts : 0..MaxAttempts, signs : SUBSET (1..MaxSecrets)]
           SubscriberType == [secret : 1..MaxSecrets, previous : 0..MaxSecrets, grace : BOOLEAN]
           Rest == /\ x6 \in 0..MaxDispatches /\ x7 \in Nat
                   /\ x8 \in BOOLEAN /\ x9 \in BOOLEAN /\ x10 \in BOOLEAN
                   /\ x11 \in 0..MaxFaults
\* What a sender may be at, while the subscriber knows the secrets k.
           Good(x, k, excused) == /\ x \in SenderType
                                  /\ x.step # "idle" => x.attempts < MaxAttempts
                                  /\ ~excused /\ x.step = "post" => x.signs \cap k # {}
           RowFits(d) == /\ d \in Deliveries!Row /\ (d.status = "failed" => d.attempts = MaxAttempts)
                         /\ (d.status = "pending" => d.attempts < MaxAttempts)
<1>1. /\ x1 \in SubscriberType /\ RowFits(x2) /\ x3 \in [Procs -> SenderType]
      /\ x4 \in SUBSET (1..MaxSecrets) /\ x5 \in SUBSET (1..MaxSecrets) /\ Rest
      /\ Deliveries!GraceCoversALateNotice /\ Deliveries!SubscriberKnows
    BY DEF Deliveries!IInv, Deliveries!TypeOK, Deliveries!GivenUpWhenSpent
<1>2. \A s \in Procs : Good(x3[s], x4, x9 \/ x10)
    BY <1>1 DEF Deliveries!IInv, Deliveries!SendersHaveAttempts, Deliveries!SignsWithKnown,
       Deliveries!At
\* The invariant from its parts.
<1>3. ASSUME x1' \in SubscriberType, RowFits(x2'), x3' \in [Procs -> SenderType],
             x4' \in SUBSET (1..MaxSecrets), x5' \in SUBSET (1..MaxSecrets), Rest',
             Deliveries!GraceCoversALateNotice', Deliveries!SubscriberKnows',
             \A s \in Procs : Good(x3'[s], x4', x9' \/ x10')
      PROVE  Deliveries!IInv'
  <2>1. Deliveries!TypeOK' /\ Deliveries!GivenUpWhenSpent'
      BY <1>3 DEF Deliveries!TypeOK, Deliveries!GivenUpWhenSpent
  <2>2. Deliveries!SendersHaveAttempts' /\ Deliveries!SignsWithKnown'
      BY <1>3 DEF Deliveries!SendersHaveAttempts, Deliveries!SignsWithKnown, Deliveries!At
  <2> QED
      BY <1>3, <2>1, <2>2 DEF Deliveries!IInv
<1>4. Good(Deliveries!NoSender, x4, x9 \/ x10)
    BY DEF Deliveries!NoSender, Deliveries!SubscriberAssumption
\* One sender goes on with x, and the subscriber is as it was.
<1>5. ASSUME NEW s \in Procs, NEW x, x3' = [x3 EXCEPT ![s] = x],
             Good(x, x4, x9 \/ x10),
             RowFits(x2'), UNCHANGED <<x1, x4, x5, x9, x10>>, Rest',
             Deliveries!GraceCoversALateNotice'
      PROVE  Deliveries!IInv'
  <2>1. x3' \in [Procs -> SenderType] /\ \A r \in Procs : x3'[r] = IF r = s THEN x ELSE x3[r]
      BY <1>1, <1>5
  <2> HIDE DEF Good, RowFits, SenderType
  <2>2. \A r \in Procs : Good(x3'[r], x4', x9' \/ x10')
      BY <1>2, <1>5, <2>1
  <2>3. Deliveries!SubscriberKnows'
      BY <1>1, <1>5 DEF Deliveries!SubscriberKnows
  <2> QED
      BY <1>1, <1>3, <1>5, <2>1, <2>2, <2>3
<1>6. UNCHANGED <<x9, x10, x8>> => Deliveries!GraceCoversALateNotice'
    BY <1>1 DEF Deliveries!GraceCoversALateNotice
\* What a sender signs with, the subscriber can check.
<1>7. Deliveries!Signatures \in SUBSET (1..MaxSecrets) /\ (~x9 => Deliveries!Signatures \cap x4 # {})
    BY <1>1 DEF Deliveries!Signatures, Deliveries!SubscriberKnows
<1>8. ASSUME NEW r, RowFits(r), r.attempts < MaxAttempts
      PROVE  Good([step |-> "post", attempts |-> r.attempts, signs |-> Deliveries!Signatures], x4, x9 \/ x10)
  <2>1. r.attempts \in 0..MaxAttempts
      BY <1>8 DEF Deliveries!Row
  <2> QED
      BY <1>7, <1>8, <2>1
<1>9. ASSUME NEW s \in Procs, Deliveries!Dispatch(s) PROVE Deliveries!IInv'
  <2> DEFINE r == [status |-> "pending", attempts |-> 0, due |-> TRUE]
             x == [step |-> "post", attempts |-> r.attempts, signs |-> Deliveries!Signatures]
  <2>1. RowFits(r) /\ r.attempts < MaxAttempts
      BY DEF Deliveries!SubscriberAssumption, Deliveries!Row
  <2>2. x2' = r /\ x3' = [x3 EXCEPT ![s] = x]
        /\ UNCHANGED <<x1, x4, x5, x8, x9, x10, x11>>
      BY <1>9 DEF Deliveries!Dispatch, Deliveries!Begin
  <2>3. Rest'
      BY <1>1, <1>9 DEF Deliveries!Dispatch, Deliveries!SubscriberAssumption
  <2> HIDE DEF r, RowFits
  <2>4. Good(x, x4, x9 \/ x10)
      BY <1>8, <2>1
  <2> HIDE DEF x, Good, Rest
  <2> QED
      BY <1>5, <1>6, <2>1, <2>2, <2>3, <2>4
<1>10. ASSUME NEW s \in Procs, Deliveries!Sweep(s) PROVE Deliveries!IInv'
  <2> DEFINE x == [step |-> "post", attempts |-> x2.attempts, signs |-> Deliveries!Signatures]
  <2>1. /\ x2.status = "pending" /\ x3' = [x3 EXCEPT ![s] = x]
        /\ UNCHANGED <<x1, x2, x4, x5, x6, x7, x8, x9, x10, x11>>
      BY <1>10 DEF Deliveries!Sweep, Deliveries!Begin
  <2>2. RowFits(x2) /\ x2.attempts < MaxAttempts
      BY <1>1, <2>1
  <2>3. Rest' /\ RowFits(x2')
      BY <1>1, <2>1
  <2> HIDE DEF RowFits
  <2>4. Good(x, x4, x9 \/ x10)
      BY <1>8, <2>2
  <2> HIDE DEF x, Good, Rest
  <2> QED
      BY <1>5, <1>6, <2>1, <2>3, <2>4
\* A sender that is at work takes another step.
<1>11. ASSUME NEW s \in Procs, x3[s].step # "idle", NEW t \in {"mark", "fail"}
       PROVE  Good([x3[s] EXCEPT !.step = t], x4, x9 \/ x10)
    BY <1>2, <1>11
<1>12. ASSUME NEW s \in Procs, Deliveries!PostAccepted(s) \/ Deliveries!PostFails(s) \/ Deliveries!MarkFails(s)
       PROVE  Deliveries!IInv'
  <2>1. /\ x3[s].step # "idle"
        /\ UNCHANGED <<x1, x2, x4, x5, x6, x9, x10>>
      BY <1>12 DEF Deliveries!PostAccepted, Deliveries!PostFails, Deliveries!MarkFails,
         Deliveries!At
  <2>2. PICK t \in {"mark", "fail"} : x3' = [x3 EXCEPT ![s].step = t]
      BY <1>12 DEF Deliveries!PostAccepted, Deliveries!PostFails, Deliveries!MarkFails
  <2>3. Deliveries!GraceCoversALateNotice' /\ x7' \in Nat /\ x8' \in BOOLEAN /\ x11' \in 0..MaxFaults
    <3>1. CASE Deliveries!PostAccepted(s)
      <4>1. CASE x3[s].signs \cap x4 # {}
        <5>1. x7' = x7 + 1 /\ x8' = x8 /\ x11' = x11
            BY <3>1, <4>1 DEF Deliveries!PostAccepted
        <5> QED
            BY <1>1, <1>6, <2>1, <5>1
      <4>2. CASE ~(x3[s].signs \cap x4 # {})
        <5>1. x7' = x7 /\ x8' = TRUE /\ x11' = x11 /\ x3[s].step = "post"
            BY <3>1, <4>2 DEF Deliveries!PostAccepted, Deliveries!At
        <5>2. x9 \/ x10
            BY <1>2, <4>2, <5>1
        <5> QED
            BY <1>1, <2>1, <5>1, <5>2 DEF Deliveries!GraceCoversALateNotice
      <4> QED
          BY <4>1, <4>2
    <3>2. CASE Deliveries!PostFails(s)
        BY <1>1, <1>6, <3>2 DEF Deliveries!PostFails
    <3>3. CASE Deliveries!MarkFails(s)
        BY <1>1, <1>6, <3>3 DEF Deliveries!MarkFails, Deliveries!SubscriberAssumption
    <3> QED
        BY <1>12, <3>1, <3>2, <3>3
  <2>4. Rest' /\ RowFits(x2')
      BY <1>1, <2>1, <2>3
  <2> DEFINE x == [x3[s] EXCEPT !.step = t]
  <2>5. x3' = [x3 EXCEPT ![s] = x] /\ Good(x, x4, x9 \/ x10)
      BY <1>11, <2>1, <2>2
  <2> HIDE DEF x, Good, Rest, RowFits
  <2> QED
      BY <1>5, <2>1, <2>3, <2>4, <2>5
<1>13. ASSUME NEW s \in Procs, Deliveries!MarkSuccess(s) \/ Deliveries!SenderEnds(s)
       PROVE  Deliveries!IInv'
  <2>1. /\ x3' = [x3 EXCEPT ![s] = Deliveries!NoSender]
        /\ UNCHANGED <<x1, x4, x5, x6, x7, x8, x9, x10>>
      BY <1>13 DEF Deliveries!MarkSuccess, Deliveries!SenderEnds, Deliveries!Done
  <2>2. RowFits(x2')
    <3>1. CASE Deliveries!MarkSuccess(s)
        BY <1>1, <3>1 DEF Deliveries!MarkSuccess, Deliveries!Row
    <3>2. CASE Deliveries!SenderEnds(s)
        BY <1>1, <3>2 DEF Deliveries!SenderEnds
    <3> QED
        BY <1>13, <3>1, <3>2
  <2>3. Rest'
      BY <1>1, <1>13, <2>1 DEF Deliveries!MarkSuccess, Deliveries!SenderEnds,
         Deliveries!SubscriberAssumption
  <2> HIDE DEF Good, Rest, RowFits
  <2> QED
      BY <1>4, <1>5, <1>6, <2>1, <2>2, <2>3
<1>14. ASSUME NEW s \in Procs, Deliveries!ScheduleFailure(s) PROVE Deliveries!IInv'
  <2> DEFINE n == x3[s].attempts + 1
  <2>1. /\ Deliveries!At(s, "fail") /\ x2' = [status |-> Deliveries!NextStatus(n), attempts |-> n, due |-> FALSE]
        /\ x3' = [x3 EXCEPT ![s] = Deliveries!NoSender]
        /\ UNCHANGED <<x1, x4, x5, x6, x7, x8, x9, x10, x11>>
      BY <1>14 DEF Deliveries!ScheduleFailure, Deliveries!Done
  <2>2. n \in 1..MaxAttempts
      BY <1>2, <2>1 DEF Deliveries!At, Deliveries!SubscriberAssumption
  <2>3. RowFits(x2')
      BY <2>1, <2>2 DEF Deliveries!NextStatus, Deliveries!Row, Deliveries!SubscriberAssumption
  <2>4. Rest'
      BY <1>1, <2>1
  <2> HIDE DEF Good, Rest, RowFits
  <2> QED
      BY <1>4, <1>5, <1>6, <2>1, <2>3, <2>4
\* No sender moves.
<1>15. ASSUME UNCHANGED <<x3, x6, x7, x8, x11>>, RowFits(x2'),
              x1' \in SubscriberType, x4' \in SUBSET (1..MaxSecrets),
              x5' \in SUBSET (1..MaxSecrets), x9' \in BOOLEAN, x10' \in BOOLEAN,
              x9 => x9', x10 => x10', Deliveries!SubscriberKnows',
              ~x9' /\ ~x10' => \A s \in Procs : Deliveries!At(s, "post") => x3[s].signs \cap x4' # {}
       PROVE  Deliveries!IInv'
  <2>1. \A s \in Procs : Good(x3'[s], x4', x9' \/ x10')
      BY <1>2, <1>15 DEF Deliveries!At
  <2>2. Deliveries!GraceCoversALateNotice'
      BY <1>1, <1>15 DEF Deliveries!GraceCoversALateNotice
  <2>3. Rest' /\ x3' \in [Procs -> SenderType]
      BY <1>1, <1>15
  <2> HIDE DEF Good, Rest, RowFits, SenderType
  <2> QED
      BY <1>3, <1>15, <2>1, <2>2, <2>3
<1>16. ~x9 /\ ~x10 => \A s \in Procs : Deliveries!At(s, "post") => x3[s].signs \cap x4 # {}
    BY <1>2 DEF Deliveries!At
<1>17. ASSUME Deliveries!BecomesDue PROVE Deliveries!IInv'
  <2>1. /\ x2' = [x2 EXCEPT !.due = TRUE]
        /\ UNCHANGED <<x1, x3, x4, x5, x6, x7, x8, x9, x10, x11>>
      BY <1>17 DEF Deliveries!BecomesDue
  <2>2. RowFits(x2')
      BY <1>1, <2>1 DEF Deliveries!Row
  <2>3. Deliveries!SubscriberKnows'
      BY <1>1, <2>1 DEF Deliveries!SubscriberKnows
  <2> HIDE DEF RowFits
  <2> QED
      BY <1>1, <1>15, <1>16, <2>1, <2>2, <2>3
<1>18. ASSUME Deliveries!Rotate PROVE Deliveries!IInv'
  <2>1. /\ x1.secret < MaxSecrets /\ x5' = x5 \cup {x1.secret + 1}
        /\ x1' = [secret |-> x1.secret + 1, previous |-> x1.secret, grace |-> TRUE]
        /\ x9' = (x9 \/ x1.secret \notin x4)
        /\ UNCHANGED <<x2, x3, x4, x6, x7, x8, x10, x11>>
      BY <1>18 DEF Deliveries!Rotate
  <2> DEFINE old == x1.secret
             new == x1.secret + 1
  <2>5. old \in 1..MaxSecrets /\ old \in 0..MaxSecrets /\ new \in 1..MaxSecrets
      BY <1>1, <2>1 DEF Deliveries!SubscriberAssumption
  <2>2. x1' \in SubscriberType /\ x5' \in SUBSET (1..MaxSecrets)
    <3>1. x1' = [secret |-> new, previous |-> old, grace |-> TRUE] /\ x5' = x5 \cup {new}
        BY <2>1
    <3> HIDE DEF old, new
    <3>2. x5' \in SUBSET (1..MaxSecrets)
        BY <1>1, <2>5, <3>1
    <3>3. x1' \in SubscriberType
        BY <2>5, <3>1
    <3> QED
        BY <3>2, <3>3
  <2>3. Deliveries!SubscriberKnows'
      BY <1>1, <2>1, <2>5 DEF Deliveries!SubscriberKnows
  <2>4. x9' \in BOOLEAN /\ (x9 => x9')
      BY <2>1
  <2> HIDE DEF RowFits
  <2> QED
      BY <1>1, <1>15, <1>16, <2>1, <2>2, <2>3, <2>4
<1>19. ASSUME Deliveries!NoticeArrives PROVE Deliveries!IInv'
  <2>1. PICK n \in x5 : /\ x5' = x5 \ {n} /\ x4' = x4 \cup {n}
            /\ UNCHANGED <<x1, x2, x3, x6, x7, x8, x9, x10, x11>>
      BY <1>19 DEF Deliveries!NoticeArrives
  <2>2. x5' \in SUBSET (1..MaxSecrets) /\ x4' \in SUBSET (1..MaxSecrets) /\ x4 \subseteq x4'
      BY <1>1, <2>1
  <2>3. Deliveries!SubscriberKnows'
      BY <1>1, <2>1, <2>2 DEF Deliveries!SubscriberKnows
  <2>4. ~x9' /\ ~x10' => \A s \in Procs : Deliveries!At(s, "post") => x3[s].signs \cap x4' # {}
      BY <1>16, <2>1, <2>2
  <2> HIDE DEF RowFits
  <2> QED
      BY <1>1, <1>15, <2>1, <2>2, <2>3, <2>4
<1>20. ASSUME Deliveries!GraceEnds PROVE Deliveries!IInv'
  <2>1. /\ x1' = [x1 EXCEPT !.grace = FALSE] /\ x4' = x4 \cap {x1.secret}
        /\ x9' = (x9 \/ x1.secret \notin x4)
        /\ x10' = (x10 \/ \E s \in Procs : Deliveries!At(s, "post"))
        /\ UNCHANGED <<x2, x3, x5, x6, x7, x8, x11>>
      BY <1>20 DEF Deliveries!GraceEnds
  <2>2. x1' \in SubscriberType /\ x1'.secret = x1.secret
        /\ x4' \in SUBSET (1..MaxSecrets)
      BY <1>1, <2>1
  <2>3. Deliveries!SubscriberKnows'
      BY <2>1, <2>2 DEF Deliveries!SubscriberKnows
  <2>4. x9' \in BOOLEAN /\ (x9 => x9') /\ x10' \in BOOLEAN /\ (x10 => x10')
      BY <2>1
  <2>5. ~x10' => \A s \in Procs : ~Deliveries!At(s, "post")
      BY <2>1
  <2> HIDE DEF RowFits
  <2> QED
      BY <1>1, <1>15, <2>1, <2>2, <2>3, <2>4, <2>5
<1>21. ASSUME UNCHANGED Deliveries!vars PROVE Deliveries!IInv'
  <2>1. Deliveries!SubscriberKnows'
      BY <1>1, <1>21 DEF Deliveries!SubscriberKnows, Deliveries!vars
  <2> HIDE DEF RowFits
  <2> QED
      BY <1>1, <1>15, <1>16, <1>21, <2>1 DEF Deliveries!vars
<1> QED
    BY <1>9, <1>10, <1>12, <1>13, <1>14, <1>17, <1>18, <1>19, <1>20, <1>21 DEF Deliveries!Next

-----------------------------------------------------------------------------
(***************************************************************************)
(* RemittanceUpdates: x1 status, x2 update, x3 announced, x4 watcher,      *)
(* x5 path, x6 crossed, x7 overtaken, x8 begun, x9 faults.                 *)
(***************************************************************************)
Updates == INSTANCE RemittanceUpdates WITH Updates <- Procs, status <- x1, update <- x2,
    announced <- x3, watcher <- x4, path <- x5, crossed <- x6, overtaken <- x7, begun <- x8,
    faults <- x9

LEMMA UpdatesBegin == Updates!UpdatesAssumption /\ Updates!Init => Updates!IInv
<1> SUFFICES ASSUME Updates!UpdatesAssumption, Updates!Init PROVE Updates!IInv
    OBVIOUS
<1>1. Updates!TypeOK
  <2>1. {x1, x3} \subseteq Updates!Statuses /\ {x5, x6, x7} \subseteq BOOLEAN
      BY DEF Updates!Init, Updates!Statuses
  <2>2. x2 \in [Procs -> [at : {"idle", "read", "write", "announce"}, read : Updates!Statuses, to : Updates!Statuses]]
      BY DEF Updates!Init, Updates!Idle, Updates!Statuses
  <2>3. x4 \in [joined : BOOLEAN, told : Updates!Statuses \cup {Updates!Unheard}]
      BY DEF Updates!Init
  <2> QED
      BY <2>1, <2>2, <2>3 DEF Updates!Init, Updates!TypeOK, Updates!UpdatesAssumption
<1>2. Updates!WritesAreTransitions /\ Updates!LastIsAnnounced /\ Updates!PathLeftOnlyByCrossing
    BY DEF Updates!Init, Updates!WritesAreTransitions, Updates!LastIsAnnounced,
       Updates!PathLeftOnlyByCrossing, Updates!At, Updates!Idle
<1> QED
    BY <1>1, <1>2 DEF Updates!IInv

LEMMA UpdatesStep ==
    Updates!UpdatesAssumption /\ Updates!IInv /\ (Updates!Next \/ UNCHANGED Updates!vars) => Updates!IInv'
<1> SUFFICES ASSUME Updates!UpdatesAssumption, Updates!IInv, (Updates!Next \/ UNCHANGED Updates!vars)
             PROVE  Updates!IInv'
    OBVIOUS
<1> DEFINE UpdateType == [at : {"idle", "read", "write", "announce"}, read : Updates!Statuses, to : Updates!Statuses]
           WatcherType == [joined : BOOLEAN, told : Updates!Statuses \cup {Updates!Unheard}]
<1>1. /\ x1 \in Updates!Statuses /\ x3 \in Updates!Statuses /\ x2 \in [Procs -> UpdateType]
      /\ x4 \in WatcherType /\ x5 \in BOOLEAN /\ x6 \in BOOLEAN /\ x7 \in BOOLEAN
      /\ x8 \in 0..MaxUpdates /\ x9 \in 0..MaxFaults
      /\ Updates!PathLeftOnlyByCrossing /\ Updates!WritesAreTransitions /\ Updates!LastIsAnnounced
    BY DEF Updates!IInv, Updates!TypeOK
<1>2. Updates!Idle \in UpdateType /\ Updates!Idle.at = "idle"
    BY DEF Updates!Idle, Updates!Statuses
<1>3. MaxUpdates \in Nat /\ MaxFaults \in Nat
    BY DEF Updates!UpdatesAssumption
\* One update goes on with x.
<1>4. ASSUME NEW u \in Procs, NEW x \in UpdateType, x2' = [x2 EXCEPT ![u] = x],
             x.at = "write" => x.to \in Updates!Transitions[x.read]
      PROVE  /\ x2' \in [Procs -> UpdateType] /\ Updates!WritesAreTransitions'
             /\ x2'[u] = x /\ \A v \in Procs \ {u} : x2'[v] = x2[v]
  <2>1. /\ x2' \in [Procs -> UpdateType]
        /\ x2'[u] = x /\ \A v \in Procs \ {u} : x2'[v] = x2[v]
      BY <1>1, <1>4
  <2> QED
      BY <1>1, <1>4, <2>1 DEF Updates!WritesAreTransitions, Updates!At
\* It had nothing to announce, and has nothing yet.
<1>5. ASSUME NEW u \in Procs, NEW x \in UpdateType, x2' = [x2 EXCEPT ![u] = x],
             x.at = "write" => x.to \in Updates!Transitions[x.read],
             ~Updates!At(u, "announce"), UNCHANGED <<x1, x3, x4, x5, x6, x7>>,
             x8' \in 0..MaxUpdates, x9' \in 0..MaxFaults
      PROVE  Updates!IInv'
  <2>1. /\ x2' \in [Procs -> UpdateType] /\ Updates!WritesAreTransitions'
        /\ x2'[u] = x /\ \A v \in Procs \ {u} : x2'[v] = x2[v]
      BY <1>4, <1>5
  <2>2. Updates!LastIsAnnounced'
      BY <1>1, <1>5, <2>1 DEF Updates!LastIsAnnounced, Updates!At
  <2>3. Updates!PathLeftOnlyByCrossing'
      BY <1>1, <1>5 DEF Updates!PathLeftOnlyByCrossing
  <2> QED
      BY <1>1, <1>5, <2>1, <2>2, <2>3 DEF Updates!IInv, Updates!TypeOK
<1>6. ASSUME NEW u \in Procs, NEW to \in Updates!Statuses, Updates!Begin(u, to) PROVE Updates!IInv'
  <2> DEFINE x == [at |-> "read", read |-> "Pending", to |-> to]
  <2>1. x \in UpdateType /\ x.at = "read"
      BY DEF Updates!Statuses
  <2>2. x2' = [x2 EXCEPT ![u] = x] /\ ~Updates!At(u, "announce")
      BY <1>6 DEF Updates!Begin, Updates!At
  <2>3. x8' \in 0..MaxUpdates
      BY <1>1, <1>3, <1>6 DEF Updates!Begin
  <2> HIDE DEF x, UpdateType
  <2> QED
      BY <1>1, <1>5, <1>6, <2>1, <2>2, <2>3 DEF Updates!Begin
<1>7. ASSUME NEW u \in Procs, Updates!Read(u) PROVE Updates!IInv'
  <2> DEFINE x == [at |-> "write", read |-> x1, to |-> x2[u].to]
  <2>1. /\ ~Updates!At(u, "announce")
        /\ UNCHANGED <<x1, x3, x4, x5, x6, x7, x8, x9>>
      BY <1>7 DEF Updates!Read, Updates!At
  <2>2. x \in UpdateType /\ x.to = x2[u].to /\ x.read = x1
      BY <1>1
  <2>3. \/ x2' = [x2 EXCEPT ![u] = Updates!Idle]
        \/ x2' = [x2 EXCEPT ![u] = x] /\ x.to \in Updates!Transitions[x1]
      BY <1>7 DEF Updates!Read, Updates!Ends, Updates!MayBecome
  <2> HIDE DEF x, UpdateType
  <2> QED
      BY <1>1, <1>2, <1>5, <2>1, <2>2, <2>3
<1>8. ASSUME NEW u \in Procs, Updates!Write(u) PROVE Updates!IInv'
  <2> DEFINE to == x2[u].to
             x == [x2[u] EXCEPT !.at = "announce"]
  <2>1. /\ Updates!At(u, "write") /\ x1' = to /\ x2' = [x2 EXCEPT ![u] = x]
        /\ x5' = (x5 /\ (x1 = to \/ to \in Updates!Transitions[x1]))
        /\ x6' = (x6 \/ x1 # x2[u].read)
        /\ UNCHANGED <<x3, x4, x7, x8, x9>>
      BY <1>8 DEF Updates!Write
  <2>2. x \in UpdateType /\ x.at = "announce" /\ x.to = to /\ to \in Updates!Statuses
      BY <1>1
  <2> HIDE DEF x
  <2>3. /\ x2' \in [Procs -> UpdateType] /\ Updates!WritesAreTransitions' /\ x2'[u] = x
      BY <1>4, <2>1, <2>2
  <2>4. Updates!LastIsAnnounced'
      BY <1>1, <2>1, <2>2, <2>3 DEF Updates!LastIsAnnounced, Updates!At
  <2>5. Updates!PathLeftOnlyByCrossing'
      BY <1>1, <2>1 DEF Updates!PathLeftOnlyByCrossing, Updates!WritesAreTransitions
  <2>6. x5' \in BOOLEAN /\ x6' \in BOOLEAN
      BY <2>1
  <2> QED
      BY <1>1, <2>1, <2>2, <2>3, <2>4, <2>5, <2>6 DEF Updates!IInv, Updates!TypeOK
<1>9. ASSUME NEW u \in Procs, Updates!QueryFails(u) PROVE Updates!IInv'
  <2>1. /\ ~Updates!At(u, "announce") /\ x2' = [x2 EXCEPT ![u] = Updates!Idle]
        /\ UNCHANGED <<x1, x3, x4, x5, x6, x7, x8>>
      BY <1>9 DEF Updates!QueryFails, Updates!At, Updates!Ends, Updates!AnnouncedAfterFailure
  <2>2. x9' \in 0..MaxFaults
      BY <1>1, <1>3, <1>9 DEF Updates!QueryFails
  <2> HIDE DEF UpdateType
  <2> QED
      BY <1>1, <1>2, <1>5, <2>1, <2>2
<1>10. ASSUME NEW u \in Procs, Updates!Announce(u) PROVE Updates!IInv'
  <2> DEFINE to == x2[u].to
  <2>1. /\ x3' = to /\ x4' = Updates!Hears(x4, to)
        /\ x7' = (x7 \/ x1 # to) /\ x2' = [x2 EXCEPT ![u] = Updates!Idle]
        /\ UNCHANGED <<x1, x5, x6, x8, x9>> /\ to \in Updates!Statuses
      BY <1>1, <1>10 DEF Updates!Announce, Updates!Ends
  <2>2. x2' \in [Procs -> UpdateType] /\ Updates!WritesAreTransitions'
      BY <1>2, <1>4, <2>1
  <2>3. /\ x4' \in WatcherType /\ x4'.joined = x4.joined
        /\ x4'.told = IF x4.joined THEN to ELSE x4.told
      BY <1>1, <2>1 DEF Updates!Hears
  <2>4. Updates!LastIsAnnounced'
      BY <1>1, <2>1, <2>3 DEF Updates!LastIsAnnounced
  <2>5. Updates!PathLeftOnlyByCrossing'
      BY <1>1, <2>1 DEF Updates!PathLeftOnlyByCrossing
  <2>6. x7' \in BOOLEAN
      BY <2>1
  <2> QED
      BY <1>1, <2>1, <2>2, <2>3, <2>4, <2>5, <2>6 DEF Updates!IInv, Updates!TypeOK
<1>11. ASSUME Updates!Join \/ Updates!Leave PROVE Updates!IInv'
  <2>1. /\ x4' \in WatcherType /\ x4'.told = Updates!Unheard
        /\ UNCHANGED <<x1, x2, x3, x5, x6, x7, x8, x9>>
    <3>1. \A b \in BOOLEAN : LET w == [joined |-> b, told |-> Updates!Unheard]
                              IN  w \in WatcherType /\ w.told = Updates!Unheard
        OBVIOUS
    <3> HIDE DEF WatcherType
    <3> QED
        BY <1>11, <3>1 DEF Updates!Join, Updates!Leave
  <2>2. Updates!LastIsAnnounced' /\ Updates!PathLeftOnlyByCrossing' /\ Updates!WritesAreTransitions'
      BY <1>1, <2>1 DEF Updates!LastIsAnnounced, Updates!PathLeftOnlyByCrossing,
         Updates!WritesAreTransitions, Updates!At
  <2> QED
      BY <1>1, <2>1, <2>2 DEF Updates!IInv, Updates!TypeOK
<1>12. ASSUME Updates!Restart PROVE Updates!IInv'
  <2>1. /\ x4' \in WatcherType /\ x4'.told = Updates!Unheard
        /\ x2' = [u \in Procs |-> Updates!Idle] /\ x9' \in 0..MaxFaults
        /\ UNCHANGED <<x1, x3, x5, x6, x7, x8>>
      BY <1>1, <1>3, <1>12 DEF Updates!Restart
  <2>2. x2' \in [Procs -> UpdateType] /\ \A u \in Procs : x2'[u].at = "idle"
      BY <1>2, <2>1
  <2>3. Updates!LastIsAnnounced' /\ Updates!PathLeftOnlyByCrossing' /\ Updates!WritesAreTransitions'
      BY <1>1, <2>1, <2>2 DEF Updates!LastIsAnnounced, Updates!PathLeftOnlyByCrossing,
         Updates!WritesAreTransitions, Updates!At
  <2> QED
      BY <1>1, <2>1, <2>2, <2>3 DEF Updates!IInv, Updates!TypeOK
<1>13. ASSUME UNCHANGED Updates!vars PROVE Updates!IInv'
    BY <1>13 DEF Updates!vars, Updates!IInv, Updates!TypeOK, Updates!PathLeftOnlyByCrossing,
       Updates!WritesAreTransitions, Updates!LastIsAnnounced, Updates!At
<1> QED
    BY <1>6, <1>7, <1>8, <1>9, <1>10, <1>11, <1>12, <1>13 DEF Updates!Next

LEMMA UpdatesHold == Updates!IInv => Updates!PathLeftOnlyByCrossing /\ Updates!WatcherHearsTheLast
BY DEF Updates!IInv, Updates!LastIsAnnounced, Updates!WatcherHearsTheLast, Updates!At

-----------------------------------------------------------------------------
(***************************************************************************)
(* Ramp: x1 handlers, x2 webhook, x3 repeated, x4 carried, x5 owed,        *)
(* x6 troubles.                                                            *)
(***************************************************************************)
Ramps == INSTANCE Ramp WITH Notices <- RampNotices, Requests <- Procs, handlers <- x1,
    webhook <- x2, repeated <- x3, carried <- x4, owed <- x5, troubles <- x6

LEMMA NoneAtWork ==
    (\A seen : Ramps!AtWork(Ramps!NoWebhook, seen)) /\ Ramps!NoWebhook \in Ramps!WebhookType
  BY DEF Ramps!AtWork, Ramps!NoWebhook, Ramps!WebhookType

LEMMA ParsedIsAStatus == \A n \in RampNotices : Ramps!Parsed(n) \in Ramps!RampStatuses
  BY DEF Ramps!Parsed, Ramps!Known, Ramps!RampStatuses

LEMMA NoticeInHand ==
    Ramps!IInv => \A q \in Procs : x2[q].busy # {} =>
        Ramps!Noticed(q) \in RampNotices /\ x2[q].on = {Ramps!Noticed(q)}
<1> SUFFICES ASSUME Ramps!IInv, NEW q \in Procs, x2[q].busy # {}
             PROVE  Ramps!Noticed(q) \in RampNotices /\ x2[q].on = {Ramps!Noticed(q)}
  OBVIOUS
<1>1. PICK n \in RampNotices : x2[q].on = {n}
  BY DEF Ramps!IInv, Ramps!AtWork
<1> QED
  BY <1>1 DEF Ramps!Noticed

\* A handler leaves a request: what is left of it is still at work.
LEMMA LeavingLeavesWork ==
    Ramps!IInv => \A q \in Procs, h \in HookHandlers, answered \in BOOLEAN :
        h \in x2[q].busy /\ Ramps!Leave(q, h, answered) =>
            /\ x2' \in [Procs -> Ramps!WebhookType]
            /\ x2[q].busy = {h} => x2'[q] = Ramps!NoWebhook
            /\ x2[q].busy # {h} =>
                  /\ x2'[q].on = x2[q].on /\ x2'[q].called = x2[q].called
                  /\ x2'[q].busy = x2[q].busy \ {h} /\ x2'[q].answered = answered
            /\ \A p \in Procs \ {q} : x2'[p] = x2[p]
<1> SUFFICES ASSUME Ramps!IInv, NEW q \in Procs, NEW h \in HookHandlers,
                    NEW answered \in BOOLEAN, h \in x2[q].busy, Ramps!Leave(q, h, answered)
             PROVE  /\ x2' \in [Procs -> Ramps!WebhookType]
                    /\ x2[q].busy = {h} => x2'[q] = Ramps!NoWebhook
                    /\ x2[q].busy # {h} =>
                          /\ x2'[q].on = x2[q].on
                          /\ x2'[q].called = x2[q].called
                          /\ x2'[q].busy = x2[q].busy \ {h}
                          /\ x2'[q].answered = answered
                    /\ \A p \in Procs \ {q} : x2'[p] = x2[p]
  OBVIOUS
<1> DEFINE left == [x2[q] EXCEPT !.busy = x2[q].busy \ {h}, !.answered = answered]
<1>1. x2[q] \in Ramps!WebhookType
  BY DEF Ramps!IInv
<1>2. /\ left \in Ramps!WebhookType /\ left.on = x2[q].on /\ left.called = x2[q].called
      /\ left.busy = x2[q].busy \ {h} /\ left.answered = answered
  BY <1>1 DEF Ramps!WebhookType
<1>3. x2' = [x2 EXCEPT ![q] = IF x2[q].busy = {h} THEN Ramps!NoWebhook ELSE left]
  BY DEF Ramps!Leave
<1> HIDE DEF left
<1> QED
  BY <1>2, <1>3, NoneAtWork DEF Ramps!IInv

LEMMA RampBegins == Ramps!Init => Ramps!IInv
  BY NoneAtWork DEF Ramps!Init, Ramps!IInv, Ramps!AcknowledgedIsCarried, Ramps!AtWork,
     Ramps!NoWebhook

LEMMA RampStep == Ramps!IInv /\ (Ramps!Next \/ UNCHANGED Ramps!vars) => Ramps!IInv'
<1> SUFFICES ASSUME Ramps!IInv, (Ramps!Next \/ UNCHANGED Ramps!vars) PROVE Ramps!IInv'
  OBVIOUS
<1>1. ASSUME NEW q \in Procs, NEW n \in RampNotices, Ramps!Receive(q, n) PROVE Ramps!IInv'
  <2> DEFINE called == x1[Ramps!Parsed(n)]
             w == [on |-> {n}, called |-> called, busy |-> called, answered |-> FALSE]
  <2>1. called \in SUBSET HookHandlers
    BY ParsedIsAStatus DEF Ramps!IInv
  <2>2. UNCHANGED <<x1, x4>>
    BY <1>1 DEF Ramps!Receive
  <2>3. CASE called = {}
    <3>1. UNCHANGED x2 /\ x5' = [x5 EXCEPT ![n] = @ \cup {}]
      BY <1>1, <2>3 DEF Ramps!Receive, Ramps!Acknowledge
    <3>2. x5' = x5
      BY <3>1 DEF Ramps!IInv
    <3> QED
      BY <2>2, <3>1, <3>2 DEF Ramps!IInv, Ramps!AtWork, Ramps!AcknowledgedIsCarried
  <2>4. CASE called # {}
    <3>1. x2' = [x2 EXCEPT ![q] = w] /\ UNCHANGED x5
      BY <1>1, <2>4 DEF Ramps!Receive
    <3>2. w \in Ramps!WebhookType /\ Ramps!AtWork(w, x4')
      BY <2>1 DEF Ramps!WebhookType, Ramps!AtWork
    <3>3. \A p \in Procs : Ramps!AtWork(x2'[p], x4')
      BY <2>2, <3>1, <3>2 DEF Ramps!IInv, Ramps!AtWork
    <3> QED
      BY <2>2, <3>1, <3>2, <3>3 DEF Ramps!IInv, Ramps!AcknowledgedIsCarried
  <2> QED
    BY <2>3, <2>4
<1>2. ASSUME NEW q \in Procs, NEW h \in HookHandlers, Ramps!Finish(q, h) PROVE Ramps!IInv'
  <2> DEFINE w == x2[q]
  <2>1. /\ h \in w.busy /\ Ramps!Leave(q, h, w.answered) /\ UNCHANGED x1
        /\ x4' = [x4 EXCEPT ![Ramps!Noticed(q)] = @ \cup {h}]
    BY <1>2 DEF Ramps!Finish
  <2>2. PICK n \in RampNotices : n = Ramps!Noticed(q) /\ w.on = {n}
    BY <2>1, NoticeInHand
  <2>3. w \in Ramps!WebhookType /\ w.answered \in BOOLEAN
    BY DEF Ramps!IInv, Ramps!WebhookType
  <2>4. /\ x2' \in [Procs -> Ramps!WebhookType]
        /\ w.busy = {h} => x2'[q] = Ramps!NoWebhook
        /\ w.busy # {h} =>
              /\ x2'[q].on = {n} /\ x2'[q].called = w.called
              /\ x2'[q].busy = w.busy \ {h} /\ x2'[q].answered = w.answered
        /\ \A p \in Procs \ {q} : x2'[p] = x2[p]
    BY <2>1, <2>2, <2>3, LeavingLeavesWork
  <2>5. /\ x4' \in [RampNotices -> SUBSET HookHandlers]
        /\ x4'[n] = x4[n] \cup {h}
        /\ \A m \in RampNotices : x4[m] \subseteq x4'[m]
    BY <2>1, <2>2 DEF Ramps!IInv
  <2>6. \A p \in Procs : Ramps!AtWork(x2'[p], x4')
    <3> SUFFICES ASSUME NEW p \in Procs PROVE Ramps!AtWork(x2'[p], x4')
      OBVIOUS
    <3>1. CASE p # q
      BY <2>4, <2>5, <3>1 DEF Ramps!IInv, Ramps!AtWork, Ramps!WebhookType
    <3>2. CASE p = q /\ w.busy = {h}
      BY <2>4, <3>2 DEF Ramps!AtWork, Ramps!NoWebhook
    <3>3. CASE p = q /\ w.busy # {h}
      <4>1. ~w.answered => w.called \subseteq x4[n] \cup w.busy
        BY <2>1, <2>2 DEF Ramps!IInv, Ramps!AtWork
      <4> QED
        BY <2>4, <2>5, <3>3, <4>1 DEF Ramps!AtWork
    <3> QED
      BY <3>1, <3>2, <3>3
  <2>7. x5' \in [RampNotices -> SUBSET HookHandlers] /\ Ramps!AcknowledgedIsCarried'
    <3>1. CASE Ramps!IsWell(q, h)
      <4>1. x5' = [x5 EXCEPT ![n] = @ \cup w.called] /\ w.called \in SUBSET HookHandlers
        BY <1>2, <2>2, <2>3, <3>1 DEF Ramps!Finish, Ramps!Acknowledge, Ramps!WebhookType
      <4>2. w.called \subseteq x4[n] \cup {h}
        BY <2>2, <3>1 DEF Ramps!IsWell, Ramps!IInv, Ramps!AtWork
      <4> QED
        BY <2>5, <4>1, <4>2 DEF Ramps!IInv, Ramps!AcknowledgedIsCarried
    <3>2. CASE ~Ramps!IsWell(q, h)
      BY <1>2, <2>5, <3>2 DEF Ramps!Finish, Ramps!IInv, Ramps!AcknowledgedIsCarried
    <3> QED
      BY <3>1, <3>2
  <2> QED
    BY <2>1, <2>4, <2>5, <2>6, <2>7 DEF Ramps!IInv
<1>3. ASSUME NEW q \in Procs, NEW h \in HookHandlers, Ramps!HandlerFails(q, h) PROVE Ramps!IInv'
  <2> DEFINE w == x2[q]
  <2>1. h \in w.busy /\ Ramps!Leave(q, h, TRUE) /\ UNCHANGED <<x1, x4, x5>>
    BY <1>3 DEF Ramps!HandlerFails
  <2>2. w \in Ramps!WebhookType
    BY DEF Ramps!IInv
  <2>3. /\ x2' \in [Procs -> Ramps!WebhookType]
        /\ w.busy = {h} => x2'[q] = Ramps!NoWebhook
        /\ w.busy # {h} => x2'[q].on = w.on /\ x2'[q].answered = TRUE
        /\ \A p \in Procs \ {q} : x2'[p] = x2[p]
    BY <2>1, LeavingLeavesWork
  <2>4. Ramps!AtWork(x2'[q], x4')
    BY <2>1, <2>2, <2>3 DEF Ramps!IInv, Ramps!AtWork, Ramps!WebhookType, Ramps!NoWebhook
  <2>5. \A p \in Procs : Ramps!AtWork(x2'[p], x4')
    BY <2>1, <2>3, <2>4 DEF Ramps!IInv, Ramps!AtWork
  <2> QED
    BY <2>1, <2>3, <2>5 DEF Ramps!IInv, Ramps!AcknowledgedIsCarried
<1>4. CASE Ramps!Crash
  BY <1>4, NoneAtWork DEF Ramps!Crash, Ramps!IInv, Ramps!AcknowledgedIsCarried, Ramps!AtWork,
     Ramps!NoWebhook
<1>5. CASE (\E n \in RampNotices : Ramps!AnswerLost(n)) \/ UNCHANGED Ramps!vars
  BY <1>5 DEF Ramps!AnswerLost, Ramps!vars, Ramps!IInv, Ramps!AcknowledgedIsCarried,
     Ramps!AtWork
<1>6. ASSUME NEW hook \in Ramps!RampStatuses, NEW h \in HookHandlers, Ramps!On(hook, h) \/ Ramps!Off(hook, h)
      PROVE  Ramps!IInv'
  BY <1>6 DEF Ramps!On, Ramps!Off, Ramps!IInv, Ramps!AcknowledgedIsCarried, Ramps!AtWork
<1> QED
  BY <1>1, <1>2, <1>3, <1>4, <1>5, <1>6, ParsedIsAStatus DEF Ramps!Next

\* What is left to repeat, and the troubles so far.
LEMMA RepeatsBegin == Ramps!RampAssumption /\ Ramps!Init => Ramps!RepeatsTyped
  BY DEF Ramps!RampAssumption, Ramps!Init, Ramps!RepeatsTyped

LEMMA RepeatsStep ==
    Ramps!RampAssumption /\ Ramps!RepeatsTyped /\ (Ramps!Next \/ UNCHANGED Ramps!vars) => Ramps!RepeatsTyped'
<1> SUFFICES ASSUME Ramps!RampAssumption, Ramps!RepeatsTyped, (Ramps!Next \/ UNCHANGED Ramps!vars)
             PROVE  Ramps!RepeatsTyped'
  OBVIOUS
<1>1. Ramps!Trouble => x6' \in 0..MaxFaults
  BY DEF Ramps!RampAssumption, Ramps!RepeatsTyped, Ramps!Trouble
<1>2. ASSUME NEW n, NEW called, Ramps!Acknowledge(n, called) PROVE x3' \subseteq RampNotices
  BY <1>2 DEF Ramps!Acknowledge, Ramps!RepeatsTyped
<1>3. ASSUME NEW q \in Procs, NEW n \in RampNotices, Ramps!Receive(q, n) PROVE Ramps!RepeatsTyped'
  BY <1>2, <1>3 DEF Ramps!Receive, Ramps!RepeatsTyped
<1>4. ASSUME NEW q \in Procs, NEW h \in HookHandlers, Ramps!Finish(q, h) PROVE Ramps!RepeatsTyped'
  BY <1>2, <1>4 DEF Ramps!Finish, Ramps!RepeatsTyped
<1>5. ASSUME NEW q \in Procs, NEW h \in HookHandlers, Ramps!HandlerFails(q, h)
      PROVE  Ramps!RepeatsTyped'
  BY <1>1, <1>5 DEF Ramps!HandlerFails, Ramps!RepeatsTyped
<1>6. ASSUME NEW n \in RampNotices, Ramps!AnswerLost(n) PROVE Ramps!RepeatsTyped'
  BY <1>1, <1>6 DEF Ramps!AnswerLost, Ramps!RepeatsTyped
<1>7. CASE Ramps!Crash
  BY <1>1, <1>7 DEF Ramps!Crash, Ramps!RepeatsTyped
<1>8. ASSUME NEW hook, NEW h, Ramps!On(hook, h) \/ Ramps!Off(hook, h) PROVE Ramps!RepeatsTyped'
  BY <1>8 DEF Ramps!On, Ramps!Off, Ramps!RepeatsTyped
<1>9. CASE UNCHANGED Ramps!vars
  BY <1>9 DEF Ramps!vars, Ramps!RepeatsTyped
<1> QED
  BY <1>3, <1>4, <1>5, <1>6, <1>7, <1>8, <1>9 DEF Ramps!Next

LEMMA RampTyped == Ramps!IInv /\ Ramps!RepeatsTyped => Ramps!TypeOK
  BY DEF Ramps!IInv, Ramps!RepeatsTyped, Ramps!TypeOK, Ramps!WebhookType

-----------------------------------------------------------------------------
(***************************************************************************)
(* SecretCache: x1 now, x2 changed, x3 cache, x4 call, x5 told, x6 crossed. *)
(***************************************************************************)
Secrets == INSTANCE SecretCache WITH MaxTime <- MaxCacheTime, now <- x1, changed <- x2,
    cache <- x3, call <- x4, told <- x5, crossed <- x6

\* The values so far are 0 to n, and n is the secret.
LEMMA LastOfSegment ==
    \A f : \A n \in Nat :
        DOMAIN f = 0..n => (CHOOSE v \in DOMAIN f : v + 1 \notin DOMAIN f) = n
<1> SUFFICES ASSUME NEW f, NEW n \in Nat, DOMAIN f = 0..n
             PROVE  (CHOOSE v \in DOMAIN f : v + 1 \notin DOMAIN f) = n
    OBVIOUS
<1>1. \A v : v \in DOMAIN f /\ v + 1 \notin DOMAIN f <=> v = n
    OBVIOUS
<1> QED
    BY <1>1

LEMMA SecretsBegin == Secrets!SecretAssumption /\ Secrets!Init => Secrets!IInv
<1> SUFFICES ASSUME Secrets!SecretAssumption, Secrets!Init PROVE Secrets!IInv
    OBVIOUS
<1>1. x2 \in [0..0 -> 0..x1] /\ x1 \in 0..MaxCacheTime
    BY DEF Secrets!Init, Secrets!SecretAssumption
<1> QED
    BY <1>1 DEF Secrets!Init, Secrets!IInv, Secrets!Done, Secrets!HookAheadOnlyByCrossing,
       Secrets!SecretAssumption

LEMMA SecretsStep ==
    Secrets!SecretAssumption /\ Secrets!IInv /\ (Secrets!Next \/ UNCHANGED Secrets!vars) => Secrets!IInv'
<1> SUFFICES ASSUME Secrets!SecretAssumption, Secrets!IInv, (Secrets!Next \/ UNCHANGED Secrets!vars)
             PROVE  Secrets!IInv'
    OBVIOUS
<1> USE DEF Secrets!SecretAssumption
<1>1. PICK n \in Nat : x2 \in [0..n -> 0..x1]
    BY DEF Secrets!IInv
<1>2. Secrets!Current = n /\ x1 \in 0..MaxCacheTime
    BY <1>1, LastOfSegment DEF Secrets!IInv, Secrets!Current
<1>3. /\ x3 = Secrets!NoCopy \/ x3 \in [value : 0..n, stamp : 0..x1]
      /\ x4 \in [Secrets!Calls -> [at : {"done", "get", "got", "describe", "compare", "put"},
                                   stamp : 0..x1, value : 0..n]]
      /\ x5 \in 0..n
    BY <1>1 DEF Secrets!IInv
\* A change of the secret leaves what was the secret when it was asked for.
<1>4. ASSUME Secrets!NewValue, UNCHANGED <<x1, x3, x5, x6>>,
             x4' \in [Secrets!Calls -> [at : {"done", "get", "got", "describe", "compare", "put"},
                                        stamp : 0..x1, value : 0..(n + 1)]],
             \A c \in Secrets!Calls : x4'[c] = x4[c] \/ x4'[c].at = "put"
      PROVE  Secrets!IInv'
  <2>1. x2' = [v \in 0..(n + 1) |-> IF v \in 0..n THEN x2[v] ELSE x1]
      BY <1>1, <1>2, <1>4 DEF Secrets!NewValue
  <2>2. /\ n + 1 \in Nat /\ x2' \in [0..(n + 1) -> 0..x1]
        /\ \A v \in 0..n : x2'[v] = x2[v]
        /\ x2'[n + 1] = x1
      BY <1>1, <1>2, <2>1
  <2>3. Secrets!Current' = n + 1
      BY <2>2, LastOfSegment DEF Secrets!Current
  <2>4. \A v \in 0..n, s \in 0..x1 : Secrets!SecretWhenAsked(v, s) => Secrets!SecretWhenAsked(v, s)'
      BY <1>1, <1>2, <1>4, <2>2, <2>3 DEF Secrets!SecretWhenAsked
  <2>5. x3' = Secrets!NoCopy' \/ /\ x3' \in [value : DOMAIN x2', stamp : 0..x1']
                                 /\ Secrets!SecretWhenAsked(x3.value, x3.stamp)'
      BY <1>3, <1>4, <2>2, <2>4 DEF Secrets!IInv, Secrets!NoCopy
  <2>6. \A c \in Secrets!Calls : (x4[c].at = "got" =>
            Secrets!SecretWhenAsked(x4[c].value, x4[c].stamp))'
    <3> SUFFICES ASSUME NEW c \in Secrets!Calls, x4'[c].at = "got"
                 PROVE  Secrets!SecretWhenAsked(x4[c].value, x4[c].stamp)'
        OBVIOUS
    <3>1. x4'[c] = x4[c] /\ x4[c].value \in 0..n /\ x4[c].stamp \in 0..x1
        BY <1>3, <1>4
    <3>2. Secrets!SecretWhenAsked(x4[c].value, x4[c].stamp)
        BY <3>1 DEF Secrets!IInv
    <3>3. /\ (x4[c].value)' = x4[c].value
          /\ (x4[c].stamp)' = x4[c].stamp
        BY <3>1
    <3> QED BY <2>4, <3>1, <3>2, <3>3 DEF Secrets!SecretWhenAsked
  <2>7. x2' \in [0..(n + 1) -> 0..x1'] /\ Secrets!HookAheadOnlyByCrossing'
      BY <1>4, <2>2 DEF Secrets!IInv, Secrets!HookAheadOnlyByCrossing, Secrets!NoCopy
  <2>8. x5' \in DOMAIN x2' /\ x6' \in BOOLEAN /\ x1' \in 0..MaxCacheTime
      BY <1>2, <1>3, <1>4, <2>2 DEF Secrets!IInv
  <2> QED
      BY <1>4, <2>2, <2>5, <2>6, <2>7, <2>8 DEF Secrets!IInv, Secrets!Calls
\* Everything else leaves the secret as it is.
<1>5. ASSUME UNCHANGED x2, x1' \in 0..MaxCacheTime, x1 <= x1',
             \/ UNCHANGED x3 \/ x3' = Secrets!NoCopy
             \/ /\ x3' \in [value : 0..n, stamp : 0..x1']
                /\ Secrets!SecretWhenAsked(x3'.value, x3'.stamp),
             x4' \in [Secrets!Calls -> [at : {"done", "get", "got", "describe", "compare", "put"},
                                        stamp : 0..x1', value : 0..n]],
             \A c \in Secrets!Calls : x4'[c].at = "got" =>
                \/ x4'[c] = x4[c]
                \/ Secrets!SecretWhenAsked(x4'[c].value, x4'[c].stamp),
             x5' \in 0..n, x6' \in BOOLEAN, Secrets!HookAheadOnlyByCrossing'
      PROVE  Secrets!IInv'
  <2>1. \A v, s : Secrets!SecretWhenAsked(v, s) <=> Secrets!SecretWhenAsked(v, s)'
      BY <1>5 DEF Secrets!SecretWhenAsked, Secrets!Current
  <2>2. x2' \in [0..n -> 0..x1']
      BY <1>1, <1>2, <1>5
  <2>3. x3' = Secrets!NoCopy' \/ /\ x3' \in [value : 0..n, stamp : 0..x1']
                                 /\ Secrets!SecretWhenAsked(x3.value, x3.stamp)'
      BY <1>1, <1>2, <1>3, <1>5, <2>1 DEF Secrets!IInv, Secrets!NoCopy
  <2>4. \A c \in Secrets!Calls : x4'[c].at = "got" =>
            Secrets!SecretWhenAsked(x4[c].value, x4[c].stamp)'
      BY <1>5, <2>1 DEF Secrets!IInv
  <2> QED
      BY <1>5, <2>2, <2>3, <2>4 DEF Secrets!IInv, Secrets!Calls
<1> DEFINE CallsMove ==
        /\ x4' \in [Secrets!Calls -> [at : {"done", "get", "got", "describe", "compare", "put"},
                                      stamp : 0..x1', value : 0..n]]
        /\ \A c \in Secrets!Calls : x4'[c].at = "got" =>
              \/ x4'[c] = x4[c]
              \/ Secrets!SecretWhenAsked(x4'[c].value, x4'[c].stamp)
           CacheMoves ==
        \/ UNCHANGED x3 \/ x3' = Secrets!NoCopy
        \/ /\ x3' \in [value : 0..n, stamp : 0..x1']
           /\ Secrets!SecretWhenAsked(x3'.value, x3'.stamp)
<1>a. ASSUME UNCHANGED <<x1, x2>>, CacheMoves, CallsMove,
             x5' \in 0..n, x6' \in BOOLEAN, Secrets!HookAheadOnlyByCrossing'
      PROVE  Secrets!IInv'
    BY <1>2, <1>5, <1>a
<1>b. ASSUME UNCHANGED <<x1, x2, x3, x5, x6>>, CallsMove PROVE Secrets!IInv'
    BY <1>3, <1>a, <1>b DEF Secrets!IInv, Secrets!HookAheadOnlyByCrossing, Secrets!NoCopy
<1>g. ASSUME NEW c \in Secrets!Calls, UNCHANGED x1,
             NEW s \in {"done", "get", "got", "describe", "compare", "put"},
             NEW t \in 0..x1, NEW v \in 0..n, s = "got" => Secrets!SecretWhenAsked(v, t),
             Secrets!Goto(c, s, t, v)
      PROVE  CallsMove
    BY <1>3, <1>g DEF Secrets!Goto
<1>u. UNCHANGED <<x1, x4>> => CallsMove
    BY <1>3
<1> HIDE DEF CallsMove
<1>6. CASE Secrets!Tick
    BY <1>1, <1>2, <1>3, <1>5, <1>6 DEF Secrets!Tick, Secrets!IInv,
       Secrets!HookAheadOnlyByCrossing, Secrets!NoCopy
<1>7. CASE Secrets!Change
    BY <1>2, <1>3, <1>4, <1>7 DEF Secrets!Change
<1>8. CASE Secrets!Put
    BY <1>2, <1>3, <1>4, <1>8 DEF Secrets!Put, Secrets!Goto, Secrets!Calls
<1>9. CASE Secrets!PutReturns
  <2>1. CallsMove /\ x4["rotate"].value \in 0..n
      BY <1>2, <1>3, <1>g, <1>9 DEF Secrets!PutReturns, Secrets!Calls
  <2> QED
      BY <1>9, <1>a, <2>1 DEF Secrets!PutReturns, Secrets!AfterRotation, Secrets!RunHook,
         Secrets!HookAheadOnlyByCrossing, Secrets!NoCopy, Secrets!IInv
<1>10. CASE Secrets!PutFails
  <2>1. CallsMove
      BY <1>2, <1>3, <1>g, <1>10 DEF Secrets!PutFails, Secrets!Calls
  <2> QED BY <1>10, <1>b, <2>1 DEF Secrets!PutFails
<1>11. CASE Secrets!Clear
    BY <1>3, <1>a, <1>u, <1>11 DEF Secrets!Clear, Secrets!HookAheadOnlyByCrossing,
       Secrets!NoCopy
<1>12. ASSUME NEW c \in Readers \cup Checks,
              \/ Secrets!BeginRead(c) \/ Secrets!ReadAnswered(c) \/ Secrets!ReadLands(c) \/ Secrets!CallFails(c)
              \/ Secrets!BeginCheck(c) \/ Secrets!Described(c) \/ Secrets!Compare(c)
       PROVE  Secrets!IInv'
  <2>1. c \in Secrets!Calls /\ x4[c].value \in 0..n /\ x4[c].stamp \in 0..x1
      BY <1>3 DEF Secrets!Calls
  <2>2. CASE Secrets!BeginRead(c)
    <3>1. CallsMove
        BY <1>2, <1>g, <1>u, <2>1, <2>2 DEF Secrets!BeginRead
    <3> QED BY <1>b, <2>2, <3>1 DEF Secrets!BeginRead
  <2>3. CASE Secrets!ReadAnswered(c)
    <3>1. Secrets!SecretWhenAsked(n, x4[c].stamp)
        BY <1>2 DEF Secrets!SecretWhenAsked
    <3>2. CallsMove
        BY <1>2, <1>g, <2>1, <2>3, <3>1 DEF Secrets!ReadAnswered
    <3> QED BY <1>b, <2>3, <3>2 DEF Secrets!ReadAnswered
  <2>4. CASE Secrets!ReadLands(c)
    <3>1. CallsMove
        BY <1>2, <1>g, <2>1, <2>4 DEF Secrets!ReadLands
    <3>2. Secrets!SecretWhenAsked(x4[c].value, x4[c].stamp)
        BY <2>1, <2>4 DEF Secrets!ReadLands, Secrets!IInv
    <3>3. x3' = [value |-> x4[c].value, stamp |-> x4[c].stamp]
        BY <2>4 DEF Secrets!ReadLands, Secrets!Stamp
    <3>4. CacheMoves
        BY <2>1, <2>4, <3>2, <3>3 DEF Secrets!ReadLands
    <3>5. x5' \in 0..n /\ x6' \in BOOLEAN /\ (x5' = x5 \/ x5' = x4[c].value)
        BY <1>3, <2>1, <2>4 DEF Secrets!ReadLands, Secrets!RunHook
    <3>6. Secrets!HookAheadOnlyByCrossing'
      <4>1. x4[c].value < x5 => x6'
          BY <2>4 DEF Secrets!ReadLands
      <4>2. x3'.value = x4[c].value
          BY <3>3
      <4>3. ~(x4[c].value < x4[c].value)
          BY <2>1
      <4> QED BY <3>5, <4>1, <4>2, <4>3 DEF Secrets!HookAheadOnlyByCrossing
    <3> QED BY <1>a, <2>4, <3>1, <3>4, <3>5, <3>6 DEF Secrets!ReadLands
  <2>5. CASE Secrets!CallFails(c)
    <3>1. CallsMove
        BY <1>2, <1>g, <2>1, <2>5 DEF Secrets!CallFails
    <3> QED BY <1>b, <2>5, <3>1 DEF Secrets!CallFails
  <2>6. CASE Secrets!BeginCheck(c)
    <3>1. CallsMove
        BY <1>2, <1>g, <2>1, <2>6 DEF Secrets!BeginCheck
    <3> QED BY <1>b, <2>6, <3>1 DEF Secrets!BeginCheck
  <2>7. CASE Secrets!Described(c)
    <3>1. CallsMove
        BY <1>2, <1>g, <2>1, <2>7 DEF Secrets!Described
    <3> QED BY <1>b, <2>7, <3>1 DEF Secrets!Described
  <2>8. CASE Secrets!Compare(c)
    <3> DEFINE stale == x3 # Secrets!NoCopy /\ x3.stamp < x2[x4[c].value]
    <3>1. CASE ~stale
      <4>1. Secrets!Goto(c, "done", 0, 0) /\ x5' = x5
          BY <2>8, <3>1 DEF Secrets!Compare
      <4>2. CallsMove
          BY <1>2, <1>g, <2>1, <2>8, <4>1 DEF Secrets!Compare
      <4> QED BY <1>b, <2>8, <4>1, <4>2 DEF Secrets!Compare
    <3>2. CASE stale /\ ~Secrets!Fresh(x3)
      <4>1. Secrets!Goto(c, "get", x1, 0) /\ x5' = x5
          BY <2>8, <3>2 DEF Secrets!Compare
      <4>2. CallsMove
          BY <1>2, <1>g, <2>1, <2>8, <4>1 DEF Secrets!Compare
      <4> QED BY <1>b, <2>8, <4>1, <4>2 DEF Secrets!Compare
    <3>3. CASE stale /\ Secrets!Fresh(x3)
      <4>1. CallsMove /\ x5' = x3.value /\ x3.value \in 0..n
          BY <1>2, <1>3, <1>g, <2>1, <2>8, <3>3 DEF Secrets!Compare, Secrets!RunHook
      <4>2. UNCHANGED <<x1, x2, x3, x6>> /\ x6 \in BOOLEAN
          BY <2>8 DEF Secrets!Compare, Secrets!IInv
      <4>3. Secrets!HookAheadOnlyByCrossing'
          BY <4>1, <4>2 DEF Secrets!HookAheadOnlyByCrossing
      <4> QED BY <1>a, <4>1, <4>2, <4>3
    <3> QED BY <3>1, <3>2, <3>3
  <2> QED
      BY <1>12, <2>2, <2>3, <2>4, <2>5, <2>6, <2>7, <2>8
<1>13. CASE UNCHANGED Secrets!vars
    BY <1>b, <1>u, <1>13 DEF Secrets!vars
<1> QED
    BY <1>6, <1>7, <1>8, <1>9, <1>10, <1>11, <1>12, <1>13 DEF Secrets!Next

LEMMA SecretsHold ==
    Secrets!SecretAssumption /\ Secrets!IInv => Secrets!ServedWithinTtl /\ Secrets!HookAheadOnlyByCrossing
<1> SUFFICES ASSUME Secrets!SecretAssumption, Secrets!IInv, Secrets!Fresh(x3), x3.value < Secrets!Current
             PROVE  x1 - x2[x3.value + 1] < Ttl
    BY DEF Secrets!ServedWithinTtl, Secrets!IInv
<1>1. PICK n \in Nat : x2 \in [0..n -> 0..x1]
    BY DEF Secrets!IInv
<1>2. Secrets!Current = n /\ x3.value \in 0..n /\ x3.stamp \in 0..x1
    BY <1>1, LastOfSegment DEF Secrets!IInv, Secrets!Current, Secrets!Fresh
<1>3. x3.stamp <= x2[x3.value + 1] /\ x2[x3.value + 1] \in 0..x1
    BY <1>1, <1>2 DEF Secrets!IInv, Secrets!Fresh, Secrets!SecretWhenAsked
<1> QED
    BY <1>1, <1>2, <1>3 DEF Secrets!Fresh, Secrets!SecretAssumption, Secrets!IInv

LEMMA SecretsTyped == Secrets!SecretAssumption /\ Secrets!IInv => Secrets!TypeOK
<1> SUFFICES ASSUME Secrets!SecretAssumption, Secrets!IInv PROVE Secrets!TypeOK
    OBVIOUS
<1>1. PICK n \in Nat : x2 \in [0..n -> 0..x1]
    BY DEF Secrets!IInv
<1>2. DOMAIN x2 = 0..n /\ Secrets!Current = n
    BY <1>1, LastOfSegment DEF Secrets!Current
<1>3. \A c \in Secrets!Calls : x4[c].stamp \in 0..x1 /\ x4[c].value \in DOMAIN x2
    BY DEF Secrets!IInv
<1> QED
    BY <1>2, <1>3 DEF Secrets!IInv, Secrets!TypeOK

-----------------------------------------------------------------------------
(***************************************************************************)
(* AuthTokens: x1 live, x2 expired, x3 issued, x4 heirs, x5 cookie,        *)
(* x6 tab, x7 excused.                                                     *)
(***************************************************************************)
Tokens == INSTANCE AuthTokens WITH Tabs <- Procs, live <- x1, expired <- x2, issued <- x3,
    heirs <- x4, cookie <- x5, tab <- x6, excused <- x7

LEMMA TokensBegin == Tokens!AuthAssumption /\ Tokens!Init => Tokens!IInv
BY DEF Tokens!AuthAssumption, Tokens!Init, Tokens!IInv, Tokens!TypeOK,
   Tokens!TakenWereNotExchanged, Tokens!GoodTokenUnderWay,
       Tokens!TokensRotate, Tokens!Idle, Tokens!NoToken

LEMMA TokensStep ==
    Tokens!AuthAssumption /\ Tokens!IInv /\ (Tokens!Next \/ UNCHANGED Tokens!vars) => Tokens!IInv'
<1> SUFFICES ASSUME Tokens!AuthAssumption, Tokens!IInv, (Tokens!Next \/ UNCHANGED Tokens!vars)
             PROVE  Tokens!IInv'
    OBVIOUS
<1> USE DEF Tokens!AuthAssumption
<1>1. /\ Tokens!TypeOK /\ Tokens!TakenWereNotExchanged /\ Tokens!GoodTokenUnderWay /\ Tokens!TokensRotate
      /\ x3 \in 0..MaxTokens /\ MaxTokens \in Nat
    BY DEF Tokens!IInv, Tokens!TypeOK
\* What keeps the tokens' part.
<1>2. ASSUME UNCHANGED <<x3, x4>>, x1' \subseteq x1 PROVE Tokens!TakenWereNotExchanged'
    BY <1>1, <1>2 DEF Tokens!TakenWereNotExchanged, Tokens!TypeOK
<1>3. ASSUME Tokens!TypeOK', Tokens!TakenWereNotExchanged', Tokens!GoodTokenUnderWay',
             (\A b \in Procs : x6'[b].at = "idle") => x7' \/ x5' \in x1' \ x2'
      PROVE  Tokens!IInv'
  <2>1. \A t \in 1..MaxTokens : x4'[t] <= 1
      BY <1>3 DEF Tokens!TakenWereNotExchanged
  <2> QED
      BY <1>3, <2>1 DEF Tokens!IInv, Tokens!TokensRotate
<1>4. ASSUME NEW b \in Procs, NEW path \in {"login", "refresh", "logout"}, Tokens!Send(b, path)
      PROVE  Tokens!IInv'
  <2>1. /\ x6[b].at = "idle" /\ UNCHANGED <<x1, x2, x3, x4, x5>>
        /\ x6' = [x6 EXCEPT ![b] = [at |-> path, token |-> x5, login |-> path = "login"]]
        /\ x7' = (x7 \/ path = "logout" \/ \E c \in Procs : x6[c].at # "idle")
      BY <1>4 DEF Tokens!Send
  <2>2. x6'[b].at = path /\ x6'[b].token = x5 /\ \A c \in Procs \ {b} : x6'[c] = x6[c]
      BY <1>1, <2>1 DEF Tokens!TypeOK
  <2>3. Tokens!TypeOK'
    <3>1. x6' \in [Procs -> [at : {"idle", "login", "refresh", "logout", "answer"},
                             token : 0..x3, login : BOOLEAN]]
        BY <1>1, <2>1 DEF Tokens!TypeOK
    <3>2. x7' \in BOOLEAN
        BY <1>1, <2>1 DEF Tokens!TypeOK
    <3> QED BY <1>1, <2>1, <3>1, <3>2 DEF Tokens!TypeOK
  <2>4. ASSUME ~x7' PROVE /\ \A c \in Procs : x6[c].at = "idle"
                          /\ path # "logout" /\ x5 \in x1 \ x2
      BY <1>1, <2>1, <2>4 DEF Tokens!TokensRotate
  <2>5. Tokens!GoodTokenUnderWay'
      BY <2>1, <2>2, <2>4 DEF Tokens!GoodTokenUnderWay
  <2> QED
      BY <1>2, <1>3, <2>1, <2>2, <2>3, <2>5
\* A request that the server answers.
<1>5. ASSUME NEW b \in Procs, x6[b].at \in {"login", "refresh", "logout"},
             NEW token \in 0..x3', Tokens!Answer(b, token),
             x3 <= x3', x3' \in 0..MaxTokens,
             x1' \cup x2 \subseteq 1..x3', UNCHANGED <<x2, x5, x7>>,
             x4' \in [1..MaxTokens -> Nat], Tokens!TakenWereNotExchanged',
             x7 \/ token \in x1' \ x2
      PROVE  Tokens!IInv'
  <2>1. /\ x6'[b].at = "answer" /\ x6'[b].token = token
        /\ \A c \in Procs \ {b} : x6'[c] = x6[c]
      BY <1>1, <1>5 DEF Tokens!Answer, Tokens!TypeOK
  <2>2. Tokens!TypeOK'
    <3>1. \A c \in Procs : x6'[c] \in [at : {"idle", "login", "refresh", "logout", "answer"},
                                       token : 0..x3', login : BOOLEAN]
      <4> SUFFICES ASSUME NEW c \in Procs
                   PROVE  x6'[c] \in [at : {"idle", "login", "refresh", "logout", "answer"},
                                      token : 0..x3', login : BOOLEAN]
          OBVIOUS
      <4>1. x6[c] \in [at : {"idle", "login", "refresh", "logout", "answer"},
                       token : 0..x3', login : BOOLEAN]
          BY <1>1, <1>5 DEF Tokens!TypeOK
      <4> QED BY <1>1, <1>5, <4>1 DEF Tokens!Answer, Tokens!TypeOK
    <3>2. x6' = [c \in Procs |-> x6'[c]]
        BY <1>1, <1>5 DEF Tokens!Answer, Tokens!TypeOK
    <3>3. x6' \in [Procs -> [at : {"idle", "login", "refresh", "logout", "answer"},
                             token : 0..x3', login : BOOLEAN]]
        BY <3>1, <3>2
    <3>4. x5' \in 0..x3' /\ x7' \in BOOLEAN /\ x3' \in 0..MaxTokens
        BY <1>1, <1>5 DEF Tokens!TypeOK
    <3> QED BY <1>5, <3>3, <3>4 DEF Tokens!TypeOK
  <2>3. Tokens!GoodTokenUnderWay'
    <3> SUFFICES ASSUME ~x7'
                 PROVE  /\ \A c, d \in Procs : x6'[c].at # "idle" /\ x6'[d].at # "idle" => c = d
                        /\ \A c \in Procs :
                              /\ x6'[c].at # "logout"
                              /\ x6'[c].at \in {"refresh", "answer"} =>
                                    x6'[c].token \in x1' \ x2'
        BY DEF Tokens!GoodTokenUnderWay
    <3>1. ~x7 /\ token \in x1' \ x2'
        BY <1>5
    <3>2. \A c \in Procs \ {b} : x6'[c].at = "idle"
        BY <1>1, <1>5, <2>1, <3>1 DEF Tokens!GoodTokenUnderWay
    <3> QED BY <2>1, <3>1, <3>2
  <2> QED
      BY <1>3, <1>5, <2>1, <2>2, <2>3
\* Tabs fall idle.
<1>6. ASSUME x6' \in [Procs -> [at : {"idle", "login", "refresh", "logout", "answer"},
                                token : 0..x3, login : BOOLEAN]],
             \A c \in Procs : x6'[c] = x6[c] \/ x6'[c].at = "idle",
             UNCHANGED <<x3, x4>>, x1' \subseteq x1,
             x2' \subseteq 1..x3, x5' \in 0..x3, x7' \in BOOLEAN,
             ~x7' => \/ ~x7 /\ x1 \ x2 \subseteq x1' \ x2'
                     \/ \A c \in Procs : x6'[c].at = "idle",
             (\A c \in Procs : x6'[c].at = "idle") => x7' \/ x5' \in x1' \ x2'
      PROVE  Tokens!IInv'
  <2>1. Tokens!TypeOK'
      BY <1>1, <1>6 DEF Tokens!TypeOK
  <2>2. Tokens!GoodTokenUnderWay'
      BY <1>1, <1>6 DEF Tokens!GoodTokenUnderWay
  <2> QED
      BY <1>2, <1>3, <1>6, <2>1, <2>2
<1>7. ASSUME NEW b \in Procs, Tokens!Login(b) PROVE Tokens!IInv'
  <2>1. /\ x6[b].at = "login" /\ x3 < MaxTokens /\ x3' = x3 + 1
        /\ x1' = x1 \cup {x3'} /\ Tokens!Answer(b, x3')
        /\ UNCHANGED <<x2, x4, x5, x7>>
      BY <1>7 DEF Tokens!Login, Tokens!Issue
  <2>2. Tokens!TakenWereNotExchanged'
      BY <1>1, <2>1 DEF Tokens!TakenWereNotExchanged, Tokens!TypeOK
  <2>3. x3' \notin x2 /\ x1' \cup x2 \subseteq 1..x3'
      BY <1>1, <2>1 DEF Tokens!TypeOK
  <2>4. /\ x3' \in 0..x3' /\ x3 <= x3' /\ x3' \in 0..MaxTokens
        /\ x4' \in [1..MaxTokens -> Nat]
      BY <1>1, <2>1 DEF Tokens!TypeOK
  <2> QED
      BY <1>5, <2>1, <2>2, <2>3, <2>4
<1>8. ASSUME NEW b \in Procs, Tokens!Refresh(b) PROVE Tokens!IInv'
  <2>1. PICK t \in x1 \ x2 :
           /\ x6[b].at = "refresh" /\ x3 < MaxTokens /\ x3' = x3 + 1
           /\ x1' = (x1 \ {t}) \cup {x3'} /\ x4' = [x4 EXCEPT ![t] = @ + 1]
           /\ Tokens!Answer(b, x3') /\ UNCHANGED <<x2, x5, x7>>
      BY <1>8 DEF Tokens!Refresh, Tokens!Issue, Tokens!Rotated
  <2>2. t \in 1..MaxTokens /\ x4[t] = 0 /\ t # x3'
      BY <1>1, <2>1 DEF Tokens!TakenWereNotExchanged, Tokens!TypeOK
  <2>3. /\ x4' \in [1..MaxTokens -> 0..1]
        /\ \A s \in 1..MaxTokens \ {t} : x4'[s] = x4[s]
      BY <1>1, <2>1, <2>2 DEF Tokens!TakenWereNotExchanged
  <2>4. Tokens!TakenWereNotExchanged'
      BY <1>1, <2>1, <2>2, <2>3 DEF Tokens!TakenWereNotExchanged, Tokens!TypeOK
  <2>5. x3' \notin x2 /\ x1' \cup x2 \subseteq 1..x3'
      BY <1>1, <2>1 DEF Tokens!TypeOK
  <2>6. /\ x3' \in 0..x3' /\ x3 <= x3' /\ x3' \in 0..MaxTokens
        /\ x4' \in [1..MaxTokens -> Nat]
      BY <1>1, <2>1, <2>3 DEF Tokens!TypeOK
  <2> QED
      BY <1>5, <2>1, <2>4, <2>5, <2>6
<1>9. ASSUME NEW b \in Procs, Tokens!RefreshRefused(b) \/ Tokens!Logout(b) PROVE Tokens!IInv'
  <2>1. /\ x6[b].at \in {"refresh", "logout"} /\ x1' = x1 \ {x6[b].token}
        /\ Tokens!Answer(b, Tokens!NoToken) /\ UNCHANGED <<x2, x3, x4, x5, x7>>
        /\ x6[b].at = "refresh" => x6[b].token \notin x1 \ x2
      BY <1>9 DEF Tokens!RefreshRefused, Tokens!Logout
  <2>2. x7
      BY <1>1, <2>1 DEF Tokens!GoodTokenUnderWay
  <2>3. Tokens!TakenWereNotExchanged'
      BY <1>2, <2>1
  <2>4. /\ Tokens!NoToken \in 0..x3' /\ x3 <= x3' /\ x3' \in 0..MaxTokens
        /\ x1' \cup x2 \subseteq 1..x3' /\ x4' \in [1..MaxTokens -> Nat]
      BY <1>1, <2>1 DEF Tokens!TypeOK, Tokens!NoToken
  <2> QED
      BY <1>5, <2>1, <2>2, <2>3, <2>4
<1>10. ASSUME NEW b \in Procs, Tokens!RefreshMissing(b) PROVE Tokens!IInv'
  <2>1. /\ x6[b].at = "refresh" /\ x6[b].token = 0 /\ x6' = [x6 EXCEPT ![b] = Tokens!Idle]
        /\ UNCHANGED <<x1, x2, x3, x4, x5, x7>>
      BY <1>10 DEF Tokens!RefreshMissing, Tokens!NoToken
  <2>2. x7
      BY <1>1, <2>1 DEF Tokens!GoodTokenUnderWay, Tokens!TypeOK
  <2>3. x6' \in [Procs -> [at : {"idle", "login", "refresh", "logout", "answer"},
                           token : 0..x3, login : BOOLEAN]]
      BY <1>1, <2>1 DEF Tokens!TypeOK, Tokens!Idle, Tokens!NoToken
  <2>4. \A c \in Procs : x6'[c] = x6[c] \/ x6'[c].at = "idle"
      BY <1>1, <2>1 DEF Tokens!TypeOK, Tokens!Idle
  <2> QED
      BY <1>1, <1>6, <2>1, <2>2, <2>3, <2>4 DEF Tokens!TypeOK
<1>11. ASSUME NEW b \in Procs, Tokens!AnswerLands(b) PROVE Tokens!IInv'
  <2>1. /\ x6[b].at = "answer" /\ x5' = x6[b].token /\ x6' = [x6 EXCEPT ![b] = Tokens!Idle]
        /\ x7' = (x7 /\ ~(x6[b].login /\ x5' \in x1 \ x2
                          /\ \A c \in Procs \ {b} : x6[c].at = "idle"))
        /\ UNCHANGED <<x1, x2, x3, x4>>
      BY <1>11 DEF Tokens!AnswerLands
  <2>2. x6' \in [Procs -> [at : {"idle", "login", "refresh", "logout", "answer"},
                           token : 0..x3, login : BOOLEAN]]
      BY <1>1, <2>1 DEF Tokens!TypeOK, Tokens!Idle, Tokens!NoToken
  <2>3. x6'[b].at = "idle" /\ \A c \in Procs \ {b} : x6'[c] = x6[c]
      BY <1>1, <2>1 DEF Tokens!TypeOK, Tokens!Idle
  <2>4. x5' \in 0..x3 /\ x7' \in BOOLEAN
      BY <1>1, <2>1 DEF Tokens!TypeOK
  <2>5. ~x7' => x5' \in x1' \ x2'
      BY <1>1, <2>1 DEF Tokens!GoodTokenUnderWay, Tokens!TypeOK
  <2>6. ~x7' => \A c \in Procs : x6'[c].at = "idle"
      BY <1>1, <2>1, <2>3 DEF Tokens!GoodTokenUnderWay, Tokens!TypeOK
  <2> QED
      BY <1>1, <1>6, <2>1, <2>2, <2>3, <2>4, <2>5, <2>6 DEF Tokens!TypeOK
<1>12. ASSUME NEW b \in Procs, Tokens!AnswerLost(b) PROVE Tokens!IInv'
  <2>1. /\ x6' = [x6 EXCEPT ![b] = Tokens!Idle] /\ x7'
        /\ UNCHANGED <<x1, x2, x3, x4, x5>>
      BY <1>12 DEF Tokens!AnswerLost
  <2>2. x6' \in [Procs -> [at : {"idle", "login", "refresh", "logout", "answer"},
                           token : 0..x3, login : BOOLEAN]]
      BY <1>1, <2>1 DEF Tokens!TypeOK, Tokens!Idle, Tokens!NoToken
  <2>3. \A c \in Procs : x6'[c] = x6[c] \/ x6'[c].at = "idle"
      BY <1>1, <2>1 DEF Tokens!TypeOK, Tokens!Idle
  <2>4. x7' = TRUE
      BY <1>12 DEF Tokens!AnswerLost
  <2> QED
      BY <1>1, <1>6, <2>1, <2>2, <2>3, <2>4 DEF Tokens!TypeOK
<1>13. ASSUME NEW t \in 1..MaxTokens, Tokens!Expire(t) PROVE Tokens!IInv'
  <2>1. /\ t \in x1 /\ x2' = x2 \cup {t} /\ x7' = TRUE
        /\ UNCHANGED <<x1, x3, x4, x5, x6>>
      BY <1>13 DEF Tokens!Expire
  <2>2. x2' \subseteq 1..x3
      BY <1>1, <2>1 DEF Tokens!TypeOK
  <2> QED
      BY <1>1, <1>6, <2>1, <2>2 DEF Tokens!TypeOK
<1>14. CASE Tokens!CookieEnds
  <2>1. /\ x5 \in x2 /\ x5' = 0
        /\ UNCHANGED <<x1, x2, x3, x4, x6, x7>>
      BY <1>14 DEF Tokens!CookieEnds, Tokens!NoToken
  <2>2. (\A c \in Procs : x6'[c].at = "idle") => x7'
      BY <1>1, <2>1 DEF Tokens!TokensRotate
  <2> QED
      BY <1>1, <1>6, <2>1, <2>2 DEF Tokens!TypeOK
<1>15. CASE Tokens!Restart
  <2>1. /\ x1' = {} /\ x7' = TRUE /\ x6' = [b \in Procs |-> Tokens!Idle]
        /\ UNCHANGED <<x2, x3, x4, x5>>
      BY <1>15 DEF Tokens!Restart
  <2>2. x6' \in [Procs -> [at : {"idle", "login", "refresh", "logout", "answer"},
                           token : 0..x3, login : BOOLEAN]]
      BY <1>1, <2>1 DEF Tokens!Idle, Tokens!NoToken
  <2>3. \A c \in Procs : x6'[c].at = "idle"
      BY <2>1 DEF Tokens!Idle
  <2> QED
      BY <1>1, <1>6, <2>1, <2>2, <2>3 DEF Tokens!TypeOK
<1>16. CASE UNCHANGED Tokens!vars
  <2>1. UNCHANGED <<x1, x2, x3, x4, x5, x6, x7>>
      BY <1>16 DEF Tokens!vars
  <2> QED
      BY <1>1, <1>6, <2>1 DEF Tokens!TypeOK, Tokens!TokensRotate
<1> QED
    BY <1>4, <1>7, <1>8, <1>9, <1>10, <1>11, <1>12, <1>13, <1>14, <1>15, <1>16 DEF Tokens!Next

-----------------------------------------------------------------------------
(***************************************************************************)
(* WalletSession: x1 wallet, x2 page, x3 stored, x4 connecting, x5 restoring, *)
(* x6 switches, x7 overtaken.                                              *)
(***************************************************************************)
Wallet == INSTANCE WalletSession WITH Runs <- Procs, wallet <- x1, page <- x2,
    stored <- x3, connecting <- x4, restoring <- x5, switches <- x6, overtaken <- x7

PageType == [connected : BOOLEAN, account : Wallet!Named, expected : BOOLEAN, warned : BOOLEAN]
SessionType == [account : Wallet!Named, expired : BOOLEAN]
RestoringType == [busy : BOOLEAN, account : Wallet!Named, for : Wallet!Named]

LEMMA WalletBegins == Wallet!WalletAssumption /\ Wallet!Init => Wallet!IInv
<1> SUFFICES ASSUME Wallet!WalletAssumption, Wallet!Init PROVE Wallet!IInv
  OBVIOUS
<1>1. Wallet!TypeOK
  <2>1. /\ x2 \in PageType /\ x3 \in SessionType /\ x5 \in [Procs -> RestoringType]
        /\ x4 \in [busy : BOOLEAN, account : Wallet!Named]
    BY DEF Wallet!Init, Wallet!Nobody, Wallet!NoSession, Wallet!NotAsking,
       Wallet!NotRestoring, Wallet!Named, PageType, SessionType,
           RestoringType
  <2>2. x6 \in 0..MaxSwitches
    BY DEF Wallet!Init, Wallet!WalletAssumption
  <2>3. x1 \in [account : Accounts, expected : BOOLEAN] /\ x7 \in BOOLEAN
    BY DEF Wallet!Init
  <2> QED
    BY <2>1, <2>2, <2>3 DEF Wallet!TypeOK, PageType, SessionType, RestoringType
<1>2. ~x2.connected
  BY DEF Wallet!Init, Wallet!Nobody
<1> QED
  BY <1>1, <1>2 DEF Wallet!IInv, Wallet!ShownIsStored, Wallet!WrongNetworkIsWarned

LEMMA WalletStep ==
    Wallet!WalletAssumption /\ Wallet!IInv /\ (Wallet!Next \/ UNCHANGED Wallet!vars) => Wallet!IInv'
<1> SUFFICES ASSUME Wallet!WalletAssumption, Wallet!IInv, (Wallet!Next \/ UNCHANGED Wallet!vars)
             PROVE  Wallet!IInv'
  OBVIOUS
<1>1. /\ x1 \in [account : Accounts, expected : BOOLEAN]
      /\ x2 \in PageType /\ x3 \in SessionType
      /\ x4 \in [busy : BOOLEAN, account : Wallet!Named] /\ x5 \in [Procs -> RestoringType]
      /\ x6 \in 0..MaxSwitches /\ MaxSwitches \in Nat
      /\ x7 \in BOOLEAN
  BY DEF Wallet!IInv, Wallet!TypeOK, PageType, SessionType, RestoringType,
     Wallet!WalletAssumption
<1>2. /\ x2.connected /\ ~x7 => x3.account = x2.account
      /\ x2.connected /\ ~x2.expected => x2.warned
  BY DEF Wallet!IInv, Wallet!ShownIsStored, Wallet!WrongNetworkIsWarned
<1>3. ASSUME x1' \in [account : Accounts, expected : BOOLEAN],
             x2' \in PageType, x3' \in SessionType,
             x4' \in [busy : BOOLEAN, account : Wallet!Named], x5' \in [Procs -> RestoringType],
             x6' \in 0..MaxSwitches, x7' \in BOOLEAN,
             x2'.connected /\ ~x7' => x3'.account = x2'.account,
             x2'.connected /\ ~x2'.expected => x2'.warned
      PROVE  Wallet!IInv'
  BY <1>3 DEF Wallet!IInv, Wallet!TypeOK, PageType, SessionType, RestoringType,
     Wallet!ShownIsStored,
              Wallet!WrongNetworkIsWarned
<1>4. /\ Wallet!Nobody \in PageType /\ ~Wallet!Nobody.connected
      /\ Wallet!NoSession \in SessionType
      /\ Wallet!NotAsking \in [busy : BOOLEAN, account : Wallet!Named] /\ Wallet!NotRestoring \in RestoringType
  BY DEF Wallet!Nobody, Wallet!NoSession, Wallet!NotAsking, Wallet!NotRestoring, PageType,
     SessionType, RestoringType, Wallet!Named
<1>5. /\ x1.account \in Wallet!Named /\ x1.expected \in BOOLEAN
      /\ x4.account \in Wallet!Named
      /\ \A r \in Procs : x5[r].account \in Wallet!Named /\ x5[r].for \in Wallet!Named
      /\ x2.connected \in BOOLEAN /\ x2.warned \in BOOLEAN /\ x3.account \in Wallet!Named
  BY <1>1 DEF PageType, SessionType, RestoringType, Wallet!Named
<1>6. ASSUME NEW a \in Accounts, NEW e \in BOOLEAN, Wallet!Switch(a, e) PROVE Wallet!IInv'
  <2>1. /\ x1' = [account |-> a, expected |-> e]
        /\ x6 < MaxSwitches /\ x6' = x6 + 1
        /\ UNCHANGED <<x2, x3, x4, x5, x7>>
    BY <1>6 DEF Wallet!Switch
  <2>2. x1' \in [account : Accounts, expected : BOOLEAN] /\ x6' \in 0..MaxSwitches
    BY <1>1, <2>1
  <2> QED
    BY <1>1, <1>2, <1>3, <2>1, <2>2
<1>7. CASE Wallet!Connect
  <2>1. /\ x4' = [Wallet!NotAsking EXCEPT !.busy = TRUE] /\ ~x2.connected
        /\ x2' = [x2 EXCEPT !.warned = FALSE]
        /\ UNCHANGED <<x1, x3, x5, x6, x7>>
    BY <1>7 DEF Wallet!Connect
  <2>2. x2' \in PageType /\ ~x2'.connected
    BY <1>1, <2>1 DEF PageType
  <2>3. x4' \in [busy : BOOLEAN, account : Wallet!Named]
    BY <1>4, <2>1
  <2> QED
    BY <1>1, <1>3, <2>1, <2>2, <2>3
<1>18. Wallet!Restoration \in RestoringType
  BY <1>5 DEF Wallet!Restoration, RestoringType, Wallet!Named
<1>8. ASSUME NEW r \in Procs, Wallet!Restore(r) PROVE Wallet!IInv'
  <2>1. UNCHANGED <<x1, x2, x4, x6>>
    BY <1>8 DEF Wallet!Restore
  <2>2. CASE x5' = [x5 EXCEPT ![r] = Wallet!Restoration] /\ UNCHANGED <<x3, x7>>
    <3>1. x5' \in [Procs -> RestoringType]
      BY <1>1, <1>18, <2>2
    <3> QED
      BY <1>1, <1>2, <1>3, <2>1, <2>2, <3>1
  <2>3. CASE x3' = Wallet!NoSession /\ x7' = x2.connected /\ UNCHANGED x5
    BY <1>1, <1>2, <1>3, <1>4, <1>5, <2>1, <2>3
  <2> QED
    BY <1>8, <2>2, <2>3 DEF Wallet!Restore
<1>9. CASE Wallet!ReadAddress
  <2>1. /\ \/ x4' = [x4 EXCEPT !.account = x1.account] /\ UNCHANGED x5
           \/ /\ \E r \in Procs : x5' = [x5 EXCEPT ![r].account = x1.account]
              /\ UNCHANGED x4
        /\ UNCHANGED <<x1, x2, x3, x6, x7>>
    BY <1>9 DEF Wallet!ReadAddress
  <2>2. x4' \in [busy : BOOLEAN, account : Wallet!Named] /\ x5' \in [Procs -> RestoringType]
    BY <1>1, <1>5, <2>1 DEF RestoringType
  <2> QED
    BY <1>1, <1>2, <1>3, <2>1, <2>2
<1>10. ASSUME NEW r \in Procs, Wallet!FinishRestore(r) PROVE Wallet!IInv'
  <2>1. /\ UNCHANGED <<x1, x4, x6>> /\ x5' \in [Procs -> RestoringType]
    BY <1>1, <1>4, <1>10 DEF Wallet!FinishRestore
  <2>2. CASE x5[r].account = x5[r].for
    <3> DEFINE warned == x2.warned \/ ~x1.expected
    <3>1. /\ x2' = [connected |-> TRUE, account |-> x5[r].account,
                    expected |-> x1.expected, warned |-> warned]
          /\ x7' = (x3.account # x5[r].for)
          /\ UNCHANGED x3
      BY <1>10, <2>2 DEF Wallet!FinishRestore, Wallet!SameAccount
    <3>2. warned \in BOOLEAN /\ (~x1.expected => warned)
      OBVIOUS
    <3> HIDE DEF warned
    <3>3. /\ x2' \in PageType /\ x2'.account = x5[r].account
          /\ x2'.expected = x1.expected /\ x2'.warned = warned
      BY <1>5, <3>1, <3>2 DEF PageType
    <3>4. x7' \in BOOLEAN /\ (~x7' => x3.account = x5[r].for)
      BY <3>1
    <3> QED
      BY <1>1, <1>3, <1>4, <2>1, <2>2, <3>1, <3>2, <3>3, <3>4
  <2>3. CASE x5[r].account # x5[r].for
    <3>1. /\ x3' = Wallet!NoSession /\ x7' = x2.connected
          /\ UNCHANGED x2
      BY <1>10, <2>3 DEF Wallet!FinishRestore, Wallet!SameAccount
    <3> QED
      BY <1>1, <1>2, <1>3, <1>4, <1>5, <2>1, <3>1
  <2> QED
    BY <2>2, <2>3
<1>11. CASE Wallet!FinishConnect
  <2>1. /\ x3' = [account |-> x4.account, expired |-> FALSE]
        /\ x2' = Wallet!ShownConnected(x4.account, x1.expected)
        /\ x7' = FALSE
        /\ x4' = Wallet!NotAsking /\ UNCHANGED <<x1, x5, x6>>
    BY <1>11 DEF Wallet!FinishConnect
  <2>2. x3' \in SessionType /\ x3'.account = x4.account
    BY <1>5, <2>1 DEF SessionType
  <2>3. /\ x2' \in PageType
        /\ x2'.connected => x2'.account = x4.account /\ x2'.expected
    <3>1. CASE x1.expected
      BY <1>5, <2>1, <3>1 DEF Wallet!ShownConnected, PageType
    <3>2. CASE ~x1.expected
      BY <2>1, <3>2 DEF Wallet!ShownConnected, Wallet!Nobody, PageType, Wallet!Named
    <3> QED
      BY <3>1, <3>2
  <2> QED
    BY <1>1, <1>3, <1>4, <2>1, <2>2, <2>3
<1>12. CASE Wallet!ConnectFails
  <2>1. /\ x4' = Wallet!NotAsking /\ x2' = [x2 EXCEPT !.connected = FALSE]
        /\ UNCHANGED <<x1, x3, x5, x6, x7>>
    BY <1>12 DEF Wallet!ConnectFails
  <2>2. x2' \in PageType /\ ~x2'.connected
    BY <1>1, <2>1 DEF PageType
  <2> QED
    BY <1>1, <1>3, <1>4, <2>1, <2>2
<1>13. ASSUME NEW r \in Procs, Wallet!RestoreFails(r) PROVE Wallet!IInv'
  <2>1. /\ x5' \in [Procs -> RestoringType] /\ x3' = Wallet!NoSession
        /\ x7' = x2.connected /\ UNCHANGED <<x1, x2, x4, x6>>
    BY <1>1, <1>4, <1>13 DEF Wallet!RestoreFails
  <2> QED
    BY <1>1, <1>2, <1>3, <1>4, <1>5, <2>1
<1>14. CASE Wallet!Disconnect
  <2>1. /\ x3' = Wallet!NoSession /\ x7' = FALSE
        /\ x2' = [x2 EXCEPT !.connected = FALSE, !.account = Wallet!NoAccount, !.warned = FALSE]
        /\ UNCHANGED <<x1, x4, x5, x6>>
    BY <1>14 DEF Wallet!Disconnect
  <2>2. x2' \in PageType /\ ~x2'.connected
    BY <1>1, <2>1 DEF PageType, Wallet!Named
  <2> QED
    BY <1>1, <1>3, <1>4, <2>1, <2>2
<1>15. ASSUME NEW r \in Procs, Wallet!Reload(r) PROVE Wallet!IInv'
  <2>1. /\ x2' = Wallet!Nobody /\ x7' = FALSE
        /\ x4' = Wallet!NotAsking
        /\ \/ x3' = Wallet!NoSession
           \/ UNCHANGED x3
        /\ UNCHANGED <<x1, x6>>
    BY <1>15 DEF Wallet!Reload
  <2>3. x5' \in [Procs -> RestoringType]
    BY <1>4, <1>15, <1>18 DEF Wallet!Reload
  <2>2. x3' \in SessionType
    BY <1>1, <1>4, <2>1
  <2> QED
    BY <1>1, <1>3, <1>4, <2>1, <2>2, <2>3
<1>16. CASE Wallet!SessionExpires
  <2>1. /\ x3' = [x3 EXCEPT !.expired = TRUE]
        /\ UNCHANGED <<x1, x2, x4, x5, x6, x7>>
    BY <1>16 DEF Wallet!SessionExpires
  <2>2. x3' \in SessionType /\ x3'.account = x3.account
    BY <1>1, <2>1 DEF SessionType
  <2> QED
    BY <1>1, <1>2, <1>3, <2>1, <2>2
<1>19. ASSUME NEW session \in SessionType, Wallet!OtherTab(session) PROVE Wallet!IInv'
  <2>1. /\ x3' = session /\ x7' = x2.connected
        /\ x6 < MaxSwitches /\ x6' = x6 + 1
        /\ UNCHANGED <<x1, x2, x4, x5>>
    BY <1>19 DEF Wallet!OtherTab
  <2>2. x6' \in 0..MaxSwitches
    BY <1>1, <2>1
  <2> QED
    BY <1>1, <1>2, <1>3, <1>5, <2>1, <2>2
<1>20. ASSUME NEW a \in Accounts, Wallet!OtherTab([account |-> a, expired |-> FALSE])
       PROVE  Wallet!IInv'
  <2>1. [account |-> a, expired |-> FALSE] \in SessionType
    BY DEF SessionType, Wallet!Named
  <2> QED
    BY <1>19, <1>20, <2>1
<1>21. CASE Wallet!OtherTab(Wallet!NoSession)
  BY <1>4, <1>19, <1>21
<1>17. CASE UNCHANGED Wallet!vars
  BY <1>1, <1>2, <1>3, <1>17 DEF Wallet!vars
<1> QED
  BY <1>6, <1>7, <1>8, <1>9, <1>10, <1>11, <1>12, <1>13, <1>14, <1>15, <1>16,
     <1>17, <1>20, <1>21 DEF Wallet!Next

-----------------------------------------------------------------------------
(***************************************************************************)
(* AddressBook: x1 stored, x2 list, x3 editing, x4 wanted, x5 excused, x6 edits. *)
(***************************************************************************)
Book == INSTANCE AddressBook WITH Tabs <- Procs, MaxEdits <- MaxBookEdits, stored <- x1,
    list <- x2, editing <- x3, wanted <- x4, excused <- x5, edits <- x6

LEMMA PutStaysABook ==
    ASSUME NEW book \in Book!Books, NEW i \in 1..MaxBookEdits, NEW n \in 1..MaxBookEdits
    PROVE  Book!Put(book, i, n) \in Book!Books
<1>1. PICK ids \in SUBSET (1..MaxBookEdits) : book \in [ids -> 1..MaxBookEdits]
  BY DEF Book!Books
<1>2. Book!Put(book, i, n) \in [ids \cup {i} -> 1..MaxBookEdits]
  BY <1>1 DEF Book!Put
<1>3. ids \cup {i} \in SUBSET (1..MaxBookEdits)
  BY <1>1
<1> QED
  BY <1>2, <1>3 DEF Book!Books

LEMMA OmitStaysABook ==
    ASSUME NEW book \in Book!Books, NEW i
    PROVE  Book!Omit(book, i) \in Book!Books
<1>1. PICK ids \in SUBSET (1..MaxBookEdits) : book \in [ids -> 1..MaxBookEdits]
  BY DEF Book!Books
<1>2. Book!Omit(book, i) \in [ids \ {i} -> 1..MaxBookEdits]
  BY <1>1 DEF Book!Omit, Book!Restrict
<1>3. ids \ {i} \in SUBSET (1..MaxBookEdits)
  BY <1>1
<1> QED
  BY <1>2, <1>3 DEF Book!Books

\* What saving leaves, if the storage is wanted as the tab now has it.
LEMMA SaveKeepsWhole ==
    ASSUME Book!IInv, NEW b \in Procs, NEW book \in Book!Books, NEW whole \in BOOLEAN,
           Book!Save(b, book, whole), whole /\ x2[b] = x4 => x4' = book
    PROVE  /\ x1' \in Book!Books /\ x2' \in [Procs -> Book!Books] /\ x5' \in BOOLEAN
           /\ x1' = x4' \/ x5'
<1>1. /\ x1 \in Book!Books /\ x2 \in [Procs -> Book!Books] /\ x5 \in BOOLEAN
      /\ x1 = x4 \/ x5
  BY DEF Book!IInv, Book!BookIsAsWanted
<1>2. CASE UNCHANGED <<x1, x2>> /\ x5' = TRUE
  BY <1>1, <1>2
<1>3. CASE /\ x1' = Book!Written(x2[b], book) /\ x2' = [x2 EXCEPT ![b] = book]
           /\ x5' = (x5 \/ x2[b] # x1 \/ ~whole)
  <2>1. x1' = book /\ x2' \in [Procs -> Book!Books] /\ x5' \in BOOLEAN
    BY <1>1, <1>3 DEF Book!Written
  <2>2. CASE x5'
    BY <2>1, <2>2
  <2>3. CASE ~x5'
    <3>1. x2[b] = x1 /\ x1 = x4 /\ whole
      BY <1>1, <1>3, <2>3
    <3> QED
      BY <2>1, <3>1
  <2> QED
    BY <2>1, <2>2, <2>3
<1> QED
  BY <1>2, <1>3 DEF Book!Save

LEMMA BookBegins == Book!BookAssumption /\ Book!Init => Book!IInv
<1>1. Book!Empty \in Book!Books
  <2>1. Book!Empty \in [{} -> 1..MaxBookEdits]
    BY DEF Book!Empty
  <2> QED
    BY <2>1 DEF Book!Books
<1>2. Book!BookAssumption => 0 \in 0..MaxBookEdits
  BY DEF Book!BookAssumption
<1> QED
  BY <1>1, <1>2 DEF Book!Init, Book!IInv, Book!BookIsAsWanted, Book!NoId

LEMMA BookStep ==
    Book!BookAssumption /\ Book!IInv /\ (Book!Next \/ UNCHANGED Book!vars) => Book!IInv'
<1> SUFFICES ASSUME Book!BookAssumption, Book!IInv, (Book!Next \/ UNCHANGED Book!vars)
             PROVE  Book!IInv'
  OBVIOUS
<1>1. /\ x1 \in Book!Books /\ x4 \in Book!Books /\ x2 \in [Procs -> Book!Books]
      /\ x3 \in [Procs -> 0..MaxBookEdits] /\ MaxBookEdits \in Nat
      /\ x5 \in BOOLEAN /\ x6 \in 0..MaxBookEdits /\ (x1 = x4 \/ x5)
  BY DEF Book!IInv, Book!BookIsAsWanted, Book!BookAssumption
<1>2. /\ x1' \in Book!Books /\ x4' \in Book!Books /\ x2' \in [Procs -> Book!Books]
      /\ x3' \in [Procs -> 0..MaxBookEdits]
      /\ x5' \in BOOLEAN /\ x6' \in 0..MaxBookEdits /\ (x1' = x4' \/ x5')
      => Book!IInv'
  BY DEF Book!IInv, Book!BookIsAsWanted
<1>3. Book!Change => x6' \in 1..MaxBookEdits
  BY <1>1 DEF Book!Change
<1>4. Book!NoId \in 0..MaxBookEdits
  BY <1>1 DEF Book!NoId
<1>5. ASSUME NEW b \in Procs, Book!Open(b) PROVE Book!IInv'
  <2>1. /\ x2' \in [Procs -> Book!Books] /\ x3' \in [Procs -> 0..MaxBookEdits]
        /\ UNCHANGED <<x1, x4, x5, x6>>
    BY <1>1, <1>4, <1>5 DEF Book!Open
  <2> QED
    BY <1>1, <1>2, <2>1
<1>6. ASSUME NEW b \in Procs, Book!Add(b) PROVE Book!IInv'
  <2>1. /\ x6' \in 1..MaxBookEdits /\ Book!Save(b, Book!Put(x2[b], x6', x6'), TRUE)
        /\ x4' = Book!Put(x4, x6', x6') /\ x3' = x3
    BY <1>3, <1>6 DEF Book!Add
  <2>2. Book!Put(x2[b], x6', x6') \in Book!Books /\ x4' \in Book!Books
    BY <1>1, <2>1, PutStaysABook
  <2>3. x2[b] = x4 => x4' = Book!Put(x2[b], x6', x6')
    BY <2>1
  <2>4. /\ x1' \in Book!Books /\ x2' \in [Procs -> Book!Books] /\ x5' \in BOOLEAN
        /\ x1' = x4' \/ x5'
    BY <2>1, <2>2, <2>3, SaveKeepsWhole
  <2>5. x6' \in 0..MaxBookEdits
    BY <1>1, <2>1
  <2> QED
    BY <1>1, <1>2, <2>1, <2>2, <2>4, <2>5
<1>7. ASSUME NEW b \in Procs, Book!SaveEdit(b) PROVE Book!IInv'
  <2> DEFINE i == x3[b]
             there == i \in DOMAIN x2[b]
             book == IF there THEN Book!Put(x2[b], i, x6') ELSE x2[b]
  <2>1. /\ x6' \in 1..MaxBookEdits /\ i # Book!NoId /\ x4' = Book!Put(x4, i, x6')
        /\ x3' = [x3 EXCEPT ![b] = Book!NoId]
    BY <1>3, <1>7 DEF Book!SaveEdit
  <2>2. i \in 1..MaxBookEdits
    BY <1>1, <2>1 DEF Book!NoId
  <2>3. Book!Save(b, book, there) /\ there \in BOOLEAN
    BY <1>7 DEF Book!SaveEdit
  <2> HIDE DEF i
  <2>4. book \in Book!Books /\ x4' \in Book!Books
    <3>1. Book!Put(x2[b], i, x6') \in Book!Books /\ x2[b] \in Book!Books /\ x4' \in Book!Books
      BY <1>1, <2>1, <2>2, PutStaysABook
    <3> QED
      BY <3>1
  <2>5. there /\ x2[b] = x4 => x4' = book
    BY <2>1
  <2> HIDE DEF there, book
  <2>6. /\ x1' \in Book!Books /\ x2' \in [Procs -> Book!Books] /\ x5' \in BOOLEAN
        /\ x1' = x4' \/ x5'
    BY <1>1, <2>3, <2>4, <2>5, SaveKeepsWhole
  <2>7. x6' \in 0..MaxBookEdits /\ x3' \in [Procs -> 0..MaxBookEdits]
    BY <1>1, <1>4, <2>1
  <2> QED
    BY <1>2, <2>4, <2>6, <2>7
<1>8. ASSUME NEW b \in Procs, Book!Cancel(b) PROVE Book!IInv'
  <2>1. x3' \in [Procs -> 0..MaxBookEdits] /\ UNCHANGED <<x1, x2, x4, x5, x6>>
    BY <1>1, <1>4, <1>8 DEF Book!Cancel
  <2> QED
    BY <1>1, <1>2, <2>1
<1>9. ASSUME NEW b \in Procs, NEW i \in 1..MaxBookEdits, Book!StartEdit(b, i) PROVE Book!IInv'
  <2>1. x3' = [x3 EXCEPT ![b] = i] /\ UNCHANGED <<x1, x2, x4, x5, x6>>
    BY <1>9 DEF Book!StartEdit
  <2>2. x3' \in [Procs -> 0..MaxBookEdits]
    BY <1>1, <2>1
  <2> QED
    BY <1>1, <1>2, <2>1, <2>2
<1>10. ASSUME NEW b \in Procs, NEW i \in 1..MaxBookEdits, Book!Delete(b, i) PROVE Book!IInv'
  <2>1. /\ x6' \in 1..MaxBookEdits /\ Book!Save(b, Book!Omit(x2[b], i), TRUE)
        /\ x4' = Book!Omit(x4, i) /\ x3' = x3
    BY <1>3, <1>10 DEF Book!Delete
  <2>2. Book!Omit(x2[b], i) \in Book!Books /\ x4' \in Book!Books
    BY <1>1, <2>1, OmitStaysABook
  <2>3. x2[b] = x4 => x4' = Book!Omit(x2[b], i)
    BY <2>1
  <2>4. /\ x1' \in Book!Books /\ x2' \in [Procs -> Book!Books] /\ x5' \in BOOLEAN
        /\ x1' = x4' \/ x5'
    BY <2>1, <2>2, <2>3, SaveKeepsWhole
  <2>5. x6' \in 0..MaxBookEdits
    BY <1>1, <2>1
  <2> QED
    BY <1>1, <1>2, <2>1, <2>2, <2>4, <2>5
<1>11. CASE UNCHANGED Book!vars
  BY <1>1, <1>2, <1>11 DEF Book!vars
<1> QED
  BY <1>5, <1>6, <1>7, <1>8, <1>9, <1>10, <1>11 DEF Book!Next

LEMMA BookTyped == Book!IInv => Book!TypeOK
<1> SUFFICES ASSUME Book!IInv PROVE Book!TypeOK
  OBVIOUS
<1>1. \A book \in Book!Books : DOMAIN book \subseteq 1..MaxBookEdits
                               /\ \A i \in DOMAIN book : book[i] \in 1..MaxBookEdits
  BY DEF Book!Books
<1>2. {x1, x4} \cup {x2[b] : b \in Procs} \subseteq Book!Books
  BY DEF Book!IInv
<1> QED
  BY <1>1, <1>2 DEF Book!IInv, Book!TypeOK

-----------------------------------------------------------------------------
(***************************************************************************)
(* ErrorBoundary: x1 file, x2 state, x3 thrown, x4 reports, x5 received,   *)
(* x6 copied, x7 late.                                                     *)
(***************************************************************************)
Boundary == INSTANCE ErrorBoundary WITH file <- x1, state <- x2, thrown <- x3,
    reports <- x4, received <- x5, copied <- x6, late <- x7

BoundaryType == [error : 0..x3, reported : BOOLEAN]

LEMMA BoundaryBegins == Boundary!BoundaryAssumption /\ Boundary!Init => Boundary!IInv
<1> SUFFICES ASSUME Boundary!BoundaryAssumption, Boundary!Init PROVE Boundary!IInv
  OBVIOUS
<1>1. /\ x3 = 0 /\ x2 = [error |-> 0, reported |-> FALSE] /\ MaxErrors \in Nat
      /\ x1 \in {"jsx", "tsx"} /\ x4 = {} /\ x5 = {} /\ x6 = 0 /\ x7 = FALSE
  BY DEF Boundary!Init, Boundary!Clear, Boundary!BoundaryAssumption
<1>2. x2 \in [error : 0..x3, reported : BOOLEAN] /\ ~x2.reported
  BY <1>1
<1>3. /\ x3 \in 0..MaxErrors
      /\ x6 \in 0..x3
      /\ x7 \in BOOLEAN
  <2>1. x3 \in 0..MaxErrors /\ x6 \in 0..x3
    BY <1>1
  <2>2. x7 \in BOOLEAN
    BY <1>1
  <2> QED
    BY <2>1, <2>2
<1>4. x4 \subseteq 1..x3 /\ x5 \subseteq 1..x3
  BY <1>1
<1>5. Boundary!TypeOK
  BY <1>1, <1>2, <1>3, <1>4 DEF Boundary!TypeOK
<1> QED
  BY <1>2, <1>5 DEF Boundary!IInv, Boundary!FlagIsOfTheError

LEMMA BoundaryHolds == Boundary!IInv => Boundary!ReportedWasReceived
  BY DEF Boundary!IInv, Boundary!FlagIsOfTheError, Boundary!ReportedWasReceived

LEMMA BoundaryStep ==
    Boundary!BoundaryAssumption /\ Boundary!IInv /\ (Boundary!Next \/ UNCHANGED Boundary!vars) => Boundary!IInv'
<1> SUFFICES ASSUME Boundary!BoundaryAssumption, Boundary!IInv, (Boundary!Next \/ UNCHANGED Boundary!vars)
             PROVE  Boundary!IInv'
  OBVIOUS
<1>1. /\ x1 \in {"jsx", "tsx"} /\ x3 \in 0..MaxErrors /\ MaxErrors \in Nat
      /\ x2 \in BoundaryType /\ x2.error \in 0..x3 /\ x2.reported \in BOOLEAN
      /\ x4 \subseteq 1..x3 /\ x5 \subseteq 1..x3
      /\ x6 \in 0..x3 /\ x7 \in BOOLEAN
      /\ Boundary!FlagIsOfTheError
  BY DEF Boundary!BoundaryAssumption, Boundary!IInv, Boundary!TypeOK, BoundaryType
<1>2. (/\ x1' \in {"jsx", "tsx"} /\ x3' \in 0..MaxErrors
       /\ x2' \in [error : 0..x3', reported : BOOLEAN]
       /\ x4' \subseteq 1..x3' /\ x5' \subseteq 1..x3'
       /\ x6' \in 0..x3' /\ x7' \in BOOLEAN
       /\ Boundary!FlagIsOfTheError') => Boundary!IInv'
  BY DEF Boundary!IInv, Boundary!TypeOK
\* The children are shown again.
<1>3. x2' = Boundary!Clear /\ UNCHANGED x3 =>
          /\ x2' \in [error : 0..x3', reported : BOOLEAN]
          /\ Boundary!FlagIsOfTheError'
  BY <1>1 DEF Boundary!Clear, Boundary!FlagIsOfTheError
<1>4. CASE Boundary!Catch
  <2>1. /\ x2.error = 0 /\ x3' = x3 + 1 /\ x3 < MaxErrors
        /\ x2' = [x2 EXCEPT !.error = x3 + 1]
        /\ x4' = x4 \cup {x3 + 1}
        /\ UNCHANGED <<x1, x5, x6, x7>>
    BY <1>4 DEF Boundary!Catch, Boundary!RendersError, Boundary!SendReport
  <2>2. x3' \in 0..MaxErrors /\ x3 + 1 \in 0..x3' /\ 0..x3 \subseteq 0..x3'
        /\ 1..x3 \subseteq 1..x3' /\ x3 + 1 \in 1..x3'
    BY <1>1, <2>1
  <2>3. x2' \in [error : 0..x3', reported : BOOLEAN] /\ x2'.reported = x2.reported
    BY <1>1, <2>1, <2>2 DEF BoundaryType
  <2>4. Boundary!FlagIsOfTheError'
    <3>1. 0 \notin x5
      BY <1>1
    <3>2. x2.reported => x7
      BY <1>1, <2>1, <3>1 DEF Boundary!FlagIsOfTheError
    <3> QED
      BY <2>1, <2>3, <3>2 DEF Boundary!FlagIsOfTheError
  <2> QED
    BY <1>1, <1>2, <2>1, <2>2, <2>3, <2>4
<1>5. CASE Boundary!Retry
  <2>1. x2' = Boundary!Clear /\ UNCHANGED <<x1, x3, x4, x5, x6, x7>>
    BY <1>5 DEF Boundary!Retry
  <2> QED
    BY <1>1, <1>2, <1>3, <2>1
<1>6. CASE Boundary!Reload
  <2>1. /\ x2' = Boundary!Clear /\ x4' = {} /\ UNCHANGED <<x1, x3, x6, x7>>
        /\ \E arrived \in SUBSET x4 : x5' = x5 \cup arrived
    BY <1>6 DEF Boundary!Reload
  <2>2. x5' \subseteq 1..x3
    BY <1>1, <2>1
  <2> QED
    BY <1>1, <1>2, <1>3, <2>1, <2>2
<1>7. CASE Boundary!CopyDetails
  <2>1. x6' = x2.error /\ UNCHANGED <<x1, x2, x3, x4, x5, x7>>
    BY <1>7 DEF Boundary!CopyDetails
  <2>2. Boundary!FlagIsOfTheError'
    BY <1>1, <2>1 DEF Boundary!FlagIsOfTheError
  <2> QED
    BY <1>1, <1>2, <2>1, <2>2 DEF BoundaryType
<1>8. ASSUME NEW error \in Boundary!Errors, NEW ok \in BOOLEAN, Boundary!Answered(error, ok)
      PROVE  Boundary!IInv'
  <2> DEFINE flag == x2.reported \/ ok
  <2>1. /\ error \in x4 /\ x4' = x4 \ {error}
        /\ x5' = IF ok THEN x5 \cup {error} ELSE x5
        /\ x2' = [x2 EXCEPT !.reported = flag]
        /\ x7' = (x7 \/ x2.error # error)
        /\ UNCHANGED <<x1, x3, x6>>
    BY <1>8 DEF Boundary!Answered, Boundary!Reported
  <2>2. flag \in BOOLEAN
    OBVIOUS
  <2>3. flag <=> x2.reported \/ ok
    OBVIOUS
  <2> HIDE DEF flag
  <2>4. /\ x2' \in BoundaryType /\ x2'.error = x2.error /\ x2'.reported = flag
    BY <1>1, <2>1, <2>2 DEF BoundaryType
  <2>5. /\ x4' \subseteq 1..x3 /\ x5' \subseteq 1..x3 /\ x5 \subseteq x5'
        /\ (ok => error \in x5') /\ x7' \in BOOLEAN
    BY <1>1, <2>1
  <2>6. Boundary!FlagIsOfTheError'
    BY <1>1, <2>1, <2>3, <2>4, <2>5 DEF Boundary!FlagIsOfTheError
  <2> QED
    BY <1>1, <1>2, <2>1, <2>4, <2>5, <2>6 DEF BoundaryType
<1>9. CASE UNCHANGED Boundary!vars
  <2>1. Boundary!FlagIsOfTheError'
    BY <1>1, <1>9 DEF Boundary!FlagIsOfTheError, Boundary!vars
  <2> QED
    BY <1>1, <1>2, <1>9, <2>1 DEF Boundary!vars, BoundaryType
<1> QED
  BY <1>4, <1>5, <1>6, <1>7, <1>8, <1>9 DEF Boundary!Next

-----------------------------------------------------------------------------
(***************************************************************************)
(* ChainButtons: x1 status, x2 shown, x3 pressed, x4 presses, x5 sent,     *)
(* x6 refused.                                                             *)
(***************************************************************************)
Buttons == INSTANCE ChainButtons WITH status <- x1, shown <- x2, pressed <- x3,
    presses <- x4, sent <- x5, refused <- x6

LEMMA ButtonsBegin == Buttons!ButtonsAssumption /\ Buttons!Init => Buttons!IInv
BY DEF Buttons!ButtonsAssumption, Buttons!Init, Buttons!IInv, Buttons!TypeOK,
   Buttons!WrongOutcomeWasRefused, Buttons!Idle, Buttons!Outcomes

LEMMA ButtonsStep ==
    Buttons!ButtonsAssumption /\ Buttons!IInv /\ (Buttons!Next \/ UNCHANGED Buttons!vars) => Buttons!IInv'
<1> SUFFICES ASSUME Buttons!ButtonsAssumption, Buttons!IInv, (Buttons!Next \/ UNCHANGED Buttons!vars)
             PROVE  Buttons!IInv'
    OBVIOUS
<1> USE DEF Buttons!ButtonsAssumption
<1>1. /\ Buttons!TypeOK /\ Buttons!WrongOutcomeWasRefused
      /\ \A s \in Buttons!ScreenNames : x3[s].step # "idle" => x3[s].button \in Buttons!Outcomes
    BY DEF Buttons!IInv
<1>2. ASSUME NEW s \in Buttons!ScreenNames, NEW b \in Buttons!Outcomes, Buttons!Press(s, b)
      PROVE  Buttons!IInv'
    BY <1>1, <1>2 DEF Buttons!Press, Buttons!IInv, Buttons!TypeOK,
       Buttons!WrongOutcomeWasRefused, Buttons!Outcomes, Buttons!Idle
<1>3. ASSUME NEW s \in Buttons!ScreenNames, Buttons!Simulated(s) PROVE Buttons!IInv'
    BY <1>1, <1>3 DEF Buttons!Simulated, Buttons!IInv, Buttons!TypeOK,
       Buttons!WrongOutcomeWasRefused, Buttons!Outcomes
<1>4. ASSUME NEW s \in Buttons!ScreenNames, Buttons!PressFails(s) PROVE Buttons!IInv'
    BY <1>1, <1>4 DEF Buttons!PressFails, Buttons!ShownAfterError, Buttons!IInv,
       Buttons!TypeOK, Buttons!WrongOutcomeWasRefused, Buttons!Outcomes, Buttons!Idle
<1>5. ASSUME NEW s \in Buttons!ScreenNames, Buttons!Reopen(s) PROVE Buttons!IInv'
    BY <1>1, <1>5 DEF Buttons!Reopen, Buttons!IInv, Buttons!TypeOK,
       Buttons!WrongOutcomeWasRefused, Buttons!Outcomes
\* A transaction is sent: what the screen shows is under way, or was refused.
<1>6. ASSUME NEW s \in Buttons!ScreenNames, NEW taken \in BOOLEAN, Buttons!Send(s, taken)
      PROVE  Buttons!IInv'
  <2>1. x3[s].button \in Buttons!Outcomes
      BY <1>1, <1>6 DEF Buttons!Send
  <2>2. Buttons!TypeOK'
      BY <1>1, <1>6, <2>1 DEF Buttons!Send, Buttons!TypeOK, Buttons!Outcomes, Buttons!Idle
  <2>3. x2'[s] \in Buttons!Outcomes => x6'[s] \/ x2'[s] \in x5'[s]
      BY <1>1, <1>6, <2>1 DEF Buttons!Send, Buttons!TypeOK
  <2>4. \A r \in Buttons!ScreenNames \ {s} :
            x2'[r] = x2[r] /\ x6'[r] = x6[r] /\ x5'[r] = x5[r]
      BY <1>1, <1>6 DEF Buttons!Send, Buttons!TypeOK
  <2>5. Buttons!WrongOutcomeWasRefused'
      BY <1>1, <1>6, <2>3, <2>4 DEF Buttons!Send, Buttons!WrongOutcomeWasRefused,
         Buttons!Effect
  <2> QED
      BY <1>1, <1>6, <2>2, <2>5 DEF Buttons!Send, Buttons!IInv, Buttons!TypeOK, Buttons!Idle
<1>7. ASSUME NEW s \in Buttons!ScreenNames, NEW b \in Buttons!Outcomes, Buttons!Include(s, b)
      PROVE  Buttons!IInv'
    BY <1>1, <1>7 DEF Buttons!Include, Buttons!IInv, Buttons!TypeOK,
       Buttons!WrongOutcomeWasRefused, Buttons!Outcomes, Buttons!Effect
<1>8. CASE UNCHANGED Buttons!vars
    BY <1>1, <1>8 DEF Buttons!vars, Buttons!IInv, Buttons!TypeOK,
       Buttons!WrongOutcomeWasRefused
<1>9. {"sender", "agent"} = Buttons!ScreenNames /\ {"Cancelled", "Completed", "Failed"} = Buttons!Outcomes
    BY DEF Buttons!ScreenNames, Buttons!Outcomes
<1> QED
    BY <1>2, <1>3, <1>4, <1>5, <1>6, <1>7, <1>8, <1>9
       DEF Buttons!Next, Buttons!PressCancel, Buttons!PressConfirm, Buttons!PressFail

-----------------------------------------------------------------------------
(***************************************************************************)
(* FxRates: x1 moment, x2 breaker, x3 kept, x4 cached, x5 timer, x6 fetch, *)
(* x7 inflight, x8 joined, x9 shown, x10 latest, x11 clears, x12 quote,    *)
(* x13 promised, x14 answered.                                             *)
(***************************************************************************)
Fx == INSTANCE FxRates WITH Fetches <- Procs, moment <- x1, breaker <- x2, kept <- x3,
    cached <- x4, timer <- x5, fetch <- x6, inflight <- x7, joined <- x8, shown <- x9,
    latest <- x10, clears <- x11, quote <- x12, promised <- x13, answered <- x14

\* The operators on finite sets are those of the library.
LEMMA SetsOfFx ==
    /\ \A S : Fx!Cardinality(S) = Cardinality(S)
    /\ \A S : Fx!IsFiniteSet(S) <=> IsFiniteSet(S)
BY DEF Cardinality, IsFiniteSet, Fx!Cardinality, Fx!IsFiniteSet

LEMMA RatesBegin == Fx!FxAssumption /\ Fx!Init => Fx!IInv
<1> SUFFICES ASSUME Fx!FxAssumption, Fx!Init PROVE Fx!IInv
    OBVIOUS
<1>1. Fx!TypeOK
  <2>1. x6 \in [Procs -> [step : {"idle", "primary", "secondary", "refresh"},
                          waiting : SUBSET Clients]]
      BY DEF Fx!Init, Fx!NoFetch
  <2>2. x9 \in [Clients -> Fx!Rates] /\ x1 \in Fx!Rates /\ x11 \in 0..MaxClears
      BY DEF Fx!Init, Fx!FxAssumption, Fx!Rates
  <2>3. 0 \in Fx!Rates
      BY DEF Fx!Rates, Fx!FxAssumption
  <2> QED
      BY <2>1, <2>2, <2>3 DEF Fx!Init, Fx!TypeOK
<1>2. {f \in Procs : Fx!Requested(f)} = {}
    BY DEF Fx!Init, Fx!Requested, Fx!NoFetch
<1>3. Fx!RequestsAreCounted
    BY <1>2, FS_EmptySet, SetsOfFx DEF Fx!Init, Fx!RequestsAreCounted
<1>4. Fx!KeptBeforeCached /\ Fx!OnlyRequestsAreJoined
    BY DEF Fx!Init, Fx!KeptBeforeCached, Fx!OnlyRequestsAreJoined, Fx!At, Fx!NoFetch
<1> QED
    BY <1>1, <1>3, <1>4 DEF Fx!Init, Fx!IInv, Fx!ClientsShowLatest, Fx!FirstPromiseIsKept

LEMMA RatesStep == Fx!FxAssumption /\ Fx!IInv /\ (Fx!Next \/ UNCHANGED Fx!vars) => Fx!IInv'
<1> SUFFICES ASSUME Fx!FxAssumption, Fx!IInv, (Fx!Next \/ UNCHANGED Fx!vars) PROVE Fx!IInv'
    OBVIOUS
<1> USE DEF Fx!FxAssumption
<1>1. /\ Fx!TypeOK /\ Fx!RequestsAreCounted /\ Fx!OnlyRequestsAreJoined /\ Fx!KeptBeforeCached /\ Fx!ClientsShowLatest
      /\ x4 \in {0, x10} /\ x12 = x13 /\ Fx!FirstPromiseIsKept
    BY DEF Fx!IInv
<1> DEFINE UnderWay == {f \in Procs : Fx!Requested(f)}
           FetchType == [step : {"idle", "primary", "secondary", "refresh"},
                         waiting : SUBSET Clients]
<1>2. /\ Fx!IsFiniteSet(UnderWay) /\ Fx!Cardinality(UnderWay) \in Nat /\ x11 \in Nat
      /\ Fx!Cardinality(UnderWay) <= 1 + x11
      /\ x7 = {} => Fx!Cardinality(UnderWay) <= x11
    BY <1>1, FS_CardinalityType, SetsOfFx DEF Fx!RequestsAreCounted, Fx!TypeOK
<1> HIDE DEF UnderWay
\* What leaves the requests under way as they are.
<1>3. ASSUME \A f \in Procs : Fx!Requested(f)' = Fx!Requested(f), x7' = x7,
             x11' = x11, \A f \in Procs : x6'[f].waiting = x6[f].waiting
      PROVE  Fx!RequestsAreCounted' /\ Fx!OnlyRequestsAreJoined'
  <2>1. UnderWay' = UnderWay
      BY <1>3 DEF UnderWay
  <2> QED
      BY <1>1, <1>2, <1>3, <2>1 DEF Fx!RequestsAreCounted, Fx!OnlyRequestsAreJoined,
         UnderWay, Fx!TypeOK
\* The market's part and the transaction's.
<1>4. ASSUME x1' \in Fx!Rates, x3' \in Fx!Rates, x4' \in Fx!Rates, x10' \in Fx!Rates,
             x2' \in {"open", "closed"}, x5' \in BOOLEAN,
             x6' \in [Procs -> FetchType],
             x7' \in SUBSET Procs, x8' \in SUBSET Clients,
             x9' \in [Clients -> Fx!Rates], x11' \in 0..MaxClears,
             Fx!RequestsAreCounted', Fx!OnlyRequestsAreJoined', Fx!KeptBeforeCached', x4' \in {0, x10'},
             Fx!ClientsShowLatest', UNCHANGED Fx!quotes
      PROVE  Fx!IInv'
  <2>1. Fx!TypeOK'
      BY <1>1, <1>4 DEF Fx!TypeOK, Fx!quotes
  <2> QED
      BY <1>1, <1>4, <2>1 DEF Fx!IInv, Fx!quotes, Fx!FirstPromiseIsKept
<1>5. ASSUME NEW c \in Clients, Fx!Subscribe(c), UNCHANGED Fx!quotes PROVE Fx!IInv'
  <2>1. /\ c \notin x8 /\ x8' = x8 \cup {c}
        /\ UNCHANGED <<x1, x2, x3, x4, x5, x10, x11>>
      BY <1>5 DEF Fx!Subscribe
  <2>2. CASE x4 # 0
    <3>1. x9' = [d \in Clients |-> IF d \in {c} THEN x4 ELSE x9[d]]
          /\ UNCHANGED <<x6, x7>>
        BY <1>5, <2>2 DEF Fx!Subscribe, Fx!Shown
    <3>2. Fx!RequestsAreCounted' /\ Fx!OnlyRequestsAreJoined'
        BY <1>3, <2>1, <3>1 DEF Fx!Requested
    <3>3. Fx!KeptBeforeCached'
        BY <1>1, <2>1, <3>1 DEF Fx!KeptBeforeCached, Fx!At
    <3>4. Fx!ClientsShowLatest'
        BY <1>1, <2>1, <2>2, <3>1 DEF Fx!ClientsShowLatest, Fx!Waiting, Fx!TypeOK
    <3>5. x9' \in [Clients -> Fx!Rates] /\ x8' \in SUBSET Clients
        BY <1>1, <2>1, <3>1 DEF Fx!TypeOK
    <3> QED
        BY <1>1, <1>4, <1>5, <2>1, <3>1, <3>2, <3>3, <3>4, <3>5 DEF Fx!TypeOK
  <2>3. CASE x4 = 0 /\ x7 # {}
    <3>1. /\ UNCHANGED <<x9, x7>>
          /\ x6' = [f \in Procs |-> IF f \in x7
                       THEN [x6[f] EXCEPT !.waiting = @ \cup {c}] ELSE x6[f]]
        BY <1>5, <2>3 DEF Fx!Subscribe, Fx!Shared
    <3>2. \A f \in Procs : x6'[f].step = x6[f].step /\ x6'[f] \in FetchType
        BY <1>1, <3>1 DEF Fx!TypeOK
    <3>3. Fx!RequestsAreCounted'
      <4>1. UnderWay' = UnderWay
          BY <3>2 DEF Fx!Requested, UnderWay
      <4> QED BY <1>2, <2>1, <3>1, <4>1 DEF Fx!RequestsAreCounted, UnderWay
    <3>a. Fx!OnlyRequestsAreJoined'
        BY <1>1, <3>1, <3>2 DEF Fx!OnlyRequestsAreJoined, Fx!Requested, Fx!TypeOK
    <3>4. Fx!KeptBeforeCached'
        BY <1>1, <2>1, <3>2 DEF Fx!KeptBeforeCached, Fx!At
    <3>5. Fx!ClientsShowLatest'
        BY <2>1, <2>3 DEF Fx!ClientsShowLatest
    <3>6. x6' \in [Procs -> FetchType] /\ x8' \in SUBSET Clients
        BY <1>1, <2>1, <3>1, <3>2 DEF Fx!TypeOK
    <3> QED
        BY <1>1, <1>4, <1>5, <2>1, <3>1, <3>3, <3>a, <3>4, <3>5, <3>6 DEF Fx!TypeOK
  <2>4. CASE x4 = 0 /\ x7 = {}
    <3>1. PICK f \in Procs :
             /\ Fx!At(f, "idle") /\ x7' = {f}
             /\ x6' = [x6 EXCEPT ![f] =
                    [step |-> IF x2 = "open" THEN "secondary" ELSE "primary",
                     waiting |-> {c}]]
        BY <1>5, <2>4 DEF Fx!Subscribe, Fx!Shared
    <3>2. x9' = x9
        BY <1>5, <2>4 DEF Fx!Subscribe
    <3>3. x6' \in [Procs -> FetchType] /\ x8' \in SUBSET Clients
        BY <1>1, <2>1, <3>1 DEF Fx!TypeOK
    <3>4. /\ x6'[f].step \in {"primary", "secondary"}
          /\ \A g \in Procs \ {f} : x6'[g] = x6[g]
        BY <1>1, <3>1 DEF Fx!TypeOK
    <3>5. UnderWay' = UnderWay \cup {f}
        BY <3>4 DEF Fx!Requested, UnderWay
    <3>6. Fx!IsFiniteSet(UnderWay') /\ Fx!Cardinality(UnderWay') <= Fx!Cardinality(UnderWay) + 1
      <4>1. /\ Fx!IsFiniteSet(UnderWay \cup {f}) /\ Fx!Cardinality(UnderWay) \in Nat
            /\ Fx!Cardinality(UnderWay \cup {f}) = Fx!Cardinality(UnderWay)
                 \/ Fx!Cardinality(UnderWay \cup {f}) = Fx!Cardinality(UnderWay) + 1
          BY <1>2, FS_AddElement, FS_CardinalityType, SetsOfFx
      <4> QED
          BY <3>5, <4>1
    <3>7. Fx!RequestsAreCounted'
        BY <1>2, <2>1, <2>4, <3>1, <3>6, FS_CardinalityType, SetsOfFx
           DEF Fx!RequestsAreCounted, UnderWay
    <3>a. Fx!OnlyRequestsAreJoined'
        BY <1>1, <3>1, <3>4 DEF Fx!OnlyRequestsAreJoined, Fx!Requested
    <3>8. Fx!KeptBeforeCached'
        BY <1>1, <2>1, <3>4 DEF Fx!KeptBeforeCached, Fx!At
    <3>9. Fx!ClientsShowLatest'
        BY <2>1, <2>4 DEF Fx!ClientsShowLatest
    <3> QED
        BY <1>1, <1>4, <1>5, <2>1, <3>1, <3>2, <3>3, <3>7, <3>a, <3>8, <3>9 DEF Fx!TypeOK
  <2> QED
      BY <2>2, <2>3, <2>4
<1>6. ASSUME NEW c \in Clients, Fx!Unsubscribe(c), UNCHANGED Fx!quotes PROVE Fx!IInv'
  <2>1. /\ x8' = x8 \ {c}
        /\ UNCHANGED <<x1, x2, x3, x4, x5, x6, x7, x9, x10, x11>>
      BY <1>6 DEF Fx!Unsubscribe
  <2>2. Fx!RequestsAreCounted' /\ Fx!OnlyRequestsAreJoined'
      BY <1>3, <2>1 DEF Fx!Requested
  <2>3. Fx!KeptBeforeCached' /\ Fx!ClientsShowLatest'
      BY <1>1, <2>1 DEF Fx!KeptBeforeCached, Fx!At, Fx!ClientsShowLatest, Fx!Waiting
  <2> QED
      BY <1>1, <1>4, <1>6, <2>1, <2>2, <2>3 DEF Fx!TypeOK
\* A request ends: there is one less, and whatever was joined is forgotten.
<1>7. ASSUME NEW f \in Procs, Fx!Requested(f), x6' = [x6 EXCEPT ![f] = Fx!NoFetch],
             x7' = {}, x11' = x11
      PROVE  /\ Fx!RequestsAreCounted' /\ Fx!OnlyRequestsAreJoined' /\ x6' \in [Procs -> FetchType]
             /\ x6'[f] = Fx!NoFetch /\ \A g \in Procs \ {f} : x6'[g] = x6[g]
  <2>1. /\ x6' \in [Procs -> FetchType]
        /\ x6'[f] = Fx!NoFetch /\ \A g \in Procs \ {f} : x6'[g] = x6[g]
      BY <1>1, <1>7 DEF Fx!TypeOK, Fx!NoFetch
  <2>2. UnderWay' = UnderWay \ {f} /\ f \in UnderWay
      BY <1>7, <2>1 DEF Fx!Requested, Fx!NoFetch, UnderWay
  <2>3. Fx!IsFiniteSet(UnderWay') /\ Fx!Cardinality(UnderWay') = Fx!Cardinality(UnderWay) - 1
      BY <1>2, <2>2, FS_RemoveElement, SetsOfFx
  <2>4. Fx!RequestsAreCounted'
      BY <1>2, <1>7, <2>3, FS_CardinalityType, SetsOfFx DEF Fx!RequestsAreCounted, UnderWay
  <2>5. Fx!OnlyRequestsAreJoined'
      BY <1>1, <1>7, <2>1 DEF Fx!OnlyRequestsAreJoined, Fx!Requested, Fx!NoFetch
  <2> QED
      BY <2>1, <2>4, <2>5
<1>8. ASSUME NEW f \in Procs, Fx!Requested(f), NEW rate \in Fx!Rates \ {0}, Fx!Land(f, rate),
             x3' \in Fx!Rates \ {0}, UNCHANGED <<x2, Fx!quotes>>
      PROVE  Fx!IInv'
  <2>1. /\ x4' = rate /\ x10' = rate /\ x5' = TRUE /\ x7' = {}
        /\ x9' = [c \in Clients |-> IF c \in x8 \cup x6[f].waiting THEN rate ELSE x9[c]]
        /\ x6' = [x6 EXCEPT ![f] = Fx!NoFetch]
        /\ UNCHANGED <<x1, x8, x11>>
      BY <1>8 DEF Fx!Land, Fx!Stored, Fx!Shown
  <2>2. Fx!RequestsAreCounted' /\ Fx!OnlyRequestsAreJoined' /\ x6' \in [Procs -> FetchType]
      BY <1>7, <1>8, <2>1
  <2>3. Fx!KeptBeforeCached'
      BY <1>1, <1>8, <2>1 DEF Fx!KeptBeforeCached
  <2>4. Fx!ClientsShowLatest'
      BY <1>1, <2>1 DEF Fx!ClientsShowLatest, Fx!TypeOK
  <2>5. x9' \in [Clients -> Fx!Rates]
      BY <1>1, <2>1 DEF Fx!TypeOK
  <2> QED
      BY <1>1, <1>4, <1>8, <2>1, <2>2, <2>3, <2>4, <2>5 DEF Fx!TypeOK
<1>9. ASSUME NEW f \in Procs, Fx!PrimaryAnswers(f) \/ Fx!SecondaryAnswers(f), UNCHANGED Fx!quotes
      PROVE  Fx!IInv'
  <2>1. /\ Fx!Requested(f) /\ x3' = x1 /\ Fx!Land(f, x1) /\ UNCHANGED x2
        /\ x1 \in Fx!Rates \ {0}
      BY <1>1, <1>9 DEF Fx!PrimaryAnswers, Fx!SecondaryAnswers, Fx!At, Fx!Requested,
         Fx!KeptBeforeCached,
                        Fx!TypeOK, Fx!Rates
  <2> QED
      BY <1>8, <1>9, <2>1
<1>10. ASSUME NEW f \in Procs, Fx!PrimaryFails(f), UNCHANGED Fx!quotes PROVE Fx!IInv'
  <2>1. /\ Fx!At(f, "primary") /\ x2' = "open" /\ x6' = [x6 EXCEPT ![f].step = "secondary"]
        /\ UNCHANGED <<x1, x3, x4, x5, x7, x8, x9, x10, x11>>
      BY <1>10 DEF Fx!PrimaryFails
  <2>2. /\ x6' \in [Procs -> FetchType]
        /\ x6'[f].step = "secondary" /\ \A g \in Procs \ {f} : x6'[g] = x6[g]
        /\ \A g \in Procs : x6'[g].waiting = x6[g].waiting
      BY <1>1, <2>1 DEF Fx!TypeOK
  <2>3. Fx!RequestsAreCounted' /\ Fx!OnlyRequestsAreJoined'
      BY <1>3, <2>1, <2>2 DEF Fx!Requested, Fx!At
  <2>4. Fx!KeptBeforeCached'
      BY <1>1, <2>1, <2>2 DEF Fx!KeptBeforeCached, Fx!At
  <2>5. Fx!ClientsShowLatest'
      BY <1>1, <2>1, <2>2 DEF Fx!ClientsShowLatest, Fx!Waiting
  <2> QED
      BY <1>1, <1>4, <1>10, <2>1, <2>2, <2>3, <2>4, <2>5 DEF Fx!TypeOK
<1>11. ASSUME NEW f \in Procs, Fx!SecondaryFails(f), UNCHANGED Fx!quotes PROVE Fx!IInv'
  <2>1. Fx!At(f, "secondary") /\ Fx!Requested(f) /\ UNCHANGED <<x2, x3>>
      BY <1>11 DEF Fx!SecondaryFails, Fx!Requested, Fx!At
  <2>2. CASE x3 # 0
    <3>1. Fx!Land(f, x3) /\ x3 \in Fx!Rates \ {0}
        BY <1>1, <1>11, <2>2 DEF Fx!SecondaryFails, Fx!TypeOK
    <3> QED
        BY <1>8, <1>11, <2>1, <3>1
  <2>3. CASE x3 = 0
    <3>1. /\ x6' = [x6 EXCEPT ![f] = Fx!NoFetch] /\ x7' = {}
          /\ UNCHANGED <<x1, x4, x5, x8, x9, x10, x11>>
        BY <1>11, <2>3 DEF Fx!SecondaryFails
    <3>2. /\ Fx!RequestsAreCounted' /\ Fx!OnlyRequestsAreJoined' /\ x6' \in [Procs -> FetchType]
          /\ x6'[f] = Fx!NoFetch /\ \A g \in Procs \ {f} : x6'[g] = x6[g]
        BY <1>7, <2>1, <3>1
    <3>3. Fx!KeptBeforeCached'
        BY <1>1, <2>1, <3>1, <3>2 DEF Fx!KeptBeforeCached, Fx!At, Fx!NoFetch
    <3>4. Fx!ClientsShowLatest'
        BY <1>1, <2>3, <3>1 DEF Fx!KeptBeforeCached, Fx!ClientsShowLatest
    <3> QED
        BY <1>1, <1>4, <1>11, <2>1, <3>1, <3>2, <3>3, <3>4 DEF Fx!TypeOK
  <2> QED
      BY <2>2, <2>3
<1>12. ASSUME Fx!BreakerHalfOpens \/ Fx!MomentPasses, UNCHANGED Fx!quotes PROVE Fx!IInv'
  <2>1. /\ x1' \in Fx!Rates /\ x1 <= x1' /\ x2' \in {"open", "closed"}
        /\ UNCHANGED <<x3, x4, x5, x6, x7, x8, x9, x10, x11>>
      BY <1>1, <1>12 DEF Fx!BreakerHalfOpens, Fx!MomentPasses, Fx!TypeOK, Fx!Rates
  <2>2. Fx!RequestsAreCounted' /\ Fx!OnlyRequestsAreJoined'
      BY <1>3, <2>1 DEF Fx!Requested
  <2>3. Fx!KeptBeforeCached' /\ Fx!ClientsShowLatest'
      BY <1>1, <2>1 DEF Fx!KeptBeforeCached, Fx!At, Fx!ClientsShowLatest, Fx!Waiting,
         Fx!TypeOK, Fx!Rates
  <2> QED
      BY <1>1, <1>4, <1>12, <2>1, <2>2, <2>3 DEF Fx!TypeOK
<1>13. ASSUME NEW f \in Procs, Fx!RefreshFires(f), UNCHANGED Fx!quotes PROVE Fx!IInv'
  <2>1. /\ x5 /\ x5' = FALSE /\ Fx!At(f, "idle")
        /\ x6' = [x6 EXCEPT ![f].step = "refresh"]
        /\ UNCHANGED <<x1, x2, x3, x4, x7, x8, x9, x10, x11>>
      BY <1>13 DEF Fx!RefreshFires
  <2>2. /\ x6' \in [Procs -> FetchType]
        /\ x6'[f].step = "refresh" /\ \A g \in Procs \ {f} : x6'[g] = x6[g]
        /\ \A g \in Procs : x6'[g].waiting = x6[g].waiting
      BY <1>1, <2>1 DEF Fx!TypeOK
  <2>3. Fx!RequestsAreCounted' /\ Fx!OnlyRequestsAreJoined'
      BY <1>3, <2>1, <2>2 DEF Fx!Requested, Fx!At
  <2>4. Fx!KeptBeforeCached'
      BY <1>1, <2>1, <2>2 DEF Fx!KeptBeforeCached, Fx!At
  <2>5. Fx!ClientsShowLatest'
      BY <1>1, <2>1, <2>2 DEF Fx!ClientsShowLatest, Fx!Waiting
  <2> QED
      BY <1>1, <1>4, <1>13, <2>1, <2>2, <2>3, <2>4, <2>5 DEF Fx!TypeOK
<1>14. ASSUME NEW f \in Procs, Fx!RefreshEnds(f), UNCHANGED Fx!quotes PROVE Fx!IInv'
  <2>1. /\ Fx!At(f, "refresh") /\ x6' = [x6 EXCEPT ![f] = Fx!NoFetch]
        /\ UNCHANGED <<x1, x2, x3, x7, x8, x11>>
      BY <1>14 DEF Fx!RefreshEnds, Fx!RefreshLands
  <2>2. /\ x6' \in [Procs -> FetchType]
        /\ x6'[f] = Fx!NoFetch /\ \A g \in Procs \ {f} : x6'[g] = x6[g]
        /\ x6[f].waiting = {}
      BY <1>1, <2>1 DEF Fx!TypeOK, Fx!NoFetch, Fx!At, Fx!OnlyRequestsAreJoined, Fx!Requested
  <2>3. Fx!RequestsAreCounted' /\ Fx!OnlyRequestsAreJoined'
      BY <1>3, <2>1, <2>2 DEF Fx!Requested, Fx!At, Fx!NoFetch
  <2>4. Fx!KeptBeforeCached'
      BY <1>1, <2>1, <2>2 DEF Fx!KeptBeforeCached, Fx!At
  <2>5. CASE Fx!RefreshLands(f)
    <3>1. /\ x4' = x1 /\ x10' = x1 /\ x5' = TRUE
          /\ x9' = [c \in Clients |-> IF c \in x8 THEN x1 ELSE x9[c]]
        BY <2>5 DEF Fx!RefreshLands, Fx!Stored, Fx!Shown
    <3>2. Fx!ClientsShowLatest'
        BY <1>1, <2>1, <3>1 DEF Fx!ClientsShowLatest, Fx!TypeOK
    <3>3. x9' \in [Clients -> Fx!Rates]
        BY <1>1, <3>1 DEF Fx!TypeOK
    <3> QED
        BY <1>1, <1>4, <1>14, <2>1, <2>2, <2>3, <2>4, <3>1, <3>2, <3>3 DEF Fx!TypeOK
  <2>6. CASE UNCHANGED <<x4, x10, x5, x9>>
    <3>1. \A c : Fx!Waiting(c) => Fx!Waiting(c)'
      <4> SUFFICES ASSUME NEW c, NEW g \in Procs, c \in x6[g].waiting
                   PROVE  c \in x6'[g].waiting
          BY DEF Fx!Waiting
      <4>1. x6[f].waiting = {}
          BY <1>1, <2>1 DEF Fx!At, Fx!OnlyRequestsAreJoined, Fx!Requested
      <4> QED BY <2>2, <4>1
    <3>2. Fx!ClientsShowLatest'
        BY <1>1, <2>1, <2>6, <3>1 DEF Fx!ClientsShowLatest
    <3> QED
        BY <1>1, <1>4, <1>14, <2>1, <2>2, <2>3, <2>4, <2>6, <3>2 DEF Fx!TypeOK
  <2> QED
      BY <1>14, <2>5, <2>6 DEF Fx!RefreshEnds
<1>15. ASSUME Fx!Expire, UNCHANGED Fx!quotes PROVE Fx!IInv'
  <2>1. /\ x4' = 0 /\ x5' = FALSE
        /\ UNCHANGED <<x1, x2, x3, x6, x7, x8, x9, x10, x11>>
      BY <1>15 DEF Fx!Expire
  <2>2. Fx!RequestsAreCounted' /\ Fx!OnlyRequestsAreJoined'
      BY <1>3, <2>1 DEF Fx!Requested
  <2>3. Fx!KeptBeforeCached' /\ Fx!ClientsShowLatest' /\ 0 \in Fx!Rates
      BY <1>1, <2>1 DEF Fx!KeptBeforeCached, Fx!At, Fx!ClientsShowLatest, Fx!Rates
  <2> QED
      BY <1>1, <1>4, <1>15, <2>1, <2>2, <2>3 DEF Fx!TypeOK
<1>16. ASSUME Fx!Clear, UNCHANGED Fx!quotes PROVE Fx!IInv'
  <2>1. /\ x11 < MaxClears /\ x11' = x11 + 1
        /\ x4' = 0 /\ x5' = FALSE /\ x7' \in {x7, {}}
        /\ UNCHANGED <<x1, x2, x3, x6, x8, x9, x10>>
      BY <1>16 DEF Fx!Clear
  <2>2. Fx!RequestsAreCounted'
    <3>1. UnderWay' = UnderWay
        BY <2>1 DEF Fx!Requested, UnderWay
    <3>2. /\ Fx!IsFiniteSet(UnderWay') /\ Fx!Cardinality(UnderWay') <= x11'
          /\ Fx!Cardinality(UnderWay') <= 1 + x11'
        BY <1>2, <2>1, <3>1
    <3> QED
        BY <3>2 DEF Fx!RequestsAreCounted, UnderWay
  <2>a. Fx!OnlyRequestsAreJoined'
      BY <1>1, <2>1 DEF Fx!OnlyRequestsAreJoined, Fx!Requested
  <2>3. Fx!KeptBeforeCached' /\ Fx!ClientsShowLatest' /\ 0 \in Fx!Rates
      BY <1>1, <2>1 DEF Fx!KeptBeforeCached, Fx!At, Fx!ClientsShowLatest, Fx!Rates
  <2>4. x11' \in 0..MaxClears /\ x7' \in SUBSET Procs
      BY <1>1, <2>1 DEF Fx!TypeOK
  <2> QED
      BY <1>1, <1>4, <1>16, <2>1, <2>2, <2>a, <2>3, <2>4 DEF Fx!TypeOK
\* The transaction's rate leaves the market alone.
<1>17. ASSUME UNCHANGED Fx!market, x12' \in Fx!Rates, x13' \in Fx!Rates, x14' \in Fx!Rates,
              x12' = x13', x14' \in {0, x13'}
       PROVE  Fx!IInv'
  <2>1. UNCHANGED <<x1, x2, x3, x4, x5, x6, x7, x8, x9, x10, x11>>
      BY <1>17 DEF Fx!market
  <2>2. Fx!RequestsAreCounted' /\ Fx!OnlyRequestsAreJoined'
      BY <1>3, <2>1 DEF Fx!Requested
  <2>3. Fx!KeptBeforeCached' /\ Fx!ClientsShowLatest'
      BY <1>1, <2>1 DEF Fx!KeptBeforeCached, Fx!At, Fx!ClientsShowLatest, Fx!Waiting
  <2>4. Fx!TypeOK'
      BY <1>1, <1>17, <2>1 DEF Fx!TypeOK
  <2> QED
      BY <1>1, <1>17, <2>1, <2>2, <2>3, <2>4 DEF Fx!IInv, Fx!FirstPromiseIsKept
<1>18. ASSUME NEW c \in Clients, Fx!StoreQuote(c) PROVE Fx!IInv'
  <2>1. /\ x9[c] \in Fx!Rates /\ UNCHANGED <<Fx!market, x14>>
        /\ x12' = (IF x12 = 0 THEN x9[c] ELSE x12)
        /\ x13' = (IF x13 = 0 THEN x9[c] ELSE x13)
      BY <1>1, <1>18 DEF Fx!StoreQuote, Fx!KeptRate, Fx!TypeOK
  <2> QED
      BY <1>1, <1>17, <2>1 DEF Fx!TypeOK, Fx!FirstPromiseIsKept
<1>19. CASE Fx!GetQuote
    BY <1>1, <1>17, <1>19 DEF Fx!GetQuote, Fx!TypeOK
<1>20. CASE UNCHANGED Fx!vars
  <2>1. UNCHANGED Fx!market /\ UNCHANGED <<x12, x13, x14>>
      BY <1>20 DEF Fx!vars, Fx!quotes
  <2> QED
      BY <1>1, <1>17, <2>1 DEF Fx!TypeOK, Fx!FirstPromiseIsKept
<1> QED
    BY <1>5, <1>6, <1>9, <1>10, <1>11, <1>12, <1>13, <1>14, <1>15, <1>16, <1>18, <1>19, <1>20
       DEF Fx!Next, Fx!Following

LEMMA RatesAreRight ==
    Fx!IInv => Fx!OneFetchUnderWay /\ Fx!ClientsShowLatest /\ Fx!FirstPromiseIsKept
BY DEF Fx!IInv, Fx!RequestsAreCounted, Fx!OneFetchUnderWay

-----------------------------------------------------------------------------
(***************************************************************************)
(* AssetVerification: x1 row, x2 contract, x3 cache, x4 work, x5 lost,     *)
(* x6 cut, x7 reports, x8 checks.                                          *)
(***************************************************************************)
Assets == INSTANCE AssetVerification WITH Requests <- Procs, row <- x1, contract <- x2,
    cache <- x3, work <- x4, lost <- x5, cut <- x6, reports <- x7, checks <- x8

\* The operators on finite sets are those of the library.
LEMMA SetsOfAssets ==
    /\ \A S : Assets!Cardinality(S) = Cardinality(S)
    /\ \A S : Assets!IsFiniteSet(S) <=> IsFiniteSet(S)
BY DEF Cardinality, IsFiniteSet, Assets!Cardinality, Assets!IsFiniteSet

WorkType == [at : Assets!Steps, copy : Assets!RowType]

LEMMA EvidenceHasVerdict ==
    ASSUME Assets!AssetAssumption, NEW e \in Evidence
    PROVE  Assets!Verdict(e) \in Assets!VerdictType /\ Assets!Verdict(e).status \in Assets!Statuses
<1> DEFINE x == Assets!StellarExpert(e)
           t == Assets!StellarToml(e)
           l == Assets!Trustlines(e)
           h == Assets!TransactionHistory(e)
           count == Assets!One(x) + Assets!One(t) + Assets!One(l) + Assets!One(h)
           sum == Assets!Points(x) + Assets!Points(t) + Assets!Points(l) + Assets!Points(h)
           score == IF count = 0 THEN 0 ELSE (2 * sum + count) \div (2 * count)
<1>1. e.rating \in 0..5 /\ e.toml \in {"none", "empty", "good"} /\ e.trustlines \in Nat
      /\ e.recent \in 0..200 /\ e.old \in 0..200
  BY DEF Assets!AssetAssumption
<1>2. Assets!Points(x) \in 0..100 * Assets!One(x) /\ Assets!One(x) \in 0..1
  BY <1>1 DEF Assets!StellarExpert, Assets!Points, Assets!One
<1>3. Assets!Points(t) \in 0..100 * Assets!One(t) /\ Assets!One(t) \in 0..1
  BY <1>1 DEF Assets!StellarToml, Assets!Points, Assets!One
<1>4. Assets!Points(l) \in 0..100 * Assets!One(l) /\ Assets!One(l) \in 0..1
  BY <1>1 DEF Assets!Trustlines, Assets!Points, Assets!One
<1>5. Assets!Points(h) \in 0..100 * Assets!One(h) /\ Assets!One(h) \in 0..1
  BY <1>1 DEF Assets!TransactionHistory, Assets!Points, Assets!One
<1>6. score \in 0..100
  <2>1. count \in 0..4 /\ sum \in 0..100 * count
    BY <1>2, <1>3, <1>4, <1>5
  <2> HIDE DEF count, sum
  <2>2. CASE count = 0
    BY <2>2
  <2>3. CASE count = 1
    BY <2>1, <2>3
  <2>4. CASE count = 2
    BY <2>1, <2>4
  <2>5. CASE count = 3
    BY <2>1, <2>5
  <2>6. CASE count = 4
    BY <2>1, <2>6
  <2> QED
    BY <2>1, <2>2, <2>3, <2>4, <2>5, <2>6
<1>7. Assets!Verdict(e).score = score /\ Assets!Verdict(e).status \in Assets!Statuses
      /\ DOMAIN Assets!Verdict(e) = {"score", "status"}
  BY DEF Assets!Verdict, Assets!Statuses
<1> HIDE DEF score
<1> QED
  BY <1>6, <1>7 DEF Assets!VerdictType, Assets!Verdict

\* A worker comes to another step with another row in hand.
LEMMA WorkerMoves ==
    ASSUME Assets!RecordsTyped, NEW w \in Assets!Workers, NEW step \in Assets!Steps, NEW copy \in Assets!RowType,
           Assets!Goto(w, step, copy)
    PROVE  /\ x4' \in [Assets!Workers -> WorkType]
           /\ x4'[w].at = step /\ x4'[w].copy = copy
           /\ \A u \in Assets!Workers \ {w} : x4'[u] = x4[u]
  BY DEF Assets!RecordsTyped, Assets!Goto, WorkType

\* How many reports are being counted, as w comes to another step.
LEMMA CountingMoves ==
    ASSUME Assets!RecordsTyped, Assets!IsFiniteSet(Assets!Counting), NEW w \in Assets!Workers,
           \A u \in Assets!Workers \ {w} : x4'[u] = x4[u]
    PROVE  /\ Assets!IsFiniteSet(Assets!Counting') /\ Assets!Cardinality(Assets!Counting) \in Nat
           /\ Assets!Cardinality(Assets!Counting)' = Assets!Cardinality(Assets!Counting)
                + (IF x4'[w].at = "count" THEN 1 ELSE 0) - (IF x4[w].at = "count" THEN 1 ELSE 0)
<1>1. Assets!Cardinality(Assets!Counting) \in Nat
  BY FS_CardinalityType, SetsOfAssets
<1>2. CASE x4'[w].at = "count" /\ x4[w].at # "count"
  <2>1. Assets!Counting' = Assets!Counting \cup {w} /\ w \notin Assets!Counting
    BY <1>2 DEF Assets!Counting
  <2> QED
    BY <1>1, <1>2, <2>1, FS_AddElement, SetsOfAssets
<1>3. CASE x4'[w].at # "count" /\ x4[w].at = "count"
  <2>1. Assets!Counting' = Assets!Counting \ {w} /\ w \in Assets!Counting
    BY <1>3 DEF Assets!Counting
  <2> QED
    BY <1>1, <1>3, <2>1, FS_RemoveElement, SetsOfAssets
<1>4. CASE (x4'[w].at = "count") = (x4[w].at = "count")
  <2>1. Assets!Counting' = Assets!Counting
    BY <1>4 DEF Assets!Counting
  <2> QED
    BY <1>1, <1>4, <2>1
<1> QED
  BY <1>2, <1>3, <1>4

LEMMA AssetsBegin == Assets!AssetAssumption /\ Assets!Init => Assets!IInv
<1> SUFFICES ASSUME Assets!AssetAssumption, Assets!Init PROVE Assets!IInv
  OBVIOUS
<1>1. Assets!NoRow \in Assets!RowType /\ Assets!NoVerdict \in Assets!VerdictType /\ Assets!NoRow.reports = 0
  BY DEF Assets!NoRow, Assets!NoVerdict, Assets!RowType, Assets!VerdictType
<1>2. Assets!Counting = {}
  BY DEF Assets!Init, Assets!Counting, Assets!Idle
<1>3. Assets!IsFiniteSet(Assets!Counting) /\ Assets!Cardinality(Assets!Counting) = 0
  BY <1>2, FS_EmptySet, SetsOfAssets
<1>4. Assets!RecordsTyped
  <2>1. Assets!Idle \in WorkType
    BY <1>1 DEF Assets!Idle, WorkType, Assets!Steps
  <2>2. 0 \in 0..MaxReports /\ 0 \in 0..MaxChecks
    BY DEF Assets!AssetAssumption
  <2> HIDE DEF Assets!Idle, Assets!NoRow, Assets!NoVerdict
  <2> QED
    BY <1>1, <2>1, <2>2 DEF Assets!Init, Assets!RecordsTyped, WorkType
<1>7. Assets!InHand
  BY DEF Assets!Init, Assets!InHand, Assets!Idle
<1>5. Assets!ReportsCounted
  BY <1>1, <1>3 DEF Assets!Init, Assets!ReportsCounted, Assets!Idle
<1>6. Assets!MarkedOrAtIt /\ Assets!ToldOrAtIt
  BY DEF Assets!Init, Assets!MarkedOrAtIt, Assets!ToldOrAtIt, Assets!NoRow, Assets!Threshold
<1> QED
  BY <1>4, <1>5, <1>6, <1>7 DEF Assets!IInv

LEMMA AssetsHold == Assets!IInv => Assets!ReportedIsSuspicious /\ Assets!ContractFollowsRow
  BY DEF Assets!IInv, Assets!MarkedOrAtIt, Assets!ToldOrAtIt, Assets!ReportedIsSuspicious,
     Assets!ContractFollowsRow, Assets!Quiet

LEMMA AssetsTyped == Assets!AssetAssumption /\ Assets!IInv => Assets!AssetTypeOK
<1> SUFFICES ASSUME Assets!AssetAssumption, Assets!IInv PROVE Assets!AssetTypeOK
  OBVIOUS
<1>1. Assets!Cardinality(Assets!Counting) \in Nat
  BY FS_CardinalityType, SetsOfAssets DEF Assets!IInv, Assets!ReportsCounted
<1>2. x1 \in Assets!RowType /\ x1.reports \in Nat /\ x1.reports <= MaxReports
  BY <1>1 DEF Assets!IInv, Assets!RecordsTyped, Assets!ReportsCounted, Assets!RowType,
     Assets!AssetAssumption
<1>3. \A w \in Assets!Workers : x4[w].at \in Assets!Steps /\ x4[w].copy.reports <= MaxReports
  BY <1>1 DEF Assets!IInv, Assets!RecordsTyped, Assets!ReportsCounted, Assets!RowType,
     Assets!AssetAssumption
<1>4. x1 \in [status : Assets!Statuses \cup {"none"}, score : 0..100, reports : 0..MaxReports]
  BY <1>2 DEF Assets!RowType, Assets!AssetAssumption
<1> QED
  BY <1>3, <1>4 DEF Assets!AssetTypeOK, Assets!IInv, Assets!RecordsTyped, Assets!Steps,
     Assets!VerdictType

LEMMA AssetsStep ==
    Assets!AssetAssumption /\ Assets!IInv /\ (Assets!Next \/ UNCHANGED Assets!vars) => Assets!IInv'
<1> SUFFICES ASSUME Assets!AssetAssumption, Assets!IInv, (Assets!Next \/ UNCHANGED Assets!vars)
             PROVE  Assets!IInv'
  OBVIOUS
<1>0. /\ Assets!RecordsTyped /\ Assets!InHand /\ Assets!ReportsCounted /\ Assets!MarkedOrAtIt /\ Assets!ToldOrAtIt
      /\ MaxReports \in Nat /\ MaxChecks \in Nat
      /\ \A w \in Assets!Workers : x4[w] \in WorkType /\ x4[w].copy \in Assets!RowType /\ x4[w].at \in Assets!Steps
      /\ x1 \in Assets!RowType /\ Assets!NoRow \in Assets!RowType
      /\ Assets!IsFiniteSet(Assets!Counting) /\ Assets!Cardinality(Assets!Counting) \in Nat
      /\ \A w \in Assets!Workers : x4[w].copy.reports \in Nat /\ x4[w].copy.status \in Assets!Statuses \cup {"none"}
      /\ x1.reports \in Nat /\ x7 \in Nat /\ Assets!NoRow.reports = 0 /\ Assets!NoRow.status = "none"
  <2>1. /\ Assets!RecordsTyped /\ Assets!InHand /\ Assets!ReportsCounted /\ Assets!MarkedOrAtIt /\ Assets!ToldOrAtIt
        /\ MaxReports \in Nat /\ MaxChecks \in Nat
    BY DEF Assets!IInv, Assets!AssetAssumption
  <2>2. Assets!IsFiniteSet(Assets!Counting) /\ Assets!Cardinality(Assets!Counting) \in Nat
    BY <2>1, FS_CardinalityType, SetsOfAssets DEF Assets!ReportsCounted
  <2>3. Assets!NoRow \in Assets!RowType /\ Assets!NoRow.reports = 0 /\ Assets!NoRow.status = "none"
    BY DEF Assets!NoRow, Assets!RowType
  <2>4. /\ \A w \in Assets!Workers : x4[w] \in WorkType /\ x4[w].copy \in Assets!RowType /\ x4[w].at \in Assets!Steps
        /\ x1 \in Assets!RowType /\ x7 \in Nat
    BY <2>1 DEF Assets!RecordsTyped, WorkType
  <2>5. /\ \A w \in Assets!Workers : x4[w].copy.reports \in Nat /\ x4[w].copy.status \in Assets!Statuses \cup {"none"}
        /\ x1.reports \in Nat
    BY <2>4 DEF Assets!RowType
  <2> QED
    BY <2>1, <2>2, <2>3, <2>4, <2>5
\* A worker at one step comes to another.
<1> DEFINE Comes(w, step, copy) ==
        /\ x4' \in [Assets!Workers -> WorkType]
        /\ x4'[w].at = step /\ x4'[w].copy = copy
        /\ \A u \in Assets!Workers \ {w} : x4'[u] = x4[u]
        /\ Assets!IsFiniteSet(Assets!Counting')
        /\ Assets!Cardinality(Assets!Counting)' = Assets!Cardinality(Assets!Counting)
             + (IF step = "count" THEN 1 ELSE 0) - (IF x4[w].at = "count" THEN 1 ELSE 0)
<1>1. ASSUME NEW w \in Assets!Workers, NEW step \in Assets!Steps, NEW copy \in Assets!RowType, Assets!Goto(w, step, copy)
      PROVE  Comes(w, step, copy)
  <2>1. /\ x4' \in [Assets!Workers -> WorkType]
        /\ x4'[w].at = step /\ x4'[w].copy = copy
        /\ \A u \in Assets!Workers \ {w} : x4'[u] = x4[u]
    BY <1>0, <1>1, WorkerMoves
  <2> QED
    BY <1>0, <2>1, CountingMoves
\* What is left to show of it.
<1>2. ASSUME NEW w \in Assets!Workers, NEW step \in Assets!Steps, NEW copy \in Assets!RowType, Assets!Goto(w, step, copy),
             /\ x1' \in Assets!RowType /\ x2' \in Assets!Statuses \cup {"none"}
             /\ x3' \in [{"api", "scheduler"} -> Assets!VerdictType]
             /\ x5' \in BOOLEAN /\ x6' \in BOOLEAN
             /\ x7' \in 0..MaxReports /\ x8' \in 0..MaxChecks,
             \A v \in {"api", "scheduler"} : x3'[v] # Assets!NoVerdict => x3'[v].status \in Assets!Statuses,
             step \in {"save", "mark"} => copy.status \in Assets!Statuses,
             step = "mark" => copy.status = "suspicious",
             Comes(w, step, copy) =>
                 /\ x7' - x7 >= Assets!Cardinality(Assets!Counting)' - Assets!Cardinality(Assets!Counting)
                 /\ x1'.reports + Assets!Cardinality(Assets!Counting)' <= x7'
                 /\ copy.reports + Assets!Cardinality(Assets!Counting)' <= x7'
                 /\ Assets!MarkedOrAtIt' /\ Assets!ToldOrAtIt'
      PROVE  Assets!IInv'
  <2>1. Comes(w, step, copy)
    BY <1>1, <1>2
  <2>2. Assets!RecordsTyped'
    BY <1>2, <2>1 DEF Assets!RecordsTyped, WorkType
  <2>3. Assets!InHand'
    BY <1>0, <1>2, <2>1 DEF Assets!InHand
  <2>4. Assets!ReportsCounted'
    <3> SUFFICES ASSUME NEW u \in Assets!Workers'
                 PROVE  x4'[u].copy.reports + Assets!Cardinality(Assets!Counting)' <= x7'
      BY <1>2, <2>1 DEF Assets!ReportsCounted
    <3>1. CASE u = w
      BY <1>2, <2>1, <3>1
    <3>2. CASE u # w
      <4>1. u \in Assets!Workers /\ x4'[u] = x4[u]
        BY <2>1, <3>2 DEF Assets!Workers
      <4>2. x4[u].copy.reports + Assets!Cardinality(Assets!Counting) <= x7
        BY <1>0, <4>1 DEF Assets!ReportsCounted
      <4> QED
        BY <1>0, <1>2, <2>1, <4>1, <4>2
    <3> QED
      BY <3>1, <3>2
  <2> QED
    BY <1>2, <2>1, <2>2, <2>3, <2>4 DEF Assets!IInv
\* A row in need of a mark, or of a word to the contract, still has somebody at it.
<1>3. ASSUME NEW w \in Assets!Workers, NEW step, NEW copy, Comes(w, step, copy), UNCHANGED x1,
             x6 => x6', x4[w].at \in {"check", "mark"} => step \in {"check", "mark"} \/ x6'
      PROVE  Assets!MarkedOrAtIt'
  BY <1>0, <1>3 DEF Assets!MarkedOrAtIt, Assets!Workers
<1>4. ASSUME NEW w \in Assets!Workers, NEW step, NEW copy, Comes(w, step, copy),
             x1'.status = x1.status, UNCHANGED x2,
             x5 => x5', x4[w].at = "tell" => x5'
      PROVE  Assets!ToldOrAtIt'
  BY <1>0, <1>4 DEF Assets!ToldOrAtIt, Assets!Workers
<1>5. \A w \in Assets!Workers : \A step, copy : Comes(w, step, copy) =>
         Assets!Cardinality(Assets!Counting)' = Assets!Cardinality(Assets!Counting)
           + (IF step = "count" THEN 1 ELSE 0) - (IF x4[w].at = "count" THEN 1 ELSE 0)
  OBVIOUS
<1>6. /\ x1.reports + Assets!Cardinality(Assets!Counting) <= x7
      /\ \A w \in Assets!Workers : x4[w].copy.reports + Assets!Cardinality(Assets!Counting) <= x7
      /\ x2 \in Assets!Statuses \cup {"none"} /\ x3 \in [{"api", "scheduler"} -> Assets!VerdictType]
      /\ x5 \in BOOLEAN /\ x6 \in BOOLEAN /\ x7 \in 0..MaxReports /\ x8 \in 0..MaxChecks
      /\ \A v \in {"api", "scheduler"} : x3[v] # Assets!NoVerdict => x3[v].status \in Assets!Statuses
      /\ \A w \in Assets!Workers :
          /\ x4[w].at \in {"save", "mark"} => x4[w].copy.status \in Assets!Statuses
          /\ x4[w].at = "mark" => x4[w].copy.status = "suspicious"
  BY <1>0 DEF Assets!RecordsTyped, Assets!ReportsCounted, Assets!InHand
<1> HIDE DEF Comes

<1>10. ASSUME NEW w \in Assets!Workers, NEW counted \in Nat, counted + Assets!Cardinality(Assets!Counting) <= x7,
              Assets!Begins(w, counted)
       PROVE  Assets!IInv'
  <2> DEFINE v == Assets!VerifierOf(w)
  <2>1. /\ x4[w].at = "idle" /\ x8 < MaxChecks /\ x8' = x8 + 1
        /\ UNCHANGED <<x1, x2, x3, x5, x6, x7>>
        /\ x8' \in 0..MaxChecks
    BY <1>0, <1>6, <1>10 DEF Assets!Begins
  <2>2. v \in {"api", "scheduler"} /\ x3[v] \in Assets!VerdictType
    BY <1>6 DEF Assets!VerifierOf
  <2>3. PICK step \in {"save", "ask"}, copy \in Assets!RowType :
            /\ Assets!Goto(w, step, copy) /\ copy.reports = counted
            /\ step = "save" => copy.status \in Assets!Statuses
    <3> HIDE DEF v
    <3>1. CASE x3[v] # Assets!NoVerdict
      <4> DEFINE copy == [status |-> x3[v].status, score |-> x3[v].score, reports |-> counted]
      <4>1. copy \in Assets!RowType /\ copy.reports = counted /\ copy.status = x3[v].status
        BY <2>2 DEF Assets!VerdictType, Assets!RowType
      <4>2. Assets!Goto(w, "save", copy)
        BY <1>10, <3>1 DEF Assets!Begins, v
      <4>3. copy.status \in Assets!Statuses
        BY <1>6, <2>2, <3>1, <4>1
      <4> HIDE DEF copy
      <4> QED
        BY <4>1, <4>2, <4>3
    <3>2. CASE x3[v] = Assets!NoVerdict
      <4> DEFINE copy == [Assets!NoRow EXCEPT !.reports = counted]
      <4>1. copy \in Assets!RowType /\ copy.reports = counted
        BY <1>0 DEF Assets!RowType, Assets!NoRow
      <4>2. Assets!Goto(w, "ask", copy)
        BY <1>10, <3>2 DEF Assets!Begins, v
      <4> HIDE DEF copy
      <4> QED
        BY <4>1, <4>2
    <3> QED
      BY <3>1, <3>2
  <2>4. step \in Assets!Steps /\ step # "mark" /\ step # "count"
    BY DEF Assets!Steps
  <2>5. Comes(w, step, copy) => Assets!MarkedOrAtIt' /\ Assets!ToldOrAtIt'
    BY <1>3, <1>4, <2>1
  <2>6. Comes(w, step, copy) => Assets!Cardinality(Assets!Counting)' = Assets!Cardinality(Assets!Counting)
    BY <1>0, <1>5, <2>1, <2>4
  <2> QED
    BY <1>0, <1>2, <1>6, <1>10, <2>1, <2>3, <2>4, <2>5, <2>6
<1>11. ASSUME NEW w \in Assets!Workers, Assets!BeginVerify(w) PROVE Assets!IInv'
  BY <1>0, <1>6, <1>10, <1>11 DEF Assets!BeginVerify
<1>12. CASE Assets!BeginRevalidate
  BY <1>0, <1>6, <1>10, <1>12 DEF Assets!BeginRevalidate, Assets!Workers
<1>13. ASSUME NEW w \in Assets!Workers, NEW e \in Evidence, Assets!Answered(w, e) PROVE Assets!IInv'
  <2> DEFINE copy == [status |-> Assets!Verdict(e).status, score |-> Assets!Verdict(e).score,
                      reports |-> x4[w].copy.reports]
  <2>1. /\ x4[w].at = "ask" /\ Assets!Goto(w, "save", copy)
        /\ x3' = [x3 EXCEPT ![Assets!VerifierOf(w)] = Assets!Verdict(e)]
        /\ UNCHANGED <<x1, x2, x5, x6, x7, x8>>
    BY <1>13 DEF Assets!Answered
  <2>2. Assets!Verdict(e) \in Assets!VerdictType /\ Assets!Verdict(e).status \in Assets!Statuses
    BY EvidenceHasVerdict
  <2>3. copy \in Assets!RowType /\ copy.status \in Assets!Statuses /\ copy.reports = x4[w].copy.reports
    BY <1>0, <2>2 DEF Assets!VerdictType, Assets!RowType
  <2>4. /\ x3' \in [{"api", "scheduler"} -> Assets!VerdictType]
        /\ \A v \in {"api", "scheduler"} : x3'[v] # Assets!NoVerdict => x3'[v].status \in Assets!Statuses
    BY <1>6, <2>1, <2>2
  <2> HIDE DEF copy
  <2>5. Comes(w, "save", copy) => Assets!MarkedOrAtIt' /\ Assets!ToldOrAtIt'
    BY <1>3, <1>4, <2>1
  <2>6. Comes(w, "save", copy) => Assets!Cardinality(Assets!Counting)' = Assets!Cardinality(Assets!Counting)
    BY <1>0, <1>5, <2>1
  <2>7. "save" \in Assets!Steps
    BY DEF Assets!Steps
  <2> QED
    BY <1>0, <1>2, <1>6, <2>1, <2>3, <2>4, <2>5, <2>6, <2>7
<1>14. ASSUME NEW w \in Assets!Workers, x4[w].at \in {"save", "mark"}, Assets!Saves(w),
              x6' \/ (x4[w].at = "mark" /\ x6' = FALSE), x6' \in BOOLEAN
       PROVE  Assets!IInv'
  <2> DEFINE copy == x4[w].copy
  <2>1. /\ copy \in Assets!RowType /\ copy.status \in Assets!Statuses
        /\ x4[w].at = "mark" => copy.status = "suspicious"
    BY <1>0, <1>6, <1>14
  <2>2. /\ x1' = copy /\ Assets!Goto(w, "tell", copy)
        /\ UNCHANGED <<x2, x3, x7, x8, x5>>
    BY <1>14, <2>1 DEF Assets!Saves, Assets!TellsContract
  <2>3. copy.reports + Assets!Cardinality(Assets!Counting) <= x7
    BY <1>6
  <2> HIDE DEF copy
  <2>4. Assets!MarkedOrAtIt'
    BY <1>14, <2>1, <2>2 DEF Assets!MarkedOrAtIt
  <2>5. Comes(w, "tell", copy) => Assets!ToldOrAtIt'
    BY DEF Assets!ToldOrAtIt, Comes, Assets!Workers
  <2>6. Comes(w, "tell", copy) => Assets!Cardinality(Assets!Counting)' = Assets!Cardinality(Assets!Counting)
    BY <1>0, <1>5, <1>14
  <2>7. "tell" \in Assets!Steps
    BY DEF Assets!Steps
  <2> QED
    BY <1>0, <1>2, <1>6, <1>14, <2>1, <2>2, <2>3, <2>4, <2>5, <2>6, <2>7
<1>15. ASSUME NEW w \in Assets!Workers, Assets!SaveVerified(w) \/ Assets!MarkSuspicious(w)
       PROVE  Assets!IInv'
  BY <1>14, <1>15 DEF Assets!SaveVerified, Assets!MarkSuspicious
<1>16. ASSUME NEW w \in Assets!Workers, Assets!BeginReport(w) PROVE Assets!IInv'
  <2>1. /\ x4[w].at = "idle" /\ x7 < MaxReports /\ x7' = x7 + 1
        /\ Assets!Goto(w, "count", Assets!NoRow) /\ UNCHANGED <<x1, x2, x3, x5, x6, x8>>
    BY <1>16 DEF Assets!BeginReport
  <2>2. Comes(w, "count", Assets!NoRow) => Assets!MarkedOrAtIt' /\ Assets!ToldOrAtIt'
    BY <1>3, <1>4, <2>1
  <2>3. Comes(w, "count", Assets!NoRow) => Assets!Cardinality(Assets!Counting)' = Assets!Cardinality(Assets!Counting) + 1
    BY <1>0, <1>5, <2>1
  <2>4. "count" \in Assets!Steps /\ x7' \in 0..MaxReports
    BY <1>0, <1>6, <2>1 DEF Assets!Steps
  <2> QED
    BY <1>0, <1>2, <1>6, <2>1, <2>2, <2>3, <2>4
<1>17. ASSUME NEW w \in Assets!Workers, Assets!CountReport(w) PROVE Assets!IInv'
  <2>1. /\ x4[w].at = "count" /\ x1' = [x1 EXCEPT !.reports = @ + 1]
        /\ Assets!Goto(w, "check", Assets!NoRow) /\ UNCHANGED <<x2, x3, x5, x6, x7, x8>>
    BY <1>17 DEF Assets!CountReport
  <2>2. x1' \in Assets!RowType /\ x1'.reports = x1.reports + 1 /\ x1'.status = x1.status
    BY <1>0, <2>1 DEF Assets!RowType
  <2>3. Comes(w, "check", Assets!NoRow) => Assets!MarkedOrAtIt'
    BY DEF Assets!MarkedOrAtIt, Comes, Assets!Workers
  <2>4. Comes(w, "check", Assets!NoRow) => Assets!ToldOrAtIt'
    BY <1>4, <2>1, <2>2
  <2>5. Comes(w, "check", Assets!NoRow) => Assets!Cardinality(Assets!Counting)' = Assets!Cardinality(Assets!Counting) - 1
    BY <1>0, <1>5, <2>1
  <2>6. "check" \in Assets!Steps
    BY DEF Assets!Steps
  <2> QED
    BY <1>0, <1>2, <1>6, <2>1, <2>2, <2>3, <2>4, <2>5, <2>6
<1>18. ASSUME NEW w \in Assets!Workers, Assets!CheckReports(w), Assets!TooManyReports(x1)
       PROVE  Assets!IInv'
  <2> DEFINE copy == [status |-> "suspicious", reports |-> x1.reports,
                      score |-> IF x1.score > 30 THEN 30 ELSE x1.score]
  <2>1. /\ x4[w].at = "check" /\ Assets!Goto(w, "mark", copy) /\ x6' = FALSE
        /\ UNCHANGED <<x1, x2, x3, x5, x7, x8>>
    BY <1>18 DEF Assets!CheckReports
  <2>2. copy \in Assets!RowType /\ copy.status = "suspicious" /\ copy.reports = x1.reports
        /\ "suspicious" \in Assets!Statuses
    BY <1>0 DEF Assets!RowType, Assets!Statuses
  <2> HIDE DEF copy
  <2>3. Comes(w, "mark", copy) => Assets!MarkedOrAtIt'
    BY DEF Assets!MarkedOrAtIt, Comes, Assets!Workers
  <2>4. Comes(w, "mark", copy) => Assets!ToldOrAtIt'
    BY <1>4, <2>1
  <2>5. Comes(w, "mark", copy) => Assets!Cardinality(Assets!Counting)' = Assets!Cardinality(Assets!Counting)
    BY <1>0, <1>5, <2>1
  <2>6. "mark" \in Assets!Steps /\ x6' \in BOOLEAN
    BY <2>1 DEF Assets!Steps
  <2> QED
    BY <1>0, <1>2, <1>6, <2>1, <2>2, <2>3, <2>4, <2>5, <2>6
<1>19. ASSUME NEW w \in Assets!Workers, Assets!CheckReports(w), ~Assets!TooManyReports(x1)
       PROVE  Assets!IInv'
  <2>1. /\ x4[w].at = "check" /\ Assets!Goto(w, "idle", Assets!NoRow) /\ x6' = FALSE
        /\ UNCHANGED <<x1, x2, x3, x5, x7, x8>>
    BY <1>19 DEF Assets!CheckReports
  <2>2. Assets!MarkedOrAtIt'
    BY <1>19, <2>1 DEF Assets!MarkedOrAtIt, Assets!TooManyReports
  <2>3. Comes(w, "idle", Assets!NoRow) => Assets!ToldOrAtIt'
    BY <1>4, <2>1
  <2>4. Comes(w, "idle", Assets!NoRow) => Assets!Cardinality(Assets!Counting)' = Assets!Cardinality(Assets!Counting)
    BY <1>0, <1>5, <2>1
  <2>5. "idle" \in Assets!Steps /\ x6' \in BOOLEAN
    BY <2>1 DEF Assets!Steps
  <2> QED
    BY <1>0, <1>2, <1>6, <2>1, <2>2, <2>3, <2>4, <2>5
<1>20. ASSUME NEW w \in Assets!Workers, Assets!Tell(w) \/ Assets!TellFails(w) PROVE Assets!IInv'
  <2>1. /\ x4[w].at = "tell" /\ Assets!Goto(w, "idle", Assets!NoRow)
        /\ UNCHANGED <<x1, x3, x6, x7, x8>>
        /\ x5' \in BOOLEAN /\ x2' \in Assets!Statuses \cup {"none"}
        /\ x2' = x1'.status \/ x5'
    <3>1. CASE Assets!Tell(w)
      BY <1>0, <3>1 DEF Assets!Tell
    <3>2. CASE Assets!TellFails(w)
      BY <1>0, <3>2 DEF Assets!TellFails, Assets!RecordsTyped
    <3> QED
      BY <1>20, <3>1, <3>2
  <2>2. Assets!ToldOrAtIt'
    BY <2>1 DEF Assets!ToldOrAtIt
  <2>3. Comes(w, "idle", Assets!NoRow) => Assets!MarkedOrAtIt'
    BY <1>3, <2>1
  <2>4. Comes(w, "idle", Assets!NoRow) => Assets!Cardinality(Assets!Counting)' = Assets!Cardinality(Assets!Counting)
    BY <1>0, <1>5, <2>1
  <2>5. "idle" \in Assets!Steps
    BY DEF Assets!Steps
  <2> QED
    BY <1>0, <1>2, <1>6, <2>1, <2>2, <2>3, <2>4, <2>5
<1>21. ASSUME NEW w \in Assets!Workers, Assets!GivesUp(w) PROVE Assets!IInv'
  <2>1. /\ x4[w].at \in {"save", "count", "check", "mark"} /\ Assets!Goto(w, "idle", Assets!NoRow)
        /\ x6' = (x6 \/ x4[w].at \in {"check", "mark"})
        /\ UNCHANGED <<x1, x2, x3, x5, x7, x8>>
    BY <1>21 DEF Assets!GivesUp
  <2>2. Comes(w, "idle", Assets!NoRow) => Assets!MarkedOrAtIt' /\ Assets!ToldOrAtIt'
    BY <1>3, <1>4, <2>1
  <2>3. Comes(w, "idle", Assets!NoRow) => Assets!Cardinality(Assets!Counting)' <= Assets!Cardinality(Assets!Counting)
                                          /\ Assets!Cardinality(Assets!Counting)' \in Int
    BY <1>0, <1>5, <2>1
  <2>4. "idle" \in Assets!Steps /\ x6' \in BOOLEAN
    BY <2>1 DEF Assets!Steps
  <2> QED
    BY <1>0, <1>2, <1>6, <2>1, <2>2, <2>3, <2>4
<1>22. ASSUME NEW v \in {"api", "scheduler"}, Assets!CacheExpires(v) PROVE Assets!IInv'
  <2>1. x3' = [x3 EXCEPT ![v] = Assets!NoVerdict]
        /\ UNCHANGED <<x1, x2, x4, x5, x6, x7, x8>>
    BY <1>22 DEF Assets!CacheExpires
  <2>2. Assets!NoVerdict \in Assets!VerdictType
    BY DEF Assets!NoVerdict, Assets!VerdictType
  <2>3. Assets!RecordsTyped'
    BY <1>0, <2>1, <2>2 DEF Assets!RecordsTyped
  <2>4. Assets!InHand'
    BY <1>6, <2>1 DEF Assets!InHand
  <2>5. Assets!ReportsCounted' /\ Assets!MarkedOrAtIt' /\ Assets!ToldOrAtIt'
    BY <1>0, <2>1 DEF Assets!ReportsCounted, Assets!MarkedOrAtIt, Assets!ToldOrAtIt,
       Assets!Counting, Assets!Workers
  <2> QED
    BY <2>3, <2>4, <2>5 DEF Assets!IInv
<1>23. CASE Assets!Restart
  <2>1. /\ x3' = [v \in {"api", "scheduler"} |-> Assets!NoVerdict]
        /\ x4' = [w \in Assets!Workers |-> Assets!Idle]
        /\ x5' = (x5 \/ \E w \in Assets!Workers : x4[w].at = "tell")
        /\ x6' = (x6 \/ \E w \in Assets!Workers : x4[w].at \in {"check", "mark"})
        /\ UNCHANGED <<x1, x7, x8>>
        /\ x2' \in {x2} \cup
             {x4[w].copy.status : w \in {v \in Assets!Workers : x4[v].at = "tell"}}
    BY <1>23 DEF Assets!Restart
  <2>7. x2' = x2 \/ \E w \in Assets!Workers : x4[w].at = "tell"
    BY <2>1
  <2>8. x2' \in Assets!Statuses \cup {"none"}
    BY <1>0, <2>1 DEF Assets!RecordsTyped
  <2>2. Assets!NoVerdict \in Assets!VerdictType /\ Assets!Idle \in WorkType /\ Assets!Idle.at = "idle" /\ Assets!Idle.copy = Assets!NoRow
    BY <1>0 DEF Assets!NoVerdict, Assets!VerdictType, Assets!Idle, WorkType, Assets!Steps
  <2>3. Assets!RecordsTyped'
    BY <1>6, <1>0, <2>1, <2>2, <2>8 DEF Assets!RecordsTyped, WorkType, Assets!Workers
  <2>4. Assets!InHand'
    BY <2>1, <2>2 DEF Assets!InHand, Assets!Workers
  <2>5. Assets!ReportsCounted'
    <3>1. Assets!Counting' = {}
      BY <2>1, <2>2 DEF Assets!Counting, Assets!Workers
    <3>2. Assets!IsFiniteSet(Assets!Counting') /\ Assets!Cardinality(Assets!Counting)' = 0
      BY <3>1, FS_EmptySet, SetsOfAssets
    <3> QED
      BY <1>0, <1>6, <2>1, <2>2, <3>2 DEF Assets!ReportsCounted, Assets!Workers
  <2>6. Assets!MarkedOrAtIt' /\ Assets!ToldOrAtIt'
    BY <1>0, <2>1, <2>7 DEF Assets!MarkedOrAtIt, Assets!ToldOrAtIt
  <2> QED
    BY <2>3, <2>4, <2>5, <2>6 DEF Assets!IInv
<1>24. CASE UNCHANGED Assets!vars
  BY <1>0, <1>24 DEF Assets!vars, Assets!IInv, Assets!RecordsTyped, Assets!InHand,
     Assets!ReportsCounted, Assets!MarkedOrAtIt, Assets!ToldOrAtIt,
                     Assets!Counting, Assets!Workers
<1> QED
  BY <1>11, <1>12, <1>13, <1>15, <1>16, <1>17, <1>18, <1>19, <1>20, <1>21, <1>22, <1>23, <1>24
     DEF Assets!Next

-----------------------------------------------------------------------------
(***************************************************************************)
(* WebhookRegistry: x1 inDatabase, x2 sub, x3 caller, x4 crowded, x5 heard. *)
(***************************************************************************)
Registry == INSTANCE WebhookRegistry WITH Callers <- Procs, Limit <- WebhookLimit, Kinds <- EventKinds,
    inDatabase <- x1, sub <- x2, caller <- x3, crowded <- x4, heard <- x5

\* The operators on finite sets are those of the library.
LEMMA SetsOfRegistry ==
    /\ \A S : Registry!Cardinality(S) = Cardinality(S)
    /\ \A S : Registry!IsFiniteSet(S) <=> IsFiniteSet(S)
BY DEF Cardinality, IsFiniteSet, Registry!Cardinality, Registry!IsFiniteSet

LEMMA RegistryCounts ==
    ASSUME Registry!RegistryAssumption
    PROVE  /\ Registry!IsFiniteSet(Registry!Active) /\ Registry!Cardinality(Registry!Active) \in Nat
           /\ Registry!IsFiniteSet(Registry!Past) /\ Registry!Cardinality(Registry!Past) \in Nat
<1>1. Registry!Active \in SUBSET Urls /\ Registry!Past \in SUBSET Procs
    BY DEF Registry!Active, Registry!Past
<1>2. Registry!IsFiniteSet(Urls) /\ Registry!IsFiniteSet(Procs)
    BY DEF Registry!RegistryAssumption
<1>3. Registry!IsFiniteSet(Registry!Active) /\ Registry!IsFiniteSet(Registry!Past)
    BY <1>1, <1>2, FS_Subset, SetsOfRegistry
<1> QED
    BY <1>3, FS_CardinalityType, SetsOfRegistry

LEMMA RegistryBegins == Registry!RegistryAssumption /\ Registry!Init => Registry!IInv
<1> SUFFICES ASSUME Registry!RegistryAssumption, Registry!Init PROVE Registry!IInv
    OBVIOUS
<1>1. Registry!Active = {} /\ Registry!Past = {}
    BY DEF Registry!Init, Registry!Active, Registry!Past, Registry!NoSub
<1>2. Registry!TypeOK /\ x5 \in [Urls -> SUBSET Registry!Heard]
    BY DEF Registry!Init, Registry!TypeOK, Registry!NoSub
<1>3. Registry!Cardinality(Registry!Active) = 0 /\ Registry!Cardinality(Registry!Past) = 0
    BY <1>1, FS_EmptySet, SetsOfRegistry
<1> QED
    BY <1>2, <1>3 DEF Registry!IInv, Registry!RegistryAssumption

LEMMA RegistryStep ==
    Registry!RegistryAssumption /\ Registry!IInv /\ (Registry!Next \/ UNCHANGED Registry!vars) => Registry!IInv'
<1> SUFFICES ASSUME Registry!RegistryAssumption, Registry!IInv, (Registry!Next \/ UNCHANGED Registry!vars)
             PROVE  Registry!IInv'
    OBVIOUS
<1> DEFINE SubType == [state : {"none", "active", "inactive"}, events : {{}} \cup EventKinds]
           Fits(a, p, x) == x \/ Registry!Cardinality(a) + Registry!Cardinality(p) <= WebhookLimit
<1>1. /\ x1 \in BOOLEAN /\ x4 \in BOOLEAN /\ x2 \in [Urls -> SubType]
      /\ x3 \in [Procs -> Urls \cup {Registry!NoUrl}] /\ x5 \in [Urls -> SUBSET Registry!Heard]
      /\ Fits(Registry!Active, Registry!Past, x4)
    BY DEF Registry!IInv, Registry!TypeOK
<1>2. /\ Registry!IsFiniteSet(Registry!Active) /\ Registry!Cardinality(Registry!Active) \in Nat
      /\ Registry!IsFiniteSet(Registry!Past) /\ Registry!Cardinality(Registry!Past) \in Nat /\ WebhookLimit \in Nat
    BY RegistryCounts DEF Registry!RegistryAssumption
\* Fewer are active or past the limit.
<1>3. ASSUME NEW a, NEW p, a \subseteq Registry!Active, p \subseteq Registry!Past
      PROVE  Fits(a, p, x4)
  <2>1. /\ Registry!Cardinality(a) <= Registry!Cardinality(Registry!Active) /\ Registry!Cardinality(a) \in Nat
        /\ Registry!Cardinality(p) <= Registry!Cardinality(Registry!Past) /\ Registry!Cardinality(p) \in Nat
      BY <1>2, <1>3, FS_Subset, FS_CardinalityType, SetsOfRegistry
  <2> QED
      BY <1>1, <1>2, <2>1
<1>4. ASSUME NEW c \in Procs, NEW u \in Urls, Registry!CheckLimit(c, u) PROVE Registry!IInv'
  <2>1. /\ x3' = [x3 EXCEPT ![c] = u] /\ x3[c] = Registry!NoUrl
        /\ Registry!Cardinality(Registry!Active) < WebhookLimit
        /\ x4' = (x4 \/ (Registry!Past # {} /\ Registry!Cardinality(Registry!Active) + Registry!Cardinality(Registry!Past) >= WebhookLimit))
        /\ UNCHANGED <<x1, x2, x5>>
      BY <1>4 DEF Registry!CheckLimit, Registry!Room
  <2>2. /\ x3' \in [Procs -> Urls \cup {Registry!NoUrl}]
        /\ \A d \in Procs : x3'[d] = IF d = c THEN u ELSE x3[d]
      BY <1>1, <2>1
  <2>3. Registry!Active' = Registry!Active /\ c \notin Registry!Past /\ Registry!Past' \in {Registry!Past, Registry!Past \cup {c}}
      BY <2>1, <2>2 DEF Registry!Active, Registry!Past
  <2>4. Registry!Cardinality(Registry!Past \cup {c}) = Registry!Cardinality(Registry!Past) + 1 /\ (Registry!Past = {} => Registry!Cardinality(Registry!Past) = 0)
      BY <1>2, <2>3, FS_AddElement, FS_EmptySet, SetsOfRegistry
  <2>5. Fits(Registry!Active', Registry!Past', x4')
    <3> DEFINE a == Registry!Cardinality(Registry!Active)
               n == Registry!Cardinality(Registry!Past)
               m == Registry!Cardinality(Registry!Past')
    <3>1. a \in Nat /\ n \in Nat /\ WebhookLimit \in Nat /\ a < WebhookLimit /\ (x4 \/ a + n <= WebhookLimit)
        BY <1>1, <1>2, <2>1
    <3>2. m \in {n, n + 1} /\ (Registry!Past = {} => n = 0)
        BY <2>3, <2>4
    <3>3. Registry!Cardinality(Registry!Active') = a
        BY <2>3
    <3>4. x4' = (x4 \/ (Registry!Past # {} /\ a + n >= WebhookLimit))
        BY <2>1
    <3> HIDE DEF a, n, m
    <3>5. x4' \/ a + m <= WebhookLimit
      <4>1. CASE m = n
          BY <3>1, <3>4, <4>1
      <4>2. CASE m = n + 1 /\ Registry!Past = {}
          BY <3>1, <3>2, <4>2
      <4>3. CASE m = n + 1 /\ Registry!Past # {}
        <5>1. a + m <= WebhookLimit \/ a + n >= WebhookLimit
            BY <3>1, <4>3
        <5> QED
            BY <3>4, <4>3, <5>1
      <4> QED
          BY <3>2, <4>1, <4>2, <4>3
    <3> QED
        BY <3>3, <3>5 DEF a, m
  <2>6. x4' \in BOOLEAN
      BY <2>1
  <2> QED
      BY <1>1, <2>1, <2>2, <2>5, <2>6 DEF Registry!IInv, Registry!TypeOK
<1>5. ASSUME NEW c \in Procs, NEW events \in EventKinds, Registry!InsertRow(c, events) \/ Registry!InsertInMemory(c, events)
      PROVE  Registry!IInv'
  <2> DEFINE u == x3[c]
  <2>1. /\ u # Registry!NoUrl /\ u \in Urls /\ x3' = [x3 EXCEPT ![c] = Registry!NoUrl]
        /\ UNCHANGED <<x1, x4>>
        /\ \/ Registry!Added(u, events) /\ x2[u].state = "none"
           \/ UNCHANGED <<x2, x5>>
      BY <1>1, <1>5 DEF Registry!InsertRow, Registry!InsertInMemory, Registry!Done
  <2> HIDE DEF u
  <2>2. /\ x3' \in [Procs -> Urls \cup {Registry!NoUrl}]
        /\ \A d \in Procs : x3'[d] = IF d = c THEN Registry!NoUrl ELSE x3[d]
      BY <1>1, <2>1
  <2>3. Registry!Past' = Registry!Past \ {c} /\ c \in Registry!Past
      BY <2>1, <2>2 DEF Registry!Past, u
  <2>4. CASE UNCHANGED <<x2, x5>>
    <3>1. Registry!Active' = Registry!Active
        BY <2>4 DEF Registry!Active
    <3>2. Fits(Registry!Active', Registry!Past', x4')
        BY <1>3, <2>1, <2>3, <3>1
    <3> QED
        BY <1>1, <2>1, <2>2, <2>4, <3>2 DEF Registry!IInv, Registry!TypeOK
  <2>5. CASE Registry!Added(u, events) /\ x2[u].state = "none"
    <3> DEFINE x == [state |-> "active", events |-> events]
    <3>1. x \in SubType /\ x.state = "active"
        OBVIOUS
    <3>2. x2' = [x2 EXCEPT ![u] = x] /\ x5' = [x5 EXCEPT ![u] = {}]
        BY <2>5 DEF Registry!Added
    <3> HIDE DEF x, SubType
    <3>3. /\ x2' \in [Urls -> SubType] /\ x5' \in [Urls -> SUBSET Registry!Heard]
          /\ \A v \in Urls : x2'[v] = IF v = u THEN x ELSE x2[v]
        BY <1>1, <2>1, <3>1, <3>2
    <3>4. Registry!Active' = Registry!Active \cup {u} /\ u \notin Registry!Active
        BY <2>1, <2>5, <3>1, <3>3 DEF Registry!Active
    <3>5. /\ Registry!Cardinality(Registry!Active') = Registry!Cardinality(Registry!Active) + 1
          /\ Registry!Cardinality(Registry!Past') = Registry!Cardinality(Registry!Past) - 1
        BY <1>2, <2>3, <3>4, FS_AddElement, FS_RemoveElement, SetsOfRegistry
    <3>6. Fits(Registry!Active', Registry!Past', x4')
        BY <1>1, <1>2, <2>1, <3>5
    <3> QED
        BY <1>1, <2>1, <2>2, <3>3, <3>6 DEF Registry!IInv, Registry!TypeOK, SubType
  <2> QED
      BY <2>1, <2>4, <2>5
<1>6. ASSUME NEW u \in Urls, Registry!Deactivate(u) \/ Registry!Remove(u) PROVE Registry!IInv'
  <2>1. UNCHANGED <<x1, x3, x4, x5>>
      BY <1>6 DEF Registry!Deactivate, Registry!Remove
  <2>2. PICK x \in SubType : x2' = [x2 EXCEPT ![u] = x] /\ x.state # "active"
    <3>1. x2[u] \in SubType
        BY <1>1
    <3>2. CASE Registry!Deactivate(u)
      <4> DEFINE x == [x2[u] EXCEPT !.state = "inactive"]
      <4>1. x \in SubType /\ x.state = "inactive"
          BY <3>1
      <4>2. x2' = [x2 EXCEPT ![u] = x]
          BY <3>2 DEF Registry!Deactivate
      <4> HIDE DEF x
      <4> QED
          BY <4>1, <4>2
    <3>3. CASE Registry!Remove(u)
      <4>1. Registry!NoSub \in SubType /\ Registry!NoSub.state # "active"
          BY DEF Registry!NoSub
      <4>2. x2' = [x2 EXCEPT ![u] = Registry!NoSub]
          BY <3>3 DEF Registry!Remove
      <4> QED
          BY <4>1, <4>2
    <3> QED
        BY <1>6, <3>2, <3>3
  <2>3. x2' \in [Urls -> SubType] /\ \A v \in Urls : x2'[v] = IF v = u THEN x ELSE x2[v]
      BY <1>1, <2>2
  <2>4. Registry!Active' \subseteq Registry!Active /\ Registry!Past' = Registry!Past
      BY <2>1, <2>2, <2>3 DEF Registry!Active, Registry!Past
  <2>5. Fits(Registry!Active', Registry!Past', x4')
      BY <1>3, <2>1, <2>4
  <2> QED
      BY <1>1, <2>1, <2>3, <2>5 DEF Registry!IInv, Registry!TypeOK
<1>7. ASSUME NEW status \in {"pending", "processing", "completed", "failed", "cancelled"}, Registry!Announce(status)
      PROVE  Registry!IInv'
  <2> DEFINE e == Registry!EventOf(status)
  <2>1. /\ x5' = [u \in Urls |-> IF u \in Registry!Subscribers(e)
                                   THEN x5[u] \cup {[event |-> e, to |-> x2[u].state]}
                                   ELSE x5[u]]
        /\ UNCHANGED <<x1, x2, x3, x4>>
      BY <1>7 DEF Registry!Announce
  <2>2. e \in {"remittance.created", "remittance.updated", "remittance.completed",
               "remittance.failed", "remittance.cancelled"}
      BY DEF Registry!EventOf
  <2>3. \A u \in Registry!Subscribers(e) : [event |-> e, to |-> x2[u].state] \in Registry!Heard
      BY <2>2 DEF Registry!Subscribers, Registry!Active, Registry!Heard
  <2> HIDE DEF e
  <2>4. x5' \in [Urls -> SUBSET Registry!Heard]
      BY <1>1, <2>1, <2>3
  <2>5. Registry!Active' = Registry!Active /\ Registry!Past' = Registry!Past
      BY <2>1 DEF Registry!Active, Registry!Past
  <2> QED
      BY <1>1, <2>1, <2>4, <2>5 DEF Registry!IInv, Registry!TypeOK
<1>8. ASSUME UNCHANGED Registry!vars PROVE Registry!IInv'
  <2>1. Registry!Active' = Registry!Active /\ Registry!Past' = Registry!Past
      BY <1>8 DEF Registry!vars, Registry!Active, Registry!Past
  <2> QED
      BY <1>1, <1>8, <2>1 DEF Registry!vars, Registry!IInv, Registry!TypeOK
<1> QED
    BY <1>4, <1>5, <1>6, <1>7, <1>8 DEF Registry!Next

LEMMA RegistryHolds == Registry!RegistryAssumption /\ Registry!IInv => Registry!ActiveWithinLimit
<1> SUFFICES ASSUME Registry!RegistryAssumption, Registry!IInv PROVE Registry!ActiveWithinLimit
    OBVIOUS
<1>1. Registry!Cardinality(Registry!Active) <= WebhookLimit \/ x4
    BY RegistryCounts DEF Registry!IInv, Registry!RegistryAssumption
<1>2. \A u \in Urls : \A h \in x5[u] : h.to = "active"
    BY DEF Registry!IInv, Registry!Heard
<1> QED
    BY <1>1, <1>2 DEF Registry!ActiveWithinLimit

-----------------------------------------------------------------------------
(***************************************************************************)
(* SdkWrites: x1 sequence, x2 queue, x3 applied, x4 failed, x5 call.       *)
(***************************************************************************)
Writes == INSTANCE SdkWrites WITH Requests <- Procs, sequence <- x1, queue <- x2,
    applied <- x3, failed <- x4, call <- x5

\* The operators on finite sets are those of the library.
LEMMA SetsOfWrites ==
    /\ \A S : Writes!Cardinality(S) = Cardinality(S)
    /\ \A S : Writes!IsFiniteSet(S) <=> IsFiniteSet(S)
BY DEF Cardinality, IsFiniteSet, Writes!Cardinality, Writes!IsFiniteSet

CallType == [step : Writes!Steps, seq : 0..MaxSeq, tries : Nat, prepares : 0..MaxPrepares]

LEMMA WritesBegin == Writes!SdkWritesAssumption /\ Writes!Init => Writes!IInv
<1> SUFFICES ASSUME Writes!SdkWritesAssumption, Writes!Init PROVE Writes!IInv
  OBVIOUS
<1> DEFINE fresh == [step |-> "idle", seq |-> 0, tries |-> 0, prepares |-> 0]
<1>1. \A r \in Procs : x5[r] = fresh
  BY DEF Writes!Init
<1>2. fresh \in CallType /\ MaxSeq \in Nat
  BY DEF Writes!SdkWritesAssumption, CallType, Writes!Steps
<1>3. Writes!WritesTypeOK
  BY <1>2 DEF Writes!Init, Writes!WritesTypeOK, CallType
<1>4. \A r \in Procs : Writes!MadeFor(r) = {}
  BY <1>1 DEF Writes!Init, Writes!MadeFor, Writes!Included
<1>5. Writes!MadeOncePerPreparation
  BY <1>1, <1>4, FS_EmptySet, SetsOfWrites DEF Writes!MadeOncePerPreparation, Writes!ToBuild,
     Writes!At
<1> QED
  BY <1>1, <1>3, <1>5 DEF Writes!IInv, Writes!BuiltHasNumber, Writes!ReportedIsApplied,
     Writes!At

LEMMA WritesHold ==
    Writes!SdkWritesAssumption /\ Writes!IInv => Writes!AppliedOncePerPreparation /\ Writes!ReportedIsApplied
<1> SUFFICES ASSUME Writes!SdkWritesAssumption, Writes!IInv, NEW r \in Procs
             PROVE  Writes!Cardinality(Writes!AppliedFor(r)) <= x5[r].prepares
  BY DEF Writes!AppliedOncePerPreparation, Writes!IInv
<1>1. Writes!AppliedFor(r) \subseteq Writes!MadeFor(r)
  BY DEF Writes!AppliedFor, Writes!MadeFor, Writes!Included
<1>2. /\ Writes!IsFiniteSet(Writes!MadeFor(r)) /\ Writes!Cardinality(Writes!MadeFor(r)) \in Nat
      /\ Writes!Cardinality(Writes!MadeFor(r)) + Writes!ToBuild(r) <= x5[r].prepares
  BY FS_CardinalityType, SetsOfWrites DEF Writes!IInv, Writes!MadeOncePerPreparation
<1>3. Writes!Cardinality(Writes!AppliedFor(r)) <= Writes!Cardinality(Writes!MadeFor(r)) /\ Writes!Cardinality(Writes!AppliedFor(r)) \in Nat
  BY <1>1, <1>2, FS_Subset, FS_CardinalityType, SetsOfWrites
<1>4. Writes!ToBuild(r) \in {0, 1} /\ x5[r].prepares \in Nat
  BY DEF Writes!ToBuild, Writes!IInv, Writes!WritesTypeOK, Writes!SdkWritesAssumption
<1> QED
  BY <1>2, <1>3, <1>4

LEMMA OneMore ==
    ASSUME NEW S, Writes!IsFiniteSet(S), NEW x
    PROVE  /\ Writes!IsFiniteSet(S \cup {x}) /\ Writes!Cardinality(S \cup {x}) \in Nat
           /\ Writes!Cardinality(S \cup {x}) <= Writes!Cardinality(S) + 1
<1>1. Writes!Cardinality(S) \in Nat
  BY FS_CardinalityType, SetsOfWrites
<1>2. CASE x \in S
  <2>1. Writes!IsFiniteSet(S \cup {x}) /\ Writes!Cardinality(S \cup {x}) = Writes!Cardinality(S)
    BY <1>2, FS_AddElement, SetsOfWrites
  <2> QED
    BY <1>1, <2>1
<1>3. CASE x \notin S
  BY <1>1, <1>3, FS_AddElement, SetsOfWrites
<1> QED
  BY <1>2, <1>3

\* Of fewer transactions, still no more than the preparations.
LEMMA MadeShrinks ==
    ASSUME NEW r \in Procs, Writes!IsFiniteSet(Writes!MadeFor(r)), NEW prepares \in Nat,
           Writes!Cardinality(Writes!MadeFor(r)) + Writes!ToBuild(r) <= prepares,
           Writes!MadeFor(r)' \subseteq Writes!MadeFor(r), NEW b \in Nat,
           Writes!ToBuild(r)' <= Writes!ToBuild(r) + b, Writes!ToBuild(r)' \in Nat, Writes!ToBuild(r) \in Nat
    PROVE  /\ Writes!IsFiniteSet(Writes!MadeFor(r)')
           /\ Writes!Cardinality(Writes!MadeFor(r)') + Writes!ToBuild(r)' <= prepares + b
<1>1. /\ Writes!IsFiniteSet(Writes!MadeFor(r)') /\ Writes!Cardinality(Writes!MadeFor(r)') <= Writes!Cardinality(Writes!MadeFor(r))
      /\ Writes!Cardinality(Writes!MadeFor(r)') \in Nat /\ Writes!Cardinality(Writes!MadeFor(r)) \in Nat
  BY FS_Subset, FS_CardinalityType, SetsOfWrites
<1> QED
  BY <1>1

LEMMA WritesStep ==
    Writes!SdkWritesAssumption /\ Writes!IInv /\ (Writes!Next \/ UNCHANGED Writes!writeVars) => Writes!IInv'
<1> SUFFICES ASSUME Writes!SdkWritesAssumption, Writes!IInv, (Writes!Next \/ UNCHANGED Writes!writeVars)
             PROVE  Writes!IInv'
  OBVIOUS
<1>1. /\ MaxSeq \in Nat /\ MaxPrepares \in Nat /\ x1 \in 0..MaxSeq
      /\ x2 \subseteq Writes!Tx /\ x3 \subseteq Writes!Tx /\ x4 \subseteq Writes!Tx
      /\ x5 \in [Procs -> CallType]
      /\ Writes!MadeOncePerPreparation /\ Writes!BuiltHasNumber /\ Writes!ReportedIsApplied
  BY DEF Writes!SdkWritesAssumption, Writes!IInv, Writes!WritesTypeOK, CallType
<1>2. (/\ x1' \in 0..MaxSeq
       /\ x2' \subseteq Writes!Tx /\ x3' \subseteq Writes!Tx /\ x4' \subseteq Writes!Tx
       /\ x5' \in [Procs -> CallType]
       /\ Writes!MadeOncePerPreparation' /\ Writes!BuiltHasNumber' /\ Writes!ReportedIsApplied') => Writes!IInv'
  BY DEF Writes!IInv, Writes!WritesTypeOK, CallType
<1>3. \A r \in Procs :
         /\ x5[r] \in CallType /\ x5[r].seq \in 0..MaxSeq /\ x5[r].step \in Writes!Steps
         /\ x5[r].prepares \in 0..MaxPrepares /\ x5[r].tries \in Nat
         /\ Writes!ToBuild(r) \in Nat
         /\ x5[r].seq # 0 => Writes!TxOf(r) \in Writes!Tx
  BY <1>1 DEF CallType, Writes!TxOf, Writes!Tx, Writes!ToBuild
\* Enough of what was made: nothing new, or nothing but what was to be built.
<1>4. ASSUME x5' \in [Procs -> CallType],
             \A r \in Procs :
                 /\ Writes!MadeFor(r)' \subseteq Writes!MadeFor(r)
                 /\ \E b \in {0, 1} : /\ x5'[r].prepares = x5[r].prepares + b
                                      /\ Writes!ToBuild(r)' <= Writes!ToBuild(r) + b
      PROVE  Writes!MadeOncePerPreparation'
  <2> SUFFICES ASSUME NEW r \in Procs
               PROVE  /\ Writes!IsFiniteSet(Writes!MadeFor(r)')
                      /\ Writes!Cardinality(Writes!MadeFor(r)') + Writes!ToBuild(r)' <= x5'[r].prepares
    BY DEF Writes!MadeOncePerPreparation
  <2>1. PICK b \in {0, 1} : x5'[r].prepares = x5[r].prepares + b /\ Writes!ToBuild(r)' <= Writes!ToBuild(r) + b
    BY <1>4
  <2>2. Writes!IsFiniteSet(Writes!MadeFor(r)) /\ Writes!Cardinality(Writes!MadeFor(r)) + Writes!ToBuild(r) <= x5[r].prepares
    BY <1>1 DEF Writes!MadeOncePerPreparation
  <2>3. Writes!ToBuild(r)' \in Nat
    BY DEF Writes!ToBuild
  <2> QED
    BY <1>3, <1>4, <2>1, <2>2, <2>3, MadeShrinks
\* A call goes on with the transaction it has.
<1>5. ASSUME NEW r \in Procs, NEW c \in CallType, x5' = [x5 EXCEPT ![r] = c],
             UNCHANGED <<x1, x3, x4>>, x2' \subseteq x2 \cup {Writes!TxOf(r)},
             x5[r].seq = 0 => x2' \subseteq x2,
             c.seq = x5[r].seq, c.prepares = x5[r].prepares, c.step # "build",
             c.step \in {"simulate", "prepared", "send", "poll", "done"} => c.seq # 0,
             c.step = "done" => Writes!AppliedFor(r) # {}
      PROVE  Writes!IInv'
  <2>1. /\ x5' \in [Procs -> CallType] /\ x5'[r] = c
        /\ \A q \in Procs \ {r} : x5'[q] = x5[q]
    BY <1>1, <1>5
  <2>2. x2' \subseteq Writes!Tx
    BY <1>1, <1>3, <1>5
  <2>3. ASSUME NEW q \in Procs
        PROVE  /\ Writes!MadeFor(q)' \subseteq Writes!MadeFor(q) /\ Writes!ToBuild(q)' <= Writes!ToBuild(q)
               /\ x5'[q].prepares = x5[q].prepares
    <3>1. x5'[q].seq = x5[q].seq /\ Writes!TxOf(q)' = Writes!TxOf(q) /\ x5'[q].prepares = x5[q].prepares
      BY <1>5, <2>1 DEF Writes!TxOf
    <3>2. \A tx \in x2' : tx \in x2 \/ (tx = Writes!TxOf(r) /\ x5[r].seq # 0)
      BY <1>5
    <3>3. Writes!TxOf(r).request = r
      BY DEF Writes!TxOf
    <3>4. Writes!MadeFor(q)' \subseteq Writes!MadeFor(q)
      BY <1>5, <3>1, <3>2, <3>3 DEF Writes!MadeFor, Writes!Included
    <3>5. Writes!ToBuild(q)' <= Writes!ToBuild(q)
      BY <1>5, <2>1 DEF Writes!ToBuild, Writes!At
    <3> QED
      BY <3>1, <3>4, <3>5
  <2>4. Writes!MadeOncePerPreparation'
    <3>1. \A q \in Procs : /\ x5'[q].prepares = x5[q].prepares + 0
                           /\ Writes!ToBuild(q)' <= Writes!ToBuild(q) + 0
      BY <1>3, <2>3
    <3> QED
      BY <1>4, <2>1, <2>3, <3>1
  <2>5. Writes!BuiltHasNumber'
    BY <1>1, <1>5, <2>1 DEF Writes!BuiltHasNumber
  <2>6. Writes!ReportedIsApplied'
    BY <1>1, <1>5, <2>1 DEF Writes!ReportedIsApplied, Writes!At, Writes!AppliedFor
  <2> QED
    BY <1>1, <1>2, <1>5, <2>1, <2>2, <2>4, <2>5, <2>6
<1>6. ASSUME NEW r \in Procs, NEW step \in Writes!Steps \ {"build"}, Writes!Goto(r, step),
             UNCHANGED <<x1, x3, x4>>, x2' \subseteq x2 \cup {Writes!TxOf(r)},
             x5[r].seq = 0 => x2' \subseteq x2,
             step \in {"simulate", "prepared", "send", "poll", "done"} => x5[r].seq # 0,
             step = "done" => Writes!AppliedFor(r) # {}
      PROVE  Writes!IInv'
  <2> DEFINE c == [x5[r] EXCEPT !.step = step, !.tries = 0]
  <2>1. /\ c \in CallType /\ c.step = step /\ c.seq = x5[r].seq
        /\ c.prepares = x5[r].prepares
    BY <1>3 DEF CallType
  <2>2. x5' = [x5 EXCEPT ![r] = c]
    BY <1>6 DEF Writes!Goto
  <2> HIDE DEF c
  <2> QED
    BY <1>5, <1>6, <2>1, <2>2
<1>7. ASSUME NEW rs \in SUBSET Procs, Writes!PrepareAll(rs) PROVE Writes!IInv'
  <2> DEFINE new(r) == [step |-> "build", seq |-> 0, tries |-> 0, prepares |-> x5[r].prepares + 1]
  <2>1. /\ UNCHANGED <<x1, x2, x3, x4>>
        /\ \A r \in rs : x5[r].step \in {"idle", "thrown"} /\ x5[r].prepares < MaxPrepares
        /\ x5' = [r \in Procs |-> IF r \in rs THEN new(r) ELSE x5[r]]
    BY <1>7 DEF Writes!PrepareAll
  <2>2. \A r \in rs : /\ new(r) \in CallType /\ new(r).step = "build" /\ new(r).seq = 0
                       /\ new(r).prepares = x5[r].prepares + 1
    BY <1>1, <1>3, <2>1 DEF CallType, Writes!Steps
  <2> HIDE DEF new
  <2>3. /\ x5' \in [Procs -> CallType] /\ \A r \in rs : x5'[r] = new(r)
        /\ \A r \in Procs \ rs : x5'[r] = x5[r]
    BY <1>1, <2>1, <2>2
  <2>4. ASSUME NEW r \in Procs
        PROVE  /\ Writes!MadeFor(r)' \subseteq Writes!MadeFor(r)
               /\ \E b \in {0, 1} : /\ x5'[r].prepares = x5[r].prepares + b
                                    /\ Writes!ToBuild(r)' <= Writes!ToBuild(r) + b
    <3>1. CASE r \in rs
      <4>1. Writes!MadeFor(r)' \subseteq Writes!MadeFor(r)
        BY <2>1, <2>2, <2>3, <3>1 DEF Writes!MadeFor, Writes!Included
      <4>2. x5'[r].prepares = x5[r].prepares + 1 /\ Writes!ToBuild(r)' <= Writes!ToBuild(r) + 1
        BY <1>3, <2>2, <2>3, <3>1 DEF Writes!ToBuild
      <4> QED
        BY <4>1, <4>2
    <3>2. CASE r \notin rs
      <4>1. Writes!MadeFor(r)' \subseteq Writes!MadeFor(r)
        BY <2>1, <2>3, <3>2 DEF Writes!MadeFor, Writes!Included, Writes!TxOf
      <4>2. x5'[r].prepares = x5[r].prepares + 0 /\ Writes!ToBuild(r)' <= Writes!ToBuild(r) + 0
        BY <1>3, <2>3, <3>2 DEF Writes!ToBuild, Writes!At
      <4> QED
        BY <4>1, <4>2
    <3> QED
      BY <3>1, <3>2
  <2>5. Writes!BuiltHasNumber' /\ Writes!ReportedIsApplied'
    BY <1>1, <2>1, <2>2, <2>3 DEF Writes!BuiltHasNumber, Writes!ReportedIsApplied, Writes!At,
       Writes!AppliedFor
  <2> QED
    BY <1>1, <1>2, <1>4, <2>1, <2>3, <2>4, <2>5
<1>8. ASSUME NEW r \in Procs, Writes!GetAccount(r) PROVE Writes!IInv'
  <2> DEFINE c == [x5[r] EXCEPT !.step = "simulate", !.seq = x1 + 1]
  <2>1. /\ x5[r].step = "build" /\ x1 < MaxSeq
        /\ UNCHANGED <<x1, x2, x3, x4>> /\ x5' = [x5 EXCEPT ![r] = c]
    BY <1>8 DEF Writes!GetAccount, Writes!At
  <2>2. /\ c \in CallType /\ c.step = "simulate" /\ c.seq = x1 + 1 /\ c.seq # 0
        /\ c.prepares = x5[r].prepares
    <3>1. x1 + 1 \in 0..MaxSeq /\ x1 + 1 # 0
      BY <1>1, <2>1
    <3> QED
      BY <1>3, <3>1 DEF CallType, Writes!Steps
  <2> HIDE DEF c
  <2>3. /\ x5' \in [Procs -> CallType] /\ x5'[r] = c
        /\ \A q \in Procs \ {r} : x5'[q] = x5[q]
    BY <1>1, <2>1, <2>2
  <2>4. Writes!MadeOncePerPreparation'
    <3> SUFFICES ASSUME NEW q \in Procs
                 PROVE  /\ Writes!IsFiniteSet(Writes!MadeFor(q)')
                        /\ Writes!Cardinality(Writes!MadeFor(q)') + Writes!ToBuild(q)' <= x5'[q].prepares
      BY DEF Writes!MadeOncePerPreparation
    <3>0. /\ Writes!IsFiniteSet(Writes!MadeFor(q)) /\ Writes!Cardinality(Writes!MadeFor(q)) \in Nat
          /\ Writes!Cardinality(Writes!MadeFor(q)) + Writes!ToBuild(q) <= x5[q].prepares
      BY <1>1, FS_CardinalityType, SetsOfWrites DEF Writes!MadeOncePerPreparation
    <3>1. CASE q # r
      <4>1. Writes!MadeFor(q)' = Writes!MadeFor(q) /\ Writes!ToBuild(q)' = Writes!ToBuild(q)
        BY <2>1, <2>3, <3>1 DEF Writes!MadeFor, Writes!Included, Writes!TxOf, Writes!ToBuild,
           Writes!At
      <4> QED
        BY <2>3, <3>0, <3>1, <4>1
    <3>2. CASE q = r
      <4>1. Writes!ToBuild(r) = 1 /\ Writes!ToBuild(r)' = 0
        BY <2>1, <2>2, <2>3 DEF Writes!ToBuild, Writes!At
      <4>2. Writes!MadeFor(r)' \subseteq Writes!MadeFor(r) \cup {Writes!TxOf(r)'}
        BY <2>1 DEF Writes!MadeFor, Writes!Included
      <4>3. /\ Writes!IsFiniteSet(Writes!MadeFor(r) \cup {Writes!TxOf(r)'})
            /\ Writes!Cardinality(Writes!MadeFor(r) \cup {Writes!TxOf(r)'}) <= Writes!Cardinality(Writes!MadeFor(r)) + 1
            /\ Writes!Cardinality(Writes!MadeFor(r) \cup {Writes!TxOf(r)'}) \in Nat
        BY <3>0, <3>2, OneMore
      <4>4. /\ Writes!IsFiniteSet(Writes!MadeFor(r)') /\ Writes!Cardinality(Writes!MadeFor(r)') \in Nat
            /\ Writes!Cardinality(Writes!MadeFor(r)') <= Writes!Cardinality(Writes!MadeFor(r) \cup {Writes!TxOf(r)'})
        BY <4>2, <4>3, FS_Subset, FS_CardinalityType, SetsOfWrites
      <4> QED
        BY <1>3, <2>2, <2>3, <3>0, <3>2, <4>1, <4>3, <4>4
    <3> QED
      BY <3>1, <3>2
  <2>5. Writes!BuiltHasNumber' /\ Writes!ReportedIsApplied'
    BY <1>1, <2>1, <2>2, <2>3 DEF Writes!BuiltHasNumber, Writes!ReportedIsApplied, Writes!At,
       Writes!AppliedFor
  <2> QED
    BY <1>1, <1>2, <2>1, <2>3, <2>4, <2>5
<1> USE DEF Writes!Steps
<1>9. ASSUME NEW r \in Procs, Writes!Simulated(r) \/ Writes!Sign(r) PROVE Writes!IInv'
  BY <1>1, <1>6, <1>9 DEF Writes!Simulated, Writes!Sign, Writes!At, Writes!BuiltHasNumber
<1>10. ASSUME NEW r \in Procs, Writes!PrepareFails(r) \/ Writes!SendRefused(r) \/ Writes!PollFindsFailure(r)
       PROVE  Writes!IInv'
  BY <1>1, <1>6, <1>10 DEF Writes!PrepareFails, Writes!SendRefused, Writes!PollFindsFailure,
     Writes!Throw
<1>11. ASSUME NEW r \in Procs, Writes!SendAccepted(r) \/ Writes!SendDeferred(r) PROVE Writes!IInv'
  <2>1. x5[r].step = "send" /\ x5[r].seq # 0
    BY <1>1, <1>11 DEF Writes!SendAccepted, Writes!SendDeferred, Writes!At,
       Writes!BuiltHasNumber
  <2>2. /\ Writes!Goto(r, "poll") /\ UNCHANGED <<x1, x3, x4>>
        /\ x2' \subseteq x2 \cup {Writes!TxOf(r)}
    BY <1>11 DEF Writes!SendAccepted, Writes!SendDeferred
  <2> QED
    BY <1>6, <2>1, <2>2
<1>12. ASSUME NEW r \in Procs, Writes!PollSucceeds(r) PROVE Writes!IInv'
  <2>1. x5[r].step = "poll" /\ x5[r].seq # 0 /\ Writes!TxOf(r) \in x3 /\ Writes!TxOf(r).request = r
    BY <1>1, <1>12 DEF Writes!PollSucceeds, Writes!At, Writes!BuiltHasNumber,
       Writes!EndsPolling, Writes!TxOf
  <2> QED
    BY <1>6, <1>12, <2>1 DEF Writes!PollSucceeds, Writes!AppliedFor
<1>13. ASSUME NEW r \in Procs, NEW transient \in BOOLEAN, NEW retries, Writes!RetryOrThrow(r, retries, transient),
              UNCHANGED <<x1, x3, x4>>, x2' \subseteq x2 \cup {Writes!TxOf(r)},
              x5[r].step \in {"send", "poll"}
       PROVE  Writes!IInv'
  <2>1. x5[r].seq # 0
    BY <1>1, <1>13 DEF Writes!BuiltHasNumber
  <2>2. CASE x5' = [x5 EXCEPT ![r] = Writes!Retried(r)]
    <3> DEFINE c == Writes!Retried(r)
    <3>1. /\ c \in CallType /\ c.step = x5[r].step /\ c.seq = x5[r].seq
          /\ c.prepares = x5[r].prepares
      BY <1>3 DEF Writes!Retried, CallType
    <3> HIDE DEF c
    <3>2. x5' = [x5 EXCEPT ![r] = c]
      BY <2>2 DEF c
    <3> QED
      BY <1>5, <1>13, <2>1, <3>1, <3>2
  <2>3. CASE Writes!Throw(r)
    BY <1>6, <1>13, <2>1, <2>3 DEF Writes!Throw
  <2> QED
    BY <1>13, <2>2, <2>3 DEF Writes!RetryOrThrow
<1>14. ASSUME NEW r \in Procs, NEW transient \in BOOLEAN,
              Writes!SendLost(r, transient) \/ Writes!PollLost(r, transient)
       PROVE  Writes!IInv'
  BY <1>13, <1>14 DEF Writes!SendLost, Writes!PollLost, Writes!At
\* The network takes or drops a transaction: nothing is made.
<1>15. ASSUME UNCHANGED x5, x1' \in 0..MaxSeq,
              x2' \cup x3' \cup x4' \subseteq x2 \cup x3 \cup x4,
              x3 \subseteq x3'
       PROVE  Writes!IInv'
  <2>1. /\ x2' \subseteq Writes!Tx /\ x3' \subseteq Writes!Tx /\ x4' \subseteq Writes!Tx
        /\ x5' \in [Procs -> CallType]
    BY <1>1, <1>15
  <2>2. \A r \in Procs : Writes!MadeFor(r)' \subseteq Writes!MadeFor(r)
    BY <1>15 DEF Writes!MadeFor, Writes!Included, Writes!TxOf
  <2>3. \A r \in Procs : x5'[r].prepares = x5[r].prepares + 0 /\ Writes!ToBuild(r)' <= Writes!ToBuild(r) + 0
    BY <1>3, <1>15 DEF Writes!ToBuild, Writes!At
  <2>4. Writes!MadeOncePerPreparation'
    BY <1>4, <2>1, <2>2, <2>3
  <2>5. Writes!BuiltHasNumber' /\ Writes!ReportedIsApplied'
    BY <1>1, <1>15 DEF Writes!BuiltHasNumber, Writes!ReportedIsApplied, Writes!At,
       Writes!AppliedFor
  <2> QED
    BY <1>2, <1>15, <2>1, <2>4, <2>5
<1>16. ASSUME NEW tx \in x2, NEW accepted \in BOOLEAN, Writes!Include(tx, accepted)
       PROVE  Writes!IInv'
  <2>1. tx.seq \in 0..MaxSeq
    BY <1>1 DEF Writes!Tx
  <2> QED
    BY <1>15, <1>16, <2>1 DEF Writes!Include
<1>17. ASSUME NEW tx \in x2, Writes!Drop(tx) PROVE Writes!IInv'
  BY <1>1, <1>15, <1>17 DEF Writes!Drop
<1>18. CASE UNCHANGED Writes!writeVars
  BY <1>1, <1>15, <1>18 DEF Writes!writeVars
<1> QED
  BY <1>7, <1>8, <1>9, <1>10, <1>11, <1>12, <1>14, <1>16, <1>17, <1>18
     DEF Writes!Next, Writes!Prepare, Writes!PrepareBatch

-----------------------------------------------------------------------------
(***************************************************************************)
(* Screens: x1 view, x2 key, x3 armed, x4 asks, x5 questions, x6 shown,    *)
(* x7 message, x8 version, x9 mine.                                        *)
(***************************************************************************)
Loading == INSTANCE Screens WITH view <- x1, key <- x2, armed <- x3, asks <- x4,
    questions <- x5, shown <- x6, message <- x7, version <- x8, mine <- x9

\* The component that guards itself keeps what it shows when a question fails.
LEMMA GuardedKeeps == \A v \in Loading!Components : v.guarded => v.failure = "keeps"
BY DEF Loading!Components, Loading!Component, Loading!AnchorSelector, Loading!KycStatusBadge,
   Loading!VerificationBadge, Loading!ProofOfPayout,
       Loading!DailyLimits, Loading!FeePreview, Loading!CorridorAnalytics,
          Loading!CorridorAnalyticsTyped, Loading!CorridorComparison,
       Loading!DeliveryHistory, Loading!Subscriptions, Loading!SubscriptionsTyped,
          Loading!Anchors, Loading!AnchorsTyped, Loading!Agents,
       Loading!AgentsTyped, Loading!Disputes, Loading!ContractHealth,
          Loading!ContractHealthTyped, Loading!MobileRate, Loading!MobileKycStatus,
       Loading!MobileHistory, Loading!MobileDetail

LEMMA ViewsAreComponents == \A v \in Loading!Components : v.waits \in BOOLEAN
<1>1. \A v \in Loading!Components :
          \E a, b, c, d, e \in BOOLEAN, f \in {"keeps", "clears", "hides"} :
              v = Loading!Component(a, b, c, d, e, f)
    BY DEF Loading!Components, Loading!AnchorSelector, Loading!KycStatusBadge,
       Loading!VerificationBadge, Loading!ProofOfPayout,
           Loading!DailyLimits, Loading!FeePreview, Loading!CorridorAnalytics,
              Loading!CorridorAnalyticsTyped,
           Loading!CorridorComparison, Loading!DeliveryHistory, Loading!Subscriptions,
              Loading!SubscriptionsTyped, Loading!Anchors,
           Loading!AnchorsTyped, Loading!Agents, Loading!AgentsTyped, Loading!Disputes,
              Loading!ContractHealth, Loading!ContractHealthTyped,
           Loading!MobileRate, Loading!MobileKycStatus, Loading!MobileHistory,
              Loading!MobileDetail
<1>2. \A a, b, c, d, e, f : Loading!Component(a, b, c, d, e, f).waits = b
    BY DEF Loading!Component
<1> QED
    BY <1>1, <1>2

LEMMA ScreensBegin == Loading!ScreensAssumption /\ Loading!Init => Loading!IInv
<1> SUFFICES ASSUME Loading!ScreensAssumption, Loading!Init PROVE Loading!IInv
    OBVIOUS
<1>1. x1.waits \in BOOLEAN /\ x1 \in Loading!Components /\ x2 \in Keys
    BY ViewsAreComponents DEF Loading!Init
<1>2. /\ x2 \in Keys /\ x3 \in BOOLEAN /\ x7 = FALSE /\ x6 = Loading!NoData
      /\ x8 = 0 /\ x9 = 0 /\ MaxVersion \in Nat /\ MaxAsks \in Nat
      /\ x4 \in 0..1 /\ x4 <= MaxAsks
    BY <1>1 DEF Loading!Init, Loading!ScreensAssumption
<1>3. /\ x5 \subseteq Loading!Questions
      /\ \A q \in x5 : q.asked \in 1..x4 /\ q.key = x2 /\ q.version \in 0..x8 /\ ~q.read
  <2>1. CASE x1.waits
      BY <2>1 DEF Loading!Init
  <2>2. CASE ~x1.waits
    <3>1. x5 = {[asked |-> 1, key |-> x2, read |-> FALSE, version |-> 0]} /\ x4 = 1
        BY <2>2 DEF Loading!Init
    <3> QED
        BY <1>2, <3>1 DEF Loading!Questions
  <2> QED
      BY <2>1, <2>2
<1>4. x6 \in Loading!Shown /\ Loading!LastQuestionIsCurrent
    BY <1>2, <1>3 DEF Loading!Shown, Loading!LastQuestionIsCurrent
<1> QED
  <2>1. x6.key = "none" /\ x6.asked = 0
      BY <1>2 DEF Loading!NoData
  <2>2. x4 \in 0..MaxAsks /\ x6.asked \in 0..x4 /\ x9 \in 0..x8
        /\ x8 \in 0..MaxVersion
      BY <1>2, <2>1
  <2>3. \A q \in x5 : q.asked \in 1..x4 /\ q.key \in Keys /\ q.version \in 0..x8
      BY <1>2, <1>3
  <2> QED
      BY <1>1, <1>2, <1>3, <1>4, <2>1, <2>2, <2>3 DEF Loading!IInv, Loading!ScreensTypeOK

LEMMA ScreensStep ==
    Loading!ScreensAssumption /\ Loading!IInv /\ (Loading!Next \/ UNCHANGED Loading!screenVars) => Loading!IInv'
<1> SUFFICES ASSUME Loading!ScreensAssumption, Loading!IInv, (Loading!Next \/ UNCHANGED Loading!screenVars)
             PROVE  Loading!IInv'
    OBVIOUS
<1>1. /\ x1 \in Loading!Components /\ x2 \in Keys /\ x3 \in BOOLEAN /\ x7 \in BOOLEAN
      /\ x4 \in Nat /\ x4 <= MaxAsks /\ x8 \in Nat /\ x8 <= MaxVersion
      /\ x9 \in Nat /\ x9 <= x8 /\ MaxAsks \in Nat /\ MaxVersion \in Nat
      /\ x5 \subseteq Loading!Questions /\ x6 \in Loading!Shown /\ Loading!LastQuestionIsCurrent
    BY DEF Loading!IInv, Loading!ScreensTypeOK, Loading!ScreensAssumption
\* The type of the whole follows from that of its parts.
<1>2. ASSUME x1' \in Loading!Components, x2' \in Keys, x3' \in BOOLEAN, x7' \in BOOLEAN,
             x4' \in Nat, x4' <= MaxAsks, x8' \in Nat, x8' <= MaxVersion,
             x9' \in Nat, x9' <= x8', x5' \subseteq Loading!Questions', x6' \in Loading!Shown',
             Loading!LastQuestionIsCurrent'
      PROVE  Loading!IInv'
  <2>1. \A q \in x5' : q.asked \in 1..x4' /\ q.key \in Keys /\ q.version \in 0..x8'
      BY <1>2 DEF Loading!Questions
  <2>2. x6'.key \in Keys \cup {"none"} /\ x6'.asked \in 0..x4'
      BY <1>2 DEF Loading!Shown, Loading!NoData
  <2> QED
      BY <1>1, <1>2, <2>1, <2>2 DEF Loading!IInv, Loading!ScreensTypeOK
\* A question more, about the key as it is then.
<1>3. ASSUME x4 < MaxAsks, x4' = x4 + 1,
             x5' = x5 \cup
                 {[asked |-> x4 + 1, key |-> x2', read |-> FALSE, version |-> 0]},
             x2' \in Keys, x8' \in Nat, x8 <= x8'
      PROVE  /\ x4' \in Nat /\ x4' = x4 + 1 /\ x4' <= MaxAsks
             /\ x5' \subseteq Loading!Questions' /\ x6 \in Loading!Shown'
             /\ \A q \in x5' : q.asked = x4' => q.key = x2' /\ ~q.read
             /\ x6 = Loading!NoData \/ x6.asked # x4'
  <2>1. /\ x4' = x4 + 1 /\ x4' \in Nat /\ x4' <= MaxAsks
        /\ x5' = x5 \cup {[asked |-> x4 + 1, key |-> x2', read |-> FALSE, version |-> 0]}
      BY <1>1, <1>3
  <2>2. \A q \in x5 : q \in Loading!Questions' /\ q.asked # x4 + 1
      BY <1>1, <1>3, <2>1 DEF Loading!Questions
  <2>3. [asked |-> x4 + 1, key |-> x2', read |-> FALSE, version |-> 0] \in Loading!Questions'
      BY <1>1, <1>3, <2>1 DEF Loading!Questions
  <2>4. x6 \in Loading!Shown' /\ (x6 = Loading!NoData \/ x6.asked # x4')
      BY <1>1, <1>3, <2>1 DEF Loading!Shown
  <2>5. \A q \in x5' : q \in Loading!Questions' /\ (q.asked = x4' => q.key = x2' /\ ~q.read)
    <3> DEFINE n == [asked |-> x4 + 1, key |-> x2', read |-> FALSE, version |-> 0]
    <3>1. n.key = x2' /\ ~n.read
        OBVIOUS
    <3> HIDE DEF n
    <3> QED
        BY <2>1, <2>2, <2>3, <3>1 DEF n
  <2> QED
      BY <2>1, <2>4, <2>5
<1>4. ASSUME NEW k \in Keys, Loading!ChangeKey(k) PROVE Loading!IInv'
  <2>1. x2' = k /\ UNCHANGED <<x1, x6, x8, x9>> /\ x7' \in BOOLEAN
      BY <1>1, <1>4 DEF Loading!ChangeKey
  <2>2. CASE x1.waits
    <3>1. x3' = TRUE /\ UNCHANGED <<x4, x5>>
        BY <1>4, <2>2 DEF Loading!ChangeKey
    <3>2. Loading!Questions' = Loading!Questions /\ Loading!Shown' = Loading!Shown
        BY <2>1, <3>1 DEF Loading!Questions, Loading!Shown
    <3> QED
        BY <1>1, <1>2, <2>1, <3>1, <3>2 DEF Loading!LastQuestionIsCurrent
  <2>3. CASE ~x1.waits
    <3>1. /\ x4 < MaxAsks /\ x4' = x4 + 1 /\ x3' = x3
          /\ x5' = x5 \cup
                 {[asked |-> x4 + 1, key |-> x2', read |-> FALSE, version |-> 0]}
        BY <1>4, <2>1, <2>3 DEF Loading!ChangeKey, Loading!AsksOnKey, Loading!Ask
    <3> QED
        BY <1>1, <1>2, <1>3, <2>1, <3>1 DEF Loading!LastQuestionIsCurrent
  <2> QED
      BY <2>2, <2>3
<1>5. ASSUME Loading!TimerFires \/ Loading!AskAgain \/ Loading!Change PROVE Loading!IInv'
  <2>1. /\ x4 < MaxAsks /\ x4' = x4 + 1
        /\ x5' = x5 \cup
               {[asked |-> x4 + 1, key |-> x2', read |-> FALSE, version |-> 0]}
        /\ x2' = x2 /\ x3' \in BOOLEAN /\ x7' \in BOOLEAN
        /\ x8' \in Nat /\ x8 <= x8' /\ x8' <= MaxVersion
        /\ x9' \in Nat /\ x9' <= x8' /\ UNCHANGED <<x1, x6>>
    <3>1. x2' = x2 /\ UNCHANGED <<x1, x6>>
        BY <1>5 DEF Loading!TimerFires, Loading!AskAgain, Loading!Change
    <3>2. Loading!Ask(x2)
        BY <1>5 DEF Loading!TimerFires, Loading!AskAgain, Loading!Change
    <3>3. x3' \in BOOLEAN /\ x7' \in BOOLEAN
        BY <1>1, <1>5 DEF Loading!TimerFires, Loading!AskAgain, Loading!Change
    <3>4. x8' \in {x8, x8 + 1} /\ x8' <= MaxVersion /\ x9' \in {x9, x8'}
        BY <1>1, <1>5 DEF Loading!TimerFires, Loading!AskAgain, Loading!Change
    <3> QED
        BY <1>1, <3>1, <3>2, <3>3, <3>4 DEF Loading!Ask
  <2> QED
      BY <1>1, <1>2, <1>3, <2>1 DEF Loading!LastQuestionIsCurrent
<1>6. ASSUME Loading!OthersChange PROVE Loading!IInv'
  <2>1. /\ x8' = x8 + 1 /\ x8 < MaxVersion
        /\ UNCHANGED <<x1, x2, x3, x4, x5, x6, x7, x9>>
      BY <1>6 DEF Loading!OthersChange
  <2>2. x5' \subseteq Loading!Questions' /\ x6' \in Loading!Shown'
      BY <1>1, <2>1 DEF Loading!Questions, Loading!Shown
  <2> QED
      BY <1>1, <1>2, <2>1, <2>2 DEF Loading!LastQuestionIsCurrent
<1>7. ASSUME NEW q \in x5, Loading!ServerReads(q) PROVE Loading!IInv'
  <2>1. /\ x5' = (x5 \ {q}) \cup {[q EXCEPT !.read = TRUE, !.version = x8]}
        /\ UNCHANGED <<x1, x2, x3, x4, x6, x7, x8, x9>>
      BY <1>7 DEF Loading!ServerReads
  <2>2. /\ [q EXCEPT !.read = TRUE, !.version = x8] \in Loading!Questions
        /\ [q EXCEPT !.read = TRUE, !.version = x8].asked = q.asked
        /\ [q EXCEPT !.read = TRUE, !.version = x8].key = q.key
        /\ [q EXCEPT !.read = TRUE, !.version = x8].version = x8
    <3>1. q \in [asked : 1..x4, key : Keys, read : BOOLEAN, version : 0..x8]
          /\ x8 \in 0..x8
        BY <1>1 DEF Loading!Questions
    <3>2. PICK a \in 1..x4, k \in Keys, v \in 0..x8 :
              q = [asked |-> a, key |-> k, read |-> FALSE, version |-> v]
        BY <3>1, <1>7 DEF Loading!ServerReads
    <3>3. [q EXCEPT !.read = TRUE, !.version = x8]
              \in [asked : 1..x4, key : Keys, read : BOOLEAN, version : 0..x8]
        BY <3>1, <3>2
    <3>4. /\ [q EXCEPT !.read = TRUE, !.version = x8].asked = q.asked
          /\ [q EXCEPT !.read = TRUE, !.version = x8].key = q.key
          /\ [q EXCEPT !.read = TRUE, !.version = x8].version = x8
        BY <3>2
    <3> QED
        BY <3>3, <3>4 DEF Loading!Questions
  <2>3. Loading!Questions' = Loading!Questions /\ Loading!Shown' = Loading!Shown
      BY <2>1 DEF Loading!Questions, Loading!Shown
  <2>4. Loading!LastQuestionIsCurrent'
      BY <1>1, <2>1, <2>2 DEF Loading!LastQuestionIsCurrent
  <2> QED
      BY <1>1, <1>2, <2>1, <2>2, <2>3, <2>4
<1>8. ASSUME NEW q \in x5, Loading!Answer(q) PROVE Loading!IInv'
  <2>1. /\ q.read /\ x5' = x5 \ {q} /\ x7' \in BOOLEAN
        /\ x6' \in {x6, [key |-> q.key, version |-> q.version, asked |-> q.asked]}
        /\ UNCHANGED <<x1, x2, x3, x4, x8, x9>>
      BY <1>1, <1>8 DEF Loading!Answer
  <2>2. q \in Loading!Questions /\ [key |-> q.key, version |-> q.version, asked |-> q.asked] \in Loading!Shown
      BY <1>1 DEF Loading!Questions, Loading!Shown
  <2>3. Loading!Questions' = Loading!Questions /\ Loading!Shown' = Loading!Shown
      BY <2>1 DEF Loading!Questions, Loading!Shown
  <2>4. Loading!LastQuestionIsCurrent'
      BY <1>1, <2>1, <2>2 DEF Loading!LastQuestionIsCurrent
  <2> QED
      BY <1>1, <1>2, <2>1, <2>2, <2>3, <2>4
<1>9. ASSUME NEW q \in x5, Loading!Fail(q) PROVE Loading!IInv'
  <2>1. /\ x5' = x5 \ {q} /\ x6' \in {x6, Loading!NoData}
        /\ x7' \in BOOLEAN
        /\ UNCHANGED <<x1, x2, x3, x4, x8, x9>>
      BY <1>1, <1>9 DEF Loading!Fail
  <2>2. Loading!Questions' = Loading!Questions /\ Loading!Shown' = Loading!Shown /\ Loading!NoData \in Loading!Shown
      BY <2>1 DEF Loading!Questions, Loading!Shown
  <2>3. Loading!LastQuestionIsCurrent'
      BY <1>1, <2>1 DEF Loading!LastQuestionIsCurrent
  <2> QED
      BY <1>1, <1>2, <2>1, <2>2, <2>3
<1>10. ASSUME UNCHANGED Loading!screenVars PROVE Loading!IInv'
  <2>1. Loading!Questions' = Loading!Questions /\ Loading!Shown' = Loading!Shown
      BY <1>10 DEF Loading!screenVars, Loading!Questions, Loading!Shown
  <2>2. Loading!LastQuestionIsCurrent'
      BY <1>1, <1>10 DEF Loading!screenVars, Loading!LastQuestionIsCurrent
  <2> QED
      BY <1>1, <1>2, <1>10, <2>1, <2>2 DEF Loading!screenVars
<1> QED
    BY <1>4, <1>5, <1>6, <1>7, <1>8, <1>9, <1>10 DEF Loading!Next

LEMMA ScreensHold == Loading!IInv => Loading!LastAnswerIsCurrent
BY DEF Loading!IInv, Loading!ScreensTypeOK, Loading!LastQuestionIsCurrent,
   Loading!LastAnswerIsCurrent, Loading!Rests, Loading!Displayed

LEMMA GuardedStep ==
    Loading!IInv /\ (Loading!Next \/ UNCHANGED Loading!screenVars) => Loading!GuardedChange
<1> SUFFICES ASSUME x1 \in Loading!Components, Loading!Next, x1.guarded, x6' # x6
             PROVE  x6'.key = x2'
    BY DEF Loading!IInv, Loading!ScreensTypeOK, Loading!GuardedChange, Loading!screenVars
<1>1. ~ \E q \in x5 : Loading!Fail(q)
    BY GuardedKeeps DEF Loading!Fail
<1>2. PICK q \in x5 : Loading!Answer(q)
    BY <1>1 DEF Loading!Next, Loading!ChangeKey, Loading!TimerFires, Loading!AskAgain,
       Loading!Change, Loading!OthersChange, Loading!ServerReads
<1> QED
    BY <1>2 DEF Loading!Answer, Loading!Wanted

-----------------------------------------------------------------------------
(***************************************************************************)
(* Pages: x1 listing, x2 rows, x3 clock, x4 cursor, x5 seen, x6 owed, x7 offset, *)
(* x8 grown, x9 done, x10 cut.                                             *)
(***************************************************************************)
Lists == INSTANCE Pages WITH Ids <- RowIds, Fine <- FineStep, MaxTime <- MaxInstant,
    listing <- x1, rows <- x2, clock <- x3, cursor <- x4, seen <- x5, owed <- x6,
    offset <- x7, grown <- x8, done <- x9, cut <- x10

\* The operators on finite sets are those of the library.
LEMMA SetsOfLists ==
    /\ \A S : Lists!Cardinality(S) = Cardinality(S)
    /\ \A S : Lists!IsFiniteSet(S) <=> IsFiniteSet(S)
BY DEF Cardinality, IsFiniteSet, Lists!Cardinality, Lists!IsFiniteSet

-----------------------------------------------------------------------------
\* Rows of different ids, each an id and an instant.
RowsApart(rs) ==
    /\ rs \subseteq Lists!Row /\ Lists!IsFiniteSet(rs)
    /\ \A r, q \in rs : r.id = q.id => r = q

LEMMA RowFields ==
    ASSUME Lists!PagesAssumption, NEW r \in Lists!Row
    PROVE  r.id \in RowIds /\ r.id \in Nat /\ r.at \in Nat /\ r.at \in 0..MaxInstant
<1>1. r.id \in RowIds /\ r.at \in 0..MaxInstant
    BY DEF Lists!Row
<1>2. RowIds \subseteq Nat /\ MaxInstant \in Nat
    BY DEF Lists!PagesAssumption
<1>3. r.id \in Nat
    BY <1>1, <1>2
<1>4. r.at \in Nat
    BY <1>1, <1>2
<1> QED BY <1>1, <1>3, <1>4

LEMMA BeforeOrders ==
    ASSUME Lists!PagesAssumption, NEW list, RowsApart(list), NEW ties \in Lists!Ties,
           NEW R, \A x, y \in list : <<x, y>> \in R <=> Lists!Before(x, y, ties)
    PROVE  InOrder(list, R)
<1>1. \A r \in list : r.id \in Nat /\ r.at \in Nat
    BY RowFields DEF RowsApart
<1>2. \A x, y \in list : x # y => Lists!Before(x, y, ties) \/ Lists!Before(y, x, ties)
    <2> SUFFICES ASSUME NEW x \in list, NEW y \in list, x # y
                 PROVE  Lists!Before(x, y, ties) \/ Lists!Before(y, x, ties)
        OBVIOUS
    <2>1. x.id # y.id
        BY DEF RowsApart
    <2> QED BY <1>1, <2>1 DEF Lists!Before
<1>3. \A x \in list : ~Lists!Before(x, x, ties)
    BY <1>1 DEF Lists!Before
<1>4. \A x, y, z \in list :
        Lists!Before(x, y, ties) /\ Lists!Before(y, z, ties) => Lists!Before(x, z, ties)
    BY <1>1 DEF Lists!Before
<1> QED BY <1>2, <1>3, <1>4 DEF InOrder

LEMMA PlacesOfRows ==
    ASSUME Lists!PagesAssumption, NEW list, RowsApart(list), NEW ties \in Lists!Ties
    PROVE  /\ Lists!Cardinality(list) \in Nat
           /\ \A r \in list : Lists!Place(list, r, ties) \in 0..(Lists!Cardinality(list) - 1)
           /\ \A r, q \in list : Lists!Before(r, q, ties)
                                   <=> Lists!Place(list, r, ties) < Lists!Place(list, q, ties)
           /\ \A m, n \in Nat : m <= n /\ n <= Lists!Cardinality(list) =>
                Lists!Cardinality({r \in list : m <= Lists!Place(list, r, ties)
                                                  /\ Lists!Place(list, r, ties) < n}) = n - m
<1> DEFINE R == {e \in list \X list : Lists!Before(e[1], e[2], ties)}
           p == Places(list, R)
<1>1. Lists!IsFiniteSet(list)
    BY DEF RowsApart
<1>2. \A x, y \in list : <<x, y>> \in R <=> Lists!Before(x, y, ties)
    OBVIOUS
<1>3. \A r \in list : Lists!Place(list, r, ties) = p[r]
    <2> SUFFICES ASSUME NEW r \in list PROVE Lists!Place(list, r, ties) = p[r]
        OBVIOUS
    <2>1. {q \in list : Lists!Before(q, r, ties)} = {q \in list : <<q, r>> \in R}
        BY <1>2
    <2> QED BY <2>1, SetsOfLists DEF Lists!Place, Places
<1> HIDE DEF R
<1>4. InOrder(list, R)
    BY <1>2, BeforeOrders
<1>5. /\ Lists!Cardinality(list) \in Nat
      /\ \A r \in list : p[r] \in 0..(Lists!Cardinality(list) - 1)
      /\ \A r, q \in list : <<r, q>> \in R <=> p[r] < p[q]
    BY <1>1, <1>4, PlacesInOrder, SetsOfLists
<1>6. ASSUME NEW m \in Nat, NEW n \in Nat, m <= n, n <= Lists!Cardinality(list)
      PROVE  Lists!Cardinality({r \in list : m <= Lists!Place(list, r, ties)
                                               /\ Lists!Place(list, r, ties) < n}) = n - m
    <2>1. Lists!Cardinality({r \in list : m <= p[r] /\ p[r] < n}) = n - m
        BY <1>1, <1>4, <1>6, PlacesCount, SetsOfLists
    <2>2. {r \in list : m <= p[r] /\ p[r] < n}
            = {r \in list : m <= Lists!Place(list, r, ties) /\ Lists!Place(list, r, ties) < n}
        BY <1>3
    <2> QED BY <2>1, <2>2
<1>7. \A r \in list : Lists!Place(list, r, ties) \in 0..(Lists!Cardinality(list) - 1)
    BY <1>3, <1>5
<1>8. \A r, q \in list : Lists!Before(r, q, ties)
                           <=> Lists!Place(list, r, ties) < Lists!Place(list, q, ties)
    <2> TAKE r, q \in list
    <2>1. <<r, q>> \in R <=> p[r] < p[q]
        BY <1>5
    <2>2. Lists!Place(list, r, ties) = p[r] /\ Lists!Place(list, q, ties) = p[q]
        BY <1>3
    <2> QED BY <2>1, <2>2, <1>2
<1> QED BY <1>5, <1>6, <1>7, <1>8

LEMMA FirstAndLastRow ==
    ASSUME Lists!PagesAssumption, NEW list, RowsApart(list), list # {}, NEW ties \in Lists!Ties
    PROVE  /\ \E r \in list : \A q \in list : q = r \/ Lists!Before(r, q, ties)
           /\ \E r \in list : \A q \in list : q = r \/ Lists!Before(q, r, ties)
<1> DEFINE R == {e \in list \X list : Lists!Before(e[1], e[2], ties)}
<1>1. Lists!IsFiniteSet(list)
    BY DEF RowsApart
<1>2. \A x, y \in list : <<x, y>> \in R <=> Lists!Before(x, y, ties)
    OBVIOUS
<1> HIDE DEF R
<1>3. InOrder(list, R)
    BY <1>2, BeforeOrders
<1>4. PICK r \in list : \A q \in list : q # r => <<r, q>> \in R
    BY <1>1, <1>3, FirstOfOrder, SetsOfLists
<1>5. PICK z \in list : \A q \in list : q # z => <<q, z>> \in R
    BY <1>1, <1>3, LastOfOrder, SetsOfLists
<1>6. \E x \in list : \A q \in list : q = x \/ Lists!Before(x, q, ties)
    BY <1>2, <1>4
<1>7. \E x \in list : \A q \in list : q = x \/ Lists!Before(q, x, ties)
    BY <1>2, <1>5
<1> QED BY <1>6, <1>7

LEMMA SomeRowsApart ==
    ASSUME NEW rs, RowsApart(rs), NEW list \in SUBSET rs
    PROVE  RowsApart(list)
BY FS_Subset, SetsOfLists DEF RowsApart

LEMMA MilliOfInstant ==
    ASSUME Lists!PagesAssumption, NEW at \in Nat
    PROVE  /\ Lists!Milli(at) \in Nat /\ Lists!Instant(Lists!Milli(at)) \in Nat /\ Lists!Instant(Lists!Milli(at)) <= at
           /\ \A b \in Nat : b <= at /\ Lists!Milli(b) # Lists!Milli(at) => b < Lists!Instant(Lists!Milli(at))
<1>1. FineStep \in Nat \ {0}
    BY DEF Lists!PagesAssumption
<1>2. \A a \in Nat : a \div FineStep \in Nat
    <2> TAKE a \in Nat
    <2>1. a \div FineStep \in Int /\ a \div FineStep >= 0
        BY <1>1
    <2> QED BY <2>1
<1>3. \A a \in Nat : (a \div FineStep) * FineStep <= a
    BY <1>1
<1>4. \A a \in Nat : a < (a \div FineStep) * FineStep + FineStep
    BY <1>1
<1>5. \A c, d \in Nat : c < d => c * FineStep + FineStep <= d * FineStep
    BY <1>1
<1>6. \A c \in Nat : c * FineStep \in Nat
    BY <1>1
<1>7. ASSUME NEW b \in Nat, b <= at, Lists!Milli(b) # Lists!Milli(at)
      PROVE  b < Lists!Instant(Lists!Milli(at))
    <2> DEFINE c == b \div FineStep
               d == at \div FineStep
    <2>1. c \in Nat /\ d \in Nat /\ c * FineStep \in Nat /\ d * FineStep \in Nat
        BY <1>2, <1>6
    <2>2. c * FineStep <= b /\ b < c * FineStep + FineStep /\ d * FineStep <= at /\ at < d * FineStep + FineStep
        BY <1>3, <1>4
    <2>3. c # d
        BY <1>7 DEF Lists!Milli
    <2> HIDE DEF c, d
    <2>4. CASE c < d
        <3>1. c * FineStep + FineStep <= d * FineStep
            BY <2>1, <2>4, <1>5
        <3>2. b < d * FineStep
            BY <3>1, <2>1, <2>2, <1>1
        <3> QED BY <3>2 DEF Lists!Milli, Lists!Instant, d
    <2>5. CASE d < c
        <3>1. d * FineStep + FineStep <= c * FineStep
            BY <2>1, <2>5, <1>5
        <3> QED BY <3>1, <2>1, <2>2, <1>1, <1>7
    <2> QED BY <2>1, <2>3, <2>4, <2>5
<1>8. Lists!Milli(at) \in Nat
    BY <1>2 DEF Lists!Milli
<1>9. Lists!Instant(Lists!Milli(at)) \in Nat /\ Lists!Instant(Lists!Milli(at)) <= at
    BY <1>2, <1>3, <1>6 DEF Lists!Milli, Lists!Instant
<1> QED BY <1>7, <1>8, <1>9

LEMMA LastOfItems ==
    ASSUME Lists!PagesAssumption, NEW items, RowsApart(items), items # {}
    PROVE  Lists!LastOf(items) \in items /\ \A q \in items : q = Lists!LastOf(items) \/ Lists!Before(q, Lists!LastOf(items), "descending")
<1>1. \E r \in items : \A q \in items : q = r \/ Lists!Before(q, r, "descending")
    <2>1. "descending" \in Lists!Ties
        BY DEF Lists!Ties
    <2> QED BY <2>1, FirstAndLastRow
<1> QED BY <1>1 DEF Lists!LastOf

\* A page by cursor: the first rows behind the cursor, all of them if there is no next page.
LEMMA PageByCursor ==
    ASSUME Lists!PagesAssumption, NEW left, RowsApart(left),
           NEW items, items = {r \in left : Lists!Place(left, r, "descending") < PageLimit}
    PROVE  /\ ~(Lists!Cardinality(left) > PageLimit) => items = left
           /\ Lists!Cardinality(left) > PageLimit =>
                /\ Lists!LastOf(items) \in items
                /\ \A q \in items : q = Lists!LastOf(items) \/ Lists!Before(q, Lists!LastOf(items), "descending")
                /\ \A r \in left \ items : Lists!Before(Lists!LastOf(items), r, "descending")
<1>1. items \in SUBSET left
    OBVIOUS
<1>2. RowsApart(items)
    BY <1>1, SomeRowsApart
<1>3. PageLimit \in Nat /\ PageLimit > 0
    <2>1. PageLimit \in Nat \ {0}
        BY DEF Lists!PagesAssumption
    <2> QED BY <2>1
<1>4. /\ Lists!Cardinality(left) \in Nat
      /\ \A r \in left : Lists!Place(left, r, "descending") \in 0..(Lists!Cardinality(left) - 1)
      /\ \A r, q \in left : Lists!Before(r, q, "descending") <=> Lists!Place(left, r, "descending") < Lists!Place(left, q, "descending")
      /\ \A m, n \in Nat : m <= n /\ n <= Lists!Cardinality(left) =>
           Lists!Cardinality({r \in left : m <= Lists!Place(left, r, "descending") /\ Lists!Place(left, r, "descending") < n}) = n - m
    <2>1. "descending" \in Lists!Ties
        BY DEF Lists!Ties
    <2> QED BY <2>1, PlacesOfRows
<1>5. \A r \in left : Lists!Place(left, r, "descending") \in Nat
    BY <1>4
<1>6. ASSUME ~(Lists!Cardinality(left) > PageLimit) PROVE items = left
    <2>1. \A r \in left : Lists!Place(left, r, "descending") < PageLimit
        BY <1>3, <1>4, <1>6
    <2> QED BY <2>1
<1>7. ASSUME Lists!Cardinality(left) > PageLimit
      PROVE  items # {}
    <2> DEFINE T == {r \in left : 0 <= Lists!Place(left, r, "descending") /\ Lists!Place(left, r, "descending") < 1}
    <2>0. 1 <= Lists!Cardinality(left)
        BY <1>3, <1>4, <1>7
    <2>1. Lists!Cardinality(T) = 1 - 0
        BY <2>0, <1>4
    <2>2. T # {}
        <3>1. 1 - 0 # 0
            OBVIOUS
        <3> HIDE DEF T
        <3> QED BY <2>1, <3>1, FS_EmptySet, SetsOfLists
    <2>3. PICK r \in left : Lists!Place(left, r, "descending") < 1
        BY <2>2
    <2>4. Lists!Place(left, r, "descending") < PageLimit
        BY <2>3, <1>3, <1>5
    <2> QED BY <2>4
<1>8. Lists!Cardinality(left) > PageLimit =>
        /\ Lists!LastOf(items) \in items
        /\ \A q \in items : q = Lists!LastOf(items) \/ Lists!Before(q, Lists!LastOf(items), "descending")
    BY <1>2, <1>7, LastOfItems
<1>9. ASSUME Lists!Cardinality(left) > PageLimit, NEW r \in left \ items
      PROVE  Lists!Before(Lists!LastOf(items), r, "descending")
    <2> DEFINE last == Lists!LastOf(items)
    <2>1. last \in left /\ Lists!Place(left, last, "descending") < PageLimit
        BY <1>1, <1>8, <1>9
    <2>2. ~(Lists!Place(left, r, "descending") < PageLimit)
        OBVIOUS
    <2> HIDE DEF last
    <2>3. Lists!Place(left, r, "descending") \in Nat /\ Lists!Place(left, last, "descending") \in Nat
        BY <2>1, <1>5
    <2>4. Lists!Place(left, last, "descending") < Lists!Place(left, r, "descending")
        BY <2>1, <2>2, <2>3, <1>3
    <2>5. Lists!Before(last, r, "descending")
        BY <2>1, <2>4, <1>4
    <2> QED BY <2>5 DEF last
<1> QED BY <1>6, <1>8, <1>9

\* What stands behind a page's cursor stands behind the page and the cursor before, and
\* what stands behind the page and is not of its millisecond stands behind its cursor.
LEMMA NextCursor ==
    ASSUME Lists!PagesAssumption, NEW last \in Lists!Row, NEW c, Lists!AfterCursor(last, c),
           c.from = "row" => c.id \in Nat /\ Lists!Instant(c.ms) \in Nat
    PROVE  /\ ~Lists!AfterCursor(last, Lists!CursorAt(last))
           /\ \A r \in Lists!Row : Lists!Before(r, last, "descending") => ~Lists!AfterCursor(r, Lists!CursorAt(last))
           /\ c.from \in {"start", "row"} => \A r \in Lists!Row : Lists!AfterCursor(r, Lists!CursorAt(last)) => Lists!AfterCursor(r, c)
           /\ \A r \in Lists!Row : Lists!Before(last, r, "descending") /\ Lists!Milli(r.at) # Lists!Milli(last.at) =>
                Lists!AfterCursor(r, Lists!CursorAt(last))
<1> DEFINE first == Lists!Instant(Lists!Milli(last.at))
<1>1. last.id \in Nat /\ last.at \in Nat
    BY RowFields
<1>2. first \in Nat /\ first <= last.at
    BY <1>1, MilliOfInstant
<1>3. \A b \in Nat : b <= last.at /\ Lists!Milli(b) # Lists!Milli(last.at) => b < first
    BY <1>1, MilliOfInstant
<1>4. \A r : Lists!AfterCursor(r, Lists!CursorAt(last)) <=> r.at < first \/ (r.at = first /\ r.id < last.id)
    BY DEF Lists!AfterCursor, Lists!CursorAt
<1>5. \A r \in Lists!Row : r.id \in Nat /\ r.at \in Nat
    BY RowFields
<1> HIDE DEF first
<1>6. ~Lists!AfterCursor(last, Lists!CursorAt(last))
    BY <1>1, <1>2, <1>4
<1>7. ASSUME NEW r \in Lists!Row, Lists!Before(r, last, "descending")
      PROVE  ~Lists!AfterCursor(r, Lists!CursorAt(last))
    <2>1. r.at > last.at \/ (r.at = last.at /\ r.id > last.id)
        BY <1>7 DEF Lists!Before
    <2>2. r.at \in Nat /\ r.id \in Nat
        BY <1>5
    <2>3. ~(r.at < first \/ (r.at = first /\ r.id < last.id))
        BY <2>1, <2>2, <1>1, <1>2
    <2> QED BY <2>3, <1>4
<1>8. ASSUME NEW r \in Lists!Row, c.from \in {"start", "row"}, Lists!AfterCursor(r, Lists!CursorAt(last))
      PROVE  Lists!AfterCursor(r, c)
    <2>1. CASE c.from = "start"
        BY <2>1 DEF Lists!AfterCursor
    <2>2. CASE c.from = "row"
        <3> DEFINE i == Lists!Instant(c.ms)
        <3>1. i \in Nat /\ c.id \in Nat
            BY <2>2
        <3>2. last.at < i \/ (last.at = i /\ last.id < c.id)
            BY <2>2 DEF Lists!AfterCursor
        <3>3. r.at < first \/ (r.at = first /\ r.id < last.id)
            BY <1>4, <1>8
        <3>4. r.at \in Nat /\ r.id \in Nat
            BY <1>5
        <3> HIDE DEF i
        <3>5. r.at < i \/ (r.at = i /\ r.id < c.id)
            BY <3>1, <3>2, <3>3, <3>4, <1>1, <1>2
        <3> QED BY <3>5 DEF Lists!AfterCursor, i
    <2> QED BY <1>8, <2>1, <2>2
<1>9. ASSUME NEW r \in Lists!Row, Lists!Before(last, r, "descending"), Lists!Milli(r.at) # Lists!Milli(last.at)
      PROVE  Lists!AfterCursor(r, Lists!CursorAt(last))
    <2>1. r.at \in Nat
        BY <1>5
    <2>2. r.at <= last.at
        BY <1>1, <1>9, <2>1 DEF Lists!Before
    <2>3. r.at < first
        BY <2>1, <2>2, <1>3, <1>9
    <2> QED BY <2>3, <1>4
<1> QED BY <1>6, <1>7, <1>8, <1>9

-----------------------------------------------------------------------------
LEMMA PagesBegin == ASSUME Lists!PagesAssumption PROVE Lists!Init => Lists!IInv
<1> SUFFICES ASSUME Lists!Init PROVE Lists!IInv
    OBVIOUS
<1>1. x2 = {} /\ x6 = {} /\ x3 = 0 /\ x7 = 0 /\ x4 = Lists!NoCursor /\ x1 \in Listings
      /\ x5 = [id \in RowIds |-> 0] /\ ~x9 /\ ~x10 /\ ~x8
      /\ x9 \in BOOLEAN /\ x10 \in BOOLEAN /\ x8 \in BOOLEAN
    BY DEF Lists!Init
<1>2. x5 \in [RowIds -> Nat] /\ \A id \in RowIds : x5[id] = 0
    BY <1>1
<1>3. x4 \in [ms : Nat, id : RowIds \cup {0}, from : {"start", "row"}]
    BY <1>1 DEF Lists!NoCursor
<1>4. x3 \in 0..MaxInstant
    <2>1. MaxInstant \in Nat
        BY DEF Lists!PagesAssumption
    <2> QED BY <1>1, <2>1
<1>5. x7 \in 0..(MaxPages * PageLimit)
    <2>1. MaxPages \in Nat /\ PageLimit \in Nat
        BY DEF Lists!PagesAssumption
    <2>2. MaxPages * PageLimit \in Nat
        BY <2>1
    <2> QED BY <2>2, <1>1
<1>6. Lists!TypeOK
    BY <1>1, <1>2, <1>3, <1>4, <1>5 DEF Lists!TypeOK
<1>7. Lists!IsFiniteSet(x2)
    BY <1>1, FS_EmptySet, SetsOfLists
<1>8. Lists!CursorInv /\ Lists!OffsetInv
    BY <1>1, <1>2 DEF Lists!CursorInv, Lists!OffsetInv
<1> QED BY <1>1, <1>6, <1>7, <1>8 DEF Lists!IInv

LEMMA RowsAreApart == ASSUME Lists!IInv PROVE RowsApart(x2)
BY DEF Lists!IInv, Lists!TypeOK, RowsApart

LEMMA NewKeeps ==
    ASSUME Lists!PagesAssumption, Lists!IInv, NEW id \in RowIds, NEW at \in 0..MaxInstant, Lists!New(id, at)
    PROVE  Lists!IInv'
<1> DEFINE new == [id |-> id, at |-> at]
<1>1. /\ \A r \in x2 : r.id # id
      /\ x2' = x2 \cup {new}
      /\ x8' = (x8 \/ Lists!Begun)
      /\ x3' = x3 /\ x6' = x6 /\ x1' = x1 /\ x4' = x4
      /\ x7' = x7 /\ x5' = x5 /\ x9' = x9 /\ x10' = x10
    BY DEF Lists!New, Lists!paging
<1>2. Lists!TypeOK /\ Lists!IsFiniteSet(x2) /\ \A r, q \in x2 : r.id = q.id => r = q
    BY DEF Lists!IInv
<1>3. new \in Lists!Row /\ new.id = id
    BY DEF Lists!Row
<1>4. x2' \in SUBSET Lists!Row /\ x6' \subseteq x2'
    BY <1>1, <1>2, <1>3 DEF Lists!TypeOK
<1>5. x8' \in BOOLEAN
    BY <1>1, <1>2 DEF Lists!TypeOK, Lists!Begun
<1>6. Lists!TypeOK'
    BY <1>1, <1>2, <1>4, <1>5 DEF Lists!TypeOK
<1> HIDE DEF new
<1>7. Lists!IsFiniteSet(x2')
    BY <1>1, <1>2, FS_AddElement, SetsOfLists
<1>8. \A r, q \in x2' : r.id = q.id => r = q
    BY <1>1, <1>2, <1>3
<1>9. ASSUME Lists!CursorInv PROVE Lists!CursorInv'
    <2>1. id \in RowIds /\ \A i \in RowIds : x5[i] = 1 => \E r \in x2 : r.id = i
        BY <1>9 DEF Lists!CursorInv
    <2>2. x5[id] # 1
        BY <2>1, <1>1
    <2>3. \A i \in RowIds : x5'[i] \in 0..1 /\ (x5'[i] = 1 => \E r \in x2' : r.id = i)
        BY <1>1, <1>9 DEF Lists!CursorInv
    <2>4. ~x9' => \A r \in x2' : x5'[r.id] = 1 => ~Lists!AfterCursor(r, x4')
        BY <1>1, <1>3, <1>9, <2>2 DEF Lists!CursorInv
    <2>5. ~x10' => \A r \in x6' : x5'[r.id] = 1 \/ (~x9' /\ Lists!AfterCursor(r, x4'))
        BY <1>1, <1>9 DEF Lists!CursorInv
    <2> QED BY <2>3, <2>4, <2>5 DEF Lists!CursorInv, Lists!AfterCursor, Lists!Instant
<1>10. ASSUME Lists!OffsetInv PROVE Lists!OffsetInv'
    <2>1. ASSUME ~x10', NEW r \in x6'
          PROVE  x5'[r.id] > 0 \/ (~x9' /\ x7' <= Lists!Cardinality(Lists!Newer(r.at)'))
        <3> DEFINE N == {q \in x2 : q.at > r.at}
                   M == {q \in x2' : q.at > r.at}
        <3>1. N \in SUBSET M /\ M \in SUBSET x2' /\ N \in SUBSET x2
            BY <1>1
        <3>2. N = Lists!Newer(r.at) /\ M = Lists!Newer(r.at)'
            BY DEF Lists!Newer
        <3> HIDE DEF N, M
        <3>3. Lists!IsFiniteSet(M) /\ Lists!IsFiniteSet(N)
            BY <1>2, <1>7, <3>1, FS_Subset, SetsOfLists
        <3>4. Lists!Cardinality(N) <= Lists!Cardinality(M)
            BY <3>1, <3>3, FS_Subset, SetsOfLists
        <3>5. Lists!Cardinality(N) \in Nat /\ Lists!Cardinality(M) \in Nat
            BY <3>3, FS_CardinalityType, SetsOfLists
        <3>6. x7 \in Int
            BY <1>2 DEF Lists!TypeOK
        <3>7. x5[r.id] > 0 \/ (~x9 /\ x7 <= Lists!Cardinality(N))
            BY <1>1, <1>10, <2>1, <3>2 DEF Lists!OffsetInv
        <3> QED BY <1>1, <3>2, <3>4, <3>5, <3>6, <3>7
    <2>2. ASSUME ~x8'
          PROVE  \A i \in RowIds : x5'[i] = 0
        <3>1. ~Lists!Begun
            BY <1>1, <2>2
        <3>2. \A i \in RowIds : x5[i] \in Nat
            BY <1>2 DEF Lists!TypeOK
        <3> QED BY <1>1, <3>1, <3>2 DEF Lists!Begun
    <2>3. \A r \in x2' : r.id \in RowIds
        BY <1>4, RowFields
    <2>4. ~x8' => /\ \A i \in RowIds : x5'[i] \in 0..1
                  /\ \A r \in x2' : x5'[r.id] = 1 => Lists!Cardinality(Lists!AsNew(r.at)') <= x7'
        BY <2>2, <2>3
    <2> QED BY <2>1, <2>4 DEF Lists!OffsetInv
<1> QED BY <1>1, <1>6, <1>7, <1>8, <1>9, <1>10 DEF Lists!IInv

LEMMA PurgeKeeps ==
    ASSUME Lists!PagesAssumption, Lists!IInv, NEW at \in 1..MaxInstant, Lists!Purge(at)
    PROVE  Lists!IInv'
<1>1. /\ x1 = "audit log"
      /\ x2' = {r \in x2 : r.at >= at}
      /\ x6' = x6 \cap x2'
      /\ x3' = x3 /\ x8' = x8 /\ x1' = x1 /\ x4' = x4
      /\ x7' = x7 /\ x5' = x5 /\ x9' = x9 /\ x10' = x10
    BY DEF Lists!Purge, Lists!paging
<1>2. Lists!TypeOK /\ RowsApart(x2) /\ Lists!OffsetInv
    BY <1>1, RowsAreApart DEF Lists!IInv
<1>3. x2' \in SUBSET x2
    BY <1>1
<1>4. RowsApart(x2')
    BY <1>2, <1>3, SomeRowsApart
<1>5. Lists!TypeOK'
    BY <1>1, <1>2, <1>3 DEF Lists!TypeOK
<1>6. \A r \in x2' : Lists!Newer(r.at)' = Lists!Newer(r.at) /\ Lists!AsNew(r.at)' = Lists!AsNew(r.at)
    <2> TAKE r \in x2'
    <2>1. r \in x2 /\ r.at >= at /\ r.at \in Nat
        BY <1>1, <1>2, RowFields DEF RowsApart
    <2>2. \A q \in x2 : q.at \in Nat
        BY <1>2, RowFields DEF RowsApart
    <2>3. at \in Nat
        <3>1. MaxInstant \in Nat
            BY DEF Lists!PagesAssumption
        <3> QED BY <3>1
    <2>4. ASSUME NEW q \in x2, q.at > r.at \/ q.at >= r.at PROVE q \in x2'
        <3>1. q.at \in Nat
            BY <2>2
        <3>2. q.at >= at
            BY <2>1, <2>3, <2>4, <3>1
        <3> QED BY <1>1, <3>2
    <2> QED BY <1>3, <2>4 DEF Lists!Newer, Lists!AsNew
<1>7. ~x10' => \A r \in x6' : x5'[r.id] > 0 \/ (~x9' /\ x7' <= Lists!Cardinality(Lists!Newer(r.at)'))
    <2> SUFFICES ASSUME ~x10', NEW r \in x6'
                 PROVE  x5'[r.id] > 0 \/ (~x9' /\ x7' <= Lists!Cardinality(Lists!Newer(r.at)'))
        OBVIOUS
    <2>1. r \in x6 /\ r \in x2'
        BY <1>1
    <2>2. Lists!Newer(r.at)' = Lists!Newer(r.at)
        BY <2>1, <1>6
    <2>3. x5[r.id] > 0 \/ (~x9 /\ x7 <= Lists!Cardinality(Lists!Newer(r.at)))
        BY <1>1, <1>2, <2>1 DEF Lists!OffsetInv
    <2> QED BY <1>1, <2>2, <2>3
<1>8. ~x8' /\ ~x10' => /\ \A i \in RowIds : x5'[i] \in 0..1
                       /\ \A r \in x2' : x5'[r.id] = 1 => Lists!Cardinality(Lists!AsNew(r.at)') <= x7'
    <2> SUFFICES ASSUME ~x8', ~x10'
                 PROVE  /\ \A i \in RowIds : x5'[i] \in 0..1
                        /\ \A r \in x2' : x5'[r.id] = 1 => Lists!Cardinality(Lists!AsNew(r.at)') <= x7'
        OBVIOUS
    <2>1. ASSUME NEW r \in x2', x5'[r.id] = 1
          PROVE  Lists!Cardinality(Lists!AsNew(r.at)') <= x7'
        <3>1. Lists!AsNew(r.at)' = Lists!AsNew(r.at)
            BY <1>6
        <3>2. Lists!Cardinality(Lists!AsNew(r.at)) <= x7
            BY <1>1, <1>2, <1>3, <2>1 DEF Lists!OffsetInv
        <3> QED BY <1>1, <3>1, <3>2
    <2>2. \A i \in RowIds : x5'[i] \in 0..1
        BY <1>1, <1>2 DEF Lists!OffsetInv
    <2> QED BY <2>1, <2>2
<1> QED BY <1>1, <1>4, <1>5, <1>7, <1>8 DEF Lists!IInv, Lists!OffsetInv, RowsApart

\* After a page by cursor.
LEMMA PageKeeps == ASSUME Lists!PagesAssumption, Lists!IInv, Lists!Page PROVE Lists!IInv'
<1> DEFINE left == {r \in x2 : Lists!AfterCursor(r, x4)}
           items == {r \in left : Lists!Place(left, r, "descending") < PageLimit}
           more == Lists!Cardinality(left) > PageLimit
           last == Lists!LastOf(items)
<1>1. /\ x1 = "remittances" /\ ~x9
      /\ x6' = IF x4 = Lists!NoCursor THEN x2 ELSE x6
      /\ \A id \in RowIds : x5'[id] = x5[id] + IF \E r \in items : r.id = id THEN 1 ELSE 0
      /\ x5' = [id \in RowIds |-> x5'[id]]
      /\ x9' = ~more
      /\ x4' = IF more THEN Lists!CursorAt(last) ELSE x4
      /\ x10' = (x10 \/ (more /\ \E r \in x2 :
                    Lists!Before(last, r, "descending") /\ Lists!Milli(r.at) = Lists!Milli(last.at)))
      /\ x1' = x1 /\ x2' = x2 /\ x3' = x3 /\ x7' = x7 /\ x8' = x8
    BY DEF Lists!Page, Lists!QueryWithCursor, Lists!Receives
<1>2. Lists!TypeOK /\ RowsApart(x2) /\ Lists!CursorInv
    BY <1>1, RowsAreApart DEF Lists!IInv
<1>3. left \in SUBSET x2 /\ items \in SUBSET left /\ items \in SUBSET x2
    OBVIOUS
<1>4. RowsApart(left)
    <2> HIDE DEF left
    <2> QED BY <1>2, <1>3, SomeRowsApart
<1>5. /\ ~more => items = left
      /\ more => /\ last \in items
                 /\ \A q \in items : q = last \/ Lists!Before(q, last, "descending")
                 /\ \A r \in left \ items : Lists!Before(last, r, "descending")
    <2> HIDE DEF left
    <2> QED BY <1>4, PageByCursor
<1>6. \A r \in x2 : r \in left <=> Lists!AfterCursor(r, x4)
    OBVIOUS
<1>7. x2 \subseteq Lists!Row /\ \A r \in x2 : r.id \in RowIds
    BY <1>2, RowFields DEF RowsApart
<1>8. x9' <=> ~more
    BY <1>1, Zenon
<1>9. x10' <=> x10 \/ (more /\ \E r \in x2 :
                    Lists!Before(last, r, "descending") /\ Lists!Milli(r.at) = Lists!Milli(last.at))
    BY <1>1, Zenon
<1>10. x9' \in BOOLEAN /\ x10' \in BOOLEAN
    BY <1>1, <1>2, Zenon DEF Lists!TypeOK
<1> HIDE DEF left, items, more, last
<1>11. x4 \in [ms : Nat, id : RowIds \cup {0}, from : {"start", "row"}]
    BY <1>2 DEF Lists!TypeOK
<1>12. more => last \in x2 /\ last \in Lists!Row /\ Lists!AfterCursor(last, x4)
    BY <1>3, <1>5, <1>6, <1>7
<1>13. Lists!TypeOK'
    <2>1. x5' \in [RowIds -> Nat]
        <3>1. \A id \in RowIds : x5[id] \in Nat
            BY <1>2 DEF Lists!TypeOK
        <3>2. \A id \in RowIds : x5'[id] \in Nat
            BY <1>1, <3>1
        <3> QED BY <1>1, <3>2
    <2>2. x4' \in [ms : Nat, id : RowIds \cup {0}, from : {"start", "row"}]
        <3>1. ASSUME more
              PROVE  Lists!CursorAt(last) \in [ms : Nat, id : RowIds \cup {0}, from : {"start", "row"}]
            <4>1. last.id \in RowIds /\ last.at \in Nat
                BY <1>12, <3>1, RowFields
            <4>2. Lists!Milli(last.at) \in Nat
                BY <4>1, MilliOfInstant
            <4> QED BY <4>1, <4>2 DEF Lists!CursorAt
        <3> QED BY <1>1, <1>11, <3>1
    <2>3. x6' \subseteq x2'
        BY <1>1, <1>2 DEF Lists!TypeOK
    <2> QED BY <1>1, <1>2, <1>10, <2>1, <2>2, <2>3 DEF Lists!TypeOK
<1>14. ASSUME more
      PROVE  /\ \A r \in x2 : Lists!AfterCursor(r, Lists!CursorAt(last)) => Lists!AfterCursor(r, x4)
             /\ \A r \in items : ~Lists!AfterCursor(r, Lists!CursorAt(last))
             /\ \A r \in left \ items : Lists!Milli(r.at) # Lists!Milli(last.at) => Lists!AfterCursor(r, Lists!CursorAt(last))
    <2>1. x4.from = "row" => x4.id \in Nat /\ Lists!Instant(x4.ms) \in Nat
        <3>1. x4.ms \in Nat /\ FineStep \in Nat /\ x4.id \in RowIds \cup {0} /\ RowIds \subseteq Nat
            BY <1>11 DEF Lists!PagesAssumption
        <3>2. x4.ms * FineStep \in Nat
            BY <3>1
        <3>3. x4.from = "row" => x4.id \in Nat
            <4>1. x4.id \in RowIds \/ x4.id = 0
                BY <3>1
            <4>2. RowIds \subseteq Nat
                BY <3>1
            <4>3. x4.id \in Nat
                <5>1. CASE x4.id \in RowIds
                    BY <5>1, <4>2
                <5>2. CASE x4.id = 0
                    BY <5>2
                <5> QED BY <4>1, <5>1, <5>2
            <4> QED BY <4>3
        <3> QED BY <3>2, <3>3 DEF Lists!Instant
    <2>2. x4.from \in {"start", "row"}
        BY <1>11
    <2>3. /\ ~Lists!AfterCursor(last, Lists!CursorAt(last))
          /\ \A r \in Lists!Row : Lists!Before(r, last, "descending") => ~Lists!AfterCursor(r, Lists!CursorAt(last))
          /\ \A r \in Lists!Row : Lists!AfterCursor(r, Lists!CursorAt(last)) => Lists!AfterCursor(r, x4)
          /\ \A r \in Lists!Row : Lists!Before(last, r, "descending") /\ Lists!Milli(r.at) # Lists!Milli(last.at) =>
               Lists!AfterCursor(r, Lists!CursorAt(last))
        BY <1>12, <1>14, <2>1, <2>2, NextCursor
    <2> QED BY <1>3, <1>5, <1>7, <1>14, <2>3
<1>15. \A r \in x2 : x5[r.id] \in 0..1 /\ (r \in items => x5[r.id] = 0)
    BY <1>1, <1>2, <1>3, <1>6, <1>7 DEF Lists!CursorInv
<1>16. \A r \in x2 : (\E q \in items : q.id = r.id) <=> r \in items
    BY <1>2, <1>3 DEF RowsApart
<1>17. \A r \in x2 : x5'[r.id] = IF r \in items THEN 1 ELSE x5[r.id]
    <2> TAKE r \in x2
    <2>1. x5'[r.id] = x5[r.id] + IF r \in items THEN 1 ELSE 0
        BY <1>1, <1>7, <1>16
    <2> QED BY <2>1, <1>15
<1>18. \A id \in RowIds : x5'[id] \in 0..1 /\ (x5'[id] = 1 => \E r \in x2' : r.id = id)
    <2> TAKE id \in RowIds
    <2>1. CASE \E r \in x2 : r.id = id
        BY <2>1, <1>1, <1>15, <1>17
    <2>2. CASE ~\E r \in x2 : r.id = id
        <3>1. x5'[id] = x5[id] + 0
            BY <2>2, <1>1, <1>3
        <3>2. x5[id] \in 0..1 /\ x5[id] # 1
            BY <2>2, <1>2 DEF Lists!CursorInv
        <3> QED BY <3>1, <3>2
    <2> QED BY <2>1, <2>2
<1>19. ~x9' => \A r \in x2' : x5'[r.id] = 1 => ~Lists!AfterCursor(r, x4')
    <2> SUFFICES ASSUME ~x9', NEW r \in x2, x5'[r.id] = 1
                 PROVE  ~Lists!AfterCursor(r, x4')
        BY <1>1
    <2>1. more /\ x4' = Lists!CursorAt(last)
        BY <1>1, <1>8
    <2>2. CASE r \in items
        BY <2>1, <2>2, <1>14
    <2>3. CASE r \notin items
        <3>1. ~Lists!AfterCursor(r, x4)
            BY <2>3, <1>1, <1>2, <1>17 DEF Lists!CursorInv
        <3> QED BY <2>1, <3>1, <1>14
    <2> QED BY <2>2, <2>3
<1>20. ~x10' => \A r \in x6' : x5'[r.id] = 1 \/ (~x9' /\ Lists!AfterCursor(r, x4'))
    <2> SUFFICES ASSUME ~x10', NEW r \in x6', r \notin items, x5[r.id] # 1
                 PROVE  ~x9' /\ Lists!AfterCursor(r, x4')
        <3>1. x6' \subseteq x2
            BY <1>1, <1>2 DEF Lists!TypeOK
        <3> QED BY <3>1, <1>17
    <2>1. r \in x2 /\ r \in left
        <3>1. CASE x4 = Lists!NoCursor
            BY <3>1, <1>1, <1>6 DEF Lists!NoCursor, Lists!AfterCursor
        <3>2. CASE x4 # Lists!NoCursor
            <4>1. r \in x6 /\ r \in x2
                BY <3>2, <1>1, <1>2 DEF Lists!TypeOK
            <4>2. ~x10
                BY <1>9
            <4>3. Lists!AfterCursor(r, x4)
                BY <4>1, <4>2, <1>2 DEF Lists!CursorInv
            <4> QED BY <4>1, <4>3, <1>6
        <3> QED BY <3>1, <3>2
    <2>2. more
        BY <2>1, <1>5
    <2>3. Lists!Before(last, r, "descending")
        BY <2>1, <2>2, <1>5
    <2>4. Lists!Milli(r.at) # Lists!Milli(last.at)
        BY <2>1, <2>2, <2>3, <1>9
    <2>5. Lists!AfterCursor(r, Lists!CursorAt(last))
        BY <2>1, <2>2, <2>4, <1>14
    <2> QED BY <2>2, <2>5, <1>1, <1>8
<1>21. Lists!CursorInv'
    BY <1>18, <1>19, <1>20 DEF Lists!CursorInv, Lists!AfterCursor, Lists!Instant
<1> QED BY <1>1, <1>2, <1>13, <1>21 DEF Lists!IInv, RowsApart

\* A page by number of rows: as many as it holds, unless the list ends.
LEMMA PageByNumber ==
    ASSUME Lists!PagesAssumption, RowsApart(x2), NEW ties \in Lists!Ties, x7 \in Nat,
           NEW items, items = Lists!QueryByOffset(ties)
    PROVE  /\ items \in SUBSET x2
           /\ IF x7 + PageLimit <= Lists!Cardinality(x2) THEN Lists!Cardinality(items) = PageLimit ELSE TRUE
<1>1. PageLimit \in Nat
    BY DEF Lists!PagesAssumption
<1>2. ASSUME x7 + PageLimit <= Lists!Cardinality(x2)
      PROVE  Lists!Cardinality(items) = PageLimit
    <2>1. x7 + PageLimit \in Nat /\ x7 <= x7 + PageLimit
        BY <1>1
    <2>2. Lists!Cardinality(items) = (x7 + PageLimit) - x7
        BY <2>1, <1>2, PlacesOfRows DEF Lists!QueryByOffset
    <2> QED BY <2>2, <1>1
<1> QED BY <1>2 DEF Lists!QueryByOffset

\* A row's place, next to the numbers of those newer and of those as new: where the first
\* n rows do not end among rows of its instant, either all as new are among them or none
\* of them is.
LEMMA PlaceAmongEqual ==
    ASSUME Lists!PagesAssumption, RowsApart(x2), NEW ties \in Lists!Ties, NEW r \in x2, NEW n \in Nat
    PROVE  /\ Lists!Place(x2, r, ties) \in Nat
           /\ Lists!Cardinality(Lists!Newer(r.at)) \in Nat /\ Lists!Cardinality(Lists!AsNew(r.at)) \in Nat
           /\ Lists!Cardinality(Lists!Newer(r.at)) <= Lists!Place(x2, r, ties)
           /\ Lists!Place(x2, r, ties) < Lists!Cardinality(Lists!AsNew(r.at))
           /\ Lists!Cardinality(Lists!Newer(r.at)) <= Lists!Cardinality(x2)
           /\ ~Lists!AmongEqual(ties, n) /\ n <= Lists!Place(x2, r, ties) => n <= Lists!Cardinality(Lists!Newer(r.at))
           /\ ~Lists!AmongEqual(ties, n) /\ Lists!Place(x2, r, ties) < n => Lists!Cardinality(Lists!AsNew(r.at)) <= n
<1> DEFINE Earlier(q) == {x \in x2 : Lists!Before(x, q, ties)}
           same == {q \in x2 : q.at = r.at}
<1>1. \A q \in x2 : q.id \in Nat /\ q.at \in Nat
    BY RowFields DEF RowsApart
<1>2. Lists!IsFiniteSet(x2)
    BY DEF RowsApart
<1>3. \A s \in SUBSET x2 : Lists!IsFiniteSet(s) /\ Lists!Cardinality(s) \in Nat /\ Lists!Cardinality(s) <= Lists!Cardinality(x2)
    BY <1>2, FS_Subset, FS_CardinalityType, SetsOfLists
<1>4. \A q \in x2 : Lists!Place(x2, q, ties) = Lists!Cardinality(Earlier(q))
    BY DEF Lists!Place
<1>5. \A q \in x2 : Lists!Place(x2, q, ties) \in Nat
    BY <1>3, <1>4
<1>6. Lists!Newer(r.at) \in SUBSET x2 /\ Lists!AsNew(r.at) \in SUBSET x2
    BY DEF Lists!Newer, Lists!AsNew
<1>7. \A q \in same : Lists!Newer(r.at) \subseteq Earlier(q) /\ Earlier(q) \subseteq Lists!AsNew(r.at) \ {q}
    BY <1>1 DEF Lists!Newer, Lists!AsNew, Lists!Before
<1>8. \A q \in same : Lists!Cardinality(Lists!Newer(r.at)) <= Lists!Cardinality(Earlier(q))
                        /\ Lists!Cardinality(Earlier(q)) < Lists!Cardinality(Lists!AsNew(r.at))
    <2> TAKE q \in same
    <2> DEFINE others == Lists!AsNew(r.at) \ {q}
    <2>1. q \in Lists!AsNew(r.at)
        BY <1>1 DEF Lists!AsNew
    <2>2. Lists!Cardinality(others) = Lists!Cardinality(Lists!AsNew(r.at)) - 1 /\ Lists!IsFiniteSet(others)
        BY <2>1, <1>3, <1>6, FS_RemoveElement, SetsOfLists
    <2>3. Lists!Newer(r.at) \in SUBSET Earlier(q) /\ Earlier(q) \in SUBSET others
        BY <1>7
    <2>4. Earlier(q) \in SUBSET x2
        OBVIOUS
    <2>5. Lists!IsFiniteSet(Earlier(q)) /\ Lists!Cardinality(Earlier(q)) \in Nat
        BY <2>4, <1>3
    <2> HIDE DEF others, Earlier
    <2>6. Lists!Cardinality(Lists!Newer(r.at)) <= Lists!Cardinality(Earlier(q)) /\ Lists!Cardinality(Earlier(q)) <= Lists!Cardinality(others)
        BY <2>2, <2>3, <2>5, FS_Subset, SetsOfLists
    <2> QED BY <2>2, <2>5, <2>6, <1>3, <1>6
<1>9. same \in SUBSET x2 /\ r \in same
    OBVIOUS
<1>10. RowsApart(same) /\ same # {}
    BY <1>9, SomeRowsApart
<1>11. PICK first \in same : \A q \in same : q = first \/ Lists!Before(first, q, ties)
    BY <1>10, FirstAndLastRow
<1>12. PICK final \in same : \A q \in same : q = final \/ Lists!Before(q, final, ties)
    BY <1>10, FirstAndLastRow
<1>13. Earlier(first) = Lists!Newer(r.at)
    BY <1>1, <1>11 DEF Lists!Newer, Lists!Before
<1>14. Lists!Cardinality(Lists!AsNew(r.at)) = Lists!Cardinality(Earlier(final)) + 1
    <2>1. Lists!AsNew(r.at) = Earlier(final) \cup {final}
        BY <1>1, <1>12 DEF Lists!AsNew, Lists!Before
    <2>2. final \notin Earlier(final)
        BY <1>1 DEF Lists!Before
    <2>3. Earlier(final) \in SUBSET x2
        OBVIOUS
    <2>4. Lists!IsFiniteSet(Earlier(final))
        BY <2>3, <1>3
    <2> HIDE DEF Earlier
    <2> QED BY <2>1, <2>2, <2>4, FS_AddElement, SetsOfLists
<1> HIDE DEF Earlier
<1>15. first \in x2 /\ final \in x2 /\ first.at = r.at /\ final.at = r.at
    BY <1>11, <1>12
<1>16. ASSUME ~Lists!AmongEqual(ties, n), n <= Lists!Place(x2, r, ties)
       PROVE  n <= Lists!Cardinality(Lists!Newer(r.at))
    <2>1. ~(Lists!Place(x2, first, ties) < n)
        BY <1>15, <1>16 DEF Lists!AmongEqual
    <2> QED BY <2>1, <1>4, <1>5, <1>13, <1>15
<1>17. ASSUME ~Lists!AmongEqual(ties, n), Lists!Place(x2, r, ties) < n
       PROVE  Lists!Cardinality(Lists!AsNew(r.at)) <= n
    <2>1. ~(n <= Lists!Place(x2, final, ties))
        BY <1>15, <1>17 DEF Lists!AmongEqual
    <2> QED BY <2>1, <1>4, <1>5, <1>14, <1>15
<1>18. Lists!Cardinality(Lists!Newer(r.at)) <= Lists!Place(x2, r, ties) /\ Lists!Place(x2, r, ties) < Lists!Cardinality(Lists!AsNew(r.at))
    BY <1>4, <1>8, <1>9
<1> QED BY <1>3, <1>5, <1>6, <1>16, <1>17, <1>18

\* After a page by number of rows.
LEMMA PageByOffsetKeeps ==
    ASSUME Lists!PagesAssumption, Lists!IInv, Lists!PageByOffset PROVE Lists!IInv'
<1>1. PICK ties \in Lists!Ties :
        /\ x1 # "remittances" /\ ~x9 /\ x7 + PageLimit <= MaxPages * PageLimit
        /\ x6' = IF x7 = 0 THEN x2 ELSE x6
        /\ Lists!Receives(Lists!QueryByOffset(ties))
        /\ x9' = (Lists!Cardinality(Lists!QueryByOffset(ties)) < PageLimit)
        /\ x7' = x7 + PageLimit
        /\ x10' = (x10 \/ Lists!AmongEqual(ties, x7 + PageLimit))
        /\ x1' = x1 /\ x2' = x2 /\ x3' = x3 /\ x4' = x4 /\ x8' = x8
    BY DEF Lists!PageByOffset
<1> DEFINE items == Lists!QueryByOffset(ties)
           next == x7 + PageLimit
<1>2. Lists!TypeOK /\ RowsApart(x2) /\ Lists!OffsetInv
    BY <1>1, RowsAreApart DEF Lists!IInv
<1>3. MaxPages * PageLimit \in Nat /\ PageLimit \in Nat
    <2>1. MaxPages \in Nat /\ PageLimit \in Nat
        BY DEF Lists!PagesAssumption
    <2> QED BY <2>1
<1>4. x7 \in Nat /\ next \in Nat /\ next \in 0..(MaxPages * PageLimit)
    BY <1>1, <1>2, <1>3 DEF Lists!TypeOK
<1>5. items \in SUBSET x2 /\ (next <= Lists!Cardinality(x2) => Lists!Cardinality(items) = PageLimit)
    BY <1>2, <1>4, PageByNumber
<1>6. \A r \in x2 : r \in items <=> x7 <= Lists!Place(x2, r, ties) /\ Lists!Place(x2, r, ties) < next
    BY DEF Lists!QueryByOffset
<1>7. \A id \in RowIds : x5'[id] = x5[id] + IF \E r \in items : r.id = id THEN 1 ELSE 0
    BY <1>1 DEF Lists!Receives
<1>8. x9' <=> Lists!Cardinality(items) < PageLimit
    BY <1>1, Zenon
<1>9. x10' <=> x10 \/ Lists!AmongEqual(ties, next)
    BY <1>1, Zenon
<1>10. x9' \in BOOLEAN /\ x10' \in BOOLEAN
    <2>1. x10' \in BOOLEAN
        BY <1>1, <1>2, Zenon DEF Lists!TypeOK
    <2>2. x9' \in BOOLEAN
        <3>1. (Lists!Cardinality(items) < PageLimit) \in BOOLEAN
            OBVIOUS
        <3> QED BY <1>1, <3>1, Zenon
    <2> QED BY <2>1, <2>2
<1>11. \A id \in RowIds : x5[id] \in Nat /\ x5'[id] \in Nat
    BY <1>2, <1>7 DEF Lists!TypeOK
<1>12. x5' \in [RowIds -> Nat]
    BY <1>1, <1>11 DEF Lists!Receives
<1> HIDE DEF items, next
<1>13. Lists!TypeOK'
    <2>1. x6' \subseteq x2'
        BY <1>1, <1>2 DEF Lists!TypeOK
    <2>2. x7' \in 0..(MaxPages * PageLimit)
        BY <1>1, <1>4 DEF next
    <2> QED BY <1>1, <1>2, <1>10, <1>12, <2>1, <2>2 DEF Lists!TypeOK
<1>14. \A r \in x2 : r.id \in RowIds /\ ((\E q \in items : q.id = r.id) <=> r \in items)
    BY <1>2, <1>5, RowFields DEF RowsApart
<1>15. \A r \in x2 : x5'[r.id] = x5[r.id] + IF r \in items THEN 1 ELSE 0
    BY <1>7, <1>14
<1>16. \A r \in x2 :
         /\ Lists!Place(x2, r, ties) \in Nat
         /\ Lists!Cardinality(Lists!Newer(r.at)) \in Nat /\ Lists!Cardinality(Lists!AsNew(r.at)) \in Nat
         /\ Lists!Cardinality(Lists!Newer(r.at)) <= Lists!Place(x2, r, ties)
         /\ Lists!Place(x2, r, ties) < Lists!Cardinality(Lists!AsNew(r.at))
         /\ Lists!Cardinality(Lists!Newer(r.at)) <= Lists!Cardinality(x2)
         /\ ~Lists!AmongEqual(ties, next) /\ next <= Lists!Place(x2, r, ties) => next <= Lists!Cardinality(Lists!Newer(r.at))
         /\ ~Lists!AmongEqual(ties, next) /\ Lists!Place(x2, r, ties) < next => Lists!Cardinality(Lists!AsNew(r.at)) <= next
    BY <1>2, <1>4, PlaceAmongEqual
<1>17. Lists!Cardinality(x2) \in Nat
    BY <1>2, FS_CardinalityType, SetsOfLists DEF RowsApart
<1>18. \A r : Lists!Newer(r.at)' = Lists!Newer(r.at) /\ Lists!AsNew(r.at)' = Lists!AsNew(r.at)
    BY <1>1 DEF Lists!Newer, Lists!AsNew
<1>19. ~x10' => \A r \in x6' : x5'[r.id] > 0 \/ (~x9' /\ x7' <= Lists!Cardinality(Lists!Newer(r.at)'))
    <2> SUFFICES ASSUME ~x10', NEW r \in x6', ~(x5'[r.id] > 0)
                 PROVE  ~x9' /\ x7' <= Lists!Cardinality(Lists!Newer(r.at)')
        OBVIOUS
    <2>1. r \in x2
        BY <1>1, <1>2 DEF Lists!TypeOK
    <2>2. x5[r.id] = 0 /\ r \notin items
        BY <2>1, <1>11, <1>14, <1>15
    <2>3. x7 <= Lists!Cardinality(Lists!Newer(r.at))
        <3>1. CASE x7 = 0
            BY <3>1, <2>1, <1>16
        <3>2. CASE x7 # 0
            <4>1. r \in x6 /\ ~x10
                BY <3>2, <1>1, <1>9
            <4> QED BY <4>1, <2>2, <1>2 DEF Lists!OffsetInv
        <3> QED BY <3>1, <3>2
    <2>4. x7 <= Lists!Place(x2, r, ties)
        BY <2>1, <2>3, <1>4, <1>16
    <2>5. next <= Lists!Place(x2, r, ties)
        BY <2>1, <2>2, <2>4, <1>4, <1>6, <1>16
    <2>6. next <= Lists!Cardinality(Lists!Newer(r.at))
        BY <2>1, <2>5, <1>9, <1>16
    <2>7. next <= Lists!Cardinality(x2)
        BY <2>1, <2>6, <1>4, <1>16, <1>17
    <2>8. ~x9'
        BY <2>7, <1>3, <1>5, <1>8
    <2>9. x7' = next
        BY <1>1 DEF next
    <2> QED BY <2>6, <2>8, <2>9, <1>18
<1>20. ~x8' /\ ~x10' => /\ \A i \in RowIds : x5'[i] \in 0..1
                        /\ \A r \in x2' : x5'[r.id] = 1 => Lists!Cardinality(Lists!AsNew(r.at)') <= x7'
    <2> SUFFICES ASSUME ~x8', ~x10'
                 PROVE  /\ \A i \in RowIds : x5'[i] \in 0..1
                        /\ \A r \in x2' : x5'[r.id] = 1 => Lists!Cardinality(Lists!AsNew(r.at)') <= x7'
        OBVIOUS
    <2>1. /\ \A i \in RowIds : x5[i] \in 0..1
          /\ \A r \in x2 : x5[r.id] = 1 => Lists!Cardinality(Lists!AsNew(r.at)) <= x7
        BY <1>1, <1>2, <1>9 DEF Lists!OffsetInv
    <2>2. \A r \in items : x5[r.id] = 0
        <3> TAKE r \in items
        <3>1. r \in x2 /\ x7 <= Lists!Place(x2, r, ties)
            BY <1>5, <1>6
        <3>2. ~(Lists!Cardinality(Lists!AsNew(r.at)) <= x7)
            BY <3>1, <1>4, <1>16
        <3>3. x5[r.id] \in 0..1 /\ x5[r.id] # 1
            BY <3>1, <3>2, <2>1, <1>14
        <3> QED BY <3>3
    <2>3. \A i \in RowIds : x5'[i] \in 0..1
        BY <2>1, <2>2, <1>7
    <2>4. ASSUME NEW r \in x2, x5'[r.id] = 1
          PROVE  Lists!Cardinality(Lists!AsNew(r.at)) <= next
        <3>1. CASE r \in items
            BY <3>1, <1>6, <1>9, <1>16
        <3>2. CASE r \notin items
            <4>1. x5[r.id] = 1
                BY <3>2, <2>4, <1>11, <1>14, <1>15
            <4>2. Lists!Cardinality(Lists!AsNew(r.at)) <= x7
                BY <4>1, <2>1
            <4> QED BY <4>2, <1>3, <1>4, <1>16 DEF next
        <3> QED BY <3>1, <3>2
    <2>5. x7' = next /\ x2' = x2
        BY <1>1 DEF next
    <2> QED BY <2>3, <2>4, <2>5, <1>18
<1>21. Lists!OffsetInv'
    BY <1>19, <1>20 DEF Lists!OffsetInv
<1> QED BY <1>1, <1>2, <1>13, <1>21 DEF Lists!IInv, RowsApart

LEMMA PagesStep ==
    ASSUME Lists!PagesAssumption PROVE Lists!IInv /\ (Lists!Next \/ UNCHANGED Lists!vars) => Lists!IInv'
<1> SUFFICES ASSUME Lists!IInv, (Lists!Next \/ UNCHANGED Lists!vars) PROVE Lists!IInv'
    OBVIOUS
<1>1. CASE Lists!Tick
    <2>1. x3' \in 0..MaxInstant
        <3>1. MaxInstant \in Nat
            BY DEF Lists!PagesAssumption
        <3> QED BY <1>1, <3>1 DEF Lists!Tick, Lists!IInv, Lists!TypeOK
    <2> QED BY <1>1, <2>1
        DEF Lists!Tick, Lists!paging, Lists!IInv, Lists!TypeOK, Lists!CursorInv,
           Lists!OffsetInv, Lists!Newer, Lists!AsNew, Lists!AfterCursor, Lists!Instant
<1>2. CASE Lists!Page
    BY <1>2, PageKeeps
<1>3. CASE Lists!PageByOffset
    BY <1>3, PageByOffsetKeeps
<1>4. ASSUME NEW id \in RowIds, Lists!Create(id) \/ Lists!LogEntry(id) \/ \E at \in 0..MaxInstant : Lists!SaveContractEvent(id, at)
      PROVE  Lists!IInv'
    <2>1. x3 \in 0..MaxInstant
        BY DEF Lists!IInv, Lists!TypeOK
    <2>2. \E at \in 0..MaxInstant : Lists!New(id, at)
        BY <1>4, <2>1 DEF Lists!Create, Lists!LogEntry, Lists!SaveContractEvent
    <2> QED BY <2>2, NewKeeps
<1>5. ASSUME NEW at \in 1..MaxInstant, Lists!Purge(at) PROVE Lists!IInv'
    BY <1>5, PurgeKeeps
<1>6. CASE UNCHANGED Lists!vars
    BY <1>6 DEF Lists!vars, Lists!IInv, Lists!TypeOK, Lists!CursorInv, Lists!OffsetInv,
       Lists!Newer, Lists!AsNew, Lists!AfterCursor, Lists!Instant
<1> QED BY <1>1, <1>2, <1>3, <1>4, <1>5, <1>6 DEF Lists!Next

LEMMA PagesHold ==
    ASSUME Lists!PagesAssumption PROVE Lists!IInv => Lists!TypeOK /\ Lists!PagesCoverOnce
<1> SUFFICES ASSUME Lists!IInv PROVE Lists!TypeOK /\ Lists!PagesCoverOnce
    OBVIOUS
<1>1. Lists!TypeOK /\ x6 \subseteq x2 /\ \A r \in x2 : r.id \in RowIds
    BY RowsAreApart, RowFields DEF Lists!IInv, Lists!TypeOK, RowsApart
<1>2. \A id \in RowIds : x5[id] \in Nat
    BY <1>1 DEF Lists!TypeOK
<1>3. CASE x1 = "remittances"
    <2>1. Lists!CursorInv
        BY <1>3 DEF Lists!IInv
    <2>2. \A id \in RowIds : x5[id] <= 1
        BY <2>1, <1>2 DEF Lists!CursorInv
    <2>3. x9 /\ ~x10 => \A r \in x6 : x5[r.id] > 0
        BY <2>1, <1>1 DEF Lists!CursorInv
    <2> QED BY <2>2, <2>3, <1>1 DEF Lists!PagesCoverOnce
<1>4. CASE x1 # "remittances"
    <2>1. Lists!OffsetInv
        BY <1>4 DEF Lists!IInv
    <2>2. ~(x8 \/ x10) => \A id \in RowIds : x5[id] <= 1
        BY <2>1, <1>2 DEF Lists!OffsetInv
    <2>3. x9 /\ ~x10 => \A r \in x6 : x5[r.id] > 0
        BY <2>1, <1>1 DEF Lists!OffsetInv
    <2> QED BY <2>2, <2>3, <1>1, <1>4 DEF Lists!PagesCoverOnce
<1> QED BY <1>3, <1>4

-----------------------------------------------------------------------------
(***************************************************************************)
(* InboundWebhooks, which has its proofs with it, and the components       *)
(* whose proofs are in Parts.                                              *)
(***************************************************************************)
Inbound == INSTANCE InboundWebhooks WITH Handlers <- Procs, status <- x1, kyc <- x2,
    userKyc <- x3, created <- x4, announced <- x5, history <- x6, nonces <- x7,
    passed <- x8, remembered <- x9, logged <- x10, request <- x11, answers <- x12,
    sends <- x13, faults <- x14
Flags == INSTANCE Compliance WITH thresholds <- x1, request <- x2, flag <- x3, due <- x4,
    failed <- x5
History == INSTANCE HistoryScreen WITH MaxPages <- MaxHistoryPages, typed <- x1,
    search <- x2, status <- x3, page <- x4, entries <- x5, pos <- x6, syncing <- x7,
    pages <- x8, shrinks <- x9, opened <- x10, overtyped <- x11
Health == INSTANCE AnchorHealth WITH anchor <- x1, probe <- x2, measured <- x3, rows <- x4,
    recent <- x5, report <- x6
Tracker == INSTANCE StatusTracker WITH Asks <- Procs, remote <- x1, local <- x2,
    refreshing <- x3, interval <- x4, seen <- x5, asked <- x6, lostAsks <- x7,
    mounted <- x8, socket <- x9, timerLost <- x10
Reader == INSTANCE SdkEvents WITH events <- x1, reader <- x2, called <- x3
Scan == INSTANCE SdkProposals WITH Limit <- ScanLimit, proposals <- x1, scan <- x2,
    steady <- x3
Sending == INSTANCE SendFlow WITH Tries <- Procs, MaxEdits <- MaxFormEdits, channel <- x1,
    step <- x2, form <- x3, submitting <- x4, complete <- x5, failed <- x6, try <- x7,
    sequence <- x8, floating <- x9, paid <- x10, sentBad <- x11, unknown <- x12,
    tries <- x13, edits <- x14
Directory == INSTANCE AnchorDirectory WITH Anchors <- ListedAnchors,
    MaxEdits <- MaxDirectoryEdits, rows <- x1, position <- x2, listed <- x3, steady <- x4,
    strayed <- x5, edits <- x6
Preview == INSTANCE SettlementPreview WITH Statuses <- PreviewStatuses,
    MaxBatch <- MaxPreviewed, batch <- x1, netMap <- x2

ASSUME PartsAssumptions ==
    /\ Limits!SendLimitsAssumption
    /\ Inbound!InboundAssumption
    /\ Kycs!KycAssumption
    /\ Agents!AgentKycAssumption
    /\ Admin!AdminApiAssumption
    /\ Migrating!MigrationsAssumption
    /\ Fx!FxAssumption
    /\ Deliveries!SubscriberAssumption
    /\ Registry!RegistryAssumption
    /\ Updates!UpdatesAssumption
    /\ Assets!AssetAssumption
    /\ Secrets!SecretAssumption
    /\ Tokens!AuthAssumption
    /\ Flags!ComplianceAssumption
    /\ Ramps!RampAssumption
    /\ Health!HealthAssumption
    /\ Writes!SdkWritesAssumption
    /\ Scan!SdkProposalsAssumption
    /\ Loading!ScreensAssumption
    /\ Sending!SendAssumption
    /\ Wallet!WalletAssumption
    /\ Buttons!ButtonsAssumption
    /\ History!HistoryAssumption
    /\ Book!BookAssumption
    /\ Boundary!BoundaryAssumption
    /\ Tracker!TrackerAssumption
    /\ Reader!SdkEventsAssumption
    /\ Lists!PagesAssumption
    /\ Directory!DirectoryAssumption
    /\ Preview!PreviewAssumption
=============================================================================
