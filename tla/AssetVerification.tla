-------------------------- MODULE AssetVerification --------------------------
(***************************************************************************)
(* Whether an asset is to be trusted: the verifier asks four outside       *)
(* sources and caches its verdict, the API and the scheduler write it to   *)
(* the asset's row, users report the asset, and the contract is told the   *)
(* row's status.  One asset: rows, cache entries and contract records are  *)
(* keyed by (code, issuer) and do not touch.                               *)
(***************************************************************************)
EXTENDS Naturals, FiniteSets

CONSTANTS
    Requests,    \* requests that the API handles at a time
    Evidence,    \* what the sources may say, records as in Sources
    MaxReports,  \* bound on reports
    MaxChecks    \* bound on verifications begun

AssetAssumption ==
    /\ "job" \notin Requests /\ MaxReports \in Nat /\ MaxChecks \in Nat
    /\ Evidence \subseteq [rating : 0..5, toml : {"none", "empty", "good"}, trustlines : Nat,
                           recent : 0..200, old : 0..200]

VARIABLES
    row,       \* of verified_assets, or NoRow
    contract,  \* the status the contract holds, "none" before the first
    cache,     \* cache[v]: the verdict that the API's and the scheduler's verifier keep
    work,      \* work[w]: a request, or the scheduler's job, under way
    lost,      \* the contract was last told another status than the row's
    cut,       \* since a report was last checked, a report's handler ended between
               \* counting and marking, or the row was verified again
    reports, checks

vars == <<row, contract, cache, work, lost, cut, reports, checks>>

Threshold == 5
Statuses == {"verified", "unverified", "suspicious"}
NoRow == [status |-> "none", score |-> 0, reports |-> 0]
Idle == [at |-> "idle", copy |-> NoRow]
NoVerdict == [status |-> "none", score |-> 0]

-----------------------------------------------------------------------------
\* The four sources; one that fails three times counts as one that says nothing.

StellarExpert(e) ==
    [verified |-> e.rating >= 3, score |-> IF 20 * e.rating > 100 THEN 100 ELSE 20 * e.rating]

StellarToml(e) ==
    [verified |-> e.toml = "good",
     score |-> CASE e.toml = "good" -> 80 [] e.toml = "empty" -> 30 [] OTHER -> 0]

Trustlines(e) ==
    [verified |-> e.trustlines >= 10,
     score |-> CASE e.trustlines >= 10000 -> 100 [] e.trustlines >= 1000 -> 80
                 [] e.trustlines >= 100 -> 60 [] e.trustlines >= 10 -> 40
                 [] e.trustlines > 0 -> 20 [] OTHER -> 0]

TransactionHistory(e) ==
    LET recent == e.recent > 0
        historical == e.recent + e.old > 10
    IN [verified |-> recent /\ historical,
        score |-> CASE recent /\ historical -> 70 [] historical -> 50 [] recent -> 30 [] OTHER -> 0]

\* hasSuspiciousIndicators.
RedFlags(e) ==
    ~StellarToml(e).verified /\ e.trustlines < 5 /\ ~TransactionHistory(e).verified

Points(s) == IF s.verified THEN s.score ELSE 0
One(s) == IF s.verified THEN 1 ELSE 0

\* verifyAsset: the mean, rounded, of the sources that vouch for the asset.
Verdict(e) ==
    LET x == StellarExpert(e)
        t == StellarToml(e)
        l == Trustlines(e)
        h == TransactionHistory(e)
        count == One(x) + One(t) + One(l) + One(h)
        sum == Points(x) + Points(t) + Points(l) + Points(h)
        score == IF count = 0 THEN 0 ELSE (2 * sum + count) \div (2 * count)
    IN [score |-> score,
        status |-> CASE score >= 70 /\ count >= 3 -> "verified"
                     [] ~(score >= 70 /\ count >= 3) /\ (score < 30 \/ RedFlags(e)) -> "suspicious"
                     [] OTHER -> "unverified"]

-----------------------------------------------------------------------------
Workers == Requests \cup {"job"}
VerifierOf(w) == IF w = "job" THEN "scheduler" ELSE "api"

Init ==
    /\ row = NoRow /\ contract = "none"
    /\ cache = [v \in {"api", "scheduler"} |-> NoVerdict]
    /\ work = [w \in Workers |-> Idle]
    /\ lost = FALSE /\ cut = FALSE
    /\ reports = 0 /\ checks = 0

Goto(w, step, copy) == work' = [work EXCEPT ![w] = [at |-> step, copy |-> copy]]

\* POST /verify forgets the reports, the job carries those of the row it listed.
Begins(w, counted) ==
    /\ work[w].at = "idle" /\ checks < MaxChecks
    /\ checks' = checks + 1
    /\ IF cache[VerifierOf(w)] # NoVerdict
         THEN Goto(w, "save", [status |-> cache[VerifierOf(w)].status,
                               score |-> cache[VerifierOf(w)].score, reports |-> counted])
         ELSE Goto(w, "ask", [NoRow EXCEPT !.reports = counted])
    /\ UNCHANGED <<row, contract, cache, lost, cut, reports>>

BeginVerify(w) == w \in Requests /\ Begins(w, 0)
BeginRevalidate == row # NoRow /\ Begins("job", row.reports)

\* The sources have answered, and the verdict is kept.
Answered(w, e) ==
    /\ work[w].at = "ask"
    /\ cache' = [cache EXCEPT ![VerifierOf(w)] = Verdict(e)]
    /\ Goto(w, "save", [status |-> Verdict(e).status, score |-> Verdict(e).score,
                        reports |-> work[w].copy.reports])
    /\ UNCHANGED <<row, contract, lost, cut, reports, checks>>

\* Five minutes, or thirty for a verified asset, have passed.
CacheExpires(v) ==
    /\ cache[v] # NoVerdict
    /\ cache' = [cache EXCEPT ![v] = NoVerdict]
    /\ UNCHANGED <<row, contract, work, lost, cut, reports, checks>>

\* Mistaken variant: the contract is told only when the asset is verified.
TellsContractVerified(copy) == copy.status = "verified"
\* After every save the contract is told.
TellsContract(copy) == copy.status \in Statuses

Saves(w) ==
    LET tells == TellsContract(work[w].copy) IN
    /\ row' = work[w].copy
    /\ Goto(w, IF tells THEN "tell" ELSE "idle", work[w].copy)
    /\ UNCHANGED <<contract, cache, reports, checks, lost>>

\* saveAssetVerification after a verification.
SaveVerified(w) == work[w].at = "save" /\ Saves(w) /\ cut' = TRUE

\* POST /report: the row must be there, and is counted up in the database.
BeginReport(w) ==
    /\ w \in Requests /\ work[w].at = "idle" /\ row # NoRow /\ reports < MaxReports
    /\ reports' = reports + 1
    /\ Goto(w, "count", NoRow)
    /\ UNCHANGED <<row, contract, cache, lost, cut, checks>>

CountReport(w) ==
    /\ work[w].at = "count"
    /\ row' = [row EXCEPT !.reports = @ + 1]
    /\ Goto(w, "check", NoRow)
    /\ UNCHANGED <<contract, cache, lost, cut, reports, checks>>

\* Mistaken variant: one report too many is asked for.
TooManyReportsPast(r) == r.reports > Threshold
TooManyReports(r) == r.reports >= Threshold

\* The row is read again.
CheckReports(w) ==
    /\ work[w].at = "check"
    /\ IF TooManyReports(row)
         THEN Goto(w, "mark", [status |-> "suspicious", reports |-> row.reports,
                               score |-> IF row.score > 30 THEN 30 ELSE row.score])
         ELSE Goto(w, "idle", NoRow)
    /\ cut' = FALSE
    /\ UNCHANGED <<row, contract, cache, lost, reports, checks>>

\* The whole row is written back as it was read, with its new status.
MarkSuspicious(w) == work[w].at = "mark" /\ Saves(w) /\ cut' = FALSE

\* storeVerificationOnChain has come through.
Tell(w) ==
    /\ work[w].at = "tell"
    /\ contract' = work[w].copy.status
    /\ lost' = (contract' # row.status)
    /\ Goto(w, "idle", NoRow)
    /\ UNCHANGED <<row, cache, cut, reports, checks>>

\* It fails, which is only logged: a failed simulation, two transactions on one
\* sequence number, a lost answer.  The transaction may be applied all the same, though
\* not after a later one came through, which takes its sequence number.
TellFails(w) ==
    /\ work[w].at = "tell"
    /\ contract' \in {contract, work[w].copy.status}
    /\ lost' = TRUE
    /\ Goto(w, "idle", NoRow)
    /\ UNCHANGED <<row, cache, cut, reports, checks>>

\* A database call fails: 500, and what was done stays.
GivesUp(w) ==
    /\ work[w].at \in {"save", "count", "check", "mark"}
    /\ cut' = (cut \/ work[w].at \in {"check", "mark"})
    /\ Goto(w, "idle", NoRow)
    /\ UNCHANGED <<row, contract, cache, lost, reports, checks>>

\* The process dies and starts again with empty caches; what it sent may be applied.
Restart ==
    /\ \E w \in Workers : work[w].at # "idle"
    /\ contract' \in {contract} \cup
         {work[w].copy.status : w \in {v \in Workers : work[v].at = "tell"}}
    /\ cache' = [v \in {"api", "scheduler"} |-> NoVerdict]
    /\ work' = [w \in Workers |-> Idle]
    /\ lost' = (lost \/ \E w \in Workers : work[w].at = "tell")
    /\ cut' = (cut \/ \E w \in Workers : work[w].at \in {"check", "mark"})
    /\ UNCHANGED <<row, reports, checks>>

Next ==
    \/ \E w \in Workers :
        \/ BeginVerify(w) \/ SaveVerified(w)
        \/ \E e \in Evidence : Answered(w, e)
        \/ BeginReport(w) \/ CountReport(w) \/ CheckReports(w) \/ MarkSuspicious(w)
        \/ Tell(w) \/ TellFails(w) \/ GivesUp(w)
    \/ BeginRevalidate
    \/ \E v \in {"api", "scheduler"} : CacheExpires(v)
    \/ Restart

Spec == Init /\ [][Next]_vars

-----------------------------------------------------------------------------
Quiet == \A w \in Workers : work[w].at = "idle"

AssetTypeOK ==
    /\ row \in [status : Statuses \cup {"none"}, score : 0..100, reports : 0..MaxReports]
    /\ contract \in Statuses \cup {"none"}
    /\ \A v \in {"api", "scheduler"} : cache[v].status \in Statuses \cup {"none"}
    /\ \A w \in Workers :
        /\ work[w].at \in {"idle", "ask", "save", "count", "check", "mark", "tell"}
        /\ work[w].copy.reports <= MaxReports
    /\ {lost, cut} \subseteq BOOLEAN

(***************************************************************************)
(* Once nothing is under way, an asset with five reports is suspicious,    *)
(* unless a report's handler failed or died between counting and marking,  *)
(* or a verification overwrote the mark: however reports overlap, with     *)
(* each other and with the rows they write back.                           *)
(***************************************************************************)
ReportedIsSuspicious ==
    Quiet /\ row.reports >= Threshold => row.status = "suspicious" \/ cut

(***************************************************************************)
(* Once nothing is under way, the contract holds the row's status, unless  *)
(* telling it failed, or the last to tell it told of an older row.         *)
(***************************************************************************)
ContractFollowsRow == Quiet => contract = row.status \/ lost

(***************************************************************************)
(* What every step keeps: what is in hand has a status that is told, and   *)
(* where the row needs a mark or the contract a word, somebody is at it.   *)
(* Reports in hand and in the rows that are written back are those made.   *)
(***************************************************************************)
Steps == {"idle", "ask", "save", "count", "check", "mark", "tell"}
Counting == {w \in Workers : work[w].at = "count"}
RowType == [status : Statuses \cup {"none"}, score : 0..100, reports : Nat]
VerdictType == [status : Statuses \cup {"none"}, score : 0..100]
RecordsTyped ==
    /\ row \in RowType /\ contract \in Statuses \cup {"none"}
    /\ cache \in [{"api", "scheduler"} -> VerdictType]
    /\ work \in [Workers -> [at : Steps, copy : RowType]]
    /\ lost \in BOOLEAN /\ cut \in BOOLEAN
    /\ reports \in 0..MaxReports /\ checks \in 0..MaxChecks
InHand ==
    /\ \A v \in {"api", "scheduler"} : cache[v] # NoVerdict => cache[v].status \in Statuses
    /\ \A w \in Workers :
        /\ work[w].at \in {"save", "mark"} => work[w].copy.status \in Statuses
        /\ work[w].at = "mark" => work[w].copy.status = "suspicious"
ReportsCounted ==
    /\ IsFiniteSet(Counting)
    /\ row.reports + Cardinality(Counting) <= reports
    /\ \A w \in Workers : work[w].copy.reports + Cardinality(Counting) <= reports
MarkedOrAtIt ==
    row.reports >= Threshold =>
        \/ row.status = "suspicious" \/ cut
        \/ \E w \in Workers : work[w].at \in {"check", "mark"}
ToldOrAtIt == contract = row.status \/ lost \/ \E w \in Workers : work[w].at = "tell"
IInv == RecordsTyped /\ InHand /\ ReportsCounted /\ MarkedOrAtIt /\ ToldOrAtIt
=============================================================================
