------------------------------ MODULE AnchorHealth ------------------------------
(***************************************************************************)
(* The job that probes the enabled anchors, one after the other, and keeps *)
(* each outcome.  It runs under an advisory lock, so while one run is      *)
(* under way, on any instance, the ticks of all of them are skipped.       *)
(*                                                                         *)
(* An operator asks for the health of the first anchor: its last row, its  *)
(* history and its uptime of 24 hours are read one after the other.        *)
(***************************************************************************)
EXTENDS Naturals, Sequences

CONSTANTS
    AnchorCount,  \* enabled anchors
    Kept          \* rows of the history that are looked at

HealthAssumption == AnchorCount \in Nat /\ Kept \in Nat \ {0}

VARIABLES
    anchor,   \* the anchor being checked, 0 while no run holds the lock
    probe,    \* how far its probe is
    measured, \* what the last probe that ended came to
    rows,     \* the first anchor's rows in anchor_health_history, newest first
    recent,   \* how many of them are less than 24 hours old
    report    \* the report under way: what it has read, and if a row was saved meanwhile

vars == <<anchor, probe, measured, rows, recent, report>>
history == <<rows, recent, report>>

Anchors == 1..AnchorCount
NoReport == [step |-> "none", status |-> "none", head |-> "none", crossed |-> FALSE]

Init ==
    /\ anchor = 0 /\ probe = "none"
    /\ measured = "none"
    /\ rows = <<>> /\ recent = 0
    /\ report = NoReport

\* The lock is taken; without anchors the run ends at once.
Tick ==
    /\ anchor = 0 /\ AnchorCount > 0
    /\ anchor' = 1 /\ probe' = "asked"
    /\ UNCHANGED <<measured, history>>

\* The response's headers have come.
Headers == /\ anchor # 0 /\ probe = "asked"
           /\ probe' = "reading"
           /\ UNCHANGED <<anchor, measured, history>>

\* classifyHealth of a probe that got its answer (5xx is no better than none) in time or
\* in more than five seconds, or none.
Classified(ok, quick) == CASE ~ok -> "offline" [] ok /\ ~quick -> "degraded" [] ok /\ quick -> "online"

Settled(status) ==
    /\ probe' = "settled"
    /\ measured' = status
    /\ UNCHANGED <<anchor, history>>

BodyEnds == /\ anchor # 0 /\ probe = "reading"
            /\ \E ok, quick \in BOOLEAN : Settled(Classified(ok, quick))

\* No connection, a bad URL.
RequestFails == anchor # 0 /\ probe = "asked" /\ Settled("offline")

\* Mistaken variant: a socket gone quiet while the body is read is waited for.
TimesOutUnread(stage) == stage = "asked"
TimesOut(stage) == stage \in {"asked", "reading"}

\* Bytes keep coming, each before the socket was quiet for ten seconds: nothing bounds how
\* long the answer takes as a whole.
Trickles ==
    /\ anchor # 0 /\ probe \in {"asked", "reading"}
    /\ probe' = "trickling"
    /\ UNCHANGED <<anchor, measured, history>>

\* No more bytes for now, within the headers or the body.
GoesQuiet ==
    /\ anchor # 0 /\ probe = "trickling"
    /\ probe' \in {"asked", "reading"}
    /\ UNCHANGED <<anchor, measured, history>>

\* The socket was quiet for ten seconds: the timeout of the request is not a deadline.
Timeout == anchor # 0 /\ TimesOut(probe) /\ Settled("offline")

\* The connection is closed before the body has ended: neither the request's error nor
\* the response's end is emitted, and nothing else settles the probe.
CutShort ==
    /\ anchor # 0 /\ probe = "reading"
    /\ probe' = "cut"
    /\ UNCHANGED <<anchor, measured, history>>

\* The next anchor, or the end of the run, which gives the lock back.
Advances ==
    /\ anchor' = IF anchor < AnchorCount THEN anchor + 1 ELSE 0
    /\ probe' = IF anchor < AnchorCount THEN "asked" ELSE "none"

Newest(seq) == SubSeq(seq, 1, IF Len(seq) < Kept THEN Len(seq) ELSE Kept)

Save ==
    /\ probe = "settled"
    /\ IF anchor = 1
       THEN /\ rows' = Newest(<<measured>> \o rows)
            /\ recent' = IF recent < Kept THEN recent + 1 ELSE Kept
            /\ report' = [report EXCEPT !.crossed = report.step # "none"]
       ELSE UNCHANGED history
    /\ Advances
    /\ UNCHANGED measured

\* Only logged.
SaveFails ==
    /\ probe = "settled"
    /\ Advances
    /\ UNCHANGED <<measured, history>>

\* The instance stops, and the lock goes with its session.
Stop ==
    /\ anchor # 0
    /\ anchor' = 0 /\ probe' = "none"
    /\ UNCHANGED <<measured, history>>

-----------------------------------------------------------------------------
(***************************************************************************)
(* GET /api/admin/anchors/:id/health                                       *)
(***************************************************************************)
A24HoursOldRow ==
    /\ recent > 0 /\ recent' = recent - 1
    /\ UNCHANGED <<anchor, probe, measured, rows, report>>

FirstOf(seq) == IF seq = <<>> THEN "none" ELSE Head(seq)

\* Mistaken variant: the history is read oldest first.
OldestFirst == [k \in DOMAIN rows |-> rows[Len(rows) + 1 - k]]
\* ORDER BY checked_at DESC, as for the last row.
History == rows

ReadLatest ==
    /\ report.step = "none"
    /\ report' = [NoReport EXCEPT !.step = "latest", !.status = FirstOf(rows)]
    /\ UNCHANGED <<anchor, probe, measured, rows, recent>>

ReadHistory ==
    /\ report.step = "latest"
    /\ report' = [report EXCEPT !.step = "history", !.head = FirstOf(History)]
    /\ UNCHANGED <<anchor, probe, measured, rows, recent>>

\* Of no rows, all are online.
Uptime ==
    IF \A i \in 1..recent : rows[i] = "online" THEN "all"
    ELSE IF \E i \in 1..recent : rows[i] = "online" THEN "some" ELSE "none"

\* The uptime is read, and the answer sent.
Answer ==
    /\ report.step = "history"
    /\ report' = NoReport
    /\ UNCHANGED <<anchor, probe, measured, rows, recent>>

Next ==
    \/ A24HoursOldRow \/ ReadLatest \/ ReadHistory \/ Answer
    \/ Tick \/ Headers \/ BodyEnds \/ RequestFails \/ Trickles \/ GoesQuiet
    \/ Timeout \/ CutShort
    \/ Save \/ SaveFails \/ Stop

\* A request whose socket stays quiet times out in the end, and a settled probe's row is
\* written or refused.  That an answer which trickles ends or goes quiet is not assumed.
Saved == Save \/ SaveFails
HealthFairness == WF_vars(Timeout) /\ WF_vars(Saved)

Spec == Init /\ [][Next]_vars /\ HealthFairness

-----------------------------------------------------------------------------
TypeOK ==
    /\ anchor \in 0..AnchorCount
    /\ probe \in {"none", "asked", "reading", "trickling", "settled", "cut"}
    /\ {measured, report.status, report.head} \subseteq {"none", "offline", "degraded", "online"}
    /\ rows \in Seq({"offline", "degraded", "online"}) /\ recent \in 0..Len(rows)
    /\ report.step \in {"none", "recent", "latest", "history"} /\ report.crossed \in BOOLEAN

(***************************************************************************)
(* No anchor that stays silent holds the job: its check ends, and with it  *)
(* the run that has the lock, unless a connection was cut within a         *)
(* response or an anchor goes on trickling its answer.  Those two keep the *)
(* lock, and no anchor is checked by any instance as long as they do.      *)
(***************************************************************************)
Checking(a) == anchor = a
Checked(a) == anchor # a \/ probe \in {"cut", "trickling"}
EveryCheckEnds == \A a \in Anchors : Checking(a) ~> Checked(a)

(***************************************************************************)
(* The report hangs together unless a check was saved while it was read:   *)
(* the status is the first of the history, and an anchor whose last check  *)
(* found it offline is reported up all the time only if nothing was        *)
(* recorded for 24 hours, as when the job's lock is never given back.      *)
(***************************************************************************)
ReportHangsTogether ==
    report.step = "history" /\ ~report.crossed =>
        /\ report.head = report.status
        /\ report.status = "offline" /\ Uptime = "all" => recent = 0

(***************************************************************************)
(* What every step keeps: a report that no check crossed has read what the *)
(* rows still say.                                                         *)
(***************************************************************************)
SettledIsMeasured == probe = "settled" => measured # "none"
ReadIsWhatIsThere ==
    ~report.crossed =>
        /\ report.step \in {"latest", "history"} => report.status = FirstOf(rows)
        /\ report.step = "history" => report.head = FirstOf(rows)
ReportTyped ==
    report \in [step : {"none", "recent", "latest", "history"},
                status : {"none", "offline", "degraded", "online"},
                head : {"none", "offline", "degraded", "online"}, crossed : BOOLEAN]
IInv == TypeOK /\ ReportTyped /\ SettledIsMeasured /\ ReadIsWhatIsThere
=============================================================================
