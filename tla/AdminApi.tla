------------------------------ MODULE AdminApi ------------------------------
(***************************************************************************)
(* The administrator's endpoints that change something (routes/admin.ts):  *)
(* actions that need a second administrator (admin-confirmation.ts), the   *)
(* upgrade simulation they give a token for, and the replay of dead        *)
(* letters.  A confirmation and a replay read the row in one statement and *)
(* write it without a condition in a later one, so two of them race.  The  *)
(* administrators of an action are names given in the bodies of requests   *)
(* that all carry one ADMIN_API_KEY: whoever holds it may give any name,   *)
(* so what is modelled, and claimed, is about names and not about people.  *)
(***************************************************************************)
EXTENDS Naturals, FiniteSets

CONSTANTS
    AdminNames,     \* initiated_by and confirmed_by, as the requests give them
    Actions,        \* ids of pending_admin_actions
    Letters,        \* ids of webhook_dead_letters
    Requests,       \* requests in hand at a time
    MaxFaults       \* bound on failed statements and crashes together

AdminApiAssumption == MaxFaults \in Nat /\ IsFiniteSet(Requests)

VARIABLES
    action,     \* action[a]: who initiated it, who confirmed it, its age
    letter,     \* letter[l]: whether replayed_at is set
    hook,       \* whether the webhook of the letters is active
    request,    \* request[r]: what it is at
    confirmed,  \* confirmed[a]: names whose confirmation of a was answered with success
    received,   \* received[l]: good answers of the subscriber to l
    through,    \* actions a simulation was let through with
    faults

vars == <<action, letter, hook, request, confirmed, received, through, faults>>

NoAction == [by |-> {}, second |-> {}, expired |-> FALSE]
\* A purged row: its id, a UUID, never comes back.
Purged == [NoAction EXCEPT !.expired = TRUE]
NoRequest == [step |-> "idle", id |-> {}, who |-> {}]
At(r, step) == request[r].step = step
Id(r) == CHOOSE x \in request[r].id : TRUE
Answered(r) == request' = [request EXCEPT ![r] = NoRequest]
Begin(r, step, id, who) ==
    /\ At(r, "idle")
    /\ request' = [request EXCEPT ![r] = [step |-> step, id |-> {id}, who |-> who]]

Init ==
    /\ action = [a \in Actions |-> NoAction]
    /\ letter = [l \in Letters |-> [replayed |-> FALSE]]
    /\ hook = TRUE
    /\ request = [r \in Requests |-> NoRequest]
    /\ confirmed = [a \in Actions |-> {}]
    /\ received = [l \in Letters |-> 0]
    /\ through = {}
    /\ faults = 0

-----------------------------------------------------------------------------
(***************************************************************************)
(* Confirmation under a second name.                                       *)
(***************************************************************************)
\* POST /actions: one INSERT.  Whether its caller is answered does not matter
\* to the others: GET /actions lists the row and its id.
Initiate(a, who) ==
    /\ action[a] = NoAction
    /\ action' = [action EXCEPT ![a].by = {who}]
    /\ UNCHANGED <<letter, hook, request, confirmed, received, through, faults>>

\* Mistaken variant: forgets who initiated the action.
MayConfirmAnyone(a, who) ==
    action[a].by # {} /\ action[a].second = {} /\ ~action[a].expired
\* The checks of confirm, on the row as first read.
MayConfirm(a, who) ==
    /\ action[a].by # {} /\ action[a].second = {}
    /\ ~action[a].expired
    /\ action[a].by # {who}

ConfirmReads(r, a, who) ==
    /\ MayConfirm(a, who)
    /\ Begin(r, "confirm", a, {who})
    /\ UNCHANGED <<action, letter, hook, confirmed, received, through, faults>>

\* The UPDATE by id alone; a row purged meanwhile is not there to update, which
\* nobody looks at.
ConfirmWrites(r) ==
    LET a == Id(r) IN
    /\ At(r, "confirm")
    /\ action' = IF action[a].by = {} THEN action
                 ELSE [action EXCEPT ![a].second = request[r].who]
    /\ request' = [request EXCEPT ![r].step = "tell"]
    /\ UNCHANGED <<letter, hook, confirmed, received, through, faults>>

\* The rest of the request: the row of the audit log, in the backend's copy of
\* the service, and the answer.
ConfirmTold(r) ==
    /\ At(r, "tell")
    /\ confirmed' = [confirmed EXCEPT ![Id(r)] = @ \cup request[r].who]
    /\ Answered(r)
    /\ UNCHANGED <<action, letter, hook, received, through, faults>>

\* Mistaken variant: a token is good as soon as it exists.
VerifiedUnconfirmed(a) == action[a].by # {} /\ ~action[a].expired
\* verify: confirmed, and within the hour.
Verified(a) == action[a].second # {} /\ ~action[a].expired

\* POST /simulate-upgrade; the token is not used up.
Simulate(a) ==
    /\ Verified(a)
    /\ through' = through \cup {a}
    /\ UNCHANGED <<action, letter, hook, request, confirmed, received, faults>>

\* purgeExpired of the backend's copy of the service.
PurgeExpired ==
    LET gone == {a \in Actions : action[a].by # {} /\ action[a].expired /\ action[a].second = {}} IN
    /\ gone # {}
    /\ action' = [a \in Actions |-> IF a \in gone THEN Purged ELSE action[a]]
    /\ UNCHANGED <<letter, hook, request, confirmed, received, through, faults>>

Expires(a) ==
    /\ action[a].by # {} /\ ~action[a].expired
    /\ action' = [action EXCEPT ![a].expired = TRUE]
    /\ UNCHANGED <<letter, hook, request, confirmed, received, through, faults>>

-----------------------------------------------------------------------------
(***************************************************************************)
(* Replay of a dead letter: the row and its webhook are read, the payload  *)
(* is posted, and the row is marked when the answer was good.              *)
(***************************************************************************)
ReplayReads(r, l) ==
    /\ ~letter[l].replayed /\ hook
    /\ Begin(r, "post", l, {})
    /\ UNCHANGED <<action, letter, hook, confirmed, received, through, faults>>

\* Mistaken variant: takes any answer of the subscriber for a delivery.
PostedAnyway(r) ==
    /\ At(r, "post")
    /\ request' = [request EXCEPT ![r].step = "mark"]
    /\ UNCHANGED received
Posted(r) ==
    /\ At(r, "post")
    /\ \/ /\ received' = [received EXCEPT ![Id(r)] = @ + 1]
          /\ request' = [request EXCEPT ![r].step = "mark"]
       \/ Answered(r) /\ UNCHANGED received

Post(r) == Posted(r) /\ UNCHANGED <<action, letter, hook, confirmed, through, faults>>

Mark(r) ==
    /\ At(r, "mark")
    /\ letter' = [letter EXCEPT ![Id(r)].replayed = TRUE]
    /\ Answered(r)
    /\ UNCHANGED <<action, hook, confirmed, received, through, faults>>

Deactivate ==
    /\ hook /\ hook' = FALSE
    /\ UNCHANGED <<action, letter, request, confirmed, received, through, faults>>

\* A statement fails (a confirmation is then answered CONFIRM_FAILED, whatever
\* its UPDATE did before), or the process ends before the next one.
RequestFails(r) ==
    /\ ~At(r, "idle") /\ faults < MaxFaults /\ faults' = faults + 1
    /\ Answered(r)
    /\ UNCHANGED <<action, letter, hook, confirmed, received, through>>

Next ==
    \/ \E a \in Actions, who \in AdminNames :
        \/ Initiate(a, who)
        \/ \E r \in Requests : ConfirmReads(r, a, who)
    \/ \E a \in Actions : Simulate(a) \/ Expires(a)
    \/ PurgeExpired \/ Deactivate
    \/ \E r \in Requests :
        \/ ConfirmWrites(r) \/ ConfirmTold(r) \/ Post(r) \/ Mark(r) \/ RequestFails(r)
        \/ \E l \in Letters : ReplayReads(r, l)

Spec == Init /\ [][Next]_vars

-----------------------------------------------------------------------------
TypeOK ==
    /\ action \in [Actions -> [by : SUBSET AdminNames, second : SUBSET AdminNames,
                               expired : BOOLEAN]]
    /\ letter \in [Letters -> [replayed : BOOLEAN]]
    /\ hook \in BOOLEAN
    /\ request \in [Requests -> [step : {"idle", "confirm", "tell", "post", "mark"},
                                 id : SUBSET (Actions \cup Letters), who : SUBSET AdminNames]]
    /\ confirmed \in [Actions -> SUBSET AdminNames]
    /\ received \in [Letters -> Nat]
    /\ through \in SUBSET Actions
    /\ faults \in 0..MaxFaults

Telling(r, a, w) == At(r, "tell") /\ request[r].id = {a} /\ request[r].who = {w}

(***************************************************************************)
(* However confirmations race with each other, with expiry, with the purge *)
(* and with failures: the name that initiated an action is never the name  *)
(* on its row, nor one whose confirmation was answered with success; who   *)
(* was answered so finds a second name on the row (another's, when two     *)
(* raced), or no row, when the purge came between the checks and the       *)
(* UPDATE; a name on the row that was not answered is about to be, unless  *)
(* something failed; and a simulation is let through only with an action   *)
(* that holds two names.                                                   *)
(***************************************************************************)
TwoNames ==
    /\ \A a \in Actions :
        /\ action[a].by \cap (action[a].second \cup confirmed[a]) = {}
        /\ confirmed[a] # {} => action[a].second # {} \/ action[a] = Purged
        /\ faults = 0 =>
              \A w \in action[a].second : w \in confirmed[a] \/ \E r \in Requests : Telling(r, a, w)
    /\ \A a \in through : action[a].by # {} /\ action[a].second # {}

(***************************************************************************)
(* A dead letter marked as replayed was received, and more often than once *)
(* only when replays raced or one failed before its mark: there are never  *)
(* more deliveries than requests and failures together.                    *)
(***************************************************************************)
ReplayedWasReceived ==
    \A l \in Letters :
        /\ letter[l].replayed => received[l] > 0
        /\ received[l] <= Cardinality(Requests) + faults
=============================================================================
