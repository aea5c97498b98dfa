---------------------------------- MODULE Ramp ----------------------------------
(***************************************************************************)
(* The webhooks of the fiat ramp providers (ramp-webhook-handler.ts).  A   *)
(* notice of an order is checked, read into a canonical event and handed   *)
(* to every handler of the hook named for its status; the provider repeats *)
(* a notice that had no good answer.  Notices are handled side by side and *)
(* handlers come and go meanwhile.                                         *)
(***************************************************************************)
EXTENDS Naturals

CONSTANTS
    Registered,  \* the providers registered, of Adapters
    Notices,     \* records: provider, order, status, enveloped, genuine
    HookHandlers,
    Requests,    \* requests that may be in hand at a time
    MaxFaults    \* bound on failed handlers, crashes and lost answers together

Adapters == {"transak", "moonpay"}
RampStatuses == {"pending", "processing", "completed", "failed", "refunded", "cancelled"}

RampAssumption == Registered \subseteq Adapters /\ MaxFaults \in Nat

VARIABLES
    handlers,    \* handlers[hook]
    webhook,     \* webhook[q]: the notice in hand, the handlers called and those still at it
    repeated,    \* notices that the provider sends, until it has a good answer
    carried,     \* carried[n]: handlers that saw a notice through, some time
    owed,        \* owed[n]: handlers called for a notice that was answered 200
    troubles

vars == <<handlers, webhook, repeated, carried, owed, troubles>>

NoWebhook == [on |-> {}, called |-> {}, busy |-> {}, answered |-> FALSE]
Noticed(q) == CHOOSE n \in webhook[q].on : TRUE

Init ==
    /\ handlers = [hook \in RampStatuses |-> {}]
    /\ webhook = [q \in Requests |-> NoWebhook]
    /\ repeated = Notices
    /\ carried = [n \in Notices |-> {}] /\ owed = [n \in Notices |-> {}]
    /\ troubles = 0

\* The maps of the adapters; a status they do not have is taken for pending.  Transak's
\* looks for the order in the status of the envelope, a string, and finds no status there.
Known(provider) == IF provider = "moonpay" THEN RampStatuses \ {"cancelled"} ELSE RampStatuses
Parsed(n) ==
    IF n.status \in Known(n.provider) /\ ~(n.provider = "transak" /\ n.enveloped)
    THEN n.status ELSE "pending"

Verified(n) == n.provider \in Registered /\ n.genuine

\* Good: the provider has its answer.
Acknowledge(n, called) ==
    /\ owed' = [owed EXCEPT ![n] = @ \cup called]
    /\ repeated' = repeated \ {n}

\* handleRampWebhook up to the end of emit's map: every handler is called.  A notice that is
\* refused, with 404 or 401, leaves nothing, and the provider repeats it.
Receive(q, n) ==
    LET called == handlers[Parsed(n)] IN
    /\ webhook[q] = NoWebhook /\ n \in repeated
    /\ Verified(n)
    /\ IF called = {} THEN Acknowledge(n, {}) /\ UNCHANGED webhook
       ELSE /\ webhook' = [webhook EXCEPT ![q] =
                    [on |-> {n}, called |-> called, busy |-> called, answered |-> FALSE]]
            /\ UNCHANGED <<owed, repeated>>
    /\ UNCHANGED <<handlers, carried, troubles>>

\* The handler is done, or failed; a request is over when it is answered and none is at it.
Leave(q, h, answered) ==
    LET w == webhook[q]
        left == [w EXCEPT !.busy = w.busy \ {h}, !.answered = answered]
    IN  webhook' = [webhook EXCEPT ![q] = IF w.busy = {h} THEN NoWebhook ELSE left]

\* Mistaken variant: waits for all to settle, however they do.
IsWellSettled(q, h) == webhook[q].busy = {h}
\* Promise.all: fulfilled by the last, unless one was rejected.
IsWell(q, h) == webhook[q].busy = {h} /\ ~webhook[q].answered

Finish(q, h) ==
    LET n == Noticed(q) IN
    /\ h \in webhook[q].busy
    /\ carried' = [carried EXCEPT ![n] = @ \cup {h}]
    /\ Leave(q, h, webhook[q].answered)
    /\ IF IsWell(q, h) THEN Acknowledge(n, webhook[q].called) ELSE UNCHANGED <<owed, repeated>>
    /\ UNCHANGED <<handlers, troubles>>

Trouble == troubles < MaxFaults /\ troubles' = troubles + 1

\* The first rejection is answered at once with 500, while the other handlers go on.
HandlerFails(q, h) ==
    /\ h \in webhook[q].busy /\ Trouble
    /\ Leave(q, h, TRUE)
    /\ UNCHANGED <<handlers, repeated, carried, owed>>

\* The answer is lost: the provider sends the notice again.
AnswerLost(n) ==
    /\ n \notin repeated /\ Trouble
    /\ repeated' = repeated \cup {n}
    /\ UNCHANGED <<handlers, webhook, carried, owed>>

\* The registry is in memory; the handlers are there again when requests are.
Crash ==
    /\ Trouble
    /\ webhook' = [q \in Requests |-> NoWebhook]
    /\ UNCHANGED <<handlers, repeated, carried, owed>>

On(hook, h) ==
    /\ handlers' = [handlers EXCEPT ![hook] = @ \cup {h}]
    /\ UNCHANGED <<webhook, repeated, carried, owed, troubles>>

Off(hook, h) ==
    /\ handlers' = [handlers EXCEPT ![hook] = @ \ {h}]
    /\ UNCHANGED <<webhook, repeated, carried, owed, troubles>>

Next ==
    \/ \E q \in Requests, n \in Notices : Receive(q, n)
    \/ \E q \in Requests, h \in HookHandlers : Finish(q, h) \/ HandlerFails(q, h)
    \/ \E n \in Notices : AnswerLost(n)
    \/ Crash
    \/ \E hook \in {Parsed(n) : n \in Notices}, h \in HookHandlers : On(hook, h) \/ Off(hook, h)

Spec == Init /\ [][Next]_vars

-----------------------------------------------------------------------------
TypeOK ==
    /\ handlers \in [RampStatuses -> SUBSET HookHandlers]
    /\ webhook \in [Requests -> [on : SUBSET Notices, called : SUBSET HookHandlers,
                                 busy : SUBSET HookHandlers, answered : BOOLEAN]]
    /\ repeated \subseteq Notices
    /\ carried \in [Notices -> SUBSET HookHandlers] /\ owed \in [Notices -> SUBSET HookHandlers]
    /\ troubles \in 0..MaxFaults

(***************************************************************************)
(* A notice is answered 200 only when every handler called for it has seen *)
(* it through, however handlers fail, come and go.                         *)
(***************************************************************************)
AcknowledgedIsCarried == \A n \in Notices : owed[n] \subseteq carried[n]

(***************************************************************************)
(* What every step keeps: while a request has no answer, those called for  *)
(* its notice and no longer at it have seen it through.                    *)
(***************************************************************************)
WebhookType == [on : SUBSET Notices, called : SUBSET HookHandlers,
                busy : SUBSET HookHandlers, answered : BOOLEAN]

AtWork(w, seen) ==
    w.busy # {} =>
        /\ \E n \in Notices : w.on = {n}
        /\ \A n \in w.on : ~w.answered => w.called \subseteq seen[n] \cup w.busy
RepeatsTyped == repeated \subseteq Notices /\ troubles \in 0..MaxFaults
IInv ==
    /\ webhook \in [Requests -> WebhookType]
    /\ handlers \in [RampStatuses -> SUBSET HookHandlers]
    /\ carried \in [Notices -> SUBSET HookHandlers] /\ owed \in [Notices -> SUBSET HookHandlers]
    /\ \A q \in Requests : AtWork(webhook[q], carried)
    /\ AcknowledgedIsCarried
================================================================================
