------------------------------ MODULE SecretCache ------------------------------
(***************************************************************************)
(* One secret of the API or the backend: kept at the secrets manager,      *)
(* cached by the process for a while, watched for rotation by a timer that *)
(* runs a hook, and rotated by the process itself.  A secret's value is    *)
(* the number of changes before it.                                        *)
(***************************************************************************)
EXTENDS Naturals

CONSTANTS
    Readers,     \* calls of getSecret under way at a time
    Checks,      \* rotation checks under way at a time; nothing keeps them apart
    Ttl,         \* SECRETS_CACHE_TTL_MS
    MaxTime,     \* bound on the clock
    MaxChanges   \* bound on changes of the secret

SecretAssumption ==
    /\ Readers \cap Checks = {} /\ "rotate" \notin Readers \cup Checks
    /\ Ttl \in Nat \ {0} /\ MaxTime \in Nat /\ MaxChanges \in Nat

VARIABLES
    now,
    changed,  \* changed[v]: when value v became the secret; the values so far are its domain
    cache,    \* the value kept and when it was asked for, or NoCopy
    call,     \* call[c]: a call under way, its stage, stamp and value
    told,     \* the value the rotation hook was last run with
    crossed   \* the cache was filled by a read that an earlier run of the hook overtook

vars == <<now, changed, cache, call, told, crossed>>

Calls == Readers \cup Checks \cup {"rotate"}
Current == CHOOSE v \in DOMAIN changed : v + 1 \notin DOMAIN changed
NoCopy == [value |-> 0, stamp |-> MaxTime + Ttl + 1]
Done == [at |-> "done", stamp |-> 0, value |-> 0]

Init ==
    /\ now = 0 /\ changed = [v \in {0} |-> 0]
    /\ cache = NoCopy
    /\ call = [c \in Calls |-> Done]
    /\ told = 0 /\ crossed = FALSE

Goto(c, stage, stamp, value) == call' = [call EXCEPT ![c] = [at |-> stage, stamp |-> stamp, value |-> value]]

Tick ==
    /\ now < MaxTime /\ now' = now + 1
    /\ UNCHANGED <<changed, cache, call, told, crossed>>

NewValue ==
    /\ Current < MaxChanges
    /\ changed' = [v \in 0..(Current + 1) |-> IF v \in DOMAIN changed THEN changed[v] ELSE now]

\* An operator, or another instance, changes the secret.
Change == NewValue /\ UNCHANGED <<now, cache, call, told, crossed>>

Fresh(copy) == copy # NoCopy /\ now - copy.stamp < Ttl

\* getSecret: served from the cache, or asked for with the time of the call.
BeginRead(c) ==
    /\ c \in Readers /\ call[c].at = "done"
    /\ IF Fresh(cache) THEN UNCHANGED call ELSE Goto(c, "get", now, 0)
    /\ UNCHANGED <<now, changed, cache, told, crossed>>

\* The secrets manager reads the value, and the answer is on its way.
ReadAnswered(c) ==
    /\ call[c].at = "get"
    /\ Goto(c, "got", call[c].stamp, Current)
    /\ UNCHANGED <<now, changed, cache, told, crossed>>

\* Mistaken variant: stamped when the answer comes.
StampLanding(c) == now
Stamp(c) == call[c].stamp

RunHook(value) == told' = value

\* The answer is cached and returned; a check runs the hook with it.
ReadLands(c) ==
    /\ call[c].at = "got"
    /\ cache' = [value |-> call[c].value, stamp |-> Stamp(c)]
    /\ crossed' = (call[c].value < told)
    /\ IF c \in Checks THEN RunHook(call[c].value) ELSE UNCHANGED told
    /\ Goto(c, "done", 0, 0)
    /\ UNCHANGED <<now, changed>>

\* A call fails: a required secret throws, another is undefined; the next call asks again.
CallFails(c) ==
    /\ call[c].at \notin {"done", "put"}
    /\ Goto(c, "done", 0, 0)
    /\ UNCHANGED <<now, changed, cache, told, crossed>>

\* The timer: DescribeSecret.
BeginCheck(c) ==
    /\ c \in Checks /\ call[c].at = "done"
    /\ Goto(c, "describe", 0, 0)
    /\ UNCHANGED <<now, changed, cache, told, crossed>>

Described(c) ==
    /\ call[c].at = "describe"
    /\ Goto(c, "compare", 0, Current)
    /\ UNCHANGED <<now, changed, cache, told, crossed>>

\* A copy asked for before the last change is read again by getSecret, which serves the
\* same copy while it is fresh.
Compare(c) ==
    /\ call[c].at = "compare"
    /\ LET stale == cache # NoCopy /\ cache.stamp < changed[call[c].value] IN
       CASE stale /\ Fresh(cache) -> RunHook(cache.value) /\ Goto(c, "done", 0, 0)
         [] stale /\ ~Fresh(cache) -> Goto(c, "get", now, 0) /\ UNCHANGED told
         [] ~stale -> Goto(c, "done", 0, 0) /\ UNCHANGED told
    /\ UNCHANGED <<now, changed, cache, crossed>>

\* rotateSecret: the new value is put, then, when the answer is back, the copy is dropped
\* and the hook run.
Put ==
    /\ call["rotate"].at = "done"
    /\ NewValue
    /\ Goto("rotate", "put", 0, Current + 1)
    /\ UNCHANGED <<now, cache, told, crossed>>

\* Mistaken variant: the copy stays.
AfterRotationKept(copy) == copy
AfterRotation(copy) == NoCopy

PutReturns ==
    /\ call["rotate"].at = "put"
    /\ cache' = AfterRotation(cache)
    /\ crossed' = (cache' # NoCopy /\ crossed)
    /\ RunHook(call["rotate"].value)
    /\ Goto("rotate", "done", 0, 0)
    /\ UNCHANGED <<now, changed>>

\* The answer is lost, or the process is cut short: the value is changed, and nothing else.
PutFails ==
    /\ call["rotate"].at = "put"
    /\ Goto("rotate", "done", 0, 0)
    /\ UNCHANGED <<now, changed, cache, told, crossed>>

\* clearCache and shutdown.
Clear ==
    /\ cache # NoCopy /\ cache' = NoCopy /\ crossed' = FALSE
    /\ UNCHANGED <<now, changed, call, told>>

Next ==
    \/ Tick \/ Change \/ Put \/ PutReturns \/ PutFails \/ Clear
    \/ \E c \in Readers \cup Checks :
        \/ BeginRead(c) \/ ReadAnswered(c) \/ ReadLands(c) \/ CallFails(c)
        \/ BeginCheck(c) \/ Described(c) \/ Compare(c)

Spec == Init /\ [][Next]_vars

-----------------------------------------------------------------------------
TypeOK ==
    /\ now \in 0..MaxTime /\ DOMAIN changed = 0..Current
    /\ cache = NoCopy \/ cache \in [value : DOMAIN changed, stamp : 0..now]
    /\ \A c \in Calls : call[c].stamp \in 0..now /\ call[c].value \in DOMAIN changed
    /\ told \in DOMAIN changed /\ crossed \in BOOLEAN

(***************************************************************************)
(* A value served from the cache was the secret less than the cache's      *)
(* lifetime ago, however long the reads take and however they overlap.     *)
(***************************************************************************)
ServedWithinTtl ==
    Fresh(cache) /\ cache.value < Current => now - changed[cache.value + 1] < Ttl

(***************************************************************************)
(* The cache holds a value older than the one the hook was told only when  *)
(* a read under way was overtaken by a rotation or a check: then the next  *)
(* check may tell the hook the older value again.                          *)
(***************************************************************************)
HookAheadOnlyByCrossing == cache # NoCopy /\ cache.value < told => crossed

-----------------------------------------------------------------------------
\* A value that is kept or on its way was the secret when it was asked for.
SecretWhenAsked(value, stamp) == value < Current => stamp <= changed[value + 1]

\* The inductive invariant behind these properties.
IInv ==
    /\ now \in 0..MaxTime
    /\ \E n \in Nat : changed \in [0..n -> 0..now]
    /\ cache = NoCopy \/ /\ cache \in [value : DOMAIN changed, stamp : 0..now]
                         /\ SecretWhenAsked(cache.value, cache.stamp)
    /\ call \in [Calls -> [at : {"done", "get", "got", "describe", "compare", "put"},
                           stamp : 0..now, value : DOMAIN changed]]
    /\ \A c \in Calls : call[c].at = "got" => SecretWhenAsked(call[c].value, call[c].stamp)
    /\ told \in DOMAIN changed /\ crossed \in BOOLEAN
    /\ HookAheadOnlyByCrossing
=============================================================================
