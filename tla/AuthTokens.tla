------------------------------ MODULE AuthTokens ------------------------------
(***************************************************************************)
(* The API's refresh tokens: single-use, kept in the memory of the         *)
(* process, held by the browser in one cookie that all its tabs share.     *)
(* The tabs' requests and their answers cross.                             *)
(***************************************************************************)
EXTENDS Naturals

CONSTANTS
    Tabs,       \* requests of one browser under way at a time, one per tab
    MaxTokens   \* bound on tokens issued, one user's

AuthAssumption == MaxTokens \in Nat

VARIABLES
    live,      \* refreshTokenStore
    expired,   \* tokens of it that are past expiresAt
    issued,    \* tokens issued so far are 1..issued
    heirs,     \* heirs[t]: how many tokens were issued in exchange for t
    cookie,    \* the browser's, or NoToken
    tab,       \* tab[b]: what its request carries and what the answer does to the cookie
    excused    \* since the last login a token expired, the process started anew, an answer
               \* was lost, the user logged out, or two requests were under way at once

vars == <<live, expired, issued, heirs, cookie, tab, excused>>

NoToken == 0
Idle == [at |-> "idle", token |-> NoToken, login |-> FALSE]

Init ==
    /\ live = {} /\ expired = {} /\ issued = 0
    /\ heirs = [t \in 1..MaxTokens |-> 0]
    /\ cookie = NoToken
    /\ tab = [b \in Tabs |-> Idle]
    /\ excused = TRUE

Send(b, path) ==
    /\ tab[b].at = "idle"
    /\ tab' = [tab EXCEPT ![b] = [at |-> path, token |-> cookie, login |-> path = "login"]]
    /\ excused' = (excused \/ path = "logout" \/ \E c \in Tabs : tab[c].at # "idle")
    /\ UNCHANGED <<live, expired, issued, heirs, cookie>>

\* The answer sets the cookie, or clears it when token is NoToken.
Answer(b, token) == tab' = [tab EXCEPT ![b].at = "answer", ![b].token = token]

Issue == issued < MaxTokens /\ issued' = issued + 1

\* The credential check is a stub; a request that fails it changes nothing.
Login(b) ==
    /\ tab[b].at = "login"
    /\ Issue /\ live' = live \cup {issued'}
    /\ Answer(b, issued')
    /\ UNCHANGED <<expired, heirs, cookie, excused>>

\* Mistaken variant: the token that was used stays good.
RotatedKeeping(store, old, new) == store \cup {new}
Rotated(store, old, new) == (store \ {old}) \cup {new}

\* A token in the store is exchanged.
Refresh(b) ==
    /\ tab[b].at = "refresh" /\ tab[b].token \in live \ expired
    /\ Issue /\ live' = Rotated(live, tab[b].token, issued')
    /\ heirs' = [heirs EXCEPT ![tab[b].token] = @ + 1]
    /\ Answer(b, issued')
    /\ UNCHANGED <<expired, cookie, excused>>

\* Unknown or expired: 401, and the cookie is cleared.
RefreshRefused(b) ==
    /\ tab[b].at = "refresh" /\ tab[b].token # NoToken /\ tab[b].token \notin live \ expired
    /\ live' = live \ {tab[b].token}
    /\ Answer(b, NoToken)
    /\ UNCHANGED <<expired, issued, heirs, cookie, excused>>

\* No cookie: 401, and the cookie is left alone.
RefreshMissing(b) ==
    /\ tab[b].at = "refresh" /\ tab[b].token = NoToken
    /\ tab' = [tab EXCEPT ![b] = Idle]
    /\ UNCHANGED <<live, expired, issued, heirs, cookie, excused>>

Logout(b) ==
    /\ tab[b].at = "logout"
    /\ live' = live \ {tab[b].token}
    /\ Answer(b, NoToken)
    /\ UNCHANGED <<expired, issued, heirs, cookie, excused>>

AnswerLands(b) ==
    /\ tab[b].at = "answer"
    /\ cookie' = tab[b].token
    /\ tab' = [tab EXCEPT ![b] = Idle]
    /\ excused' = (excused /\ ~(tab[b].login /\ cookie' \in live \ expired
                                /\ \A c \in Tabs \ {b} : tab[c].at = "idle"))
    /\ UNCHANGED <<live, expired, issued, heirs>>

AnswerLost(b) ==
    /\ tab[b].at # "idle"
    /\ tab' = [tab EXCEPT ![b] = Idle]
    /\ excused' = TRUE
    /\ UNCHANGED <<live, expired, issued, heirs, cookie>>

\* Seven days after it was issued; the cookie's age ends a moment later.
Expire(t) ==
    /\ t \in live \ expired
    /\ expired' = expired \cup {t} /\ excused' = TRUE
    /\ UNCHANGED <<live, issued, heirs, cookie, tab>>

CookieEnds ==
    /\ cookie \in expired
    /\ cookie' = NoToken
    /\ UNCHANGED <<live, expired, issued, heirs, tab, excused>>

\* The process starts anew: its memory held the only copy, and open requests are cut.
Restart ==
    /\ live' = {} /\ excused' = TRUE
    /\ tab' = [b \in Tabs |-> Idle]
    /\ UNCHANGED <<expired, issued, heirs, cookie>>

Next ==
    \/ \E b \in Tabs :
        \/ \E path \in {"login", "refresh", "logout"} : Send(b, path)
        \/ Login(b) \/ Refresh(b) \/ RefreshRefused(b) \/ RefreshMissing(b) \/ Logout(b)
        \/ AnswerLands(b) \/ AnswerLost(b)
    \/ \E t \in 1..MaxTokens : Expire(t)
    \/ CookieEnds
    \/ Restart

Spec == Init /\ [][Next]_vars

-----------------------------------------------------------------------------
TypeOK ==
    /\ issued \in 0..MaxTokens /\ live \cup expired \subseteq 1..issued
    /\ heirs \in [1..MaxTokens -> Nat] /\ cookie \in 0..issued
    /\ tab \in [Tabs -> [at : {"idle", "login", "refresh", "logout", "answer"},
                         token : 0..issued, login : BOOLEAN]]
    /\ excused \in BOOLEAN

(***************************************************************************)
(* No token is exchanged twice, however the tabs' requests overlap; and a  *)
(* browser with nothing under way holds a token that the server takes,     *)
(* unless it was logged out, the token expired, the server forgot it, an   *)
(* answer was lost, or requests overlapped: the slower of two refreshes is *)
(* refused and clears the cookie that the faster one has just set.         *)
(***************************************************************************)
TokensRotate ==
    /\ \A t \in 1..MaxTokens : heirs[t] <= 1
    /\ (\A b \in Tabs : tab[b].at = "idle") => excused \/ cookie \in live \ expired

-----------------------------------------------------------------------------
\* A token the server takes was issued and not exchanged yet, and those not issued yet
\* were not exchanged either.
TakenWereNotExchanged ==
    /\ heirs \in [1..MaxTokens -> 0..1]
    /\ \A t \in 1..MaxTokens : t \in live \/ t > issued => heirs[t] = 0

\* Without an excuse one request is under way at most, what it carries is a token that
\* the server takes, and no logout.
GoodTokenUnderWay ==
    ~excused =>
        /\ \A b, c \in Tabs : tab[b].at # "idle" /\ tab[c].at # "idle" => b = c
        /\ \A b \in Tabs :
              /\ tab[b].at # "logout"
              /\ tab[b].at \in {"refresh", "answer"} => tab[b].token \in live \ expired

\* The inductive invariant behind TokensRotate.
IInv == TypeOK /\ TakenWereNotExchanged /\ GoodTokenUnderWay /\ TokensRotate
================================================================================
