----------------------------- MODULE WalletSession -----------------------------
(***************************************************************************)
(* WalletConnection.tsx over FreighterService: connecting, the session     *)
(* kept in the browser's storage and restored by the next page, and        *)
(* disconnecting.  The wallet itself may switch its account or network at  *)
(* any moment, also between the page's questions to it, and another tab of *)
(* the same origin shares the storage.                                     *)
(***************************************************************************)
EXTENDS Naturals

CONSTANTS
    Accounts,   \* of the wallet
    Runs,       \* restorations under way at a time
    MaxSwitches \* bound on switches of account or network and on what the other tab stores

WalletAssumption == MaxSwitches \in Nat

VARIABLES
    wallet,     \* the extension: its account, and whether its network is the expected one
    page,       \* what the page shows
    stored,     \* the session in storage
    connecting, \* a connection under way, and the account read so far
    restoring,  \* restoring[r]: a restoration under way, the same, and the session it is for
    switches,
    overtaken   \* the storage changed under the session now shown: by another tab, by a
                \* restoration that began before, or for its age

vars == <<wallet, page, stored, connecting, restoring, switches, overtaken>>

NoAccount == "none"
Nobody == [connected |-> FALSE, account |-> NoAccount, expected |-> TRUE, warned |-> FALSE]
NoSession == [account |-> NoAccount, expired |-> FALSE]
NotAsking == [busy |-> FALSE, account |-> NoAccount]
NotRestoring == [busy |-> FALSE, account |-> NoAccount, for |-> NoAccount]
Answered(ask) == ask.busy /\ ask.account # NoAccount

Init ==
    /\ wallet \in [account : Accounts, expected : BOOLEAN]
    /\ page = Nobody
    /\ stored = NoSession
    /\ connecting = NotAsking /\ restoring = [r \in Runs |-> NotRestoring]
    /\ switches = 0
    /\ overtaken = FALSE

\* The user chooses another account or network in the wallet.
Switch(account, expected) ==
    /\ switches < MaxSwitches /\ switches' = switches + 1
    /\ wallet' = [account |-> account, expected |-> expected]
    /\ UNCHANGED <<page, stored, connecting, restoring, overtaken>>

\* Another tab connects, with the account the wallet had then, or disconnects.
OtherTab(session) ==
    /\ switches < MaxSwitches /\ switches' = switches + 1
    /\ stored' = session
    /\ overtaken' = page.connected
    /\ UNCHANGED <<wallet, page, connecting, restoring>>

\* handleConnect: the button, shown while not connected and not connecting.
Connect ==
    /\ ~connecting.busy /\ ~page.connected
    /\ connecting' = [NotAsking EXCEPT !.busy = TRUE]
    /\ page' = [page EXCEPT !.warned = FALSE]
    /\ UNCHANGED <<wallet, stored, restoring, switches, overtaken>>

\* parseStoredWalletSession.
Usable == stored # NoSession /\ ~stored.expired
Restoration == [busy |-> TRUE, account |-> NoAccount, for |-> stored.account]

\* The effect, run again for a change of language, network or time to live.  A
\* session past its time is removed, whatever the page shows.
Restore(r) ==
    /\ ~restoring[r].busy
    /\ \/ /\ Usable
          /\ restoring' = [restoring EXCEPT ![r] = Restoration]
          /\ UNCHANGED <<stored, overtaken>>
       \/ /\ ~Usable
          /\ stored' = NoSession /\ overtaken' = page.connected
          /\ UNCHANGED restoring
    /\ UNCHANGED <<wallet, page, connecting, switches>>

\* getAddress.
ReadAddress ==
    /\ \/ /\ connecting.busy /\ connecting.account = NoAccount
          /\ connecting' = [connecting EXCEPT !.account = wallet.account]
          /\ UNCHANGED restoring
       \/ \E r \in Runs :
          /\ restoring[r].busy /\ restoring[r].account = NoAccount
          /\ restoring' = [restoring EXCEPT ![r].account = wallet.account]
          /\ UNCHANGED connecting
    /\ UNCHANGED <<wallet, page, stored, switches, overtaken>>

\* Mistaken variant: restores whatever account the wallet has now.
SameAccountAny(a, b) == a = b \/ a # NoAccount
SameAccount(a, b) == a = b

\* getNetwork answers a restoration: another account than the session's is not restored.
FinishRestore(r) ==
    LET kept == SameAccount(restoring[r].account, restoring[r].for) IN
    /\ Answered(restoring[r])
    /\ IF kept
       THEN /\ page' = [connected |-> TRUE, account |-> restoring[r].account,
                        expected |-> wallet.expected, warned |-> page.warned \/ ~wallet.expected]
            /\ overtaken' = (stored.account # restoring[r].for)
            /\ UNCHANGED stored
       ELSE /\ stored' = NoSession
            /\ overtaken' = page.connected
            /\ UNCHANGED page
    /\ restoring' = [restoring EXCEPT ![r] = NotRestoring]
    /\ UNCHANGED <<wallet, connecting, switches>>

\* Mistaken variant: connects on any network.
ShownConnectedAnyway(account, expected) ==
    [connected |-> TRUE, account |-> account, expected |-> expected, warned |-> FALSE]
\* A wallet on another network is not connected.
ShownConnected(account, expected) ==
    IF expected
    THEN [connected |-> TRUE, account |-> account, expected |-> TRUE, warned |-> FALSE]
    ELSE [Nobody EXCEPT !.expected = FALSE, !.warned = TRUE]

\* getNetwork answers handleConnect: the session is stored before the network is looked
\* at, and what is removed for a mismatch is another key.
FinishConnect ==
    /\ Answered(connecting)
    /\ stored' = [account |-> connecting.account, expired |-> FALSE]
    /\ page' = ShownConnected(connecting.account, wallet.expected)
    /\ overtaken' = FALSE
    /\ connecting' = NotAsking
    /\ UNCHANGED <<wallet, restoring, switches>>

\* The wallet is locked, refuses, or fails to name its account or network.
ConnectFails ==
    /\ connecting.busy /\ connecting' = NotAsking
    /\ page' = [page EXCEPT !.connected = FALSE]
    /\ UNCHANGED <<wallet, stored, restoring, switches, overtaken>>

RestoreFails(r) ==
    /\ restoring[r].busy /\ restoring' = [restoring EXCEPT ![r] = NotRestoring]
    /\ stored' = NoSession
    /\ overtaken' = page.connected
    /\ UNCHANGED <<wallet, page, connecting, switches>>

\* handleDisconnect.
Disconnect ==
    /\ page.connected
    /\ stored' = NoSession
    /\ page' = [page EXCEPT !.connected = FALSE, !.account = NoAccount, !.warned = FALSE]
    /\ overtaken' = FALSE
    /\ UNCHANGED <<wallet, connecting, restoring, switches>>

\* The page is loaded again, and the effect runs on mount.
Reload(r) ==
    /\ page' = Nobody /\ overtaken' = FALSE /\ connecting' = NotAsking
    /\ \/ /\ Usable
          /\ restoring' = [q \in Runs |-> IF q = r THEN Restoration ELSE NotRestoring]
          /\ UNCHANGED stored
       \/ /\ ~Usable
          /\ restoring' = [q \in Runs |-> NotRestoring]
          /\ stored' = NoSession
    /\ UNCHANGED <<wallet, switches>>

SessionExpires ==
    /\ stored # NoSession /\ ~stored.expired
    /\ stored' = [stored EXCEPT !.expired = TRUE]
    /\ UNCHANGED <<wallet, page, connecting, restoring, switches, overtaken>>

Next ==
    \/ \E e \in BOOLEAN, a \in Accounts : Switch(a, e)
    \/ \E a \in Accounts : OtherTab([account |-> a, expired |-> FALSE])
    \/ OtherTab(NoSession)
    \/ Connect \/ ReadAddress \/ FinishConnect \/ ConnectFails
    \/ \E r \in Runs : Restore(r) \/ FinishRestore(r) \/ RestoreFails(r) \/ Reload(r)
    \/ Disconnect \/ SessionExpires

Spec == Init /\ [][Next]_vars

-----------------------------------------------------------------------------
Named == Accounts \cup {NoAccount}

TypeOK ==
    /\ wallet \in [account : Accounts, expected : BOOLEAN]
    /\ page \in [connected : BOOLEAN, account : Named, expected : BOOLEAN, warned : BOOLEAN]
    /\ stored \in [account : Named, expired : BOOLEAN]
    /\ connecting \in [busy : BOOLEAN, account : Named]
    /\ restoring \in [Runs -> [busy : BOOLEAN, account : Named, for : Named]]
    /\ switches \in 0..MaxSwitches /\ overtaken \in BOOLEAN

(***************************************************************************)
(* Whoever the page shows connected is the account of the stored session,  *)
(* so that a reload shows the same account or nobody.  The exceptions are  *)
(* the storage's changes that the page does not hear of: another tab's, a  *)
(* restoration's that began for another session or failed after the page   *)
(* was connected, and the removal of a session past its time by an effect  *)
(* run again, which leaves the page connected.                             *)
(***************************************************************************)
ShownIsStored == page.connected /\ ~overtaken => stored.account = page.account

(***************************************************************************)
(* A page is connected through the wrong network only by restoring, and    *)
(* then says so.                                                           *)
(***************************************************************************)
WrongNetworkIsWarned == page.connected /\ ~page.expected => page.warned

\* What every step keeps: both properties of the page, with the types.
IInv == TypeOK /\ ShownIsStored /\ WrongNetworkIsWarned
=============================================================================
