------------------------------- MODULE Wallets -------------------------------
(***************************************************************************)
(* The wallet layer of the frontend (src/frontend/src/lib/wallet): the     *)
(* WalletManager of a page, the session it keeps in localStorage, the four *)
(* adapters, and the calls of the provider, the hooks and the modal.       *)
(*                                                                         *)
(* Code is atomic up to its next await, and awaits that only take a        *)
(* microtask are none.  The extensions and the WalletConnect client are    *)
(* external; the test hook __STELLARKRAAL_E2E__ is left out, and so are    *)
(* names, icons and error texts.  One tab uses the storage.                *)
(***************************************************************************)
EXTENDS Naturals, Sequences, FiniteSets, SequencesExt

CONSTANTS
  Freighter, XBull, Lobstr, WalletConnect,   \* WalletId
  Account,      \* Stellar addresses
  NoAddress,    \* the address "": Freighter not allowed, a session without accounts
  Topic,        \* sessions a phone can approve for WalletConnect
  AccountOf,    \* the account of each topic
  Browsers,     \* sets of extensions a browser may have
  Answering,    \* those where Freighter's page library answers, although it is not installed
  Call,         \* calls that can be under way at once
  None

Wallet    == {Freighter, XBull, Lobstr, WalletConnect}
Extension == Wallet \ {WalletConnect}

ASSUME WalletsAssumption ==
  /\ Cardinality(Wallet) = 4 /\ None \notin Wallet \cup Account
  /\ None \notin [wallet : Wallet, fresh : BOOLEAN]
  /\ NoAddress \notin Account \cup {None}
  /\ Browsers \subseteq SUBSET Extension /\ Answering \subseteq Browsers
  /\ AccountOf \in [Topic -> Account \cup {NoAddress}]

VARIABLES
  installed,   \* the extensions of the browser
  account,     \* the account each extension shows the page, None if it shows none
  remote,      \* the sessions the WalletConnect client keeps, oldest first
  storage,     \* the saved session, and whether it is younger than 24 hours
  page,        \* the manager's state
  active,      \* _activeSession of the WalletConnect adapter
  restore,     \* where initialize is, and the wallet it restores
  expired,     \* what useWalletSession read of the storage when it was mounted
  call         \* the calls of connect, disconnect and switchWallet

browser    == <<installed, account, remote>>
walletVars == <<browser, storage, page, active, restore, expired, call>>

NoPage == [state |-> "disconnected", wallet |-> None, address |-> None]
Idle   == [at |-> "idle", wallet |-> None, next |-> None, topic |-> None]

\* A page is loaded: the manager, the adapters and initialize start, the browser stays.
Fresh(p, a, r, x, k) ==
  /\ p = NoPage /\ a = None /\ r = [at |-> "detect", wallet |-> None]
  /\ x = FALSE /\ k = [c \in Call |-> Idle]

WalletsInit ==
  /\ installed \in Browsers
  /\ account = [w \in Extension |-> None] /\ remote = <<>> /\ storage = None
  /\ Fresh(page, active, restore, expired, call)

Load == Fresh(page', active', restore', expired', call') /\ UNCHANGED <<browser, storage>>

-----------------------------------------------------------------------------
(* The adapters. *)

\* Freighter is taken for installed when its library's isConnected answers, whatever it says.
FreighterDetect == Freighter \in installed \/ installed \in Answering
XBullDetect     == XBull \in installed
LobstrDetect    == Lobstr \in installed

\* detect: WalletConnect is always there.
Detect(w) == CASE w = Freighter -> FreighterDetect
               [] w = XBull     -> XBullDetect
               [] w = Lobstr    -> LobstrDetect
               [] OTHER         -> TRUE

\* detectWallets: the wallets that can be clicked.
Available == {w \in Wallet : Detect(w) \/ w = WalletConnect}

\* restoreSession: the first session of the client that has an account, not the active one.
RestoreSession ==
  LET with == {i \in DOMAIN remote : AccountOf[remote[i]] # NoAddress}
  IN  IF with = {} THEN None ELSE remote[CHOOSE i \in with : \A j \in with : i <= j]

\* isConnected: Freighter answers that it is installed, the others that they show an account.
FreighterIsConnected     == Freighter \in installed
XBullIsConnected         == XBull \in installed /\ account[XBull] # None
LobstrIsConnected        == Lobstr \in installed /\ account[Lobstr] # None
WalletConnectIsConnected == RestoreSession # None

IsConnected(w) == CASE w = Freighter -> FreighterIsConnected
                    [] w = XBull     -> XBullIsConnected
                    [] w = Lobstr    -> LobstrIsConnected
                    [] OTHER         -> WalletConnectIsConnected

\* getAddress: None stands for an error.  Freighter answers "" where it shows no account.
FreighterAddress == IF account[Freighter] = None THEN NoAddress ELSE account[Freighter]
XBullAddress     == IF XBull \in installed THEN account[XBull] ELSE None
LobstrAddress    == IF Lobstr \in installed THEN account[Lobstr] ELSE None
WalletConnectAddress == IF RestoreSession = None THEN None ELSE AccountOf[RestoreSession]

AdapterAddress(w) == CASE w = Freighter -> FreighterAddress
                       [] w = XBull     -> XBullAddress
                       [] w = Lobstr    -> LobstrAddress
                       [] OTHER         -> WalletConnectAddress

\* connect: what the manager gets if the user shows account a, or none.  An error is None.
FreighterConnects(a) == IF a = None THEN NoAddress ELSE a
XBullConnects(a)     == IF XBull \in installed THEN a ELSE None
LobstrConnects(a)    == IF Lobstr \in installed THEN a ELSE None

ExtensionConnects(w, a) == CASE w = Freighter -> FreighterConnects(a)
                             [] w = XBull     -> XBullConnects(a)
                             [] w = Lobstr    -> LobstrConnects(a)

\* disconnect: Freighter has none; the other extensions show no account any more.
XBullLeaves  == [account EXCEPT ![XBull] = None]
LobstrLeaves == [account EXCEPT ![Lobstr] = None]
ExtensionLeaves(w) == IF w = XBull THEN XBullLeaves ELSE LobstrLeaves

\* signTransaction: the account a wallet signs with if it agrees, None for an error.  Freighter is
\* asked for the given address; WalletConnect asks the active session's phone.
FreighterSigns(address) == IF account[Freighter] = None THEN None ELSE address
XBullSigns              == XBullAddress
LobstrSigns             == LobstrAddress
WalletConnectSigns      == IF active # None /\ active \in ToSet(remote) THEN AccountOf[active]
                           ELSE None

AdapterSigns(w, address) == CASE w = Freighter -> FreighterSigns(address)
                              [] w = XBull     -> XBullSigns
                              [] w = Lobstr    -> LobstrSigns
                              [] OTHER         -> WalletConnectSigns

-----------------------------------------------------------------------------
(* initialize. *)

ClearSession == storage' = None

\* detectWallets is done: loadSession ignores an expired session, and leaves it there.
WalletsDetected ==
  /\ restore.at = "detect"
  /\ restore' = IF storage # None /\ storage.fresh
                THEN [at |-> "check", wallet |-> storage.wallet]
                ELSE [at |-> "done", wallet |-> None]
  /\ UNCHANGED <<browser, storage, page, active, expired, call>>

RestoreChecks ==
  /\ restore.at = "check" /\ IsConnected(restore.wallet)
  /\ restore' = [restore EXCEPT !.at = "address"]
  /\ UNCHANGED <<browser, storage, page, active, expired, call>>

\* The wallet's address takes the place of whatever the page shows by now; nothing is saved.
RestoreLands ==
  /\ restore.at = "address" /\ AdapterAddress(restore.wallet) # None
  /\ page' = [state |-> "connected", wallet |-> restore.wallet,
              address |-> AdapterAddress(restore.wallet)]
  /\ restore' = [at |-> "done", wallet |-> None]
  /\ UNCHANGED <<browser, storage, active, expired, call>>

\* Not connected, or either of the two calls failed, which it may at any time.
RestoreFails ==
  /\ restore.at \in {"check", "address"}
  /\ ClearSession /\ restore' = [at |-> "done", wallet |-> None]
  /\ UNCHANGED <<browser, page, active, expired, call>>

-----------------------------------------------------------------------------
(* connect, disconnect and switchWallet. *)

\* connect up to its first await: Freighter is asked whether it is there, another wallet that is
\* there is asked at once, and of one that is not, the page does not hear.
Begun(w) == IF w = Freighter THEN [Idle EXCEPT !.at = "detect", !.wallet = w]
            ELSE IF Detect(w) THEN [Idle EXCEPT !.at = "prompt", !.wallet = w] ELSE Idle

PageBegun(p, w) == IF Begun(w).at = "prompt" THEN [p EXCEPT !.state = "connecting"] ELSE p

Connect(c, w) ==
  /\ call[c].at = "idle" /\ call' = [call EXCEPT ![c] = Begun(w)] /\ page' = PageBegun(page, w)
  /\ UNCHANGED <<browser, storage, active, restore, expired>>

\* handleConnect of the modal: isConnected is not in the context, so the wallet in use is never
\* left first; and only the clicked wallet's button is disabled.
Click(c, w) == restore.at # "detect" /\ w \in Available /\ Connect(c, w)

\* connect of useWallet: the only wallet that is there, which WalletConnect always is; with
\* others the modal opens.
ConnectOnly(c) ==
  /\ restore.at # "detect"
  /\ \E w \in Wallet : {x \in Wallet : Detect(x)} = {w} /\ Connect(c, w)

\* Freighter is there and gets asked, or is not.
Detected(c) ==
  /\ call[c].at = "detect"
  /\ \/ /\ Detect(call[c].wallet) /\ page' = [page EXCEPT !.state = "connecting"]
        /\ call' = [call EXCEPT ![c].at = "prompt"]
     \/ ~Detect(call[c].wallet) /\ page' = page /\ call' = [call EXCEPT ![c] = Idle]
  /\ UNCHANGED <<browser, storage, active, restore, expired>>

\* The adapter answered: the state and the saved session change together.
Connected(c, address) ==
  /\ page' = [state |-> "connected", wallet |-> call[c].wallet, address |-> address]
  /\ storage' = [wallet |-> call[c].wallet, fresh |-> TRUE]
  /\ call' = [call EXCEPT ![c] = Idle]

ExtensionAnswers(c, a) ==
  LET w == call[c].wallet
  IN  /\ call[c].at = "prompt" /\ w \in Extension /\ ExtensionConnects(w, a) # None
      /\ a = None \/ w \in installed
      /\ account' = [account EXCEPT ![w] = a]
      /\ Connected(c, ExtensionConnects(w, a))
      /\ UNCHANGED <<installed, remote, active, restore, expired>>

\* Mutant of PhoneApproves: the address is the first session's, as getAddress has it.
PhoneApprovesFirst(c, t) ==
  /\ call[c].at = "prompt" /\ call[c].wallet = WalletConnect /\ t \notin ToSet(remote)
  /\ remote' = Append(remote, t) /\ active' = t
  /\ Connected(c, AccountOf[Append(remote, t)[1]])
  /\ UNCHANGED <<installed, account, restore, expired>>

\* A phone approves: its session is kept by the client and becomes the active one.
PhoneApproves(c, t) ==
  /\ call[c].at = "prompt" /\ call[c].wallet = WalletConnect /\ t \notin ToSet(remote)
  /\ remote' = Append(remote, t) /\ active' = t
  /\ Connected(c, AccountOf[t])
  /\ UNCHANGED <<installed, account, restore, expired>>

\* connect failed: an error is shown beside the wallet and the address there were.
ConnectFails(c) ==
  /\ call[c].at = "prompt" /\ call' = [call EXCEPT ![c] = Idle]
  /\ page' = [page EXCEPT !.state = "error"]
  /\ UNCHANGED <<browser, storage, active, restore, expired>>

\* Mutant of Left: the session stays saved.
LeftSaved(c, next) ==
  /\ storage' = storage
  /\ page' = IF next = None THEN NoPage ELSE PageBegun(NoPage, next)
  /\ call' = [call EXCEPT ![c] = IF next = None THEN Idle ELSE Begun(next)]

\* The end of disconnect, whatever the page shows by now; switchWallet goes on to connect.
Left(c, next) ==
  /\ ClearSession
  /\ page' = IF next = None THEN NoPage ELSE PageBegun(NoPage, next)
  /\ call' = [call EXCEPT ![c] = IF next = None THEN Idle ELSE Begun(next)]

\* disconnect leaves the wallet of the page's state: there is nothing to wait for with none, with
\* Freighter, and with WalletConnect without an active session, as after a restore.
LeavingTakesTime == \/ page.wallet \in {XBull, Lobstr}
                    \/ page.wallet = WalletConnect /\ active # None

Leave(c, next) ==
  /\ call[c].at = "idle"
  /\ \/ ~LeavingTakesTime /\ Left(c, next)
     \/ /\ LeavingTakesTime
        /\ call' = [call EXCEPT ![c] = [at |-> "leave", wallet |-> page.wallet, next |-> next,
                                        topic |-> IF page.wallet = WalletConnect THEN active ELSE None]]
        /\ UNCHANGED <<storage, page>>
  /\ UNCHANGED <<browser, active, restore, expired>>

Disconnect(c) == Leave(c, None)
SwitchWallet(c, w) == IF page.wallet = None THEN Connect(c, w) ELSE Leave(c, w)

\* The extension is left, or the call fails, which is ignored.
ExtensionLeft(c) ==
  /\ call[c].at = "leave" /\ call[c].wallet \in Extension
  /\ account' \in {account, ExtensionLeaves(call[c].wallet)}
  /\ Left(c, call[c].next) /\ UNCHANGED <<installed, remote, active, restore, expired>>

\* The session is ended, or the call fails, which is ignored: whatever session is active by now
\* is forgotten.
WalletConnectLeft(c) ==
  /\ call[c].at = "leave" /\ call[c].wallet = WalletConnect
  /\ remote' \in {remote, SelectSeq(remote, LAMBDA t : t # call[c].topic)}
  /\ active' = None
  /\ Left(c, call[c].next) /\ UNCHANGED <<installed, account, restore, expired>>

-----------------------------------------------------------------------------
(* The hooks, the legacy client, the browser. *)

\* useWalletSession reads the storage once, when it is mounted; a session without an address is
\* none.
MountSession ==
  /\ expired' \in {FALSE, storage # None /\ ~storage.fresh}
  /\ UNCHANGED <<browser, storage, page, active, restore, call>>

\* clearExpiredSession goes by what was read then.
ClearExpiredSession ==
  /\ expired /\ expired' = FALSE /\ ClearSession
  /\ UNCHANGED <<browser, page, active, restore, call>>

\* freighterClient: what it says of the manager's state.
ClientIsConnected == page.state = "connected" /\ page.wallet = Freighter
ClientAddress == IF page.state = "connected" /\ page.address # NoAddress THEN page.address ELSE None

\* signTransaction of the client and the manager: the account that would sign now.
Signer == IF page.state = "connected" THEN AdapterSigns(page.wallet, page.address) ELSE None

\* setAllowed asks Freighter past the manager.
SetAllowed(a) ==
  /\ Freighter \in installed /\ account' = [account EXCEPT ![Freighter] = a]
  /\ UNCHANGED <<installed, remote, storage, page, active, restore, expired, call>>

\* The user shows another account, or none, of an installed extension.
AccountChanges(w, a) ==
  /\ w \in installed /\ account' = [account EXCEPT ![w] = a]
  /\ UNCHANGED <<installed, remote, storage, page, active, restore, expired, call>>

\* The phone ends a session; the adapter does not hear of it.
PhoneEnds(t) ==
  /\ t \in ToSet(remote) /\ remote' = SelectSeq(remote, LAMBDA s : s # t)
  /\ UNCHANGED <<installed, account, storage, page, active, restore, expired, call>>

SessionAges ==
  /\ storage # None /\ storage.fresh /\ storage' = [storage EXCEPT !.fresh = FALSE]
  /\ UNCHANGED <<browser, page, active, restore, expired, call>>

WalletsNext ==
  \/ Load \/ WalletsDetected \/ RestoreChecks \/ RestoreLands \/ RestoreFails
  \/ \E c \in Call :
       \/ \E w \in Wallet : Connect(c, w) \/ Click(c, w) \/ SwitchWallet(c, w)
       \/ ConnectOnly(c) \/ Disconnect(c) \/ Detected(c) \/ ConnectFails(c)
       \/ \E a \in Account \cup {None} : ExtensionAnswers(c, a)
       \/ \E t \in Topic : PhoneApproves(c, t)
       \/ ExtensionLeft(c) \/ WalletConnectLeft(c)
  \/ MountSession \/ ClearExpiredSession \/ SessionAges
  \/ \E a \in Account : SetAllowed(a)
  \/ \E w \in Extension, a \in Account \cup {None} : AccountChanges(w, a)
  \/ \E t \in Topic : PhoneEnds(t)
=============================================================================
