----------------------------- MODULE WalletsProofs -----------------------------
(***************************************************************************)
(* Proofs of the two invariants of WalletsHistory, for any accounts,       *)
(* sessions, extensions and calls under way at once.                       *)
(***************************************************************************)
EXTENDS WalletsHistory, FiniteSetTheorems, TLAPS

Saved      == [wallet : Wallet, fresh : BOOLEAN]
Restoring  == [at : {"detect", "check", "address", "done"}, wallet : Wallet \cup {None}]
CallRecord == [at : {"idle", "detect", "prompt", "leave"}, wallet : Wallet \cup {None},
               next : Wallet \cup {None}, topic : Topic \cup {None}]

\* The addresses a page shows are whatever the wallets answered.
WalletsTypeOK ==
  /\ storage \in Saved \cup {None}
  /\ page = [state |-> page.state, wallet |-> page.wallet, address |-> page.address]
  /\ page.wallet \in Wallet \cup {None}
  /\ active \in Topic \cup {None}
  /\ restore \in Restoring
  /\ call \in [Call -> CallRecord]
  /\ overlapped \in BOOLEAN

\* A call that waits for a wallet knows which one.
CallInv == \A c \in Call : call[c].at \in {"detect", "prompt"} => call[c].wallet \in Wallet

\* Until initialize is done nothing is shown, nothing is under way, and what is being restored is
\* what is saved.
StartInv ==
  ~overlapped /\ restore.at # "done" =>
    /\ page.wallet = None /\ active = None
    /\ \A c \in Call : call[c].at = "idle"
    /\ restore.at \in {"check", "address"} => storage # None /\ storage.wallet = restore.wallet

\* A page of WalletConnect shows the account of the active session, if there is one.
SignInv ==
  ~overlapped /\ page.wallet = WalletConnect => active = None \/ page.address = AccountOf[active]

IInv == WalletsTypeOK /\ CallInv /\ StartInv /\ SavedIsShown /\ SignInv
-----------------------------------------------------------------------------
Shaped(p) == p = [state |-> p.state, wallet |-> p.wallet, address |-> p.address]

\* What a step that is not a load says of the overlaps.
LEMMA Overlaps ==
  ASSUME Observe, ~Load, overlapped \in BOOLEAN
  PROVE  /\ overlapped' \in BOOLEAN
         /\ ~overlapped' => ~overlapped
         /\ ~overlapped' /\ restore.at # "done" => call' = call /\ ~\E c \in Call : Disconnect(c)
         /\ ~overlapped' /\ ClearExpiredSession => page.wallet = None /\ restore.at = "done"
  BY Zenon DEF Observe

\* A call that has begun waits for the wallet it was made for, and the page keeps what it shows.
LEMMA BegunFacts ==
  ASSUME NEW w \in Wallet, NEW p, Shaped(p)
  PROVE  /\ Begun(w) \in CallRecord /\ Begun(w).at \in {"idle", "detect", "prompt"}
         /\ Begun(w).at \in {"detect", "prompt"} => Begun(w).wallet = w
         /\ Begun(w).next = None /\ Begun(w).topic = None
         /\ Shaped(PageBegun(p, w)) /\ PageBegun(p, w).wallet = p.wallet
         /\ PageBegun(p, w).address = p.address
<1>1. /\ Begun(w) \in CallRecord /\ Begun(w).at \in {"idle", "detect", "prompt"}
      /\ Begun(w).at \in {"detect", "prompt"} => Begun(w).wallet = w
      /\ Begun(w).next = None /\ Begun(w).topic = None
  <2>1. CASE w = Freighter
    BY <2>1 DEF Begun, Idle, CallRecord
  <2>2. CASE w # Freighter /\ Detect(w)
    <3> HIDE DEF Detect
    <3> QED
      BY <2>2 DEF Begun, Idle, CallRecord
  <2>3. CASE w # Freighter /\ ~Detect(w)
    <3> HIDE DEF Detect
    <3> QED
      BY <2>3 DEF Begun, Idle, CallRecord
  <2> QED
    BY <2>1, <2>2, <2>3
<1>2. PageBegun(p, w) \in {p, [p EXCEPT !.state = "connecting"]}
  BY DEF PageBegun
<1>3. ASSUME NEW q \in {p, [p EXCEPT !.state = "connecting"]}
      PROVE  Shaped(q) /\ q.wallet = p.wallet /\ q.address = p.address
  BY DEF Shaped
<1> HIDE DEF Begun, PageBegun
<1> QED
  BY <1>1, <1>2, <1>3

\* A step that shows and saves what was shown and saved, in which no call forgets its wallet.
LEMMA ShownAsBefore ==
  ASSUME IInv, Observe, ~Load,
         Shaped(page'), page'.wallet = page.wallet, page'.address = page.address,
         call' \in [Call -> CallRecord], CallInv',
         UNCHANGED <<storage, active, restore>>
  PROVE  IInv'
<1>1. WalletsTypeOK'
  BY Overlaps DEF IInv, WalletsTypeOK, Shaped
<1>2. /\ overlapped \in BOOLEAN /\ (~overlapped' => ~overlapped)
      /\ ~overlapped' /\ restore.at # "done" => call' = call
  BY Overlaps DEF IInv, WalletsTypeOK
<1>3. StartInv'
  BY <1>2 DEF IInv, StartInv
<1>4. SavedIsShown' /\ SignInv'
  BY <1>2 DEF IInv, SavedIsShown, SignInv
<1> QED
  BY <1>1, <1>3, <1>4 DEF IInv

\* A step of one call, to the record k.
LEMMA CallMoves ==
  ASSUME WalletsTypeOK, CallInv, NEW c \in Call, NEW k \in CallRecord,
         k.at \in {"detect", "prompt"} => k.wallet \in Wallet,
         call' = [call EXCEPT ![c] = k]
  PROVE  call' \in [Call -> CallRecord] /\ CallInv' /\ call'[c] = k
  BY DEF WalletsTypeOK, CallInv

\* A wallet answered: it is shown and saved.
LEMMA ConnectedStep ==
  ASSUME IInv, Observe, ~Load, NEW c \in Call, NEW address, call[c].at = "prompt",
         Connected(c, address), restore' = restore,
         \/ call[c].wallet # WalletConnect /\ active' = active
         \/ active' \in Topic /\ address = AccountOf[active']
  PROVE  IInv'
<1>1. call[c].wallet \in Wallet /\ call[c].wallet # None
  BY WalletsAssumption DEF IInv, CallInv
<1>2. /\ page' = [state |-> "connected", wallet |-> call[c].wallet, address |-> address]
      /\ storage' = [wallet |-> call[c].wallet, fresh |-> TRUE]
      /\ call' = [call EXCEPT ![c] = Idle]
  BY DEF Connected
<1>3. Idle \in CallRecord /\ Idle.at = "idle"
  BY DEF Idle, CallRecord
<1>4. call' \in [Call -> CallRecord] /\ CallInv'
  BY <1>2, <1>3, CallMoves DEF IInv
<1>5. /\ page'.wallet = call[c].wallet /\ page'.address = address
      /\ page' = [state |-> page'.state, wallet |-> page'.wallet, address |-> page'.address]
      /\ storage' \in Saved /\ storage'.wallet = call[c].wallet /\ storage' # None
  <2>1. PICK w \in Wallet : w = call[c].wallet
    BY <1>1
  <2>2. /\ page' = [state |-> "connected", wallet |-> w, address |-> address]
        /\ storage' = [wallet |-> w, fresh |-> TRUE]
    BY <1>2, <2>1
  <2>3. storage' \in Saved /\ storage'.wallet = w
    BY <2>2 DEF Saved
  <2>4. storage' # None
    BY <2>3, WalletsAssumption DEF Saved
  <2>5. page'.state = "connected" /\ page'.wallet = w /\ page'.address = address
    BY <2>2
  <2> QED
    BY <2>1, <2>2, <2>3, <2>4, <2>5
<1>6. /\ overlapped' \in BOOLEAN /\ (~overlapped' => ~overlapped)
  BY Overlaps DEF IInv, WalletsTypeOK
<1>7. WalletsTypeOK'
  BY <1>1, <1>4, <1>5, <1>6 DEF IInv, WalletsTypeOK
<1>8. ~overlapped => restore.at = "done"
  BY DEF IInv, StartInv
<1>9. StartInv'
  BY <1>6, <1>8 DEF StartInv
<1>10. SavedIsShown'
  BY <1>1, <1>5 DEF SavedIsShown
<1>11. SignInv'
  BY <1>5 DEF SignInv
<1> QED
  BY <1>4, <1>7, <1>9, <1>10, <1>11 DEF IInv

\* The end of disconnect: nothing is shown and nothing is saved.
LEMMA LeftStep ==
  ASSUME IInv, Observe, ~Load, NEW c \in Call, NEW next \in Wallet \cup {None}, Left(c, next),
         restore' = restore, active' \in {active, None}, overlapped' \/ restore.at = "done"
  PROVE  IInv'
<1>1. /\ storage' = None /\ page' = IF next = None THEN NoPage ELSE PageBegun(NoPage, next)
      /\ call' = [call EXCEPT ![c] = IF next = None THEN Idle ELSE Begun(next)]
  BY DEF Left, ClearSession
<1>2. Shaped(NoPage) /\ NoPage.wallet = None
  BY DEF NoPage, Shaped
<1>3. Idle \in CallRecord /\ Idle.at = "idle"
  BY DEF Idle, CallRecord
<1>4. PICK k : k = IF next = None THEN Idle ELSE Begun(next)
  OBVIOUS
<1>5. k \in CallRecord /\ (k.at \in {"detect", "prompt"} => k.wallet \in Wallet)
  BY <1>2, <1>3, <1>4, BegunFacts
<1>6. Shaped(page)' /\ page'.wallet = None
  BY <1>1, <1>2, BegunFacts DEF Shaped
<1>7. call' \in [Call -> CallRecord] /\ CallInv'
  BY <1>1, <1>4, <1>5, CallMoves DEF IInv
<1>8. overlapped' \in BOOLEAN /\ (~overlapped' => ~overlapped)
  BY Overlaps DEF IInv, WalletsTypeOK
<1>9. WalletsTypeOK'
  BY <1>1, <1>6, <1>7, <1>8 DEF IInv, WalletsTypeOK, Shaped
<1>10. StartInv' /\ SavedIsShown'
  BY <1>1, <1>6, <1>8 DEF StartInv, SavedIsShown
<1>11. SignInv'
  BY <1>6, WalletsAssumption DEF SignInv, Wallet
<1> QED
  BY <1>7, <1>9, <1>10, <1>11 DEF IInv
\* connect up to its first await.
LEMMA ConnectStep ==
  ASSUME IInv, Observe, ~Load, NEW c \in Call, NEW w \in Wallet, Connect(c, w)
  PROVE  IInv'
<1>1. /\ call' = [call EXCEPT ![c] = Begun(w)] /\ page' = PageBegun(page, w)
      /\ UNCHANGED <<storage, active, restore>>
  BY DEF Connect
<1>2. Shaped(page)
  BY DEF IInv, WalletsTypeOK, Shaped
<1>3. PICK k : k = Begun(w)
  OBVIOUS
<1>4. k \in CallRecord /\ (k.at \in {"detect", "prompt"} => k.wallet \in Wallet)
  BY <1>2, <1>3, BegunFacts
<1>5. PICK p : p = PageBegun(page, w)
  OBVIOUS
<1>6. Shaped(p) /\ p.wallet = page.wallet /\ p.address = page.address
  BY <1>2, <1>5, BegunFacts
<1>7. call' \in [Call -> CallRecord] /\ CallInv'
  BY <1>1, <1>3, <1>4, CallMoves DEF IInv
<1>8. Shaped(page') /\ page'.wallet = page.wallet /\ page'.address = page.address
  BY <1>1, <1>5, <1>6
<1> QED
  BY <1>1, <1>7, <1>8, ShownAsBefore

\* Freighter is there and gets asked, or is not; or a wallet's answer is an error.
LEMMA StateStep ==
  ASSUME IInv, Observe, ~Load, NEW c \in Call, Detected(c) \/ ConnectFails(c)
  PROVE  IInv'
<1>1. /\ call \in [Call -> CallRecord] /\ call[c].wallet \in Wallet
      /\ call[c].at \in {"detect", "prompt"} /\ Shaped(page)
  BY DEF Detected, ConnectFails, IInv, WalletsTypeOK, CallInv, Shaped
<1>2. /\ page' \in {page, [page EXCEPT !.state = "connecting"], [page EXCEPT !.state = "error"]}
      /\ call' = [call EXCEPT ![c].at = "prompt"] \/ call' = [call EXCEPT ![c] = Idle]
      /\ UNCHANGED <<storage, active, restore>>
  BY DEF Detected, ConnectFails
<1>3. Shaped(page') /\ page'.wallet = page.wallet /\ page'.address = page.address
  <2>1. PICK p : p = page
    OBVIOUS
  <2>2. ASSUME NEW q \in {p, [p EXCEPT !.state = "connecting"], [p EXCEPT !.state = "error"]}
        PROVE  Shaped(q) /\ q.wallet = p.wallet /\ q.address = p.address
    BY <1>1, <2>1 DEF Shaped
  <2> QED
    BY <1>2, <2>1, <2>2
<1>4. Idle \in CallRecord /\ Idle.at = "idle"
  BY DEF Idle, CallRecord
<1>5. PICK k \in CallRecord : /\ call' = [call EXCEPT ![c] = k]
                              /\ k.at \in {"detect", "prompt"} => k.wallet \in Wallet
  <2>1. CASE call' = [call EXCEPT ![c].at = "prompt"]
    <3>1. /\ [call[c] EXCEPT !.at = "prompt"] \in CallRecord
          /\ [call[c] EXCEPT !.at = "prompt"].wallet = call[c].wallet
      BY <1>1 DEF CallRecord
    <3>2. call' = [call EXCEPT ![c] = [call[c] EXCEPT !.at = "prompt"]]
      BY <1>1, <2>1
    <3> QED
      BY <1>1, <3>1, <3>2
  <2>2. CASE call' = [call EXCEPT ![c] = Idle]
    BY <1>4, <2>2
  <2> QED
    BY <1>2, <2>1, <2>2
<1>6. call' \in [Call -> CallRecord] /\ CallInv'
  BY <1>5, CallMoves DEF IInv
<1> QED
  BY <1>2, <1>3, <1>6, ShownAsBefore

\* disconnect and switchWallet up to their first await, or to their end if there is none.
LEMMA LeaveStep ==
  ASSUME IInv, Observe, ~Load, NEW c \in Call, NEW next \in Wallet \cup {None}, Leave(c, next),
         next = None \/ page.wallet # None
  PROVE  IInv'
<1>1. overlapped' \/ restore.at = "done"
  <2> SUFFICES ASSUME ~overlapped', restore.at # "done" PROVE FALSE
    OBVIOUS
  <2>1. ~overlapped /\ ~\E d \in Call : Disconnect(d)
    BY Overlaps DEF IInv, WalletsTypeOK
  <2>2. page.wallet = None
    BY <2>1 DEF IInv, StartInv
  <2>3. next # None
    BY <2>1 DEF Disconnect
  <2> QED
    BY <2>2, <2>3
<1>2. CASE Left(c, next)
  BY <1>1, <1>2, LeftStep DEF Leave
<1>3. CASE ~Left(c, next)
  <2> DEFINE k == [at |-> "leave", wallet |-> page.wallet, next |-> next,
                   topic |-> IF page.wallet = WalletConnect THEN active ELSE None]
  <2>1. call' = [call EXCEPT ![c] = k] /\ UNCHANGED <<storage, page, active, restore>>
    BY <1>3 DEF Leave
  <2>2. k \in CallRecord /\ k.at = "leave"
    BY DEF CallRecord, IInv, WalletsTypeOK
  <2>3. Shaped(page') /\ page'.wallet = page.wallet /\ page'.address = page.address
    BY <2>1 DEF IInv, WalletsTypeOK, Shaped
  <2> HIDE DEF k
  <2>4. call' \in [Call -> CallRecord] /\ CallInv'
    BY <2>1, <2>2, CallMoves DEF IInv
  <2> QED
    BY <2>1, <2>3, <2>4, ShownAsBefore
<1> QED
  BY <1>2, <1>3

\* The wallet has been left.
LEMMA GoneStep ==
  ASSUME IInv, Observe, ~Load, NEW c \in Call, ExtensionLeft(c) \/ WalletConnectLeft(c)
  PROVE  IInv'
<1>1. /\ call[c].at = "leave" /\ Left(c, call[c].next) /\ restore' = restore
      /\ active' \in {active, None}
  BY DEF ExtensionLeft, WalletConnectLeft
<1>2. PICK next \in Wallet \cup {None} : next = call[c].next
  BY DEF IInv, WalletsTypeOK, CallRecord
<1>3. Left(c, next)
  BY <1>1, <1>2
<1>4. overlapped' \/ restore.at = "done"
  BY <1>1, Overlaps DEF IInv, StartInv, WalletsTypeOK
<1> QED
  BY <1>1, <1>3, <1>4, LeftStep

\* A step of initialize.
LEMMA RestoreStep ==
  ASSUME IInv, Observe, ~Load,
         WalletsDetected \/ RestoreChecks \/ RestoreLands \/ RestoreFails
  PROVE  IInv'
<1>1. /\ storage \in Saved \cup {None} /\ restore \in Restoring /\ None \notin Wallet
      /\ WalletsTypeOK
  BY WalletsAssumption DEF IInv, WalletsTypeOK
<1>2. /\ call' = call /\ active' = active /\ overlapped' \in BOOLEAN /\ (~overlapped' => ~overlapped)
  BY Overlaps DEF WalletsDetected, RestoreChecks, RestoreLands, RestoreFails, IInv, WalletsTypeOK
<1>3. CallInv'
  BY <1>2 DEF IInv, CallInv
<1>4. CASE WalletsDetected
  <2>1. /\ storage' = storage /\ page' = page /\ restore.at = "detect"
        /\ restore' = IF storage # None /\ storage.fresh
                      THEN [at |-> "check", wallet |-> storage.wallet]
                      ELSE [at |-> "done", wallet |-> None]
    BY <1>4 DEF WalletsDetected
  <2>2. CASE storage # None /\ storage.fresh
    <3>1. /\ restore' = [at |-> "check", wallet |-> storage.wallet] /\ storage.wallet \in Wallet
      BY <1>1, <2>1, <2>2 DEF Saved
    <3>2. restore' \in Restoring /\ restore'.at = "check" /\ restore'.wallet = storage.wallet
      BY <3>1 DEF Restoring
    <3>3. WalletsTypeOK'
      BY <1>1, <1>2, <2>1, <3>2 DEF WalletsTypeOK
    <3>4. StartInv' /\ SavedIsShown' /\ SignInv'
      BY <1>2, <2>1, <2>2, <3>2 DEF IInv, StartInv, SavedIsShown, SignInv
    <3> QED
      BY <1>3, <3>3, <3>4 DEF IInv
  <2>3. CASE ~(storage # None /\ storage.fresh)
    <3>1. restore' = [at |-> "done", wallet |-> None]
      BY <2>1, <2>3
    <3>2. restore' \in Restoring /\ restore'.at = "done"
      BY <3>1 DEF Restoring
    <3>3. WalletsTypeOK'
      BY <1>1, <1>2, <2>1, <3>2 DEF WalletsTypeOK
    <3>4. StartInv' /\ SavedIsShown' /\ SignInv'
      BY <1>2, <2>1, <2>3, <3>2 DEF IInv, StartInv, SavedIsShown, SignInv
    <3> QED
      BY <1>3, <3>3, <3>4 DEF IInv
  <2> QED
    BY <2>2, <2>3
<1>5. CASE RestoreChecks
  <2>1. /\ storage' = storage /\ page' = page /\ restore.at = "check"
        /\ restore' = [restore EXCEPT !.at = "address"]
    BY <1>5 DEF RestoreChecks
  <2>2. restore' \in Restoring /\ restore'.at = "address" /\ restore'.wallet = restore.wallet
    BY <1>1, <2>1 DEF Restoring
  <2>3. WalletsTypeOK'
    BY <1>1, <1>2, <2>1, <2>2 DEF WalletsTypeOK
  <2>4. StartInv' /\ SavedIsShown' /\ SignInv'
    BY <1>2, <2>1, <2>2 DEF IInv, StartInv, SavedIsShown, SignInv
  <2> QED
    BY <1>3, <2>3, <2>4 DEF IInv
<1>6. CASE RestoreLands
  <2> DEFINE address == AdapterAddress(restore.wallet)
  <2>1. /\ storage' = storage /\ restore.at = "address"
        /\ page' = [state |-> "connected", wallet |-> restore.wallet, address |-> address]
        /\ restore' = [at |-> "done", wallet |-> None]
    BY <1>6 DEF RestoreLands
  <2> HIDE DEF address
  <2>2. restore' \in Restoring /\ restore'.at = "done" /\ Shaped(page)' /\ page'.wallet = restore.wallet
        /\ restore.wallet \in Wallet \cup {None}
    <3>1. PICK w \in Wallet \cup {None} : w = restore.wallet
      BY <1>1 DEF Restoring
    <3>2. restore' \in Restoring /\ restore'.at = "done"
      BY <2>1 DEF Restoring
    <3>3. page' = [state |-> "connected", wallet |-> w, address |-> address]
      BY <2>1, <3>1
    <3>4. Shaped(page)' /\ page'.wallet = w
      BY <3>3 DEF Shaped
    <3> QED
      BY <3>1, <3>2, <3>4
  <2>3. WalletsTypeOK'
    BY <1>1, <1>2, <2>1, <2>2 DEF WalletsTypeOK, Shaped
  <2>4. ~overlapped => active = None /\ storage # None /\ storage.wallet = restore.wallet
    BY <2>1 DEF IInv, StartInv
  <2>5. storage # None => storage.wallet # None
    BY <1>1 DEF Saved
  <2>6. StartInv' /\ SavedIsShown' /\ SignInv'
    BY <1>2, <2>1, <2>2, <2>4, <2>5 DEF StartInv, SavedIsShown, SignInv
  <2> QED
    BY <1>3, <2>3, <2>6 DEF IInv
<1>7. CASE RestoreFails
  <2>1. /\ storage' = None /\ restore.at \in {"check", "address"} /\ page' = page
        /\ restore' = [at |-> "done", wallet |-> None]
    BY <1>7 DEF RestoreFails, ClearSession
  <2>2. restore' \in Restoring /\ restore'.at = "done"
    BY <2>1 DEF Restoring
  <2>3. WalletsTypeOK'
    BY <1>1, <1>2, <2>1, <2>2 DEF WalletsTypeOK
  <2>4. ~overlapped => page.wallet = None
    BY <2>1 DEF IInv, StartInv
  <2>5. StartInv' /\ SavedIsShown' /\ SignInv'
    BY <1>2, <2>1, <2>2, <2>4 DEF IInv, StartInv, SavedIsShown, SignInv
  <2> QED
    BY <1>3, <2>3, <2>5 DEF IInv
<1> QED
  BY <1>4, <1>5, <1>6, <1>7

\* The saved session gets old, or the hook removes it.
LEMMA StorageStep ==
  ASSUME IInv, Observe, ~Load, SessionAges \/ ClearExpiredSession
  PROVE  IInv'
<1>1. /\ UNCHANGED <<page, active, restore, call>>
      /\ overlapped' \in BOOLEAN /\ (~overlapped' => ~overlapped)
      /\ ~overlapped' /\ ClearExpiredSession => page.wallet = None /\ restore.at = "done"
  BY Overlaps DEF SessionAges, ClearExpiredSession, IInv, WalletsTypeOK
<1>2. \/ storage' = None /\ (~overlapped' => page.wallet = None /\ restore.at = "done")
      \/ storage # None /\ storage' # None /\ storage'.wallet = storage.wallet
         /\ storage' \in Saved /\ ~storage'.fresh
  <2>1. CASE ClearExpiredSession
    BY <1>1, <2>1 DEF ClearExpiredSession, ClearSession
  <2>2. CASE SessionAges
    <3>1. storage \in Saved /\ storage # None /\ storage' = [storage EXCEPT !.fresh = FALSE]
      BY <2>2 DEF SessionAges, IInv, WalletsTypeOK
    <3>2. storage' \in Saved /\ storage'.wallet = storage.wallet /\ ~storage'.fresh
      BY <3>1 DEF Saved
    <3> QED
      BY <3>1, <3>2, WalletsAssumption DEF Saved
  <2> QED
    BY <2>1, <2>2
<1>3. WalletsTypeOK'
  BY <1>1, <1>2 DEF IInv, WalletsTypeOK
<1>4. CallInv' /\ StartInv' /\ SavedIsShown' /\ SignInv'
  BY <1>1, <1>2 DEF IInv, CallInv, StartInv, SavedIsShown, SignInv
<1> QED
  BY <1>3, <1>4 DEF IInv
\* The browser's own steps, and useWalletSession's reading of the storage.
LEMMA BrowserStep ==
  ASSUME IInv, Observe, ~Load, UNCHANGED <<storage, page, active, restore, call>>
  PROVE  IInv'
<1>1. Shaped(page') /\ page'.wallet = page.wallet /\ page'.address = page.address
  BY DEF IInv, WalletsTypeOK, Shaped
<1>2. call' \in [Call -> CallRecord] /\ CallInv'
  BY DEF IInv, WalletsTypeOK, CallInv
<1> QED
  BY <1>1, <1>2, ShownAsBefore

\* A page that has just been loaded.
FreshPage ==
  /\ storage \in Saved \cup {None} /\ overlapped = FALSE
  /\ Fresh(page, active, restore, expired, call)

\* A page that is loaded shows nothing and does nothing yet.
LEMMA FreshIInv == FreshPage => IInv
<1> SUFFICES ASSUME FreshPage PROVE IInv
  OBVIOUS
<1>1. /\ page = NoPage /\ active = None /\ restore = [at |-> "detect", wallet |-> None]
      /\ call = [c \in Call |-> Idle] /\ storage \in Saved \cup {None} /\ overlapped = FALSE
  BY DEF FreshPage, Fresh
<1>2. Idle \in CallRecord /\ Idle.at = "idle" /\ restore \in Restoring /\ restore.at = "detect"
  BY <1>1 DEF Idle, CallRecord, Restoring
<1>3. page.wallet = None /\ Shaped(page) /\ WalletConnect # None
  BY <1>1, WalletsAssumption DEF NoPage, Shaped, Wallet
<1>4. WalletsTypeOK
  BY <1>1, <1>2, <1>3 DEF WalletsTypeOK, Shaped
<1> QED
  BY <1>1, <1>2, <1>3, <1>4 DEF IInv, CallInv, StartInv, SavedIsShown, SignInv

\* The inductive invariant holds on the first page.
LEMMA InitIInv == Init => IInv
<1>1. Init => FreshPage
  BY DEF Init, WalletsInit, FreshPage
<1> QED
  BY <1>1, FreshIInv

\* A reload keeps what is saved and starts over.
LEMMA LoadStep == IInv /\ Observe /\ Load => IInv'
<1>1. IInv /\ Observe /\ Load => FreshPage'
  BY DEF Observe, Load, IInv, WalletsTypeOK, FreshPage, Fresh
<1> QED
  BY <1>1, FreshIInv, PTL

\* Every step keeps the inductive invariant.
LEMMA StepIInv == IInv /\ [Next]_vars => IInv'
<1> SUFFICES ASSUME IInv, [Next]_vars PROVE IInv'
  OBVIOUS
<1>1. CASE UNCHANGED vars
  BY <1>1 DEF vars, walletVars, browser, IInv, WalletsTypeOK, CallInv, StartInv, SavedIsShown, SignInv
<1>2. CASE Next /\ Load
  BY <1>2, LoadStep DEF Next
<1>3. CASE Next /\ ~Load
  <2> SUFFICES ASSUME WalletsNext, Observe, ~Load PROVE IInv'
    BY <1>3 DEF Next
  <2>1. CASE WalletsDetected \/ RestoreChecks \/ RestoreLands \/ RestoreFails
    BY <2>1, RestoreStep
  <2>2. ASSUME NEW c \in Call, NEW w \in Wallet, Connect(c, w) \/ Click(c, w) \/ SwitchWallet(c, w)
        PROVE  IInv'
    <3>1. Connect(c, w) \/ (page.wallet # None /\ Leave(c, w))
      BY <2>2 DEF Click, SwitchWallet
    <3>2. CASE Connect(c, w)
      BY <3>2, ConnectStep
    <3>3. CASE page.wallet # None /\ Leave(c, w)
      BY <3>3, LeaveStep
    <3> QED
      BY <3>1, <3>2, <3>3
  <2>3. ASSUME NEW c \in Call, ConnectOnly(c) PROVE IInv'
    BY <2>3, ConnectStep DEF ConnectOnly
  <2>4. ASSUME NEW c \in Call, Disconnect(c) PROVE IInv'
    BY <2>4, LeaveStep DEF Disconnect
  <2>5. ASSUME NEW c \in Call, Detected(c) \/ ConnectFails(c) PROVE IInv'
    BY <2>5, StateStep
  <2>6. ASSUME NEW c \in Call, NEW a \in Account \cup {None}, ExtensionAnswers(c, a) PROVE IInv'
    <3>1. /\ call[c].at = "prompt" /\ call[c].wallet # WalletConnect /\ active' = active
          /\ restore' = restore /\ Connected(c, ExtensionConnects(call[c].wallet, a))
      BY <2>6 DEF ExtensionAnswers, Extension
    <3> QED
      BY <3>1, ConnectedStep
  <2>7. ASSUME NEW c \in Call, NEW t \in Topic, PhoneApproves(c, t) PROVE IInv'
    <3>1. /\ call[c].at = "prompt" /\ active' = t /\ restore' = restore /\ Connected(c, AccountOf[t])
      BY <2>7 DEF PhoneApproves
    <3> QED
      BY <3>1, ConnectedStep
  <2>8. ASSUME NEW c \in Call, ExtensionLeft(c) \/ WalletConnectLeft(c) PROVE IInv'
    BY <2>8, GoneStep
  <2>9. CASE SessionAges \/ ClearExpiredSession
    BY <2>9, StorageStep
  <2>10. CASE \/ MountSession \/ \E a \in Account : SetAllowed(a)
              \/ \E w \in Extension, a \in Account \cup {None} : AccountChanges(w, a)
              \/ \E t \in Topic : PhoneEnds(t)
    <3>1. UNCHANGED <<storage, page, active, restore, call>>
      BY <2>10 DEF MountSession, SetAllowed, AccountChanges, PhoneEnds
    <3> QED
      BY <3>1, BrowserStep
  <2> QED
    BY <2>1, <2>2, <2>3, <2>4, <2>5, <2>6, <2>7, <2>8, <2>9, <2>10 DEF WalletsNext
<1> QED
  BY <1>1, <1>2, <1>3

\* The inductive invariant holds in every behaviour.
LEMMA WalletsInvariant == Spec => []IInv
  BY InitIInv, StepIInv, PTL DEF Spec

-----------------------------------------------------------------------------
\* Of four wallets, WalletConnect is none of the three extensions.
LEMMA WalletConnectApart == WalletConnect \notin {Freighter, XBull, Lobstr}
<1> SUFFICES ASSUME WalletConnect \in {Freighter, XBull, Lobstr} PROVE FALSE
  OBVIOUS
<1>1. Wallet = (({} \cup {Freighter}) \cup {XBull}) \cup {Lobstr}
  BY DEF Wallet
<1> DEFINE A == {} \cup {Freighter}
           B == A \cup {XBull}
<1>2. IsFiniteSet(A) /\ Cardinality(A) \in Nat /\ Cardinality(A) <= 1
  BY FS_EmptySet, FS_AddElement
<1> HIDE DEF A
<1>3. IsFiniteSet(B) /\ Cardinality(B) \in Nat /\ Cardinality(B) <= 2
  BY <1>2, FS_AddElement
<1> HIDE DEF B
<1>4. Cardinality(B \cup {Lobstr}) <= 3 /\ Cardinality(B \cup {Lobstr}) \in Nat
  BY <1>3, FS_AddElement
<1>5. Wallet = B \cup {Lobstr}
  BY <1>1 DEF A, B
<1>6. Cardinality(Wallet) = 4
  BY WalletsAssumption
<1>7. Cardinality(Wallet) <= 3
  BY <1>4, <1>5, Zenon
<1> QED
  BY <1>6, <1>7

\* Through any number of calls that overlap, each at any of its awaits, what the page shows is what
\* the storage has (connect, disconnect and switchWallet of WalletManager), as long as none is made
\* before initialize is done and the session's hook does not clear what is in use.
THEOREM ShownIsSaved == Spec => []SavedIsShown
<1>1. IInv => SavedIsShown
  BY DEF IInv
<1> QED
  BY <1>1, WalletsInvariant, PTL

\* The account that signs for a WalletConnect page is the one the page shows, whatever sessions are
\* approved, ended and left meanwhile (signTransaction of the WalletConnect adapter).
THEOREM ShownSigns == Spec => []SignerIsShown
<1>1. IInv => SignerIsShown
  <2> SUFFICES ASSUME IInv, ~overlapped, page.wallet = WalletConnect, Signer # None
               PROVE  Signer = page.address
    BY DEF SignerIsShown
  <2>1. Signer = AdapterSigns(WalletConnect, page.address)
    BY DEF Signer
  <2>2. WalletConnect \notin {Freighter, XBull, Lobstr}
    BY WalletConnectApart
  <2>3. Signer = WalletConnectSigns
    BY <2>1, <2>2 DEF AdapterSigns
  <2>4. active # None /\ Signer = AccountOf[active]
    BY <2>3 DEF WalletConnectSigns
  <2> QED
    BY <2>4 DEF IInv, SignInv
<1> QED
  BY <1>1, WalletsInvariant, PTL
=============================================================================
