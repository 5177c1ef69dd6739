---------------------------- MODULE WalletsHistory ----------------------------
(***************************************************************************)
(* Wallets observed: whether a call was made before initialize was done,   *)
(* or a hook removed the saved session of a wallet that is shown or to be  *)
(* restored; and the properties.                                           *)
(***************************************************************************)
EXTENDS Wallets

VARIABLE overlapped

vars == <<walletVars, overlapped>>

Observe ==
  overlapped' = IF Load THEN FALSE
                ELSE \/ overlapped
                     \/ restore.at # "done" /\ (call' # call \/ \E c \in Call : Disconnect(c))
                     \/ ClearExpiredSession /\ (page.wallet # None \/ restore.at # "done")

Init == WalletsInit /\ overlapped = FALSE
Next == WalletsNext /\ Observe
Spec == Init /\ [][Next]_vars

-----------------------------------------------------------------------------
\* Whatever calls overlap, the wallet the page shows is the one that is saved, so that a reload
\* brings it back; and a page that shows none leaves none to bring back.  A call made before
\* initialize is done can break this (the restored wallet replaces the one just connected), and
\* so can clearExpiredSession, which removes whatever is saved by then.
SavedIsShown ==
  ~overlapped =>
    /\ page.wallet # None => storage # None /\ storage.wallet = page.wallet
    /\ page.wallet = None /\ restore.at = "done" => storage = None \/ ~storage.fresh

\* A connected WalletConnect page signs, if it can, with the account that it shows: not with that
\* of another session, through connects, disconnects and switches that overlap.
SignerIsShown ==
  ~overlapped /\ page.wallet = WalletConnect /\ Signer # None => Signer = page.address
=============================================================================
