------------------------------ MODULE MCWallets ------------------------------
(* One address, and two sessions for WalletConnect, one of them without accounts. *)
EXTENDS WalletsHistory, TLC

CONSTANTS a1, s1, s2

MCAccountOf == s1 :> a1 @@ s2 :> NoAddress

\* Calls are alike.
CallsAlike  == Permutations(Call)
MCBrowsers  == {{}, {Freighter}, {XBull}, {Lobstr}}
MCAnswering == {{XBull}}
=============================================================================
