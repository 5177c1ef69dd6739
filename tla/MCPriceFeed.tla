----------------------------- MODULE MCPriceFeed -----------------------------
(* Two credits: three events of the first, two of them updates, and one of the second. *)
EXTENDS PriceFeedHistory, TLC

CONSTANTS e1, e2, e3, e4, k1, k2

MCCreditOf == e1 :> k1 @@ e2 :> k1 @@ e3 :> k1 @@ e4 :> k2
=============================================================================
