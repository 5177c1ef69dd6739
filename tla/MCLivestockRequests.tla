------------------------- MODULE MCLivestockRequests -------------------------
(* The instance of LivestockRequests that TLC checks. *)
EXTENDS LivestockRequestsHistory

\* An adult local cow; no answer, and one that makes both prices outliers.
AnimalsMC == {[type |-> "CATTLE", breed |-> "local", weightKg |-> 400, ageMonths |-> 36,
               health |-> "GOOD"]}
AnswersMC == {NoPrice, 6000}

\* 63000 is the cow's value at the table price.
PrincipalsMC == {63000, 63001}
=============================================================================
