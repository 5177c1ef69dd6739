--------------------------- MODULE MCKraalLending ---------------------------
(***************************************************************************)
(* KraalLendingProperties on a small instance.                             *)
(***************************************************************************)
EXTENDS KraalLendingProperties

\* One or two collateral ids, repetitions allowed.
IdLists == UNION {[1 .. n -> 1 .. MaxCollaterals] : n \in 1 .. 2}
=============================================================================
