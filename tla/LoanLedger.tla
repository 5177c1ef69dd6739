----------------------------- MODULE LoanLedger -----------------------------
(***************************************************************************)
(* What lending promises about debts and tokens, whatever the collateral,  *)
(* the prices and the pauses: the pool is paid out only to open a loan of  *)
(* the same amount or when it is emptied; a debt falls only against tokens *)
(* that reach the pool, never rises, and its loan closes exactly when the  *)
(* debt is gone, once and for all.                                         *)
(***************************************************************************)
EXTENDS Naturals, Sequences

CONSTANT Liquidity   \* the pool at the start

VARIABLES
  book,   \* one [owed, open] entry per loan
  pool    \* tokens the lender holds

Init == book = <<>> /\ pool = Liquidity

Open(amount) ==
  /\ 0 < amount /\ amount <= pool
  /\ book' = Append(book, [owed |-> amount, open |-> TRUE])
  /\ pool' = pool - amount

\* Whatever the pool receives beyond the fall of the debt is income.
Collect(i, paid) ==
  /\ book[i].open
  /\ book' = [book EXCEPT ![i] = [owed |-> @.owed - paid, open |-> @.owed # paid]]
  /\ pool' >= pool + paid

Drain == pool' = 0 /\ UNCHANGED book

Next ==
  \/ \E amount \in 1 .. pool : Open(amount)
  \/ \E i \in DOMAIN book : \E paid \in 0 .. book[i].owed : Collect(i, paid)
  \/ Drain

Spec == Init /\ [][Next]_<<book, pool>>
=============================================================================
