----------------------- MODULE KraalLendingProperties -----------------------
(***************************************************************************)
(* The properties of KraalLending.                                         *)
(***************************************************************************)
EXTENDS KraalLending

\* What each loan owes and whether it is open.
Book == [l \in DOMAIN loans |->
           [owed |-> loans[l].outstanding, open |-> loans[l].status = "Active"]]

\* The loans and the contract's balance, as the abstract ledger sees them.
Ledger == INSTANCE LoanLedger WITH book <- Book, pool <- balance[Contract]

-----------------------------------------------------------------------------
ParamsOK ==
  /\ ltv \in 1 .. BPS /\ liqThr \in Nat /\ closeFactor \in 1 .. BPS
  /\ origFee \in 0 .. BPS /\ intFee \in 0 .. BPS
  /\ animalCap \in [AnimalTypes -> Nat]

CollateralsOK ==
  \A c \in DOMAIN collaterals :
    LET rec == collaterals[c] IN
    /\ rec \in [owner : Addr, animalType : AnimalTypes, count : Nat \ {0},
                appraisedValue : Nat \ {0}, loanId : 0 .. Len(loans), history : Seq(Nat)]
    /\ 1 <= Len(rec.history) /\ Len(rec.history) <= 3
    /\ rec.appraisedValue = rec.history[Len(rec.history)]

LoansOK ==
  \A l \in DOMAIN loans :
    loans[l] \in [borrower : Addr, collateralIds : Seq(Nat),
                  totalCollateralValue : Nat,
                  principal : Nat, outstanding : Nat, interestAccrued : Nat,
                  lastInterestTime : 0 .. now,
                  status : {"Active", "Repaid", "Liquidated"}]

\* The type invariant of parameters, balances and records; the appraisal in force is the
\* newest of at most three remembered ones ("rolling log of the last 3", CollateralRecord).
LendingTypeOK ==
  /\ ParamsOK
  /\ balance \in [Accounts -> Nat]
  /\ collaterals \in Seq(Range(collaterals)) /\ CollateralsOK
  /\ loans \in Seq(Range(loans)) /\ LoansOK

\* A loan's status says whether it owes: an Active loan always owes principal (LoanStatus:
\* "open and outstanding balance is > 0"), a Repaid one owes neither principal nor interest.
\* Interest is paid before principal, so a payment that clears the principal clears both.
StatusFollowsDebt ==
  \A l \in DOMAIN loans :
    LET loan == loans[l] IN
    /\ loan.status = "Active" => 0 < loan.outstanding /\ loan.outstanding <= loan.principal
    /\ loan.status = "Repaid" => loan.outstanding = 0 /\ loan.interestAccrued = 0
    /\ loan.status = "Liquidated" => loan.outstanding = 0

\* Through origination, repayment, liquidation, fee changes and emergency withdrawal the
\* contract keeps its books as the abstract ledger does.
ImplementsLedger == Ledger!Spec

\* While the loan-to-value ratio does not exceed the liquidation threshold, no loan is open
\* to liquidation in the state request_loan leaves it in, at the prices of that moment.
HealthyAtOrigination ==
  [][Len(loans') > Len(loans) /\ ltv <= liqThr
       => HealthFactor(loans[Len(loans)])' >= BPS]_vars

\* The health of an active loan falls only with the oracle price, an appraisal or the
\* threshold: neither time, nor a payment, nor a liquidation, nor other loans worsen it.
HealthFallsOnlyWithMarket ==
  [][\A l \in DOMAIN loans :
       /\ loans[l].status = "Active" /\ loans'[l].status = "Active"
       /\ HealthFactor(loans[l])' < HealthFactor(loans[l])
       => \/ EffectivePrice' # EffectivePrice
          \/ liqThr' # liqThr
          \/ \E c \in Range(loans[l].collateralIds) :
               collaterals'[c].appraisedValue < collaterals[c].appraisedValue]_vars

\* With a close factor below one a liquidation always leaves debt behind, at every size of
\* debt: only set_close_factor to one lets a loan end as Liquidated.
LiquidationLeavesDebt ==
  [][\A l \in DOMAIN loans :
       loans[l].status = "Active" /\ loans'[l].status = "Liquidated"
         => closeFactor = BPS]_vars

\* "Repayment is intentionally not blocked when the contract is paused" (lib.rs): a borrower
\* with tokens can always pay an active loan down, paused, emptied or re-priced.
RepayNeverBlocked ==
  \A l \in DOMAIN loans, x \in Amounts :
    /\ loans[l].status = "Active" /\ x <= balance[loans[l].borrower]
    => ENABLED RepayLoan(loans[l].borrower, l, x)

\* "ID of the loan this collateral is locked to; 0 means unlocked" (lib.rs,
\* CollateralRecord): the collateral of an active loan is locked to that loan.
CollateralLockedToItsLoan ==
  \A l \in DOMAIN loans : loans[l].status = "Active" =>
    \A c \in Range(loans[l].collateralIds) : collaterals[c].loanId = l
=============================================================================
