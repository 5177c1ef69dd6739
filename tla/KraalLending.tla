---------------------------- MODULE KraalLending ----------------------------
(***************************************************************************)
(* Livestock-backed lending (contracts/stellarkraal/src/lib.rs): collateral*)
(* records, loans, repayment, liquidation, the risk parameters and the     *)
(* token movements each call makes, on top of the contract's control plane *)
(* (KraalGovernance) and price feed (KraalOracle).                         *)
(*                                                                         *)
(* LoanCounter and CollateralCounter are the lengths of the two sequences: *)
(* next_id and the write of the record happen in one invocation.  Amounts  *)
(* are naturals that stay far below i128; division rounds down as in Rust  *)
(* on non-negative operands.                                               *)
(***************************************************************************)
EXTENDS KraalOracle

CONSTANTS
  Contract, Treasury,         \* token accounts of the contract and of the treasury
  Liquidity, Wealth,          \* tokens of the contract, and of every address, at the start
  BPS,                        \* 10_000 basis points are one
  YEAR,                       \* 31_536_000 s
  DEV_BPS,                    \* 2000, written by initialize only
  MIN_LTV, MAX_LTV, MAX_FEE,  \* 1000, 9000 and 500 basis points
  FirstLtv, FirstLiqThr, FirstOrigFee, FirstIntFee, FirstCloseFactor,
  AnimalTypes,
  Farmers, Counts, Values,    \* inputs of register_livestock and update_appraisal
  Amounts,                    \* inputs of request_loan, repay_loan and liquidate
  CollateralLists,            \* inputs of request_loan
  Ltvs, Thresholds, CloseFactors, Fees, Caps, Recipients,  \* inputs of the admin's setters
  MaxCollaterals, MaxLoans    \* bounds on the records created

ASSUME LendingAssumption ==
  /\ Contract \notin Addr /\ Treasury \notin Addr /\ Contract # Treasury
  /\ Liquidity \in Nat /\ Wealth \in Nat
  /\ BPS \in Nat \ {0} /\ YEAR \in Nat \ {0} /\ DEV_BPS \in Nat
  /\ MIN_LTV \in 1 .. BPS /\ MAX_LTV \in 1 .. BPS /\ MAX_FEE \in 0 .. (BPS - 1)
  /\ FirstLtv \in 1 .. MAX_LTV /\ FirstLiqThr \in Nat /\ FirstLiqThr >= FirstLtv
  /\ FirstOrigFee \in 0 .. (BPS - 1) /\ FirstIntFee \in 0 .. BPS
  /\ FirstCloseFactor \in 1 .. BPS
  /\ Farmers \subseteq Addr /\ Counts \subseteq Nat /\ Values \subseteq Nat
  /\ Amounts \subseteq Nat /\ CollateralLists \subseteq Seq(Nat)
  /\ Ltvs \subseteq Nat /\ Thresholds \subseteq Nat /\ CloseFactors \subseteq Nat
  /\ Fees \subseteq Nat /\ Caps \subseteq Nat /\ Recipients \subseteq Addr
  /\ MaxCollaterals \in Nat /\ MaxLoans \in Nat

VARIABLES
  ltv, liqThr, origFee, intFee, closeFactor,
  animalCap,     \* AnimalCap(type), 0 when there is no entry
  collaterals,   \* Collateral(id), ids from 1
  loans,         \* Loan(id), ids from 1
  balance        \* the token contract's balances

paramVars   == <<ltv, liqThr, origFee, intFee, closeFactor, animalCap>>
recordVars  == <<collaterals, loans>>
lendingVars == <<paramVars, recordVars, balance>>
vars        == <<govVars, oracleVars, lendingVars>>

Accounts == Addr \cup {Contract, Treasury}

-----------------------------------------------------------------------------
LendingInit ==
  /\ ltv = FirstLtv /\ liqThr = FirstLiqThr
  /\ origFee = FirstOrigFee /\ intFee = FirstIntFee /\ closeFactor = FirstCloseFactor
  /\ animalCap = [t \in AnimalTypes |-> 0]
  /\ collaterals = <<>> /\ loans = <<>>
  /\ balance = [x \in Accounts |->
                  IF x = Contract THEN Liquidity ELSE IF x = Treasury THEN 0 ELSE Wealth]

Min2(m, n) == IF m <= n THEN m ELSE n

\* The most that count animals may be worth while a price is known.
OracleMaxTotal(count) == count * ((EffectivePrice * (BPS + DEV_BPS)) \div BPS)

\* get_collateral_effective_value
EffectiveValue(c) ==
  IF EffectivePrice > 0 THEN Min2(c.appraisedValue, OracleMaxTotal(c.count))
  ELSE c.appraisedValue

\* The value the contract sees behind a list of collateral ids, repetitions counted.
CollateralValue(ids) == SumFunction([i \in DOMAIN ids |-> EffectiveValue(collaterals[ids[i]])])

\* Interest since the last repayment; 0 in the second it was last charged.
Accrued(loan) ==
  (loan.outstanding * intFee * (now - loan.lastInterestTime)) \div (BPS * YEAR)

\* Mutant of HealthFactor: interest still running counts as debt.
HealthFactorWithInterest(loan) ==
  (CollateralValue(loan.collateralIds) * liqThr) \div (loan.outstanding + Accrued(loan))

\* compute_health_factor_with_thr, for a loan with debt.  The ids of a loan always exist;
\* the fallback is for collateral that counts for nothing, which never is the case.
HealthFactor(loan) ==
  LET current == CollateralValue(loan.collateralIds)
      value   == IF current = 0 THEN loan.totalCollateralValue ELSE current
  IN  (value * liqThr * BPS) \div (loan.outstanding * BPS)

-----------------------------------------------------------------------------
RegisterLivestock(owner, type, count, value) ==
  /\ ~IsPaused
  /\ value > 0 /\ count > 0
  /\ animalCap[type] > 0 => value <= animalCap[type]
  /\ EffectivePrice > 0 => value <= OracleMaxTotal(count)
  /\ Len(collaterals) < MaxCollaterals
  /\ collaterals' = Append(collaterals,
       [owner |-> owner, animalType |-> type, count |-> count, appraisedValue |-> value,
        loanId |-> 0, history |-> <<value>>])
  /\ UNCHANGED <<paramVars, loans, balance>>

\* Mutant of NewestTwo: nothing is dropped.
NewestTwoOfAll(history) == history

\* What update_appraisal keeps of the history to make room for a third entry.
NewestTwo(history) ==
  IF Len(history) >= 3 THEN SubSeq(history, Len(history) - 1, Len(history)) ELSE history

\* The owner's revaluation: bounded by the price, not by the cap of the animal type.
UpdateAppraisal(owner, id, value) ==
  /\ ~IsPaused
  /\ value > 0
  /\ id \in DOMAIN collaterals /\ collaterals[id].owner = owner
  /\ EffectivePrice > 0 => value <= OracleMaxTotal(collaterals[id].count)
  /\ collaterals' = [collaterals EXCEPT ![id].appraisedValue = value,
                                        ![id].history = Append(NewestTwo(@), value)]
  /\ UNCHANGED <<paramVars, loans, balance>>

-----------------------------------------------------------------------------
\* Mutant of MaxLoan: the appraisals are lent against, whatever the price.
MaxLoanOnAppraisals(ids) ==
  (SumFunction([i \in DOMAIN ids |-> collaterals[ids[i]].appraisedValue]) * ltv) \div BPS

\* The most request_loan lends against a list of collateral.
MaxLoan(ids) == (CollateralValue(ids) * ltv) \div BPS

\* A listed collateral is pointed at the new loan, whatever it pointed at before.
Pledge(c, id) == [c EXCEPT !.loanId = id]

RequestLoan(borrower, ids, amount) ==
  LET fee == (amount * origFee) \div BPS
      id  == Len(loans) + 1
  IN
  /\ ~IsPaused
  /\ amount > 0 /\ Len(ids) > 0
  /\ \A i \in DOMAIN ids : /\ ids[i] \in DOMAIN collaterals
                           /\ collaterals[ids[i]].owner = borrower
  /\ amount <= MaxLoan(ids)
  /\ balance[Contract] >= amount
  /\ Len(loans) < MaxLoans
  /\ loans' = Append(loans,
       [borrower |-> borrower, collateralIds |-> ids,
        totalCollateralValue |-> CollateralValue(ids),
        principal |-> amount, outstanding |-> amount, interestAccrued |-> 0,
        lastInterestTime |-> now, status |-> "Active"])
  /\ collaterals' = [c \in DOMAIN collaterals |->
       IF c \in Range(ids) THEN Pledge(collaterals[c], id) ELSE collaterals[c]]
  /\ balance' = [balance EXCEPT ![Contract] = @ - amount, ![Treasury] = @ + fee,
                                ![borrower] = @ + (amount - fee)]
  /\ UNCHANGED paramVars

-----------------------------------------------------------------------------
Interest(loan) == loan.interestAccrued + Accrued(loan)

\* Mutant of InterestPart: principal before interest.
InterestPartLast(loan, repaid) == repaid - Min2(loan.outstanding, repaid)

\* Of a repayment, the part that goes to interest: interest comes before principal.
InterestPart(loan, repaid) == Min2(Interest(loan), repaid)

\* Mutant of InterestFee: the fee is charged on the whole repayment.
InterestFeeOnAll(loan, repaid) == (repaid * intFee) \div BPS

\* The share of the interest that the contract passes on to the treasury.
InterestFee(loan, repaid) == (InterestPart(loan, repaid) * intFee) \div BPS

\* Mutant of MayRepay: repayment stops with everything else.
MayRepayUnpaused(borrower, id) ==
  ~IsPaused /\ id \in DOMAIN loans /\ loans[id].borrower = borrower /\ loans[id].status = "Active"

\* The borrower of an active loan may pay, paused or not.
MayRepay(borrower, id) ==
  id \in DOMAIN loans /\ loans[id].borrower = borrower /\ loans[id].status = "Active"

\* What repay_loan asks for: tokens for the repayment, and enough in the contract for the fee.
RepayAccepted(borrower, id, amount) ==
  LET repaid == Min2(amount, loans[id].outstanding + Interest(loans[id])) IN
  /\ amount > 0
  /\ MayRepay(borrower, id)
  /\ balance[borrower] >= repaid
  /\ balance[Contract] + repaid >= InterestFee(loans[id], repaid)

RepayLoan(borrower, id, amount) ==
  LET loan      == loans[id]
      repaid    == Min2(amount, loan.outstanding + Interest(loan))
      interest  == Interest(loan) - InterestPart(loan, repaid)
      principal == loan.outstanding - (repaid - InterestPart(loan, repaid))
      fee       == InterestFee(loan, repaid)
  IN
  /\ RepayAccepted(borrower, id, amount)
  /\ loans' = [loans EXCEPT ![id].outstanding = principal,
                            ![id].interestAccrued = interest,
                            ![id].lastInterestTime = now,
                            ![id].status = IF principal = 0 /\ interest = 0 THEN "Repaid" ELSE @]
  /\ balance' = [balance EXCEPT ![borrower] = @ - repaid,
                                ![Contract] = @ + (repaid - fee),
                                ![Treasury] = @ + fee]
  /\ UNCHANGED <<paramVars, collaterals>>

-----------------------------------------------------------------------------
\* Mutant of MaxLiquidation: rounded up.
MaxLiquidationRoundedUp(loan) == (loan.outstanding * closeFactor + BPS - 1) \div BPS

\* The most one liquidate call may repay.
MaxLiquidation(loan) == (loan.outstanding * closeFactor) \div BPS

\* Pays down principal only; interest is neither charged nor collected, and the collateral
\* stays with its owner.
Liquidate(liquidator, id, amount) ==
  LET loan == loans[id] IN
  /\ ~IsPaused
  /\ amount > 0
  /\ IsWhitelisted(liquidator)
  /\ id \in DOMAIN loans /\ loan.status = "Active"
  /\ HealthFactor(loan) < BPS
  /\ amount <= MaxLiquidation(loan)
  /\ balance[liquidator] >= amount
  /\ loans' = [loans EXCEPT ![id].outstanding = @ - amount,
                            ![id].status = IF loan.outstanding = amount THEN "Liquidated" ELSE @]
  /\ balance' = [balance EXCEPT ![liquidator] = @ - amount, ![Contract] = @ + amount]
  /\ UNCHANGED <<paramVars, collaterals>>

-----------------------------------------------------------------------------
EmergencyWithdraw(caller, recipient) ==
  /\ IsAdmin(caller) /\ IsPaused
  /\ balance' = [balance EXCEPT ![Contract] = 0, ![recipient] = @ + balance[Contract]]
  /\ UNCHANGED <<paramVars, recordVars>>

\* The two ratios are set apart: nothing keeps liqThr above ltv after initialize.
SetLtv(caller, bps) ==
  /\ IsAdmin(caller) /\ bps \in MIN_LTV .. MAX_LTV
  /\ ltv' = bps
  /\ UNCHANGED <<liqThr, origFee, intFee, closeFactor, animalCap, recordVars, balance>>

SetLiquidationThreshold(caller, bps) ==
  /\ IsAdmin(caller) /\ bps \in 1 .. BPS
  /\ liqThr' = bps
  /\ UNCHANGED <<ltv, origFee, intFee, closeFactor, animalCap, recordVars, balance>>

SetCloseFactor(caller, bps) ==
  /\ IsAdmin(caller) /\ bps \in 1 .. BPS
  /\ closeFactor' = bps
  /\ UNCHANGED <<ltv, liqThr, origFee, intFee, animalCap, recordVars, balance>>

UpdateFeeConfig(caller, orig, int) ==
  /\ ~IsPaused /\ IsAdmin(caller)
  /\ orig <= MAX_FEE /\ int <= MAX_FEE
  /\ origFee' = orig /\ intFee' = int
  /\ UNCHANGED <<ltv, liqThr, closeFactor, animalCap, recordVars, balance>>

SetAnimalCap(caller, type, value) ==
  /\ IsAdmin(caller) /\ value > 0
  /\ animalCap' = [animalCap EXCEPT ![type] = value]
  /\ UNCHANGED <<ltv, liqThr, origFee, intFee, closeFactor, recordVars, balance>>

-----------------------------------------------------------------------------
LoanStep ==
  \/ \E o \in Farmers, t \in AnimalTypes, n \in Counts, v \in Values :
       RegisterLivestock(o, t, n, v)
  \/ \E o \in Farmers, c \in 1 .. MaxCollaterals, v \in Values : UpdateAppraisal(o, c, v)
  \/ \E o \in Farmers, ids \in CollateralLists, x \in Amounts : RequestLoan(o, ids, x)
  \/ \E o \in Farmers, l \in 1 .. MaxLoans, x \in Amounts : RepayLoan(o, l, x)
  \/ \E z \in Addr, l \in 1 .. MaxLoans, x \in Amounts : Liquidate(z, l, x)

AdminStep ==
  \/ \E a \in Addr, r \in Recipients : EmergencyWithdraw(a, r)
  \/ \E a \in Addr, v \in Ltvs : SetLtv(a, v)
  \/ \E a \in Addr, v \in Thresholds : SetLiquidationThreshold(a, v)
  \/ \E a \in Addr, v \in CloseFactors : SetCloseFactor(a, v)
  \/ \E a \in Addr, f, g \in Fees : UpdateFeeConfig(a, f, g)
  \/ \E a \in Addr, t \in AnimalTypes, v \in Caps : SetAnimalCap(a, t, v)

Init == GovInit /\ OracleInit /\ LendingInit

Next ==
  \/ (LoanStep \/ AdminStep) /\ UNCHANGED <<govVars, oracleVars>>
  \/ OracleNext /\ UNCHANGED lendingVars

Spec == Init /\ [][Next]_vars
=============================================================================
