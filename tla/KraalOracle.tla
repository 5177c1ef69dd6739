----------------------------- MODULE KraalOracle -----------------------------
(***************************************************************************)
(* The price feed of the StellarKraal contract (lib.rs): the registry of   *)
(* oracles, the two ways to submit a price, and the running average that   *)
(* register_livestock, request_loan, update_appraisal and liquidate read.  *)
(* Prices are in token base units and stay far below the width of i128.    *)
(***************************************************************************)
EXTENDS KraalGovernance, SequencesExt

CONSTANTS
  FirstOracle, FirstQuorum, \* the oracle and min_quorum given to initialize
  MAX_PRICE,                \* 10^18, exclusive
  MAX_ORACLES,              \* 5, the size of the buffer submit_oracle_prices sorts in
  TWAP_WINDOW,              \* 3600 s
  Prices,                   \* inputs tried with submit_price and submit_oracle_prices
  Quorums,                  \* inputs tried with update_oracle
  OracleAddrs,              \* inputs tried with add_oracle, remove_oracle and update_oracle
  MaxSamples                \* bound: samples averaged without a restart

ASSUME OracleAssumption ==
  /\ FirstOracle \in Addr /\ FirstQuorum \in Nat
  /\ MAX_PRICE \in Nat /\ MAX_ORACLES \in Nat \ {0} /\ TWAP_WINDOW \in Nat
  /\ Prices \subseteq Int /\ Quorums \subseteq Nat
  /\ OracleAddrs \subseteq Addr /\ MaxSamples \in Nat

VARIABLES
  oracle,         \* ORACLE
  oracles,        \* ORACLES, or None until the first add_oracle or remove_oracle
  minQuorum,      \* MINQRM
  lastPrice,      \* LST_PRC
  lastPriceTime,  \* LST_TIME
  twapSum,        \* TWAP_SUM
  twapCount,      \* TWAP_CNT
  twapPrice       \* TWAP_PRC

registryVars == <<oracle, oracles, minQuorum>>
priceVars    == <<lastPrice, lastPriceTime, twapSum, twapCount, twapPrice>>
oracleVars   == <<registryVars, priceVars>>

-----------------------------------------------------------------------------
OracleInit ==
  /\ oracle = FirstOracle /\ oracles = None /\ minQuorum = FirstQuorum
  /\ lastPrice = 0 /\ lastPriceTime = 0
  /\ twapSum = 0 /\ twapCount = 0 /\ twapPrice = 0

GetOracles == IF oracles = None THEN <<oracle>> ELSE oracles

\* get_effective_oracle_price; 0 stands for no price.  PRICE_MIN and PRICE_MAX are written
\* by initialize only, as 0, which switches the caps off.
EffectivePrice == IF twapPrice > 0 THEN twapPrice ELSE lastPrice

-----------------------------------------------------------------------------
\* The list, once written, is not touched: only the single-oracle address moves.
UpdateOracle(caller, newOracle, newQuorum) ==
  /\ IsAdmin(caller)
  /\ oracle' = newOracle
  /\ minQuorum' = IF newQuorum > 0 THEN newQuorum ELSE minQuorum
  /\ UNCHANGED <<oracles, priceVars>>

AddOracle(caller, newOracle) ==
  /\ ~IsPaused /\ IsAdmin(caller)
  /\ newOracle \notin Range(GetOracles)
  /\ Len(GetOracles) < MAX_ORACLES
  /\ oracles' = Append(GetOracles, newOracle)
  /\ UNCHANGED <<oracle, minQuorum, priceVars>>

RemoveOracle(caller, oldOracle) ==
  /\ IsAdmin(caller)
  /\ oldOracle \in Range(GetOracles)
  /\ oracles' = RemoveFirst(GetOracles, oldOracle)
  /\ UNCHANGED <<oracle, minQuorum, priceVars>>

-----------------------------------------------------------------------------
\* Mutant of AcceptPrice: a restart forgets to record when the price was accepted.
AcceptPriceUndated(price) ==
  LET restart == lastPriceTime = 0 \/ now - lastPriceTime > TWAP_WINDOW
  IN  /\ twapSum'   = IF restart THEN price ELSE twapSum + price
      /\ twapCount' = IF restart THEN 1 ELSE twapCount + 1
      /\ twapPrice' = twapSum' \div twapCount'
      /\ lastPrice' = price /\ lastPriceTime' = IF restart THEN lastPriceTime ELSE now
      /\ twapCount' <= MaxSamples

\* Both submission paths end in this update.  The average restarts when nothing was accepted
\* for longer than the window; otherwise the sample joins the running mean.  The last
\* conjunct is the bound on samples.
AcceptPrice(price) ==
  LET restart == lastPriceTime = 0 \/ now - lastPriceTime > TWAP_WINDOW
  IN  /\ twapSum'   = IF restart THEN price ELSE twapSum + price
      /\ twapCount' = IF restart THEN 1 ELSE twapCount + 1
      /\ twapPrice' = twapSum' \div twapCount'
      /\ lastPrice' = price /\ lastPriceTime' = now
      /\ twapCount' <= MaxSamples

\* Mutant of Median: the middle of the prices as they were submitted.
MedianUnsorted(prices) == prices[(Len(prices) \div 2) + 1]

\* The k-th of the sorted prices: fewer than k prices are lower, and k or more are not higher.
SortedAt(prices, k) ==
  CHOOSE p \in Range(prices) :
    /\ Cardinality({i \in DOMAIN prices : prices[i] < p}) < k
    /\ Cardinality({i \in DOMAIN prices : prices[i] <= p}) >= k

\* The middle of the sorted prices; of the two middle ones, their mean rounded down.
Median(prices) ==
  LET mid == Len(prices) \div 2
  IN  IF Len(prices) % 2 = 1 THEN SortedAt(prices, mid + 1)
      ELSE (SortedAt(prices, mid) + SortedAt(prices, mid + 1)) \div 2

\* Any submitter may call; the prices carry one entry per listed oracle.  An empty registry
\* with quorum 0 reaches the median of nothing and traps, so nothing is accepted either.
SubmitOraclePrices(prices) ==
  /\ Len(prices) = Len(GetOracles) /\ Len(prices) > 0
  /\ \A i \in DOMAIN prices : prices[i] > 0 /\ prices[i] < MAX_PRICE
  /\ Len(prices) >= minQuorum
  /\ AcceptPrice(Median(prices))
  /\ UNCHANGED registryVars

\* Mutant of SubmitPrice: the restart of the average is forgotten.
SubmitPriceNoRestart(caller, price) ==
  /\ caller = oracle
  /\ price > 0
  /\ twapSum' = twapSum + price
  /\ twapCount' = IF lastPriceTime = 0 \/ now - lastPriceTime > TWAP_WINDOW THEN 1
                  ELSE twapCount + 1
  /\ twapPrice' = twapSum' \div twapCount'
  /\ lastPrice' = price /\ lastPriceTime' = now
  /\ twapCount' <= MaxSamples
  /\ UNCHANGED registryVars

\* The single oracle's path checks the sign only.
SubmitPrice(caller, price) ==
  /\ caller = oracle
  /\ price > 0
  /\ AcceptPrice(price)
  /\ UNCHANGED registryVars

-----------------------------------------------------------------------------
\* The price vectors submit_oracle_prices is tried with.
PriceVectors == UNION {[1 .. n -> Prices] : n \in 1 .. MAX_ORACLES}

OracleStep ==
  \/ \E a \in Addr, o \in OracleAddrs, q \in Quorums : UpdateOracle(a, o, q)
  \/ \E a \in Addr, o \in OracleAddrs : AddOracle(a, o) \/ RemoveOracle(a, o)
  \/ \E prices \in PriceVectors : SubmitOraclePrices(prices)
  \/ \E o \in Addr, p \in Prices : SubmitPrice(o, p)

OracleNext ==
  \/ OracleStep /\ UNCHANGED govVars
  \/ GovNext /\ UNCHANGED oracleVars
=============================================================================
