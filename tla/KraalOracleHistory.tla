------------------------- MODULE KraalOracleHistory -------------------------
(***************************************************************************)
(* KraalOracle observed: the samples behind the running average, and the   *)
(* properties of the price feed.                                           *)
(***************************************************************************)
EXTENDS KraalOracle

VARIABLES lowest, highest   \* extremes of the accepted prices since the average last restarted

samples == <<lowest, highest>>
feedVars == <<govVars, oracleVars, samples>>

Restarted == lastPriceTime = 0 \/ now - lastPriceTime > TWAP_WINDOW

\* An accepted price is visible as a change of the sum: prices are positive.
ObserveSamples ==
  IF UNCHANGED priceVars THEN UNCHANGED samples
  ELSE /\ lowest'  = IF Restarted \/ lastPrice' < lowest THEN lastPrice' ELSE lowest
       /\ highest' = IF Restarted \/ lastPrice' > highest THEN lastPrice' ELSE highest

FeedInit == GovInit /\ OracleInit /\ lowest = 0 /\ highest = 0
FeedNext == OracleNext /\ ObserveSamples
FeedSpec == FeedInit /\ [][FeedNext]_feedVars

-----------------------------------------------------------------------------
\* The type invariant of the price feed: the registry fits the five-slot buffer of
\* submit_oracle_prices and lists no oracle twice, however add_oracle, remove_oracle and
\* update_oracle interleave; and an average exists exactly when the time of its last sample is
\* known, which is what decides on the next restart.
OracleTypeOK ==
  /\ oracle \in Addr
  /\ oracles \in Seq(Addr) \cup {None}
  /\ Len(GetOracles) <= MAX_ORACLES /\ IsInjective(GetOracles)
  /\ minQuorum \in Nat
  /\ lastPrice \in Nat /\ lastPriceTime \in Nat /\ lastPriceTime <= now
  /\ twapSum \in Nat /\ twapCount \in Nat /\ twapPrice \in Nat
  /\ twapCount > 0 <=> lastPriceTime > 0

\* The price the lending entry points read lies between the lowest and the highest price
\* accepted since the average restarted: no price from before a restart leaks into it.
AverageWithinSamples ==
  twapCount > 0 => lowest <= EffectivePrice /\ EffectivePrice <= highest

\* A minority of the oracles cannot move the accepted price out of the range spanned by the
\* majority (the median of submit_oracle_prices, for odd and even registries).
MinorityCannotMoveMedian ==
  [][\A prices \in PriceVectors : SubmitOraclePrices(prices) =>
       \A lo, hi \in Prices :
         2 * Cardinality({i \in DOMAIN prices : prices[i] \in lo .. hi}) > Len(prices)
           => lastPrice' \in lo .. hi]_feedVars
=============================================================================
