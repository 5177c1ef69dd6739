------------------------------ MODULE Appraisal ------------------------------
(***************************************************************************)
(* What an animal is worth (src/src/services/appraisal.service.ts and      *)
(* oracle-aggregation.ts).  Prices are in tenths of a cent, so a table     *)
(* price times a premium in per cent is a whole number; multipliers are in *)
(* twentieths; a value is in cents, rounded half up where the code calls   *)
(* toFixed(2).                                                             *)
(***************************************************************************)
EXTENDS Integers, FiniteSets

CONSTANT MAX_DEVIATION_PCT   \* ORACLE_MAX_DEVIATION_PCT, 15 by default

NoPrice == 0     \* an oracle that did not answer; no oracle answers zero

\* In tenths of a dollar.
BASE_PRICE_PER_KG_USD ==
  [CATTLE |-> 25, GOAT |-> 32, SHEEP |-> 28, PIG |-> 19, DONKEY |-> 14]

\* The premium of a breed in per cent; an unknown one has none.
BreedPremium(type, breed) ==
  CASE <<type, breed>> = <<"CATTLE", "angus">> -> 135
    [] <<type, breed>> \in {<<"CATTLE", "brahman">>, <<"SHEEP", "merino">>} -> 120
    [] <<type, breed>> = <<"CATTLE", "hereford">> -> 128
    [] <<type, breed>> = <<"GOAT", "boer">> -> 140
    [] <<type, breed>> = <<"GOAT", "kalahari">> -> 130
    [] <<type, breed>> = <<"SHEEP", "dorper">> -> 125
    [] <<type, breed>> = <<"PIG", "large white">> -> 115
    [] OTHER -> 100

PrimeRange ==
  [CATTLE |-> <<24, 84>>, GOAT |-> <<12, 60>>, SHEEP |-> <<12, 60>>,
   PIG |-> <<6, 36>>, DONKEY |-> <<36, 120>>]

AgeMultiplier(type, age) ==
  LET prime == PrimeRange[type]
  IN  CASE 2 * age < prime[1]      -> 12
        [] 2 * age >= prime[1] /\ age < prime[1] -> 16
        [] age \in prime[1] .. prime[2] -> 20
        [] age > prime[2] /\ 2 * age <= 3 * prime[2] -> 17
        [] 2 * age > 3 * prime[2]  -> 13

HEALTH_MULTIPLIER == [EXCELLENT |-> 20, GOOD |-> 18, FAIR |-> 15, POOR |-> 10]
LTV_RATIO         == [EXCELLENT |-> 15, GOOD |-> 14, FAIR |-> 12, POOR |-> 9]

-----------------------------------------------------------------------------
\* The k-th of the sorted values, of those at some places: fewer than k of them are lower, and
\* k or more are not higher.
SortedAt(values, places, k) ==
  CHOOSE v \in {values[i] : i \in places} :
    /\ Cardinality({i \in places : values[i] < v}) < k
    /\ Cardinality({i \in places : values[i] <= v}) >= k

\* Twice their median: even numbers of values average the two middle ones.
TwiceMedian(values, places) ==
  LET mid == Cardinality(places) \div 2
  IN  IF Cardinality(places) % 2 = 0
      THEN SortedAt(values, places, mid) + SortedAt(values, places, mid + 1)
      ELSE 2 * SortedAt(values, places, mid + 1)

\* A value further than MAX_DEVIATION_PCT from a median given twice over.
IsOutlier(value, twice) ==
  LET off == IF 2 * value > twice THEN 2 * value - twice ELSE twice - 2 * value
  IN  IF twice = 0 THEN value # 0 ELSE 100 * off > MAX_DEVIATION_PCT * twice

\* The places whose values are no outliers among them.
RejectOutliers(values, places) ==
  {i \in places : ~IsOutlier(values[i], TwiceMedian(values, places))}

InternalPrice(type, breed) == BASE_PRICE_PER_KG_USD[type] * BreedPremium(type, breed)

\* Twice the price per kg, from the internal table and what the market feed answered; NoPrice
\* when every answer was an outlier: the code's median throws on nothing.
AggregatedPricePerKg(type, breed, market) ==
  LET answers  == <<InternalPrice(type, breed), market>>
      answered == {i \in DOMAIN answers : answers[i] # NoPrice}
      kept     == RejectOutliers(answers, answered)
  IN  IF kept = {} THEN NoPrice ELSE TwiceMedian(answers, kept)

Round(n, d) == (2 * n + d) \div (2 * d)

\* collateralValueUSDC in cents: the market value, rounded, times the health's LTV, rounded.
AppraiseLivestock(animal, market) ==
  LET twice == AggregatedPricePerKg(animal.type, animal.breed, market)
      value == Round(twice * animal.weightKg * AgeMultiplier(animal.type, animal.ageMonths)
                       * HEALTH_MULTIPLIER[animal.health], 8000)
  IN  Round(value * LTV_RATIO[animal.health], 20)
=============================================================================
