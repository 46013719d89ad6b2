--------------------------------- MODULE Rates ---------------------------------
(***************************************************************************)
(* The rate of a currency that is not a stablecoin, put together from      *)
(* several sources (src/backend/src/services/exchanges/                    *)
(* rate-aggregator.ts).  Decimals are exact; a rate here counts twice the  *)
(* smallest unit, so that the mean of two rates is a number too.           *)
(***************************************************************************)
EXTENDS Integers, FiniteSets, SequencesExt

CONSTANTS
    Sources,     \* Binance, CoinGecko and Kraken
    SourceRates, \* bound: rates a source may report, all even
    Fetches      \* bound: times the sources are asked

(* What the composing module assumes of the constants.                     *)
RatesConstants ==
    /\ IsFiniteSet(Sources)
    /\ SourceRates \subseteq {n \in 1..1000 : n % 2 = 0}
    /\ Fetches \in Nat

NoRate == [rate |-> 0, reported |-> [s \in {} |-> 0]]

VARIABLES
    faults,      \* what may go wrong; never changes
    cachedRate,  \* rate:median: in Redis; it expires
    lastRate,    \* rate:fallback: in Redis; it does not
    answer,      \* the last answer of getRate()
    fetches      \* times the sources were asked

ratesVars == <<cachedRate, lastRate, answer, fetches>>

(* What the sources that answered have reported.                           *)
Reports == UNION {[S -> SourceRates] : S \in SUBSET Sources}

RatesTypeOK ==
    /\ \A r \in {cachedRate, lastRate, answer} : r.rate \in Nat /\ r.reported \in Reports
    /\ fetches \in 0..Fetches

RatesInit ==
    /\ cachedRate = NoRate /\ lastRate = NoRate /\ answer = NoRate
    /\ fetches = 0

---------------------------------------------------------------------------
(* calculateMedian()                                                       *)

(* Seeded fault: the rates are taken in the order the sources are asked.   *)
MedianUnsorted(rates) ==
    LET asked == SetToSeq(DOMAIN rates) IN rates[asked[(Len(asked) \div 2) + 1]]

Sorted(rates) ==
    CHOOSE order \in Bijection(1..Cardinality(DOMAIN rates), DOMAIN rates) :
        \A i, j \in DOMAIN order : i < j => rates[order[i]] <= rates[order[j]]

Median(rates) ==
    LET sorted == Sorted(rates)
        n == Cardinality(DOMAIN rates)
        mid == n \div 2
    IN  IF n % 2 = 0
        THEN (rates[sorted[mid]] + rates[sorted[mid + 1]]) \div 2
        ELSE rates[sorted[mid + 1]]

Distance(a, b) == IF a > b THEN a - b ELSE b - a

(* filterOutliers(): rates more than 2 % from the median are left out, but *)
(* never all of them.                                                      *)
FilterOutliers(rates) ==
    LET median == Median(rates)
        near == {s \in DOMAIN rates : Distance(rates[s], median) * 100 <= 2 * median}
    IN  IF near = {} THEN rates ELSE [s \in near |-> rates[s]]

Aggregated(reported) == [rate |-> Median(FilterOutliers(reported)), reported |-> reported]

---------------------------------------------------------------------------
(* getRate()                                                               *)

UseCache ==
    /\ cachedRate # NoRate
    /\ answer' = cachedRate
    /\ UNCHANGED <<cachedRate, lastRate, fetches>>

(* A call answers even if another one has filled the cache meanwhile.      *)
Aggregate ==
    /\ fetches < Fetches /\ fetches' = fetches + 1
    /\ \E reported \in Reports :
          /\ DOMAIN reported # {}
          /\ LET aggregated == Aggregated(reported) IN
             \/ /\ cachedRate' = aggregated /\ lastRate' = aggregated /\ answer' = aggregated
             \/ /\ "redis" \in faults
                /\ cachedRate' \in {cachedRate, aggregated}
                /\ UNCHANGED <<lastRate, answer>>

(* No source answers; without a last rate the call throws.                 *)
UseFallback ==
    /\ lastRate # NoRate
    /\ answer' = lastRate
    /\ UNCHANGED <<cachedRate, lastRate, fetches>>

CacheExpires ==
    /\ cachedRate # NoRate
    /\ cachedRate' = NoRate
    /\ UNCHANGED <<lastRate, answer, fetches>>

RatesNext ==
    /\ UseCache \/ Aggregate \/ UseFallback \/ CacheExpires
    /\ UNCHANGED faults

---------------------------------------------------------------------------
(* Properties                                                              *)

Between(low, rate, high) == low <= rate /\ rate <= high
Lowest(S, rates) == CHOOSE n \in {rates[s] : s \in S} : \A t \in S : n <= rates[t]
Highest(S, rates) == CHOOSE n \in {rates[s] : s \in S} : \A t \in S : n >= rates[t]

(* When all sources report, whatever any one of them says moves the answer *)
(* by at most 2 % out of the range of the others; and an answer is never   *)
(* outside what was reported.  The cache and the fallback keep this.       *)
NoSourceDecides ==
    LET reported == answer.reported
        rate == answer.rate
        R == DOMAIN reported
    IN  R # {} =>
            /\ Between(Lowest(R, reported), rate, Highest(R, reported))
            /\ Cardinality(R) > 2 =>
                  \A s \in R :
                      Between(98 * Lowest(R \ {s}, reported), 100 * rate,
                              102 * Highest(R \ {s}, reported))
=============================================================================
