------------------------- MODULE EwmaZScoreDetector -------------------------
(***************************************************************************)
(* EwmaZScoreDetector of anomaly/anomaly_detector.{hpp,cpp}: a running     *)
(* mean and variance per feature, and the z-score of a value against the   *)
(* state before it is taken in.                                            *)
(*                                                                         *)
(* Doubles are exact: alpha is AlphaNum / AlphaDen, and after k samples    *)
(* the mean is a whole number of units of 1 / AlphaDen^(k-1), the variance *)
(* of units of its square.  kVarianceFloor is 1 / FloorDen.                *)
(***************************************************************************)
EXTENDS Integers, Sequences, SequencesExt

CONSTANTS
  Feature,                \* the names callers score under
  Value,                  \* the values they score
  AlphaNum, AlphaDen,     \* config_.ewma_alpha
  FloorDen,               \* 1 / kVarianceFloor: 10^9
  Threshold,              \* config_.z_score_threshold of the caller
  min_samples,            \* config_.min_samples
  MaxSamples              \* bound on the samples of a feature between resets

ASSUME DetectorAssumption ==
  /\ Value \subseteq Int
  /\ {AlphaDen, FloorDen, Threshold} \subseteq Nat \ {0} /\ AlphaNum \in 1 .. AlphaDen
  /\ {min_samples, MaxSamples} \subseteq Nat

VARIABLES
  states,    \* states_: operator[] makes a State{} where there is none
  scored,    \* the feature of the last call and where its z-score stood:
             \* "none" if there was none, "high", "low" or "mid"
  history    \* history: the values scored per feature since the last reset

detectorVars == <<states, scored, history>>

NewState == [mean |-> 0, variance |-> 0, samples |-> 0]

Init ==
  /\ states = [f \in Feature |-> NewState]
  /\ scored = [feature |-> "none", z |-> "none"]
  /\ history = [f \in Feature |-> << >>]

\* A whole number to the n-th power.
Power(base, n) ==
  LET power[k \in 0 .. n] == IF k = 0 THEN 1 ELSE base * power[k - 1]
  IN  power[n]

\* How many units the value 1 is for a mean after k samples.
Unit(k) == IF k = 0 THEN 1 ELSE Power(AlphaDen, k - 1)

\* Mutant of Floored: the floor is a whole unit squared.
Floored_High(variance, unit) ==
  IF variance >= unit * unit THEN FloorDen * variance ELSE FloorDen * unit * unit

\* FloorDen * max(variance, kVarianceFloor), with unit units to the value 1.
Floored(variance, unit) ==
  IF FloorDen * variance >= unit * unit THEN FloorDen * variance ELSE unit * unit

\* Where delta / sqrt(max(variance, kVarianceFloor)) stands.
Stand(delta, variance, unit) ==
  LET far == FloorDen * (delta * delta) >= Threshold * Threshold * Floored(variance, unit)
  IN  IF ~far THEN "mid" ELSE IF delta > 0 THEN "high" ELSE "low"

\* Mutant of Updated: the variance does not decay.
Updated_NoDecay(state, value) ==
  IF state.samples = 0
  THEN [mean |-> value, variance |-> 0, samples |-> 1]
  ELSE LET delta == value * Unit(state.samples) - state.mean
       IN  [mean     |-> AlphaDen * state.mean + AlphaNum * delta,
            variance |-> AlphaDen *
                           (AlphaDen * state.variance + AlphaNum * delta * delta),
            samples  |-> state.samples + 1]

\* The state after one more sample.
Updated(state, value) ==
  IF state.samples = 0
  THEN [mean |-> value, variance |-> 0, samples |-> 1]
  ELSE LET delta == value * Unit(state.samples) - state.mean
       IN  [mean     |-> AlphaDen * state.mean + AlphaNum * delta,
            variance |-> (AlphaDen - AlphaNum) *
                           (AlphaDen * state.variance + AlphaNum * delta * delta),
            samples  |-> state.samples + 1]

\* Mutant of ZScore: the value is compared with statistics it is part of.
ZScore_After(state, value) ==
  LET after == Updated(state, value)
  IN  IF state.samples >= min_samples
      THEN Stand(value * Unit(after.samples) - after.mean, after.variance, Unit(after.samples))
      ELSE "none"

ZScore(state, value) ==
  IF state.samples >= min_samples
  THEN Stand(value * Unit(state.samples) - state.mean, state.variance, Unit(state.samples))
  ELSE "none"

score(feature, value) ==
  /\ Len(history[feature]) < MaxSamples
  /\ scored' = [feature |-> feature, z |-> ZScore(states[feature], value)]
  /\ states' = [states EXCEPT ![feature] = Updated(@, value)]
  /\ history' = [history EXCEPT ![feature] = Append(@, value)]

reset == states' = [f \in Feature |-> NewState]
         /\ history' = [f \in Feature |-> << >>]
         /\ scored' = [feature |-> "none", z |-> "none"]

Next == reset \/ \E feature \in Feature, value \in Value : score(feature, value)

Spec == Init /\ [][Next]_detectorVars

-----------------------------------------------------------------------------
(* Properties *)

\* The weight of sample j of k, in units of 1 / AlphaDen^(k-1): alpha times
\* (1 - alpha) for every later sample, and what is left for the first.
Weight(j, k) ==
  IF j = 1 THEN Power(AlphaDen - AlphaNum, k - 1)
  ELSE AlphaNum * Power(AlphaDen - AlphaNum, k - j) * Power(AlphaDen, j - 2)

\* The weighted sum of one whole number per sample.
Weighted(terms) ==
  LET k == Len(terms)
      sum[j \in 0 .. k] == IF j = 0 THEN 0 ELSE sum[j - 1] + Weight(j, k) * terms[j]
  IN  sum[k]

\* The weighted mean and variance of samples, in the units of a state.
WeightedMean(samples) == Weighted(samples)
WeightedSquares(samples) == Weighted([i \in DOMAIN samples |-> samples[i] * samples[i]])
WeightedVariance(samples) ==
  WeightedSquares(samples) * Unit(Len(samples))
    - WeightedMean(samples) * WeightedMean(samples)

\* The state score() updates step by step is the exponentially weighted mean
\* and variance of all the samples of its feature since the last reset, and of
\* no other feature's.
StatisticsAreWeighted ==
  \A f \in Feature : history[f] # << >> =>
    states[f] = [mean     |-> WeightedMean(history[f]),
                 variance |-> WeightedVariance(history[f]),
                 samples  |-> Len(history[f])]

\* A z-score is there exactly from the sample after the first min_samples on,
\* and measures the newest sample against the weighted mean and variance of the
\* earlier ones alone: an outlier does not hide in its own statistics.
ScoredAgainstEarlier ==
  scored.feature # "none" /\ Len(history[scored.feature]) > 1 =>
    LET samples == history[scored.feature]
        earlier == Front(samples)
        delta   == Last(samples) * Unit(Len(earlier)) - WeightedMean(earlier)
    IN  scored.z = IF Len(earlier) < min_samples THEN "none"
                   ELSE Stand(delta, WeightedVariance(earlier), Unit(Len(earlier)))

\* A feature that has not moved is never past the threshold, and its first move
\* by one or more after the warm-up always is, for any threshold of at most
\* 1 / sqrt(kVarianceFloor): the variance floor is no tolerance.
FlatThenMove ==
  scored.feature # "none" /\ Threshold * Threshold <= FloorDen =>
    LET samples == history[scored.feature]
        n == Len(samples)
    IN  n > 1 /\ n > min_samples /\ (\A i \in 1 .. n - 1 : samples[i] = samples[1]) =>
          scored.z = IF samples[n] = samples[1] THEN "mid"
                     ELSE IF samples[n] > samples[1] THEN "high" ELSE "low"
=============================================================================
