-------------------------- MODULE StrategyWeights --------------------------
(***************************************************************************)
(* AdaptiveStrategyManager of utils/xianyu_slider_stealth.py: results of   *)
(* the drag strategies, the weights adjusted from them under stats_lock    *)
(* and the JSON file both are written to after every result.  A weight is  *)
(* a number of ten-thousandths; divisions round down, where the code has   *)
(* floats.                                                                 *)
(***************************************************************************)
EXTENDS Integers

CONSTANTS MinSamples,   \* min_samples
          MinWeight, MaxWeight, Smoothing,   \* in ten-thousandths
          MaxResults    \* bound: results recorded

ASSUME WeightsAssumption ==
    /\ MinSamples \in Nat \ {0} /\ MaxResults \in Nat
    /\ {MinWeight, MaxWeight} \subseteq Nat /\ Smoothing \in 0..10000
    /\ 0 < MinWeight /\ MinWeight < MaxWeight /\ MaxWeight < 10000
    /\ MinWeight * 10000 <= 1800 * (2 * MaxWeight + MinWeight)   \* the first weights are not starved

VARIABLES
    stats,    \* strategy_stats: strategy -> [success, total]
    weights,  \* dynamic_weights
    disk,     \* the stats file: [whole, stats, weights]
    unsaved   \* history: results since the last save that came out whole, or the last start

weightVars == <<stats, weights, disk, unsaved>>

One == 10000
MainStrategies == {"conservative", "standard", "aggressive"}
Strategies == MainStrategies \cup {"learned_with_jitter"}

NoStats == [s \in Strategies |-> [success |-> 0, total |-> 0]]
FirstWeights == [conservative |-> 1800, standard |-> 4700, aggressive |-> 3500]
SumOfMain(f) == f.conservative + f.standard + f.aggressive

WeightsInit ==
    /\ stats = NoStats
    /\ weights = FirstWeights
    /\ disk = [whole |-> FALSE, stats |-> NoStats, weights |-> FirstWeights]
    /\ unsaved = 0

-----------------------------------------------------------------------------
\* The success rate, or a default with too few samples
Rate(st, s) == IF st[s].total >= MinSamples THEN (st[s].success * One) \div st[s].total ELSE 3300

\* The bounds of a weight; without the lower one
ClampAbove(w) == IF w > MaxWeight THEN MaxWeight ELSE w
Clamp(w) == IF w < MinWeight THEN MinWeight ELSE IF w > MaxWeight THEN MaxWeight ELSE w

\* _auto_adjust_weights: clamp, then normalise, then smooth
Normalised(w) == [s \in MainStrategies |-> (w[s] * One) \div SumOfMain(w)]

Adjusted(st, old) ==
    LET rate == [s \in MainStrategies |-> Rate(st, s)]
        clamped == [s \in MainStrategies |-> Clamp((rate[s] * One) \div SumOfMain(rate))]
    IN  IF SumOfMain([s \in MainStrategies |-> st[s].total]) < 3 * MinSamples \/ SumOfMain(rate) = 0 THEN old
        ELSE [s \in MainStrategies |->
                 (old[s] * (One - Smoothing) + Normalised(clamped)[s] * Smoothing) \div One]

Counted(st, s, won) ==
    [st EXCEPT ![s] = [success |-> @.success + (IF won THEN 1 ELSE 0), total |-> @.total + 1]]

Results(st) ==
    SumOfMain([s \in MainStrategies |-> st[s].total]) + st.learned_with_jitter.total

\* record_result; an error of _save_stats is swallowed. The file is opened with
\* 'w', which empties it: an error behind that, or a crash, leaves it torn.
RecordResult(s, won) ==
    /\ Results(stats) < MaxResults
    /\ stats' = Counted(stats, s, won)
    /\ weights' = Adjusted(stats', weights)
    /\ \/ disk' = [whole |-> TRUE, stats |-> stats', weights |-> weights'] /\ unsaved' = 0
       \/ disk' = [disk EXCEPT !.whole = FALSE] /\ unsaved' = unsaved + 1
       \/ UNCHANGED disk /\ unsaved' = unsaved + 1

\* The process ends, perhaps while the file is written, and starts again:
\* _load_stats takes a whole file and keeps the defaults without one.
ReloadForgets ==
    /\ stats' = NoStats /\ weights' = FirstWeights
    /\ unsaved' = 0
    /\ UNCHANGED disk

ReloadStats ==
    /\ stats' = IF disk.whole THEN disk.stats ELSE NoStats
    /\ weights' = IF disk.whole THEN disk.weights ELSE FirstWeights
    /\ unsaved' = 0
    /\ UNCHANGED disk

WeightsNext ==
    \/ \E s \in Strategies, won \in BOOLEAN : RecordResult(s, won)
    \/ ReloadStats

WeightsSpec == WeightsInit /\ [][WeightsNext]_weightVars

-----------------------------------------------------------------------------
\* get_dynamic_weights: the weights the next strategy is drawn with
AtLeast(w, low) == IF w < low THEN low ELSE w
AtMost(w, high) == IF w > high THEN high ELSE w

DrawnWith(w, try) ==
    LET base == Normalised([conservative |-> AtMost(AtLeast(w.conservative, 1200), 2200),
                            standard |-> AtLeast(w.standard, 4000),
                            aggressive |-> AtLeast(w.aggressive, 2800)])
        bold == AtMost(base.aggressive + 1200, 5500)
        others == base.conservative + base.standard
    IN  IF try < 3 THEN base
        ELSE [conservative |-> (base.conservative * (One - bold)) \div others,
              standard |-> (base.standard * (One - bold)) \div others,
              aggressive |-> bold]

-----------------------------------------------------------------------------
\* However the results fall, no strategy is starved: the clamp bounds what one
\* adjustment can do, and smoothing cannot leave the range of what it
\* averages. What is drawn with is a distribution up to rounding, at the third
\* try as at the first.
NoStrategyStarves ==
    /\ \A s \in MainStrategies : weights[s] >= (MinWeight * One) \div (2 * MaxWeight + MinWeight)
    /\ \A try \in {1, 3} :
          LET w == DrawnWith(weights, try)
          IN  SumOfMain(w) \in One - 2 .. One /\ \A s \in MainStrategies : w[s] > 0

\* What a restart costs: the results since the last save that came out whole,
\* and all results ever recorded when a save after it tore the file, since
\* _save_stats rewrites it in place. No other step takes a result back, and
\* none counts one twice.
RestartCosts ==
    [][\/ Results(stats') = Results(stats) + 1
       \/ disk.whole /\ Results(stats') = Results(stats) - unsaved
       \/ ~disk.whole /\ Results(stats') = 0]_weightVars
=============================================================================
