---------------------------- MODULE Slider_proofs ---------------------------
(***************************************************************************)
(* Proofs about the slider solving: its slots, its strategy weights, the   *)
(* history of its drags and the solver itself, for every value of their    *)
(* limits.                                                                 *)
(***************************************************************************)
EXTENDS SliderSlots, StrategyWeights, SliderHistory, SliderSolve, FiniteSetTheorems, TLAPS

-----------------------------------------------------------------------------
\* SliderSlots

SlotInv == SlotTypeOK /\ AtMostMaxConcurrent /\ OneSlotPerAccount

\* Giving a slot back never adds an id to the table.
LEMMA UnregisterShrinks ==
    ASSUME SlotTypeOK, NEW u \in UserIds, Unregister(u)
    PROVE  ActiveIds' = ActiveIds \ {u}
BY DEF SlotTypeOK, Unregister, ActiveIds

\* Taking a slot adds exactly one id, which was not in the table.
LEMMA RegisterAdds ==
    ASSUME SlotTypeOK, NEW u \in UserIds, NEW i \in Instances, Register(u, i)
    PROVE  /\ ActiveIds' = ActiveIds \cup {u}
           /\ u \notin ActiveIds
           /\ \A v \in ActiveIds : PureId[v] # PureId[u]
BY SlotAssumption DEF SlotTypeOK, Register, CanStart, SameAccountActive, ActiveIds

LEMMA ActiveIdsFinite ==
    /\ IsFiniteSet(ActiveIds)
    /\ Cardinality(ActiveIds) \in Nat
BY SlotAssumption, FS_Subset, FS_CardinalityType DEF ActiveIds

\* The table starts empty and within its limit.
LEMMA SlotInitInv == SlotInit => SlotInv
<1> SUFFICES ASSUME SlotInit PROVE SlotInv
    OBVIOUS
<1>1. ActiveIds = {}
    BY DEF SlotInit, ActiveIds
<1>2. SlotTypeOK
    BY DEF SlotInit, SlotTypeOK
<1>3. AtMostMaxConcurrent
    BY <1>1, FS_EmptySet, SlotAssumption DEF AtMostMaxConcurrent
<1>4. OneSlotPerAccount
    BY <1>1 DEF OneSlotPerAccount
<1>5. QED
    BY <1>2, <1>3, <1>4 DEF SlotInv

\* Every operation of the manager keeps the table within its limit and free of
\* a second slot for one account.
LEMMA SlotStepInv == SlotInv /\ [SlotNext]_slotVars => SlotInv'
<1> SUFFICES ASSUME SlotInv, [SlotNext]_slotVars PROVE SlotInv'
    OBVIOUS
<1> USE DEF SlotInv
<1>1. ASSUME NEW u \in UserIds, Enqueue(u) PROVE SlotInv'
    BY <1>1 DEF Enqueue, SlotTypeOK, AtMostMaxConcurrent, OneSlotPerAccount,
                ActiveIds
<1>2. ASSUME NEW u \in UserIds, LeaveQueue(u) PROVE SlotInv'
    BY <1>2 DEF LeaveQueue, SlotTypeOK, AtMostMaxConcurrent, OneSlotPerAccount,
                ActiveIds
<1>3. ASSUME NEW u \in UserIds, NEW i \in Instances, Register(u, i)
      PROVE  SlotInv'
  <2>1. /\ ActiveIds' = ActiveIds \cup {u}
        /\ u \notin ActiveIds
        /\ \A v \in ActiveIds : PureId[v] # PureId[u]
      BY <1>3, RegisterAdds
  <2>2. SlotTypeOK'
      BY <1>3 DEF Register, SlotTypeOK
  <2>3. Cardinality(ActiveIds') = Cardinality(ActiveIds) + 1
      BY <2>1, ActiveIdsFinite, FS_AddElement
  <2>4. AtMostMaxConcurrent'
      BY <1>3, <2>3, ActiveIdsFinite, SlotAssumption
      DEF Register, CanStart, AtMostMaxConcurrent
  <2>5. OneSlotPerAccount'
      BY <2>1 DEF OneSlotPerAccount
  <2>6. QED
      BY <2>2, <2>4, <2>5
<1>4. ASSUME NEW u \in UserIds, Unregister(u) PROVE SlotInv'
  <2>1. ActiveIds' = ActiveIds \ {u}
      BY <1>4, UnregisterShrinks
  <2>2. SlotTypeOK'
      BY <1>4 DEF Unregister, SlotTypeOK
  <2>3. Cardinality(ActiveIds') <= Cardinality(ActiveIds)
      BY <2>1, ActiveIdsFinite, FS_RemoveElement
  <2>4. Cardinality(ActiveIds') \in Nat
      BY <2>1, ActiveIdsFinite, FS_RemoveElement, FS_CardinalityType
  <2>5. AtMostMaxConcurrent'
      BY <2>3, <2>4, ActiveIdsFinite, SlotAssumption DEF AtMostMaxConcurrent
  <2>6. OneSlotPerAccount'
      BY <2>1 DEF OneSlotPerAccount
  <2>7. QED
      BY <2>2, <2>5, <2>6
<1>5. ASSUME UNCHANGED slotVars PROVE SlotInv'
    BY <1>5 DEF slotVars, SlotTypeOK, AtMostMaxConcurrent, OneSlotPerAccount,
                ActiveIds
<1>6. QED
    BY <1>1, <1>2, <1>3, <1>4, <1>5 DEF SlotNext

\* The table always has its type, never exceeds max_concurrent and never holds
\* two ids of one account, whoever calls the manager in whatever order.
THEOREM SlotSafety == SlotSpec => []SlotInv
<1>1. QED
    BY SlotInitInv, SlotStepInv, PTL DEF SlotSpec

\* No interleaving of registrations and releases exceeds max_concurrent or
\* registers two ids of one account.
THEOREM SlotBound == SlotSpec => []SlotLimits
<1>1. SlotInv => SlotLimits
    BY DEF SlotInv, SlotLimits
<1>2. QED
    BY <1>1, SlotSafety, PTL

-----------------------------------------------------------------------------
\* StrategyWeights

LEMMA DivideBounds ==
    ASSUME NEW a \in Nat, NEW b \in Nat \ {0}
    PROVE  a \div b \in Nat /\ (a \div b) * b <= a /\ a < (a \div b) * b + b
OBVIOUS

LEMMA ProductGrows ==
    ASSUME NEW a \in Nat, NEW b \in Nat, NEW c \in Nat, a <= b
    PROVE  a * c <= b * c
OBVIOUS

LEMMA DivideAtLeast ==
    ASSUME NEW a \in Nat, NEW b \in Nat \ {0}, NEW k \in Nat, k * b <= a
    PROVE  k <= a \div b
<1> DEFINE q == a \div b
<1>1. q \in Nat /\ a < q * b + b
  BY DivideBounds
<1> HIDE DEF q
<1>2. ASSUME k > q PROVE FALSE
  <2>1. (q + 1) * b <= k * b
    BY <1>1, <1>2, ProductGrows
  <2>2. (q + 1) * b = q * b + b
    BY <1>1
  <2> QED BY <1>1, <2>1, <2>2
<1>3. k <= q
  BY <1>1, <1>2
<1> QED BY <1>3 DEF q

LEMMA DivideAtMost ==
    ASSUME NEW a \in Nat, NEW b \in Nat \ {0}, NEW k \in Nat, a <= k * b
    PROVE  a \div b <= k
<1> DEFINE q == a \div b
<1>1. q \in Nat /\ q * b <= a
  BY DivideBounds
<1> HIDE DEF q
<1>2. ASSUME q > k PROVE FALSE
  <2>1. (k + 1) * b <= q * b
    BY <1>1, <1>2, ProductGrows
  <2>2. (k + 1) * b = k * b + b
    OBVIOUS
  <2>3. k * b \in Nat /\ q * b \in Nat
    BY <1>1
  <2> QED BY <1>1, <2>1, <2>2, <2>3
<1>3. q <= k
  BY <1>1, <1>2
<1> QED BY <1>3 DEF q

\* Shares of a whole, each rounded down, add up to the whole but for two.
LEMMA SharesAddUp ==
    ASSUME NEW a \in Nat, NEW b \in Nat, NEW c \in Nat, a + b + c > 0, NEW whole \in Nat
    PROVE  LET sum == a + b + c
           IN  (a * whole) \div sum + (b * whole) \div sum + (c * whole) \div sum \in whole - 2 .. whole
<1> DEFINE sum == a + b + c
           x == (a * whole) \div sum
           y == (b * whole) \div sum
           z == (c * whole) \div sum
<1>1. /\ sum \in Nat \ {0} /\ a * whole \in Nat /\ b * whole \in Nat /\ c * whole \in Nat
      /\ a * whole + b * whole + c * whole = sum * whole
  OBVIOUS
<1> HIDE DEF sum
<1>2. x \in Nat /\ x * sum <= a * whole /\ a * whole < x * sum + sum
  BY <1>1, DivideBounds
<1>3. y \in Nat /\ y * sum <= b * whole /\ b * whole < y * sum + sum
  BY <1>1, DivideBounds
<1>4. z \in Nat /\ z * sum <= c * whole /\ c * whole < z * sum + sum
  BY <1>1, DivideBounds
<1> HIDE DEF x, y, z
<1> DEFINE t == x + y + z
<1>5. t \in Nat /\ t * sum = x * sum + y * sum + z * sum
  BY <1>1, <1>2, <1>3, <1>4
<1>6. x * sum \in Nat /\ y * sum \in Nat /\ z * sum \in Nat /\ sum * whole \in Nat /\ sum * whole = whole * sum
  BY <1>1, <1>2, <1>3, <1>4
<1>7. t * sum <= whole * sum /\ whole * sum < t * sum + 3 * sum
  BY <1>1, <1>2, <1>3, <1>4, <1>5, <1>6
<1>8. t * sum + 3 * sum = (t + 3) * sum
  BY <1>1, <1>5
<1> HIDE DEF t
<1>9. t <= whole
  <2> SUFFICES ASSUME t >= whole + 1 PROVE FALSE
    BY <1>5
  <2>1. (whole + 1) * sum <= t * sum
    BY <1>1, <1>5, ProductGrows
  <2>2. (whole + 1) * sum = whole * sum + sum
    BY <1>1
  <2>3. whole * sum \in Nat
    BY <1>1
  <2> QED BY <1>1, <1>5, <1>7, <2>1, <2>2, <2>3
<1>10. whole < t + 3
  <2> SUFFICES ASSUME t + 3 <= whole PROVE FALSE
    BY <1>5
  <2>1. (t + 3) * sum <= whole * sum
    BY <1>1, <1>5, ProductGrows
  <2>2. whole * sum \in Nat /\ (t + 3) * sum \in Nat
    BY <1>1, <1>5
  <2> QED BY <1>7, <1>8, <2>1, <2>2
<1>11. t \in whole - 2 .. whole
  BY <1>5, <1>9, <1>10
<1> QED BY <1>11 DEF t, x, y, z, sum

-----------------------------------------------------------------------------
\* What a weight cannot fall under: the share of a weight at the lower bound
\* beside two at the upper one.
Low == (MinWeight * One) \div (2 * MaxWeight + MinWeight)

LEMMA LowBounds ==
    /\ Low \in Nat /\ Low <= One
    /\ Low * (2 * MaxWeight + MinWeight) <= MinWeight * One
<1>1. MinWeight * One \in Nat /\ 2 * MaxWeight + MinWeight \in Nat \ {0}
  BY WeightsAssumption DEF One
<1>2. Low \in Nat /\ Low * (2 * MaxWeight + MinWeight) <= MinWeight * One
  BY <1>1, DivideBounds DEF Low
<1>3. MinWeight * One <= One * (2 * MaxWeight + MinWeight)
  BY WeightsAssumption DEF One
<1>4. Low <= One
  BY <1>1, <1>3, DivideAtMost DEF Low, One
<1> QED BY <1>2, <1>4

\* A clamped weight, normalised
LEMMA ShareBounds ==
    ASSUME NEW a \in MinWeight..MaxWeight, NEW b \in MinWeight..MaxWeight, NEW c \in MinWeight..MaxWeight,
           NEW sum, sum = a + b + c
    PROVE  (a * One) \div sum \in Low..One
<1>1. MinWeight \in Nat /\ MaxWeight \in Nat /\ a \in Nat /\ b \in Nat /\ c \in Nat /\ a > 0
  BY WeightsAssumption
<1>2. Low \in Nat /\ Low <= One /\ Low * (2 * MaxWeight + MinWeight) <= MinWeight * One
  BY LowBounds
<1>3. One \in Nat /\ sum \in Nat \ {0} /\ a * One \in Nat /\ a <= sum
  BY <1>1 DEF One
<1>4. Low * sum <= a * One
  <2> DEFINE d == a - MinWeight
             e == 2 * MaxWeight - b - c
  <2>1. d \in Nat /\ e \in Nat /\ a = MinWeight + d
    BY <1>1
  <2>2. sum + e = (2 * MaxWeight + MinWeight) + d
    BY <1>1
  <2> HIDE DEF d, e
  <2>3. Low * (sum + e) = Low * sum + Low * e
    BY <1>2, <1>3, <2>1
  <2>4. Low * ((2 * MaxWeight + MinWeight) + d) = Low * (2 * MaxWeight + MinWeight) + Low * d
    BY <1>1, <1>2, <2>1
  <2>5. Low * d <= One * d
    BY <1>2, <1>3, <2>1, ProductGrows
  <2>6. a * One = MinWeight * One + One * d
    BY <1>1, <2>1 DEF One
  <2>7. /\ Low * sum \in Nat /\ Low * e \in Nat /\ Low * d \in Nat /\ One * d \in Nat /\ MinWeight * One \in Nat
        /\ Low * (2 * MaxWeight + MinWeight) \in Nat
    BY <1>1, <1>2, <1>3, <2>1
  <2> QED BY <1>2, <2>2, <2>3, <2>4, <2>5, <2>6, <2>7
<1>5. a * One <= One * sum
  BY <1>1, <1>3 DEF One
<1>6. Low <= (a * One) \div sum
  BY <1>2, <1>3, <1>4, DivideAtLeast
<1>7. (a * One) \div sum <= One
  BY <1>3, <1>5, DivideAtMost
<1>8. (a * One) \div sum \in Nat
  BY <1>3, DivideBounds
<1> QED BY <1>2, <1>3, <1>6, <1>7, <1>8

\* A weighted mean of two numbers of a range is in the range.
LEMMA MeanBounds ==
    ASSUME NEW low \in Nat, NEW a \in Nat, NEW b \in Nat, NEW part \in Nat,
           low <= a, low <= b, a <= One, b <= One, part <= One
    PROVE  (a * (One - part) + b * part) \div One \in low..One
<1> DEFINE rest == One - part
           x == a * rest
           y == b * part
<1>1. rest \in Nat /\ part \in Nat /\ rest + part = One /\ One \in Nat \ {0}
  BY DEF One
<1>2. a \in Nat /\ b \in Nat /\ low <= a /\ low <= b /\ a <= One /\ b <= One
  BY DEF One
<1> HIDE DEF rest
<1>3. x \in Nat /\ y \in Nat
  BY <1>1, <1>2
<1>4. low * rest <= x /\ low * part <= y
  BY <1>1, <1>2, ProductGrows
<1>5. x <= One * rest /\ y <= One * part
  BY <1>1, <1>2, ProductGrows
<1>6. low * One = low * rest + low * part
  <2>1. low * (rest + part) = low * rest + low * part
    BY <1>1
  <2> QED BY <1>1, <2>1
<1>7. One * One = One * rest + One * part
  <2>1. One * (rest + part) = One * rest + One * part
    BY <1>1
  <2> QED BY <1>1, <2>1
<1>8. low * rest \in Nat /\ low * part \in Nat /\ One * rest \in Nat /\ One * part \in Nat
  BY <1>1
<1> HIDE DEF x, y
<1>9. low * One <= x + y /\ x + y <= One * One
  BY <1>3, <1>4, <1>5, <1>6, <1>7, <1>8
<1>10. low <= (x + y) \div One
  BY <1>1, <1>3, <1>9, DivideAtLeast
<1>11. (x + y) \div One <= One
  BY <1>1, <1>3, <1>9, DivideAtMost
<1>12. (x + y) \div One \in Nat
  BY <1>1, <1>3, DivideBounds
<1>13. (x + y) \div One \in low..One
  BY <1>1, <1>10, <1>11, <1>12
<1> QED BY <1>13 DEF x, y, rest

-----------------------------------------------------------------------------
ResultsOf == [Strategies -> [success : Nat, total : Nat]]
WeightsOf == [MainStrategies -> Low..One]

LEMMA RateIsNat ==
    ASSUME NEW st \in ResultsOf, NEW s \in MainStrategies
    PROVE  Rate(st, s) \in Nat
<1>1. st[s].success \in Nat /\ st[s].total \in Nat
  BY DEF ResultsOf, Strategies
<1>2. CASE st[s].total >= MinSamples
  <2>1. st[s].total \in Nat \ {0} /\ st[s].success * One \in Nat
    BY <1>1, <1>2, WeightsAssumption DEF One
  <2>2. (st[s].success * One) \div st[s].total \in Nat
    BY <2>1, DivideBounds
  <2> QED BY <1>2, <2>2 DEF Rate
<1>3. CASE ~(st[s].total >= MinSamples)
  BY <1>3 DEF Rate
<1> QED BY <1>2, <1>3

LEMMA ClampBounds ==
    ASSUME NEW w \in Nat
    PROVE  Clamp(w) \in MinWeight..MaxWeight
BY WeightsAssumption DEF Clamp

LEMMA NormalisedBounds ==
    ASSUME NEW c \in [MainStrategies -> MinWeight..MaxWeight]
    PROVE  Normalised(c) \in WeightsOf
<1>1. /\ c.conservative \in MinWeight..MaxWeight /\ c.standard \in MinWeight..MaxWeight
      /\ c.aggressive \in MinWeight..MaxWeight
  BY DEF MainStrategies
<1> DEFINE sum == c.conservative + c.standard + c.aggressive
<1>2. /\ sum = c.conservative + c.standard + c.aggressive
      /\ sum = c.standard + c.conservative + c.aggressive
      /\ sum = c.aggressive + c.standard + c.conservative
  BY <1>1, WeightsAssumption
<1> HIDE DEF sum
<1>3. (c.conservative * One) \div sum \in Low..One
  BY <1>1, <1>2, ShareBounds
<1>4. (c.standard * One) \div sum \in Low..One
  BY <1>1, <1>2, ShareBounds
<1>5. (c.aggressive * One) \div sum \in Low..One
  BY <1>1, <1>2, ShareBounds
<1>6. \A s \in MainStrategies : (c[s] * One) \div sum \in Low..One
  BY <1>3, <1>4, <1>5 DEF MainStrategies
<1>7. SumOfMain(c) = sum
  BY <1>2 DEF SumOfMain
<1> QED BY <1>6, <1>7 DEF Normalised, WeightsOf

LEMMA AdjustedBounds ==
    ASSUME NEW st \in ResultsOf, NEW old \in WeightsOf
    PROVE  Adjusted(st, old) \in WeightsOf
<1> DEFINE rate == [s \in MainStrategies |-> Rate(st, s)]
           clamped == [s \in MainStrategies |-> Clamp((rate[s] * One) \div SumOfMain(rate))]
           keeps == SumOfMain([s \in MainStrategies |-> st[s].total]) < 3 * MinSamples \/ SumOfMain(rate) = 0
           next == [s \in MainStrategies |->
                      (old[s] * (One - Smoothing) + Normalised(clamped)[s] * Smoothing) \div One]
<1>1. Adjusted(st, old) = IF keeps THEN old ELSE next
  BY DEF Adjusted
<1>2. ASSUME ~keeps PROVE next \in WeightsOf
  <2>1. \A s \in MainStrategies : rate[s] \in Nat
    BY RateIsNat
  <2> HIDE DEF rate
  <2> DEFINE sum == SumOfMain(rate)
  <2>2. sum \in Nat \ {0}
    BY <1>2, <2>1 DEF SumOfMain, MainStrategies
  <2> HIDE DEF sum
  <2>3. ASSUME NEW s \in MainStrategies PROVE Clamp((rate[s] * One) \div sum) \in MinWeight..MaxWeight
    <3>1. rate[s] * One \in Nat
      BY <2>1 DEF One
    <3>2. (rate[s] * One) \div sum \in Nat
      BY <2>2, <3>1, DivideBounds
    <3> QED BY <3>2, ClampBounds
  <2>4. clamped \in [MainStrategies -> MinWeight..MaxWeight]
    <3> DEFINE share == [s \in MainStrategies |-> Clamp((rate[s] * One) \div sum)]
    <3>1. clamped = share
      BY Zenon DEF sum
    <3>2. share \in [MainStrategies -> MinWeight..MaxWeight]
      BY <2>3
    <3> HIDE DEF share, clamped
    <3> QED BY <3>1, <3>2
  <2> HIDE DEF clamped
  <2> DEFINE norm == Normalised(clamped)
  <2>5. norm \in WeightsOf
    BY <2>4, NormalisedBounds
  <2> HIDE DEF norm
  <2>6. ASSUME NEW s \in MainStrategies
        PROVE  (old[s] * (One - Smoothing) + norm[s] * Smoothing) \div One \in Low..One
    <3>1. old[s] \in Low..One /\ norm[s] \in Low..One /\ Smoothing \in 0..10000
      BY <2>5, WeightsAssumption DEF WeightsOf
    <3>2. Low \in Nat
      BY LowBounds
    <3> DEFINE a == old[s]
               b == norm[s]
    <3>3. a \in Low..One /\ b \in Low..One
      BY <3>1
    <3> HIDE DEF a, b
    <3>4. One \in Nat
      BY DEF One
    <3>5. a \in Nat /\ b \in Nat /\ Low <= a /\ Low <= b /\ a <= One /\ b <= One
      BY <3>2, <3>3, <3>4
    <3>6. Smoothing \in Nat /\ Smoothing <= One
      BY WeightsAssumption DEF One
    <3>7. (a * (One - Smoothing) + b * Smoothing) \div One \in Low..One
      BY <3>2, <3>5, <3>6, MeanBounds
    <3> QED BY <3>7 DEF a, b
  <2>7. [s \in MainStrategies |-> (old[s] * (One - Smoothing) + norm[s] * Smoothing) \div One] \in WeightsOf
    BY <2>6 DEF WeightsOf
  <2> QED BY <2>7 DEF norm
<1>3. CASE keeps
  BY <1>1, <1>3
<1>4. CASE ~keeps
  BY <1>1, <1>2, <1>4
<1> QED BY <1>3, <1>4

-----------------------------------------------------------------------------
LEMMA CountedAddsOne ==
    ASSUME NEW st \in ResultsOf, NEW s \in Strategies, NEW won \in BOOLEAN
    PROVE  /\ Counted(st, s, won) \in ResultsOf
           /\ Results(Counted(st, s, won)) = Results(st) + 1
<1> DEFINE new == [success |-> st[s].success + (IF won THEN 1 ELSE 0), total |-> st[s].total + 1]
<1>1. \A t \in Strategies : st[t].success \in Nat /\ st[t].total \in Nat
  BY DEF ResultsOf
<1>2. new \in [success : Nat, total : Nat]
  BY <1>1
<1>3. Counted(st, s, won) = [st EXCEPT ![s] = new]
  BY DEF Counted
<1>4. new.total = st[s].total + 1
  OBVIOUS
<1> HIDE DEF new
<1>5. Counted(st, s, won) \in ResultsOf
  BY <1>2, <1>3 DEF ResultsOf
<1>6. \A t \in Strategies : Counted(st, s, won)[t].total = IF t = s THEN st[t].total + 1 ELSE st[t].total
  BY <1>3, <1>4 DEF ResultsOf
<1>7. Results(Counted(st, s, won)) = Results(st) + 1
  BY <1>1, <1>6 DEF Results, SumOfMain, MainStrategies, Strategies
<1> QED BY <1>5, <1>7

LEMMA NoResults ==
    NoStats \in ResultsOf /\ Results(NoStats) = 0
BY DEF NoStats, ResultsOf, Results, SumOfMain, MainStrategies, Strategies

LEMMA ResultsIsNat ==
    ASSUME NEW st \in ResultsOf
    PROVE  Results(st) \in Nat
BY DEF ResultsOf, Results, SumOfMain, MainStrategies, Strategies

LEMMA FirstWeightsKept ==
    FirstWeights \in WeightsOf
<1>1. MinWeight * One \in Nat /\ 2 * MaxWeight + MinWeight \in Nat \ {0}
  BY WeightsAssumption DEF One
<1>2. MinWeight * One <= 1800 * (2 * MaxWeight + MinWeight)
  BY WeightsAssumption DEF One
<1>3. Low <= 1800 /\ Low \in Nat
  BY <1>1, <1>2, DivideAtMost, LowBounds DEF Low
<1>4. \A s \in MainStrategies : FirstWeights[s] \in Low..One
  BY <1>3 DEF FirstWeights, MainStrategies, One
<1>5. FirstWeights = [s \in MainStrategies |-> FirstWeights[s]]
  BY DEF FirstWeights, MainStrategies
<1> QED BY <1>4, <1>5 DEF WeightsOf

-----------------------------------------------------------------------------
\* The inductive invariant: the weights of the memory and of the file are in
\* bounds, and a whole file holds all results but the unsaved ones.
Shelved == [whole : BOOLEAN, stats : ResultsOf, weights : WeightsOf]

WeightsInv ==
    /\ stats \in ResultsOf
    /\ weights \in WeightsOf
    /\ disk \in Shelved
    /\ unsaved \in Nat
    /\ disk.whole => Results(disk.stats) = Results(stats) - unsaved

\* The action of RestartCosts
Costs ==
    \/ Results(stats') = Results(stats) + 1
    \/ disk.whole /\ Results(stats') = Results(stats) - unsaved
    \/ ~disk.whole /\ Results(stats') = 0

LEMMA WeightsInitInv == WeightsInit => WeightsInv
BY NoResults, FirstWeightsKept DEF WeightsInit, WeightsInv, Shelved

LEMMA RecordResultInv ==
    ASSUME WeightsInv, NEW s \in Strategies, NEW won \in BOOLEAN, RecordResult(s, won)
    PROVE  WeightsInv' /\ Costs
<1>1. /\ stats \in ResultsOf /\ weights \in WeightsOf /\ disk \in Shelved /\ unsaved \in Nat
      /\ stats' = Counted(stats, s, won) /\ weights' = Adjusted(stats', weights)
  BY DEF WeightsInv, RecordResult
<1>2. stats' \in ResultsOf /\ Results(stats') = Results(stats) + 1
  BY <1>1, CountedAddsOne
<1>3. weights' \in WeightsOf
  BY <1>1, <1>2, AdjustedBounds
<1>4. Results(stats) \in Nat
  BY <1>1, ResultsIsNat
<1>5. CASE disk' = [whole |-> TRUE, stats |-> stats', weights |-> weights'] /\ unsaved' = 0
  <2>1. disk' \in Shelved /\ disk'.whole /\ disk'.stats = stats'
    BY <1>2, <1>3, <1>5 DEF Shelved
  <2> QED BY <1>2, <1>3, <1>4, <1>5, <2>1, <1>1 DEF WeightsInv, Costs
<1>6. CASE disk' = [disk EXCEPT !.whole = FALSE] /\ unsaved' = unsaved + 1
  <2>1. disk' \in Shelved /\ ~disk'.whole
    BY <1>1, <1>6 DEF Shelved
  <2> QED BY <1>2, <1>3, <1>4, <1>6, <2>1, <1>1 DEF WeightsInv, Costs
<1>7. CASE disk' = disk /\ unsaved' = unsaved + 1
  <2>1. disk.stats \in ResultsOf
    BY <1>1 DEF Shelved
  <2>2. Results(disk.stats) \in Nat
    BY <2>1, ResultsIsNat
  <2> QED BY <1>1, <1>2, <1>3, <1>4, <1>7, <2>2 DEF WeightsInv, Costs
<1> QED BY <1>5, <1>6, <1>7 DEF RecordResult

LEMMA ReloadStatsInv ==
    ASSUME WeightsInv, ReloadStats
    PROVE  WeightsInv' /\ Costs
<1>1. /\ stats \in ResultsOf /\ disk \in Shelved /\ unsaved \in Nat /\ disk' = disk /\ unsaved' = 0
      /\ disk.whole => Results(disk.stats) = Results(stats) - unsaved
  BY DEF WeightsInv, ReloadStats
<1>2. Results(stats) \in Nat /\ disk.stats \in ResultsOf /\ disk.weights \in WeightsOf
  BY <1>1, ResultsIsNat DEF Shelved
<1>3. Results(disk.stats) \in Nat
  BY <1>2, ResultsIsNat
<1>4. CASE disk.whole
  <2>1. stats' = disk.stats /\ weights' = disk.weights
    BY <1>4 DEF ReloadStats
  <2> QED BY <1>1, <1>2, <1>3, <1>4, <2>1 DEF WeightsInv, Costs
<1>5. CASE ~disk.whole
  <2>1. stats' = NoStats /\ weights' = FirstWeights
    BY <1>5 DEF ReloadStats
  <2> QED BY <1>1, <1>2, <1>3, <1>5, <2>1, NoResults, FirstWeightsKept DEF WeightsInv, Costs
<1> QED BY <1>4, <1>5

LEMMA WeightsStep ==
    ASSUME WeightsInv, [WeightsNext]_weightVars
    PROVE  WeightsInv' /\ (Costs \/ UNCHANGED weightVars)
<1>1. CASE WeightsNext
  BY <1>1, RecordResultInv, ReloadStatsInv DEF WeightsNext
<1>2. CASE UNCHANGED weightVars
  BY <1>2 DEF weightVars, WeightsInv
<1> QED BY <1>1, <1>2

LEMMA WeightsInvariant == WeightsSpec => []WeightsInv
<1>1. WeightsInv /\ [WeightsNext]_weightVars => WeightsInv'
  BY WeightsStep
<1> QED BY <1>1, WeightsInitInv, PTL DEF WeightsSpec

-----------------------------------------------------------------------------
\* What is drawn with, at the first and at the third try
Fair(d) == SumOfMain(d) \in One - 2 .. One /\ \A s \in MainStrategies : d[s] > 0

LEMMA BaseBounds ==
    ASSUME NEW a \in Nat, NEW b \in Nat, NEW c \in Nat,
           1200 <= a, a <= 2200, 4000 <= b, b <= One, 2800 <= c, c <= One
    PROVE  LET base == Normalised([conservative |-> a, standard |-> b, aggressive |-> c])
           IN  /\ \A s \in MainStrategies : base[s] \in Nat /\ 540 <= base[s] /\ base[s] <= One
               /\ base.conservative + base.standard + base.aggressive \in One - 2 .. One
<1> DEFINE f == [conservative |-> a, standard |-> b, aggressive |-> c]
           base == Normalised(f)
           sum == a + b + c
<1>1. SumOfMain(f) = sum
  BY DEF SumOfMain
<1>2. /\ base.conservative = (a * One) \div sum
      /\ base.standard = (b * One) \div sum
      /\ base.aggressive = (c * One) \div sum
  BY <1>1 DEF Normalised, MainStrategies
<1>3. /\ sum \in Nat \ {0} /\ a * One \in Nat /\ b * One \in Nat /\ c * One \in Nat
      /\ 540 * sum <= a * One /\ 540 * sum <= b * One /\ 540 * sum <= c * One
      /\ a * One <= One * sum /\ b * One <= One * sum /\ c * One <= One * sum
  BY DEF One
<1>4. One \in Nat /\ a \in Nat /\ b \in Nat /\ c \in Nat /\ a + b + c > 0
  BY DEF One
<1>5. (a * One) \div sum + (b * One) \div sum + (c * One) \div sum \in One - 2 .. One
  BY <1>4, SharesAddUp
<1> HIDE DEF sum, base
<1>6. base.conservative >= 540 /\ base.standard >= 540 /\ base.aggressive >= 540
  BY <1>2, <1>3, DivideAtLeast
<1>7. base.conservative <= One /\ base.standard <= One /\ base.aggressive <= One
  BY <1>2, <1>3, <1>4, DivideAtMost
<1>8. base.conservative \in Nat /\ base.standard \in Nat /\ base.aggressive \in Nat
  BY <1>2, <1>3, DivideBounds
<1> QED BY <1>2, <1>4, <1>5, <1>6, <1>7, <1>8 DEF base, sum, MainStrategies

LEMMA DrawnIsFair ==
    ASSUME NEW w \in WeightsOf, NEW try \in {1, 3}
    PROVE  Fair(DrawnWith(w, try))
<1>1. w.conservative \in Nat /\ w.conservative <= One /\ w.standard \in Nat /\ w.standard <= One
      /\ w.aggressive \in Nat /\ w.aggressive <= One
  BY LowBounds DEF WeightsOf, MainStrategies
<1> DEFINE a == AtMost(AtLeast(w.conservative, 1200), 2200)
           b == AtLeast(w.standard, 4000)
           c == AtLeast(w.aggressive, 2800)
           base == Normalised([conservative |-> a, standard |-> b, aggressive |-> c])
<1>2. /\ a \in Nat /\ b \in Nat /\ c \in Nat
      /\ 1200 <= a /\ a <= 2200 /\ 4000 <= b /\ b <= One /\ 2800 <= c /\ c <= One
  BY <1>1 DEF AtMost, AtLeast, One
<1> HIDE DEF a, b, c
<1>3. /\ \A s \in MainStrategies : base[s] \in Nat /\ 540 <= base[s] /\ base[s] <= One
      /\ base.conservative + base.standard + base.aggressive \in One - 2 .. One
  BY <1>2, BaseBounds
<1> HIDE DEF base
<1> DEFINE bold == AtMost(base.aggressive + 1200, 5500)
           others == base.conservative + base.standard
           rest == One - bold
           x == (base.conservative * rest) \div others
           y == (base.standard * rest) \div others
<1>4. DrawnWith(w, try) = IF try < 3 THEN base ELSE [conservative |-> x, standard |-> y, aggressive |-> bold]
  BY DEF DrawnWith, base, a, b, c
<1>5. Fair(base)
  BY <1>3 DEF Fair, SumOfMain, MainStrategies, One
<1>6. /\ bold \in Nat /\ 1 <= bold /\ bold <= 5500
      /\ rest \in Nat /\ 4500 <= rest /\ rest = One - bold
      /\ others \in Nat /\ 1 <= others /\ others <= One /\ others = base.conservative + base.standard
  BY <1>3 DEF AtMost, One, MainStrategies
<1> HIDE DEF bold, others, rest
<1> DEFINE p == base.conservative
           q == base.standard
<1>7. p \in Nat /\ q \in Nat /\ p >= 540 /\ q >= 540 /\ p + q = others
  BY <1>3, <1>6 DEF MainStrategies
<1> HIDE DEF p, q
<1>8. /\ p * rest \in Nat /\ q * rest \in Nat /\ 0 * rest = 0
      /\ 540 * rest <= p * rest /\ 540 * rest <= q * rest
  <2>1. rest \in Nat
    BY <1>6
  <2> QED BY <1>7, <2>1, ProductGrows
<1>9. 1 * others <= p * rest /\ 1 * others <= q * rest
  BY <1>6, <1>8 DEF One
<1>10. others \in Nat \ {0}
  BY <1>6
<1>11. (p * rest) \div others >= 1 /\ (q * rest) \div others >= 1
  BY <1>8, <1>9, <1>10, DivideAtLeast
<1>12. (p * rest) \div others + (q * rest) \div others + (0 * rest) \div others \in rest - 2 .. rest
  <2>1. p + q + 0 = others /\ p + q + 0 > 0 /\ rest \in Nat
    BY <1>6, <1>7
  <2>2. LET sum == p + q + 0
        IN  (p * rest) \div sum + (q * rest) \div sum + (0 * rest) \div sum \in rest - 2 .. rest
    BY <1>7, <2>1, SharesAddUp
  <2> QED BY <2>1, <2>2
<1>13. (0 * rest) \div others = 0
  <2>1. 0 \div others \in Nat /\ 0 \div others <= 0
    BY <1>10, DivideAtMost, DivideBounds
  <2> QED BY <1>8, <2>1
<1>14. /\ (p * rest) \div others \in Nat /\ (q * rest) \div others \in Nat
  BY <1>8, <1>10, DivideBounds
<1>15. x \in Nat /\ y \in Nat /\ x >= 1 /\ y >= 1 /\ x + y \in rest - 2 .. rest
  BY <1>6, <1>11, <1>12, <1>13, <1>14 DEF p, q
<1> HIDE DEF x, y
<1>16. Fair([conservative |-> x, standard |-> y, aggressive |-> bold])
  BY <1>6, <1>15 DEF Fair, SumOfMain, MainStrategies, One
<1> QED BY <1>4, <1>5, <1>16

-----------------------------------------------------------------------------
\* NoStrategyStarves, of every run and for every bounds of a weight: the
\* weights _auto_adjust_weights leaves stay above the share of one lower bound
\* beside two upper ones, and get_dynamic_weights draws with a distribution.
THEOREM WeightsNeverStarve == WeightsSpec => []NoStrategyStarves
<1>1. ASSUME WeightsInv PROVE NoStrategyStarves
  <2>1. weights \in WeightsOf
    BY <1>1 DEF WeightsInv
  <2>2. \A s \in MainStrategies : weights[s] >= Low
    BY <2>1, LowBounds DEF WeightsOf
  <2>3. \A try \in {1, 3} : Fair(DrawnWith(weights, try))
    BY <2>1, DrawnIsFair
  <2> QED BY <2>2, <2>3 DEF NoStrategyStarves, Fair, Low
<1> QED BY <1>1, WeightsInvariant, PTL

\* RestartCosts: a restart takes back exactly the results since the last save
\* that came out whole, and every result when _save_stats tore the file; no
\* other step takes back any.
THEOREM RestartsRollBack == WeightsSpec => RestartCosts
<1>1. WeightsInv /\ [WeightsNext]_weightVars => [Costs]_weightVars
  BY WeightsStep
<1>2. WeightsSpec => [][Costs]_weightVars
  BY <1>1, WeightsInvariant, PTL DEF WeightsSpec
<1> QED BY <1>2 DEF RestartCosts, Costs

-----------------------------------------------------------------------------
\* SliderHistory

Drags == 1..MaxDrags

\* s is the end of t.
IsEnd(s, t) ==
    /\ s \in Seq(Drags) /\ t \in Seq(Drags) /\ Len(s) <= Len(t)
    /\ \A i \in 1..Len(s) : s[i] = t[Len(t) - Len(s) + i]

\* What is in the file, when it can be read, is the end of what was saved.
HistoryInv ==
    /\ drags \in 0..MaxDrags /\ good \in Seq(Drags)
    /\ successes # Torn => IsEnd(successes, good) /\ Len(successes) <= SuccessLimit

\* The cut _save_success_record makes leaves an end of the history.
LEMMA NewestIsEnd ==
    ASSUME NEW s \in Seq(Drags), NEW n \in Nat
    PROVE  /\ IsEnd(Newest(s, n), s)
           /\ Len(Newest(s, n)) <= n
           /\ n <= Len(s) => Len(Newest(s, n)) = n
<1>1. CASE Len(s) <= n
  BY <1>1 DEF Newest, IsEnd
<1>2. CASE Len(s) > n
  <2> DEFINE t == SubSeq(s, Len(s) - n + 1, Len(s))
  <2>1. Newest(s, n) = t
    BY <1>2 DEF Newest
  <2>2. t \in Seq(Drags) /\ Len(t) = n /\ \A i \in 1..n : t[i] = s[Len(s) - n + i]
    BY <1>2
  <2> HIDE DEF t
  <2> QED BY <1>2, <2>1, <2>2 DEF IsEnd
<1> QED BY <1>1, <1>2

\* An end of a history is what the cut to its length leaves.
LEMMA EndIsNewest ==
    ASSUME NEW s, NEW t, IsEnd(s, t)
    PROVE  s = Newest(t, Len(s))
<1>1. s \in Seq(Drags) /\ t \in Seq(Drags) /\ Len(s) \in Nat /\ Len(t) \in Nat
  BY DEF IsEnd
<1>2. IsEnd(Newest(t, Len(s)), t) /\ Len(Newest(t, Len(s))) = Len(s)
  BY <1>1, NewestIsEnd DEF IsEnd
<1> DEFINE u == Newest(t, Len(s))
<1>3. u \in Seq(Drags) /\ Len(u) = Len(s) /\ \A i \in 1..Len(s) : u[i] = s[i]
  BY <1>2 DEF IsEnd
<1> HIDE DEF u
<1>4. u = s
  BY <1>1, <1>3
<1> QED BY <1>4 DEF u

LEMMA EndOfEnd ==
    ASSUME NEW s, NEW t, NEW u, IsEnd(s, t), IsEnd(t, u)
    PROVE  IsEnd(s, u)
BY DEF IsEnd

LEMMA EndAppended ==
    ASSUME NEW s, NEW t, IsEnd(s, t), NEW d \in Drags
    PROVE  IsEnd(Append(s, d), Append(t, d))
BY DEF IsEnd

\* Whatever is cleaned away, an end of the history is left.
LEMMA CleanedIsEnd ==
    ASSUME NEW s \in Seq(Drags), NEW kept \in Cleaned(s)
    PROVE  IsEnd(kept, s)
<1>1. IsEnd(s, s)
  BY DEF IsEnd
<1>2. ASSUME NEW n \in 0..Len(s) PROVE IsEnd(Newest(s, n), s)
  BY NewestIsEnd
<1>3. Len(s) - Len(s) \div 2 \in 0..Len(s)
  OBVIOUS
<1> QED BY <1>1, <1>2, <1>3 DEF Cleaned, Unexpired, HalfKept

\* LearnsFromTheLatest, for any limits and any number of drags: what
\* _load_success_history reads is the newest end of what was ever saved, whatever
\* was cut off, expired, halved or torn by a crash.
THEOREM HistoryIsLatest == HistorySpec => []LearnsFromTheLatest
<1>1. HistoryInit => HistoryInv
  BY HistoryAssumption DEF HistoryInit, HistoryInv, IsEnd
<1>2. ASSUME HistoryInv, HistoryNext PROVE HistoryInv'
  <2>1. CASE Learn
    <3>1. /\ successes # Torn /\ successes' \in Cleaned(successes) /\ UNCHANGED <<drags, good>>
          /\ IsEnd(successes, good) /\ Len(successes) <= SuccessLimit
      BY <1>2, <2>1 DEF Learn, HistoryInv
    <3>2. IsEnd(successes', successes)
      BY <3>1, CleanedIsEnd DEF IsEnd
    <3>3. IsEnd(successes', good)
      BY <3>1, <3>2, EndOfEnd
    <3>4. Len(successes') <= SuccessLimit
      BY <3>1, <3>2, HistoryAssumption DEF IsEnd
    <3> QED BY <1>2, <3>1, <3>3, <3>4 DEF HistoryInv
  <2>2. CASE SaveSuccess
    <3> DEFINE before == IF successes = Torn THEN << >> ELSE good
    <3>1. PICK kept \in LoadSuccesses : successes' = Newest(Append(kept, drags + 1), SuccessLimit)
      BY <2>2 DEF SaveSuccess
    <3>2. /\ good' = Append(before, drags + 1) /\ drags' = drags + 1 /\ drags < MaxDrags
          /\ before \in Seq(Drags) /\ SuccessLimit \in Nat
      BY <1>2, <2>2, HistoryAssumption DEF SaveSuccess, HistoryInv
    <3>7. drags + 1 \in Drags
      BY <1>2, <3>2, HistoryAssumption DEF HistoryInv, Drags
    <3>3. IsEnd(kept, before)
      <4>1. CASE successes = Torn
        BY <4>1 DEF LoadSuccesses, IsEnd
      <4>2. CASE successes # Torn
        <5>1. IsEnd(successes, good) /\ kept \in Cleaned(successes)
          BY <1>2, <4>2 DEF HistoryInv, LoadSuccesses
        <5>2. IsEnd(kept, successes)
          BY <5>1, CleanedIsEnd DEF IsEnd
        <5> QED BY <4>2, <5>1, <5>2, EndOfEnd
      <4> QED BY <4>1, <4>2
    <3> HIDE DEF before
    <3>4. IsEnd(Append(kept, drags + 1), good')
      BY <3>2, <3>3, <3>7, EndAppended
    <3>5. IsEnd(successes', Append(kept, drags + 1)) /\ Len(successes') <= SuccessLimit
      <4>1. Append(kept, drags + 1) \in Seq(Drags)
        BY <3>4 DEF IsEnd
      <4> QED BY <3>1, <3>2, <4>1, NewestIsEnd
    <3>6. IsEnd(successes', good')
      BY <3>4, <3>5, EndOfEnd
    <3>8. good' \in Seq(Drags) /\ drags' \in 0..MaxDrags
      BY <3>2, <3>7, HistoryAssumption DEF Drags
    <3> QED BY <3>5, <3>6, <3>8 DEF HistoryInv
  <2>3. CASE SaveFailure \/ TimePasses
    BY <1>2, <2>3, HistoryAssumption DEF SaveFailure, TimePasses, HistoryInv
  <2>4. CASE Crash
    BY <1>2, <2>4 DEF Crash, HistoryInv
  <2> QED BY <1>2, <2>1, <2>2, <2>3, <2>4 DEF HistoryNext
<1>3. HistoryInv /\ UNCHANGED historyVars => HistoryInv'
  BY DEF HistoryInv, historyVars
<1>4. HistoryInv => LearnsFromTheLatest
  BY EndIsNewest DEF HistoryInv, LearnsFromTheLatest
<1> QED BY <1>1, <1>2, <1>3, <1>4, PTL DEF HistorySpec

-----------------------------------------------------------------------------
\* SliderSolve

AttemptResult == [attempt : Nat, success : BOOLEAN]

SolveTypeOK ==
    /\ pc \in {"idle", "top", "reset", "find", "findContainer", "findButton", "findButtonElsewhere", "findTrack",
               "findTrackElsewhere", "validate", "missing", "measure", "plan", "approach", "glide", "check",
               "check2", "check3", "failure", "changed", "refused", "cookies", "done"}
    /\ call \in Nat /\ attempt \in Nat
    /\ refreshMode \in BOOLEAN /\ baseline \in BOOLEAN
    /\ feedback \in [call : Nat, attempt : Nat,
                     says : {"nothing", "passed", "login", "refused", "missing", "pending"}]
    /\ drag \in [call : Nat, attempt : Nat, verdict : {"none", "accepted", "refused"}]
    /\ recorded \in Seq(AttemptResult)

\* While a call runs it has no outcome, and only failures of earlier attempts
\* are in the statistics.
Underway ==
    pc # "idle" =>
        /\ outcome = "none" /\ call >= 1 /\ attempt >= 1
        /\ \A i \in 1..Len(recorded) : recorded[i].attempt < attempt /\ ~recorded[i].success

Ascending == \A i, j \in 1..Len(recorded) : i < j => recorded[i].attempt < recorded[j].attempt

SuccessIsLast ==
    /\ \A i \in 1..Len(recorded) : recorded[i].success => i = Len(recorded)
    /\ outcome = "true" <=> \E i \in 1..Len(recorded) : recorded[i].success

\* From the plan on, the object describes the drag of this attempt, without a verdict.
AfterPlan == {"approach", "glide", "check", "check2", "check3", "failure", "changed", "refused", "cookies", "done"}
DragIsOwn == pc \in AfterPlan => drag = ThisDrag

\* Once all elements are found, the remembered frame is the one this attempt
\* found them in; once the verdict is told, it is this attempt's.
VerdictIsOwn ==
    /\ pc \in {"measure", "plan"} \cup AfterPlan => remembered.by = <<call, attempt>>
    /\ pc = "cookies" => /\ feedback.call = call /\ feedback.attempt = attempt
                         /\ feedback.says \in {"passed", "login"}
    /\ pc = "done" => OwnVerdict

SolveInv ==
    SolveTypeOK /\ Underway /\ Ascending /\ SuccessIsLast /\ DragIsOwn /\ VerdictIsOwn
        /\ SuccessIsItsOwn /\ LearnsFromItsOwnDrag

-----------------------------------------------------------------------------
LEMMA SolveInitInv == SolveInit => SolveInv
<1> SUFFICES ASSUME SolveInit PROVE SolveInv
  OBVIOUS
<1>1. recorded = << >> /\ Len(recorded) = 0 /\ recorded \in Seq(AttemptResult)
  BY DEF SolveInit
<1>2. SolveTypeOK
  BY <1>1 DEF SolveInit, SolveTypeOK, NoDrag
<1>3. Underway /\ Ascending /\ SuccessIsLast
  BY <1>1 DEF SolveInit, Underway, Ascending, SuccessIsLast
<1>4. DragIsOwn /\ VerdictIsOwn /\ SuccessIsItsOwn /\ LearnsFromItsOwnDrag
  BY DEF SolveInit, DragIsOwn, VerdictIsOwn, SuccessIsItsOwn, LearnsFromItsOwnDrag, AfterPlan
<1> QED BY <1>2, <1>3, <1>4 DEF SolveInv

LEMMA ResultType ==
    ASSUME recorded \in Seq(AttemptResult), NEW i \in 1..Len(recorded)
    PROVE  recorded[i].attempt \in Nat
<1>1. recorded[i] \in AttemptResult
  OBVIOUS
<1> QED BY <1>1 DEF AttemptResult

\* One more result in the statistics
LEMMA ResultAppended ==
    ASSUME recorded \in Seq(AttemptResult), NEW r \in AttemptResult, recorded' = Append(recorded, r)
    PROVE  /\ recorded' \in Seq(AttemptResult) /\ Len(recorded) \in Nat
           /\ Len(recorded') = Len(recorded) + 1 /\ recorded'[Len(recorded) + 1] = r
           /\ \A i \in 1..Len(recorded) : recorded'[i] = recorded[i]
OBVIOUS

\* The last step of a call that succeeds
LEMMA FinalizeInv ==
    ASSUME SolveInv, pc # "idle", Finalize, UNCHANGED <<call, refreshMode, baseline>>,
           feedback' \in [call : Nat, attempt : Nat,
                         says : {"nothing", "passed", "login", "refused", "missing", "pending"}],
           OwnVerdict', ~refreshMode => drag = ThisDrag
    PROVE  SolveInv'
<1>1. /\ SolveTypeOK /\ Underway /\ Ascending
      /\ pc' = "idle" /\ outcome' = "true" /\ attempt' = attempt /\ learnt' = drag.verdict
      /\ call' = call /\ refreshMode' = refreshMode /\ baseline' = baseline
  BY DEF SolveInv, Finalize, Return
<1> DEFINE r == [attempt |-> attempt, success |-> TRUE]
<1>2. r \in AttemptResult /\ r.attempt = attempt /\ r.success
  BY <1>1 DEF SolveTypeOK, AttemptResult
<1>3. recorded' = Append(recorded, r)
  BY DEF Finalize
<1> HIDE DEF r
<1>4. /\ recorded' \in Seq(AttemptResult) /\ Len(recorded) \in Nat
      /\ Len(recorded') = Len(recorded) + 1 /\ recorded'[Len(recorded) + 1] = r
      /\ \A i \in 1..Len(recorded) : recorded'[i] = recorded[i]
  BY <1>1, <1>2, <1>3, ResultAppended DEF SolveTypeOK
<1>5. drag' \in [call : Nat, attempt : Nat, verdict : {"none", "accepted", "refused"}]
      /\ drag'.call = drag.call /\ drag'.attempt = drag.attempt
  BY <1>1 DEF SolveTypeOK, Finalize
<1>6. SolveTypeOK' /\ Underway' /\ DragIsOwn' /\ VerdictIsOwn'
  BY <1>1, <1>4, <1>5 DEF SolveTypeOK, Underway, DragIsOwn, VerdictIsOwn, AfterPlan
<1>7. \A i \in 1..Len(recorded) : recorded[i].attempt < attempt /\ ~recorded[i].success
  BY <1>1 DEF Underway
<1>8. Ascending'
  <2>1. \A i \in 1..Len(recorded) : recorded[i].attempt \in Nat
    BY <1>1, ResultType DEF SolveTypeOK
  <2> SUFFICES ASSUME NEW i \in 1..Len(recorded'), NEW j \in 1..Len(recorded'), i < j
               PROVE  recorded'[i].attempt < recorded'[j].attempt
    BY DEF Ascending
  <2>2. i \in 1..Len(recorded)
    BY <1>4
  <2>3. CASE j = Len(recorded) + 1
    BY <1>2, <1>4, <1>7, <2>2, <2>3
  <2>4. CASE j # Len(recorded) + 1
    BY <1>1, <1>4, <2>2, <2>4 DEF Ascending
  <2> QED BY <2>3, <2>4
<1>9. SuccessIsLast'
  BY <1>1, <1>2, <1>4, <1>7 DEF SuccessIsLast
<1>10. SuccessIsItsOwn' /\ LearnsFromItsOwnDrag'
  BY <1>1, <1>5 DEF SuccessIsItsOwn, LearnsFromItsOwnDrag, ThisDrag
<1> QED BY <1>6, <1>8, <1>9, <1>10 DEF SolveInv

\* A refused drag, and the next attempt or the end
LEMMA FailsInv ==
    ASSUME SolveInv, pc # "idle", Fails, UNCHANGED <<call, refreshMode, baseline>>
    PROVE  SolveInv'
<1>1. /\ SolveTypeOK /\ Underway /\ Ascending
      /\ call' = call /\ refreshMode' = refreshMode /\ baseline' = baseline
      /\ \/ pc' = "top" /\ attempt' = attempt + 1 /\ outcome' = outcome
         \/ pc' = "idle" /\ attempt' = attempt /\ outcome' = "false"
  BY DEF SolveInv, Fails, NextAttempt, Return
<1> DEFINE r == [attempt |-> attempt, success |-> FALSE]
<1>2. r \in AttemptResult /\ r.attempt = attempt /\ ~r.success
  BY <1>1 DEF SolveTypeOK, AttemptResult
<1>3. recorded' = Append(recorded, r)
  BY DEF Fails, RecordFailure
<1> HIDE DEF r
<1>4. /\ recorded' \in Seq(AttemptResult) /\ Len(recorded) \in Nat
      /\ Len(recorded') = Len(recorded) + 1 /\ recorded'[Len(recorded) + 1] = r
      /\ \A i \in 1..Len(recorded) : recorded'[i] = recorded[i]
  BY <1>1, <1>2, <1>3, ResultAppended DEF SolveTypeOK
<1>5. drag' \in [call : Nat, attempt : Nat, verdict : {"none", "accepted", "refused"}]
  BY <1>1 DEF SolveTypeOK, Fails, RecordFailure
<1>6. SolveTypeOK' /\ DragIsOwn' /\ VerdictIsOwn'
  BY <1>1, <1>4, <1>5 DEF SolveTypeOK, DragIsOwn, VerdictIsOwn, AfterPlan, Fails
<1>7. \A i \in 1..Len(recorded) : recorded[i].attempt < attempt /\ ~recorded[i].success
  BY <1>1 DEF Underway
<1>8. Ascending'
  <2>1. \A i \in 1..Len(recorded) : recorded[i].attempt \in Nat
    BY <1>1, ResultType DEF SolveTypeOK
  <2> SUFFICES ASSUME NEW i \in 1..Len(recorded'), NEW j \in 1..Len(recorded'), i < j
               PROVE  recorded'[i].attempt < recorded'[j].attempt
    BY DEF Ascending
  <2>2. i \in 1..Len(recorded)
    BY <1>4
  <2>3. CASE j = Len(recorded) + 1
    BY <1>2, <1>4, <1>7, <2>2, <2>3
  <2>4. CASE j # Len(recorded) + 1
    BY <1>1, <1>4, <2>2, <2>4 DEF Ascending
  <2> QED BY <2>3, <2>4
<1>9. \A i \in 1..Len(recorded') : recorded'[i].attempt < attempt + 1 /\ ~recorded'[i].success
  <2>1. \A i \in 1..Len(recorded) : recorded[i].attempt \in Nat
    BY <1>1, ResultType DEF SolveTypeOK
  <2> SUFFICES ASSUME NEW i \in 1..Len(recorded')
               PROVE  recorded'[i].attempt < attempt + 1 /\ ~recorded'[i].success
    OBVIOUS
  <2>2. CASE i = Len(recorded) + 1
    BY <1>1, <1>2, <1>4, <2>2 DEF SolveTypeOK
  <2>3. CASE i # Len(recorded) + 1
    <3>1. i \in 1..Len(recorded)
      BY <1>4, <2>3
    <3> QED BY <1>1, <1>4, <1>7, <2>1, <3>1 DEF SolveTypeOK
  <2> QED BY <2>2, <2>3
<1>10. Underway' /\ SuccessIsLast'
  BY <1>1, <1>9 DEF Underway, SuccessIsLast, SolveTypeOK
<1>11. SuccessIsItsOwn' /\ LearnsFromItsOwnDrag'
  BY <1>1 DEF SuccessIsItsOwn, LearnsFromItsOwnDrag, Underway
<1> QED BY <1>6, <1>8, <1>10, <1>11 DEF SolveInv

\* A step inside an attempt, to the next one or to the end without success:
\* nothing is counted.
LEMMA UncountedInv ==
    ASSUME SolveInv, pc # "idle", SolveTypeOK', UNCHANGED <<call, refreshMode, baseline, recorded, learnt>>,
           \/ pc' # "idle" /\ UNCHANGED <<attempt, outcome>>
           \/ pc' = "top" /\ attempt' = attempt + 1 /\ UNCHANGED outcome
           \/ pc' = "idle" /\ attempt' = attempt /\ outcome' = "false",
           DragIsOwn', VerdictIsOwn'
    PROVE  SolveInv'
<1>1. SolveTypeOK /\ Underway /\ Ascending
  BY DEF SolveInv
<1>2. \A i \in 1..Len(recorded) : /\ recorded[i].attempt \in Nat
                                  /\ recorded[i].attempt < attempt /\ ~recorded[i].success
  BY <1>1, ResultType DEF Underway, SolveTypeOK
<1>3. Underway' /\ SuccessIsLast'
  BY <1>1, <1>2 DEF Underway, SuccessIsLast, SolveTypeOK
<1>4. Ascending'
  BY <1>1 DEF Ascending
<1>5. outcome' # "true"
  BY <1>1 DEF Underway
<1>6. SuccessIsItsOwn' /\ LearnsFromItsOwnDrag'
  BY <1>5 DEF SuccessIsItsOwn, LearnsFromItsOwnDrag
<1> QED BY <1>3, <1>4, <1>6 DEF SolveInv

\* Every action counts nothing, or counts through one of the two above.
LEMMA SolveStepInv == ASSUME SolveInv, SolveStep PROVE SolveInv'
<1> USE DEF AfterPlan
<1>0. /\ SolveTypeOK /\ DragIsOwn /\ VerdictIsOwn /\ (pc # "idle" => attempt >= 1 /\ call >= 1)
  BY DEF SolveInv, Underway
<1>1. CASE Look
  <2>1. SolveTypeOK' /\ DragIsOwn' /\ VerdictIsOwn'
    BY <1>0, <1>1 DEF SolveTypeOK, DragIsOwn, VerdictIsOwn, ThisDrag, Look, Return
  <2> QED BY <1>0, <1>1, <2>1, UncountedInv DEF Look, Return
<1>2. CASE Reset
  <2>1. SolveTypeOK' /\ DragIsOwn' /\ VerdictIsOwn'
    BY <1>0, <1>2 DEF SolveTypeOK, DragIsOwn, VerdictIsOwn, ThisDrag, Reset
  <2> QED BY <1>0, <1>2, <2>1, UncountedInv DEF Reset
<1>3. CASE FindTogether
  <2>1. SolveTypeOK' /\ DragIsOwn' /\ VerdictIsOwn'
    BY <1>0, <1>3 DEF SolveTypeOK, DragIsOwn, VerdictIsOwn, ThisDrag, FindTogether, Remember, Sighting, Searching
  <2> QED BY <1>0, <1>3, <2>1, UncountedInv DEF FindTogether, Searching
<1>4. CASE FindContainer
  <2>1. SolveTypeOK' /\ DragIsOwn' /\ VerdictIsOwn'
    BY <1>0, <1>4 DEF SolveTypeOK, DragIsOwn, VerdictIsOwn, ThisDrag, FindContainer, Searching
  <2> QED BY <1>0, <1>4, <2>1, UncountedInv DEF FindContainer, Searching
<1>5. CASE FindButton
  <2>1. SolveTypeOK' /\ DragIsOwn' /\ VerdictIsOwn'
    BY <1>0, <1>5 DEF SolveTypeOK, DragIsOwn, VerdictIsOwn, ThisDrag, FindButton, Searching
  <2> QED BY <1>0, <1>5, <2>1, UncountedInv DEF FindButton, Searching
<1>6. CASE FindButtonElsewhere
  <2>1. SolveTypeOK' /\ DragIsOwn' /\ VerdictIsOwn'
    BY <1>0, <1>6 DEF SolveTypeOK, DragIsOwn, VerdictIsOwn, ThisDrag, FindButtonElsewhere, Searching
  <2> QED BY <1>0, <1>6, <2>1, UncountedInv DEF FindButtonElsewhere, Searching
<1>7. CASE FindTrack
  <2>1. SolveTypeOK' /\ DragIsOwn' /\ VerdictIsOwn'
    BY <1>0, <1>7 DEF SolveTypeOK, DragIsOwn, VerdictIsOwn, ThisDrag, FindTrack, Searching
  <2> QED BY <1>0, <1>7, <2>1, UncountedInv DEF FindTrack, Searching
<1>8. CASE FindTrackElsewhere
  <2>1. SolveTypeOK' /\ DragIsOwn' /\ VerdictIsOwn'
    BY <1>0, <1>8 DEF SolveTypeOK, DragIsOwn, VerdictIsOwn, ThisDrag, FindTrackElsewhere, Searching
  <2> QED BY <1>0, <1>8, <2>1, UncountedInv DEF FindTrackElsewhere, Searching
<1>9. CASE Validate
  <2>1. SolveTypeOK' /\ DragIsOwn' /\ VerdictIsOwn'
    BY <1>0, <1>9 DEF SolveTypeOK, DragIsOwn, VerdictIsOwn, ThisDrag, Validate, Remember, Sighting, Searching
  <2> QED BY <1>0, <1>9, <2>1, UncountedInv DEF Validate, Searching
<1>10. CASE Measure
  <2>1. SolveTypeOK' /\ DragIsOwn' /\ VerdictIsOwn'
    BY <1>0, <1>10 DEF SolveTypeOK, DragIsOwn, VerdictIsOwn, ThisDrag, Measure, NextAttempt, Return
  <2> QED BY <1>0, <1>10, <2>1, UncountedInv DEF Measure, NextAttempt, Return
<1>11. CASE Plan
  <2>1. SolveTypeOK' /\ DragIsOwn' /\ VerdictIsOwn'
    BY <1>0, <1>11 DEF SolveTypeOK, DragIsOwn, VerdictIsOwn, ThisDrag, Plan, NextAttempt, Return, Dragging
  <2> QED BY <1>0, <1>11, <2>1, UncountedInv DEF Plan, NextAttempt, Return, Dragging
<1>12. CASE Approach
  <2>1. SolveTypeOK' /\ DragIsOwn' /\ VerdictIsOwn'
    BY <1>0, <1>12 DEF SolveTypeOK, DragIsOwn, VerdictIsOwn, ThisDrag, Approach, NextAttempt, Return, Dragging
  <2> QED BY <1>0, <1>12, <2>1, UncountedInv DEF Approach, NextAttempt, Return, Dragging
<1>13. CASE Glide
  <2>1. SolveTypeOK' /\ DragIsOwn' /\ VerdictIsOwn'
    BY <1>0, <1>13 DEF SolveTypeOK, DragIsOwn, VerdictIsOwn, ThisDrag, Glide, NextAttempt, Return, Dragging
  <2> QED BY <1>0, <1>13, <2>1, UncountedInv DEF Glide, NextAttempt, Return, Dragging
<1>14. CASE ContainerLook
  <2>1. SolveTypeOK' /\ DragIsOwn' /\ VerdictIsOwn'
    BY <1>0, <1>14 DEF SolveTypeOK, DragIsOwn, VerdictIsOwn, OwnVerdict, ThisDrag, ContainerLook, Says, Accept, GoOn, Checking
  <2> QED BY <1>0, <1>14, <2>1, UncountedInv DEF ContainerLook, Accept, GoOn, Checking
<1>15. CASE FailureLook
  <2>1. SolveTypeOK' /\ DragIsOwn' /\ VerdictIsOwn'
    BY <1>0, <1>15 DEF SolveTypeOK, DragIsOwn, VerdictIsOwn, ThisDrag, FailureLook, Says, GoOn, Checking
  <2> QED BY <1>0, <1>15, <2>1, UncountedInv DEF FailureLook, GoOn, Checking
<1>16. CASE PageLook
  <2>1. SolveTypeOK' /\ DragIsOwn' /\ VerdictIsOwn'
    BY <1>0, <1>16 DEF SolveTypeOK, DragIsOwn, VerdictIsOwn, OwnVerdict, ThisDrag, PageLook, Says, ConfirmLogin, Accept, GoOn, Checking
  <2> QED BY <1>0, <1>16, <2>1, UncountedInv DEF PageLook, Accept, GoOn, Checking
<1>17. CASE Raises
  <2>1. SolveTypeOK' /\ DragIsOwn' /\ VerdictIsOwn'
    BY <1>0, <1>17 DEF SolveTypeOK, DragIsOwn, VerdictIsOwn, ThisDrag, Raises, Raising, NextAttempt, Return
  <2> QED BY <1>0, <1>17, <2>1, UncountedInv DEF Raises, Raising, NextAttempt, Return
<1>18. CASE Missing
  <2>1. CASE ConfirmLogin /\ Finalize
    <3>1. OwnVerdict' /\ feedback' = [call |-> call, attempt |-> attempt, says |-> "login"]
      BY <1>0, <1>18, <2>1 DEF Missing, ConfirmLogin, Says, Finalize, Return, OwnVerdict
    <3> QED BY <1>0, <1>18, <2>1, <3>1, FinalizeInv DEF Missing, ConfirmLogin, SolveTypeOK
  <2>2. CASE Says("missing") /\ Return("false") /\ UNCHANGED <<drag, recorded, learnt>>
    <3>1. SolveTypeOK' /\ DragIsOwn' /\ VerdictIsOwn'
      BY <1>0, <1>18, <2>2 DEF SolveTypeOK, DragIsOwn, VerdictIsOwn, Missing, Return, Says
    <3> QED BY <1>18, <2>2, <3>1, UncountedInv DEF Missing, Return
  <2> QED BY <1>18, <2>1, <2>2 DEF Missing
<1>19. CASE Refused
  <2>1. CASE ConfirmLogin /\ Accept
    <3>1. SolveTypeOK' /\ DragIsOwn' /\ VerdictIsOwn'
      BY <1>0, <1>19, <2>1 DEF SolveTypeOK, DragIsOwn, VerdictIsOwn, OwnVerdict, ThisDrag, Refused, Says, ConfirmLogin, Accept, GoOn, Checking
    <3> QED BY <1>19, <2>1, <3>1, UncountedInv DEF Refused, Accept, GoOn, Checking
  <2>2. CASE Fails
    BY <1>19, <2>2, FailsInv DEF Refused, Checking
  <2> QED BY <1>19, <2>1, <2>2 DEF Refused
<1>20. CASE AwaitCookies
  <2>1. CASE /\ GoOn("done")
             /\ \/ refreshed' = TRUE /\ UNCHANGED feedback
                \/ ConfirmLogin \/ SoftSuccess
    <3>1. SolveTypeOK' /\ DragIsOwn'
      BY <1>0, <1>20, <2>1 DEF SolveTypeOK, DragIsOwn, ThisDrag, AwaitCookies, GoOn, Checking, ConfirmLogin, Says, SoftSuccess
    <3>2. OwnVerdict'
      BY <1>0, <1>20, <2>1 DEF SolveTypeOK, VerdictIsOwn, OwnVerdict, AwaitCookies, GoOn, Checking, ConfirmLogin, Says, SoftSuccess
    <3>3. VerdictIsOwn'
      BY <1>0, <1>20, <3>2, <2>1 DEF VerdictIsOwn, AwaitCookies, GoOn, Checking
    <3> QED BY <1>20, <2>1, <3>1, <3>3, UncountedInv DEF AwaitCookies, GoOn, Checking
  <2>2. CASE Fails
    BY <1>20, <2>2, FailsInv DEF AwaitCookies, Checking
  <2> QED BY <1>20, <2>1, <2>2 DEF AwaitCookies
<1>21. CASE Succeed
  <2>1. drag = ThisDrag /\ OwnVerdict
    BY <1>0, <1>21 DEF DragIsOwn, VerdictIsOwn, Succeed
  <2>2. OwnVerdict'
    BY <1>21, <2>1 DEF Succeed, Checking, Finalize, Return, OwnVerdict
  <2> QED BY <1>0, <1>21, <2>1, <2>2, FinalizeInv DEF Succeed, Checking, SolveTypeOK
<1> QED
  BY <1>1, <1>2, <1>3, <1>4, <1>5, <1>6, <1>7, <1>8, <1>9, <1>10, <1>11, <1>12, <1>13, <1>14, <1>15, <1>16, <1>17, <1>18, <1>19, <1>20, <1>21 DEF SolveStep

LEMMA SolveNextInv == SolveInv /\ [SolveNext]_solveVars => SolveInv'
<1> SUFFICES ASSUME SolveInv, [SolveNext]_solveVars PROVE SolveInv'
  OBVIOUS
<1> USE DEF SolveInv, SolveTypeOK, Underway, Ascending, SuccessIsLast, DragIsOwn, VerdictIsOwn, OwnVerdict,
            SuccessIsItsOwn, LearnsFromItsOwnDrag, AfterPlan, ThisDrag
<1>1. CASE Begin
  BY <1>1 DEF Begin
<1>2. CASE PageMoves
  BY <1>2 DEF PageMoves
<1>3. CASE UNCHANGED solveVars
  BY <1>3 DEF solveVars
<1> QED BY <1>1, <1>2, <1>3, SolveStepInv DEF SolveNext

\* The strengthening of the three properties of solve_slider holds always.
LEMMA SolveInvariant == SolveSpec => []SolveInv
BY SolveInitInv, SolveNextInv, PTL DEF SolveSpec

\* OneRecordPerAttempt, for any number of attempts: whichever way an attempt of
\* solve_slider ends, by a success, a refusal, a missing element or an
\* exception, it is counted once; a success is counted last, and exactly in the
\* calls that return True.
THEOREM CountedOnce == SolveSpec => []OneRecordPerAttempt
<1>1. SolveInv => OneRecordPerAttempt
  <2> SUFFICES ASSUME SolveInv PROVE OneRecordPerAttempt
    OBVIOUS
  <2>1. ASSUME NEW i \in 1..Len(recorded), NEW j \in 1..Len(recorded), recorded[i].attempt = recorded[j].attempt
        PROVE  i = j
    <3>1. recorded[i].attempt \in Nat /\ recorded[j].attempt \in Nat
      BY ResultType DEF SolveInv, SolveTypeOK
    <3>2. ~(i < j) /\ ~(j < i)
      BY <2>1, <3>1 DEF SolveInv, Ascending
    <3> QED BY <3>2
  <2> QED BY <2>1 DEF SolveInv, SuccessIsLast, OneRecordPerAttempt
<1> QED BY <1>1, SolveInvariant, PTL

\* SuccessIsItsOwn, for any number of attempts, calls and frames: solve_slider says
\* yes only on a look of the attempt that says it, at the frame where that attempt
\* found the slider, or on a login found valid; and with cookies to compare, the
\* page's plain word is never enough.
THEOREM SuccessOwned == SolveSpec => []SuccessIsItsOwn
<1>1. SolveInv => SuccessIsItsOwn
  BY DEF SolveInv
<1> QED BY <1>1, SolveInvariant, PTL

\* LearnsFromItsOwnDrag: outside refresh mode, the drag a success saves is that of
\* its own attempt, although the object keeps the drags of earlier attempts and
\* calls.
THEOREM OwnDragLearnt == SolveSpec => []LearnsFromItsOwnDrag
<1>1. SolveInv => LearnsFromItsOwnDrag
  BY DEF SolveInv
<1> QED BY <1>1, SolveInvariant, PTL
=============================================================================
