---------------------------- MODULE WindowProofs ----------------------------
(***************************************************************************)
(* Proofs about the observation window, for any number of nodes, any       *)
(* counters and any number of troubles.                                    *)
(***************************************************************************)
EXTENDS TrafficWindow, SamplingProofs

-----------------------------------------------------------------------------
(* The invariant *)

\* What the counters and the clock of an interval are.
CountersTyped ==
  /\ scenario \in Scenarios
  /\ rate \in scenario.rates /\ gain \in scenario.gains
  /\ from \in (IF gain = 0 THEN {0} ELSE 1..(Rounds - 2))
  /\ round \in 0..Rounds /\ counted \in SUBSET Nodes /\ synced \in BOOLEAN
  /\ used = [n \in Nodes |-> Start[n] + round * rate[n] + (IF n \in counted THEN rate[n] ELSE 0)]
  /\ merged \in Nat /\ merged <= SumAll(used) /\ master \in Nat
  /\ quota \in scenario.quotas /\ enabled \in BOOLEAN /\ overSince \in -1..round
  /\ changes \in 0..scenario.changes /\ trouble \in 0..scenario.trouble

Sampled(p) == round + (IF p \in pending THEN 0 ELSE 1)

Observations == [at : Int, used : Nat, enabled : BOOLEAN]

\* What was observed of a panel: everything, or it is said that something is missing.
SeriesTyped ==
  /\ pending \in SUBSET Panels
  /\ series \in [Panels -> Seq(Observations)]
  /\ DOMAIN listed = Panels /\ DOMAIN obs = Panels
  /\ \A p \in Panels :
       /\ Len(series[p]) <= Sampled(p)
       /\ obs[p] = {} => Len(series[p]) = Sampled(p)
       /\ obs[p] # {} => \E o \in obs[p] : o.sev = "inconclusive"
       /\ \A total \in listed[p] : total \in Nat /\ listed[p] = {total}
       /\ obs[p] = {} /\ Sampled(p) > 0 => listed[p] # {}

\* The client on the master: over its quota since this round, and seen to be.
Overdue ==
  /\ overSince # -1 => quota # 0 /\ master >= quota
  /\ enabled => \A i \in DOMAIN series[Master] : series[Master][i].enabled
  /\ changes = 0 => listed[Master] \subseteq {quota}
  /\ changes <= 1 /\ overSince # -1 =>
       \A i \in DOMAIN series[Master] : i >= overSince + 2 =>
         \A total \in listed[Master] : total <= quota => series[Master][i].used >= total

GainAt(i) == IF i >= from THEN gain ELSE 0

\* What the nodes have counted after so many intervals of this traffic, and how far ahead of that the
\* master was when it was sampled.
After(r, i) == [n \in Nodes |-> Start[n] + i * r[n]]
Counts(r, i) == SumAll(After(r, i))
Ahead(i) == series[Master][i].used - Counts(rate, i)

\* A sample is of the interval it is taken in, and the master gets ahead by its gains
\* only.
InTime ==
  /\ \A p \in Panels : Len(series[p]) = Sampled(p) /\ (p \notin pending => synced)
  /\ \A n \in Nodes : \A i \in DOMAIN series[n] : series[n][i].used = After(rate, i)[n]
  /\ \A i \in 1..(Len(series[Master]) - 1) : Ahead(i + 1) = Ahead(i) + GainAt(i)

\* The same of the master as it is now.
Due == IF Master \in pending /\ synced THEN GainAt(round) ELSE 0
Lead == series[Master] # << >> => master - merged = Ahead(Len(series[Master])) + Due

\* Whatever comes early, the master has not yet taken over at most one interval's traffic.  As long as
\* nothing of it is lost, the observations of a panel are behind by this much.
Traffic == SumAll(rate)
MasterBehind ==
  LET now == IF synced THEN round + 1 ELSE round
  IN Counts(rate, now) - Traffic <= merged /\ merged <= Counts(rate, now)
NodeBehind ==
  \A n \in Nodes : obs[n] = {} => \A i \in DOMAIN series[n] :
    After(rate, i)[n] - rate[n] <= series[n][i].used /\ series[n][i].used <= After(rate, i)[n]
SeriesBehind ==
  gain = 0 /\ obs[Master] = {} => \A i \in DOMAIN series[Master] :
    LET taken == series[Master][i].used - (master - merged)
    IN Counts(rate, i) - 2 * Traffic <= taken /\ taken <= Counts(rate, i)

\* All this as long as nothing comes early or is lost.
Regular ==
  trouble = 0 => /\ synced => counted = Nodes
                 /\ merged = Counts(rate, IF synced THEN round + 1 ELSE round)
                 /\ InTime /\ Lead

WindowInv ==
  CountersTyped /\ SeriesTyped /\ Overdue /\ Regular /\ MasterBehind /\ NodeBehind /\ SeriesBehind

-----------------------------------------------------------------------------
(* Sums over the nodes *)

LEMMA SumIsTotal ==
  ASSUME NEW f \in [Nodes -> Nat]
  PROVE  SumAll(f) = Total(f) /\ SumAll(f) = PartSum(f, Nodes) /\ SumAll(f) \in Nat /\ Family(f, Nodes)
<1>1. Family(f, Nodes) /\ DOMAIN f = Nodes
  BY PanelsAssumption DEF Family
<1>2. SumAll(f) = PartSum(f, DOMAIN f)
  BY <1>1 DEF SumAll, MapThenSumSet, MapThenFoldSet, IsSum, SumIn, PartSum, Chosen
<1>3. Total(f) = PartSum(f, DOMAIN f)
  BY TotalIsSum
<1>4. Total(f) \in Nat
  BY <1>1, TotalType
<1> QED BY <1>1, <1>2, <1>3, <1>4

LEMMA SumAdd ==
  ASSUME NEW f \in [Nodes -> Nat], NEW n \in Nodes, NEW k \in Nat
  PROVE  /\ [f EXCEPT ![n] = @ + k] \in [Nodes -> Nat]
         /\ SumAll([f EXCEPT ![n] = @ + k]) = SumAll(f) + k
<1> DEFINE g == [f EXCEPT ![n] = @ + k]
<1>1. g \in [Nodes -> Nat] /\ g[n] = f[n] + k /\ f[n] \in Nat /\ \A x \in Nodes \ {n} : f[x] = g[x]
  OBVIOUS
<1> HIDE DEF g
<1>2. /\ Family(f, Nodes) /\ Family(g, Nodes)
      /\ SumAll(f) = PartSum(f, Nodes) /\ SumAll(g) = PartSum(g, Nodes)
  BY <1>1, SumIsTotal
<1>3. PartSum(f, Nodes) = f[n] + PartSum(f, Nodes \ {n}) /\ PartSum(g, Nodes) = g[n] + PartSum(g, Nodes \ {n})
  <2>1. Nodes \in SUBSET Nodes
    OBVIOUS
  <2> QED BY <1>2, <2>1, SumAny
<1>4. Nodes \ {n} \in SUBSET Nodes
  OBVIOUS
<1>5. PartSum(f, Nodes \ {n}) = PartSum(g, Nodes \ {n}) /\ PartSum(f, Nodes \ {n}) \in Nat
  BY <1>1, <1>2, <1>4, SumAgree, SumType
<1>6. SumAll(g) = SumAll(f) + k
  BY <1>1, <1>2, <1>3, <1>5
<1> QED BY <1>1, <1>6 DEF g

LEMMA Times ==
  /\ \A a, b \in Nat : a * b \in Nat /\ (a + 1) * b = a * b + b
  /\ \A a, b, c \in Nat : a <= c => a * b <= c * b
BY Z3

-----------------------------------------------------------------------------
(* The counters *)

LEMMA CountersAre ==
  ASSUME CountersTyped
  PROVE  /\ rate \in [Nodes -> Nat] /\ gain \in Nat /\ quota \in Nat /\ round \in Nat /\ round <= 5
         /\ used \in [Nodes -> Nat] /\ SumAll(used) \in Nat
         /\ scenario.changes \in Nat /\ scenario.trouble \in Nat
<1> USE DEF CountersTyped
<1>1. /\ rate \in [Nodes -> Nat] /\ gain \in Nat /\ quota \in Nat
      /\ scenario.changes \in Nat /\ scenario.trouble \in Nat
  BY CountsAssumption
<1>2. round \in Nat /\ round <= 5
  BY DEF Rounds
<1>3. used \in [Nodes -> Nat]
  <2>1. \A n \in Nodes : round * rate[n] \in Nat
    BY <1>1, <1>2, Times
  <2>2. \A n \in Nodes : Start[n] + round * rate[n] + (IF n \in counted THEN rate[n] ELSE 0) \in Nat
    BY <1>1, <2>1, CountsAssumption
  <2> QED BY <2>2
<1>4. SumAll(used) \in Nat
  BY <1>3, SumIsTotal
<1> QED BY <1>1, <1>2, <1>3, <1>4

LEMMA OverSinceIs ==
  ASSUME CountersTyped, NEW counter \in Int, NEW limit \in Nat
  PROVE  /\ OverSince(counter, limit) \in {-1, overSince, round}
         /\ OverSince(counter, limit) # -1 => limit # 0 /\ counter >= limit
         /\ OverSince(counter, limit) # -1 => \/ overSince = -1 /\ OverSince(counter, limit) = round
                                              \/ overSince # -1 /\ OverSince(counter, limit) = overSince
         /\ OverSince(counter, limit) \in -1..round
<1>1. overSince \in -1..round /\ round \in Nat
  BY CountersAre DEF CountersTyped
<1> QED BY <1>1 DEF OverSince

LEMMA CountersInit == Init => CountersTyped
<1> SUFFICES ASSUME Init PROVE CountersTyped
  OBVIOUS
<1> USE DEF Init
<1>1. SumAll(Start) \in Nat
  BY SumIsTotal, CountsAssumption
<1>2. PICK offset \in scenario.offsets : master = SumAll(Start) + offset
  OBVIOUS
<1>3. SumAll(Start) + offset \in Nat /\ scenario.gains \subseteq Nat /\ scenario.rates \subseteq [Nodes -> Nat]
      /\ scenario.changes \in Nat /\ scenario.trouble \in Nat
  BY CountsAssumption
<1>4. master \in Nat
  BY <1>2, <1>3
<1>5. used = [n \in Nodes |-> Start[n] + round * rate[n] + (IF n \in counted THEN rate[n] ELSE 0)]
  <2>1. Start \in [Nodes -> Nat] /\ rate \in [Nodes -> Nat]
    BY <1>3, CountsAssumption
  <2>2. \A n \in Nodes : Start[n] + 0 * rate[n] + 0 = Start[n]
    BY <2>1
  <2>3. used = [n \in Nodes |-> Start[n] + 0 * rate[n] + 0]
    BY <2>1, <2>2
  <2> QED BY <2>3
<1>6. overSince \in -1..round /\ round \in 0..Rounds
  BY DEF Rounds
<1>7. from \in (IF gain = 0 THEN {0} ELSE 1..(Rounds - 2))
  OBVIOUS
<1>8. merged \in Nat /\ merged <= SumAll(used)
  BY <1>1
<1>9. changes \in 0..scenario.changes /\ trouble \in 0..scenario.trouble
  BY <1>3
<1> QED BY <1>4, <1>5, <1>6, <1>7, <1>8, <1>9 DEF CountersTyped

LEMMA CostsIs ==
  ASSUME CountersTyped, NEW inTurn, Costs(inTurn), UNCHANGED scenario
  PROVE  /\ trouble' \in 0..scenario.trouble
         /\ trouble' = 0 => inTurn /\ trouble = 0
<1>1. trouble \in 0..scenario.trouble /\ scenario.trouble \in Nat
  BY CountersAre DEF CountersTyped
<1> QED BY <1>1 DEF Costs

\* What the actions leave alone.
Still == UNCHANGED <<scenario, rate, gain, from>>

LEMMA CountStep ==
  ASSUME CountersTyped, NEW n \in Nodes, Count(n)
  PROVE  CountersTyped'
<1> USE DEF CountersTyped, Count, run
<1>1. rate \in [Nodes -> Nat] /\ used \in [Nodes -> Nat] /\ SumAll(used) \in Nat /\ round \in Nat
  BY CountersAre
<1>2. used' = [used EXCEPT ![n] = @ + rate[n]] /\ rate[n] \in Nat
  BY <1>1
<1>3. SumAll(used)' = SumAll(used) + rate[n]
  <2>1. SumAll([used EXCEPT ![n] = @ + rate[n]]) = SumAll(used) + rate[n]
    BY <1>1, <1>2, SumAdd
  <2>2. SumAll(used)' = SumAll(used')
    OBVIOUS
  <2> QED BY <1>2, <2>1, <2>2
<1>4. merged' <= SumAll(used)'
  BY <1>1, <1>2, <1>3
<1>5. used' = [m \in Nodes |-> Start[m] + round * rate[m] + (IF m \in counted' THEN rate[m] ELSE 0)]
  <2>1. \A m \in Nodes : round * rate[m] \in Nat /\ Start[m] \in Nat
    BY <1>1, Times, CountsAssumption
  <2>2. \A m \in Nodes : used[m] = Start[m] + round * rate[m] + (IF m \in counted THEN rate[m] ELSE 0)
    OBVIOUS
  <2>3. \A m \in Nodes :
          used'[m] = Start[m] + round * rate[m] + (IF m \in counted' THEN rate[m] ELSE 0)
    <3> TAKE m \in Nodes
    <3>1. CASE m = n
      <4>1. used[n] = Start[n] + round * rate[n] + 0
        BY <2>2
      <4>2. used'[n] = used[n] + rate[n] /\ n \in counted'
        BY <1>1, <1>2
      <4> HIDE DEF CountersTyped, Count
      <4> QED BY <1>2, <2>1, <3>1, <4>1, <4>2
    <3>2. CASE m # n
      <4>1. used'[m] = used[m] /\ (m \in counted' <=> m \in counted)
        BY <1>1, <1>2, <3>2
      <4> QED BY <2>2, <4>1
    <3> QED BY <3>1, <3>2
  <2>4. used' = [m \in Nodes |-> used'[m]]
    BY <1>1, <1>2
  <2> HIDE DEF CountersTyped, Count
  <2> QED BY <2>3, <2>4
<1>6. used' = [m \in Nodes |-> Start[m] + round * rate[m] + (IF m \in counted THEN rate[m] ELSE 0)]'
  BY <1>5
<1>7. counted' \in SUBSET Nodes
  OBVIOUS
<1>8. UNCHANGED <<scenario, rate, gain, from, master, merged, quota, enabled, overSince, round, synced,
                  changes, trouble>>
  OBVIOUS
<1> HIDE DEF Count
<1> QED BY <1>4, <1>6, <1>7, <1>8

LEMMA SynchroniseStep ==
  ASSUME CountersTyped, Synchronise
  PROVE  CountersTyped'
<1> USE DEF Synchronise, run
<1>1. SumAll(used) \in Nat /\ gain \in Nat /\ merged \in Nat /\ master \in Nat /\ quota \in Nat
      /\ merged <= SumAll(used)
  BY CountersAre DEF CountersTyped
<1>2. merged' = SumAll(used) /\ SumAll(used)' = SumAll(used)
  OBVIOUS
<1>3. master' \in Nat
  BY <1>1
<1>4. overSince' \in -1..round
  BY <1>1, <1>3, OverSinceIs
<1>5. trouble' \in 0..scenario.trouble
  BY CostsIs
<1>6. UNCHANGED <<scenario, rate, gain, from, used, quota, enabled, round, counted, changes>> /\ synced'
  OBVIOUS
<1> HIDE DEF Synchronise
<1> QED BY <1>1, <1>2, <1>3, <1>4, <1>5, <1>6 DEF CountersTyped

LEMMA TickStep ==
  ASSUME CountersTyped, Tick
  PROVE  CountersTyped'
<1> USE DEF Tick, run
<1>1. rate \in [Nodes -> Nat] /\ used \in [Nodes -> Nat] /\ round \in Nat
  BY CountersAre
<1>2. used' = [n \in Nodes |-> Start[n] + round * rate[n] + (IF n \in counted THEN rate[n] ELSE 0)]'
  <2>1. \A n \in Nodes : /\ round * rate[n] \in Nat /\ Start[n] \in Nat /\ rate[n] \in Nat
                         /\ (round + 1) * rate[n] = round * rate[n] + rate[n]
    BY <1>1, Times, CountsAssumption
  <2>2. \A n \in Nodes : used[n] = Start[n] + round * rate[n] + rate[n]
    BY DEF CountersTyped
  <2>3. \A n \in Nodes : used[n] = Start[n] + (round + 1) * rate[n] + 0
    BY <2>1, <2>2
  <2>4. used = [n \in Nodes |-> Start[n] + (round + 1) * rate[n] + 0]
    <3>1. used = [n \in Nodes |-> used[n]]
      BY <1>1
    <3> HIDE DEF Tick
    <3> QED BY <2>3, <3>1
  <2> QED BY <2>4
<1>3. round' \in 0..Rounds /\ overSince' \in -1..round'
  BY <1>1 DEF CountersTyped, Rounds
<1>4. /\ UNCHANGED <<scenario, rate, gain, from, used, master, merged, quota, enabled, changes, trouble>>
      /\ counted' = {} /\ synced' = FALSE /\ SumAll(used)' = SumAll(used)
  OBVIOUS
<1> HIDE DEF Tick
<1> QED BY <1>2, <1>3, <1>4 DEF CountersTyped

LEMMA CountersStep ==
  ASSUME CountersTyped, [Next]_vars
  PROVE  CountersTyped'
<1>1. ASSUME NEW p \in Panels, Sample(p) \/ Lose(p) PROVE CountersTyped'
  <2>1. UNCHANGED <<scenario, rate, gain, from, used, master, merged, quota, enabled, overSince, round,
                    counted, synced, changes>>
    BY <1>1 DEF Sample, Lose, run
  <2>2. trouble' \in 0..scenario.trouble
    BY <1>1, <2>1, CostsIs DEF Sample, Lose
  <2>3. SumAll(used)' = SumAll(used)
    BY <2>1
  <2> QED BY <2>1, <2>2, <2>3 DEF CountersTyped
<1>2. CASE Disable \/ Finished \/ UNCHANGED vars
  <2>1. /\ UNCHANGED <<scenario, rate, gain, from, used, master, merged, quota, overSince, round,
                       counted, synced, changes, trouble>>
        /\ enabled' \in {enabled, FALSE}
    BY <1>2 DEF Disable, Finished, vars, run
  <2>2. SumAll(used)' = SumAll(used)
    BY <2>1
  <2> QED BY <2>1, <2>2 DEF CountersTyped
<1>3. CASE ChangeQuota
  <2> USE DEF ChangeQuota, run
  <2>1. UNCHANGED <<scenario, rate, gain, from, used, master, merged, enabled, round, counted, synced,
                    trouble>>
    BY <1>3
  <2>2. quota' \in scenario.quotas /\ quota' \in Nat /\ master \in Int
    BY <1>3, CountsAssumption DEF CountersTyped
  <2>3. overSince' \in -1..round
    BY <1>3, <2>2, OverSinceIs
  <2>4. changes' \in 0..scenario.changes
    BY <1>3, CountersAre DEF CountersTyped
  <2>5. SumAll(used)' = SumAll(used)
    BY <2>1
  <2> HIDE DEF ChangeQuota
  <2> QED BY <2>1, <2>2, <2>3, <2>4, <2>5 DEF CountersTyped
<1> QED BY <1>1, <1>2, <1>3, CountStep, SynchroniseStep, TickStep DEF Next

-----------------------------------------------------------------------------
(* The series *)

LEMMA SeriesInit == CountersTyped /\ Init => SeriesTyped
<1> SUFFICES ASSUME CountersTyped, Init PROVE SeriesTyped
  OBVIOUS
<1>1. series = [p \in Panels |-> << >>] /\ << >> \in Seq(Observations) /\ Len(<< >>) = 0
  BY DEF Init
<1>2. pending = Panels /\ round = 0 /\ listed = [p \in Panels |-> {}] /\ obs = [p \in Panels |-> {}]
  BY DEF Init
<1>3. \A p \in Panels : Sampled(p) = 0 /\ Len(series[p]) = 0 /\ obs[p] = {} /\ listed[p] = {}
  BY <1>1, <1>2 DEF Sampled
<1> QED BY <1>1, <1>2, <1>3 DEF SeriesTyped

LEMMA SeriesKept ==
  ASSUME SeriesTyped, UNCHANGED <<pending, listed, series, obs, round>>
  PROVE  SeriesTyped'
BY DEF SeriesTyped, Sampled

\* What a panel answers is an observation.
LEMMA ObservationTyped ==
  ASSUME CountersTyped, NEW p \in Panels
  PROVE  /\ Observation(p) \in Observations
         /\ Observation(p).used = IF p = Master THEN master ELSE used[p]
         /\ Observation(p).enabled = IF p = Master THEN enabled ELSE TRUE
<1>1. used \in [Nodes -> Nat] /\ round \in Nat /\ Interval \in Nat /\ master \in Nat /\ enabled \in BOOLEAN
  BY CountersAre, CountsAssumption DEF CountersTyped
<1>2. round * Interval \in Int
  BY <1>1, Times
<1>3. p # Master => used[p] \in Nat
  BY <1>1 DEF Panels
<1> QED BY <1>1, <1>2, <1>3 DEF Observation, Observations

LEMMA LengthTyped ==
  ASSUME CountersTyped, SeriesTyped, NEW p \in Panels
  PROVE  /\ series[p] \in Seq(Observations) /\ Len(series[p]) \in Nat /\ DOMAIN series[p] = 1..Len(series[p])
         /\ Sampled(p) \in Nat
         /\ Sampled(p) = IF p \in pending THEN round ELSE round + 1
<1>1. series[p] \in Seq(Observations)
  BY DEF SeriesTyped
<1>2. round \in Nat
  BY CountersAre
<1> QED BY <1>1, <1>2 DEF Sampled

\* One more observation of a panel.
LEMMA SampleEffect ==
  ASSUME CountersTyped, SeriesTyped, NEW p \in Panels, Sample(p)
  PROVE  /\ p \in pending /\ pending' = pending \ {p}
         /\ series'[p] = Append(series[p], Observation(p)) /\ series'[p] \in Seq(Observations)
         /\ Len(series'[p]) = Len(series[p]) + 1 /\ series'[p][Len(series[p]) + 1] = Observation(p)
         /\ DOMAIN series'[p] = 1..(Len(series[p]) + 1)
         /\ \A i \in 1..Len(series[p]) : series'[p][i] = series[p][i]
         /\ \A q \in Panels \ {p} : series'[q] = series[q] /\ listed'[q] = listed[q]
         /\ series' \in [Panels -> Seq(Observations)]
         /\ DOMAIN listed' = Panels
         /\ listed'[p] = IF round = 0 THEN {IF p = Master THEN quota ELSE 0} ELSE listed[p]
         /\ UNCHANGED <<obs, round, changes, overSince, quota, enabled, master, merged, used, synced, counted>>
<1>1. /\ p \in pending /\ pending' = pending \ {p}
      /\ series' = [series EXCEPT ![p] = Append(series[p], Observation(p))]
      /\ listed' = IF round = 0 THEN [listed EXCEPT ![p] = {IF p = Master THEN quota ELSE 0}]
                   ELSE listed
      /\ UNCHANGED <<obs, round, changes, overSince, quota, enabled, master, merged, used, synced, counted>>
  BY DEF Sample
<1>2. series \in [Panels -> Seq(Observations)] /\ DOMAIN listed = Panels
  BY DEF SeriesTyped
<1>3. Observation(p) \in Observations /\ series[p] \in Seq(Observations)
  BY <1>2, ObservationTyped
<1> DEFINE s == series[p]
           o == Observation(p)
<1> HIDE DEF s, o
<1>4. /\ Append(s, o) \in Seq(Observations) /\ Len(Append(s, o)) = Len(s) + 1
      /\ Append(s, o)[Len(s) + 1] = o /\ DOMAIN Append(s, o) = 1..(Len(s) + 1)
      /\ \A i \in 1..Len(s) : Append(s, o)[i] = s[i]
  <2>1. s \in Seq(Observations) /\ o \in Observations
    BY <1>3 DEF s, o
  <2> QED BY <2>1
<1>5. series' = [series EXCEPT ![p] = Append(s, o)]
  BY <1>1 DEF s, o
<1>6. /\ series'[p] = Append(s, o) /\ series' \in [Panels -> Seq(Observations)]
      /\ \A q \in Panels \ {p} : series'[q] = series[q]
  BY <1>2, <1>4, <1>5
<1>7. /\ DOMAIN listed' = Panels
      /\ listed'[p] = (IF round = 0 THEN {IF p = Master THEN quota ELSE 0} ELSE listed[p])
      /\ \A q \in Panels \ {p} : listed'[q] = listed[q]
  BY <1>1, <1>2
<1> QED BY <1>1, <1>4, <1>6, <1>7 DEF s, o

LEMMA SampleTyped ==
  ASSUME CountersTyped, SeriesTyped, NEW p \in Panels, Sample(p)
  PROVE  SeriesTyped'
<1>0. /\ p \in pending /\ pending' = pending \ {p} /\ UNCHANGED <<obs, round>>
      /\ Len(series'[p]) = Len(series[p]) + 1
      /\ listed'[p] = (IF round = 0 THEN {IF p = Master THEN quota ELSE 0} ELSE listed[p])
      /\ \A q \in Panels \ {p} : series'[q] = series[q] /\ listed'[q] = listed[q]
  BY SampleEffect
<1>1. round \in Nat /\ quota \in Nat
  BY CountersAre
<1>2. pending' \in SUBSET Panels
  BY <1>0 DEF SeriesTyped
<1>3. ASSUME NEW q \in Panels
      PROVE  /\ Len(series[q]) <= Sampled(q)
             /\ obs[q] = {} => Len(series[q]) = Sampled(q)
             /\ obs[q] # {} => \E o \in obs[q] : o.sev = "inconclusive"
             /\ \A total \in listed[q] : total \in Nat /\ listed[q] = {total}
             /\ obs[q] = {} /\ Sampled(q) > 0 => listed[q] # {}
  BY DEF SeriesTyped
<1>4. Sampled(p)' = Sampled(p) + 1 /\ Sampled(p) = round /\ \A q \in Panels \ {p} : Sampled(q)' = Sampled(q)
  BY <1>0, <1>1 DEF Sampled
<1>5. Len(series[p]) \in Nat
  BY LengthTyped
<1>6. ASSUME NEW q \in Panels
      PROVE  /\ Len(series'[q]) <= Sampled(q)'
             /\ obs'[q] = {} => Len(series'[q]) = Sampled(q)'
             /\ obs'[q] # {} => \E o \in obs'[q] : o.sev = "inconclusive"
             /\ \A total \in listed'[q] : total \in Nat /\ listed'[q] = {total}
             /\ obs'[q] = {} /\ Sampled(q)' > 0 => listed'[q] # {}
  <2>1. CASE q = p
    <3>1. /\ Len(series'[p]) <= Sampled(p)'
          /\ obs'[p] = {} => Len(series'[p]) = Sampled(p)'
          /\ obs'[p] # {} => \E o \in obs'[p] : o.sev = "inconclusive"
      BY <1>0, <1>1, <1>3, <1>4, <1>5
    <3>2. \A total \in listed'[p] : total \in Nat /\ listed'[p] = {total}
      BY <1>0, <1>1, <1>3
    <3>3. obs'[p] = {} => listed'[p] # {}
      <4>1. CASE round = 0
        BY <1>0, <4>1
      <4>2. CASE round # 0
        BY <1>0, <1>1, <1>3, <1>4, <4>2
      <4> QED BY <4>1, <4>2
    <3> QED BY <2>1, <3>1, <3>2, <3>3
  <2>2. CASE q # p
    <3>1. series'[q] = series[q] /\ listed'[q] = listed[q] /\ obs' = obs /\ Sampled(q)' = Sampled(q)
      BY <1>0, <1>4, <2>2
    <3> QED BY <1>3, <3>1
  <2> QED BY <2>1, <2>2
<1>7. series' \in [Panels -> Seq(Observations)] /\ DOMAIN listed' = Panels /\ DOMAIN obs' = Panels
  BY SampleEffect DEF SeriesTyped
<1> QED BY <1>2, <1>6, <1>7 DEF SeriesTyped

\* The sample that is lost is said to be.
LEMMA LoseTyped ==
  ASSUME CountersTyped, SeriesTyped, NEW p \in Panels, Lose(p)
  PROVE  SeriesTyped'
<1> DEFINE lost == Obs("API-001", "traffic_sample_failed", "inconclusive", p)
<1>1. /\ p \in pending /\ pending' = pending \ {p}
      /\ obs' = [obs EXCEPT ![p] = @ \cup {lost}]
      /\ UNCHANGED <<series, listed, round>>
  BY DEF Lose
<1>2. lost.sev = "inconclusive"
  BY DEF Obs
<1> HIDE DEF lost
<1>3. round \in Nat /\ DOMAIN obs = Panels /\ Len(series[p]) \in Nat
  BY CountersAre, LengthTyped DEF SeriesTyped
<1>4. Sampled(p)' = Sampled(p) + 1 /\ Sampled(p) = round /\ \A q \in Panels \ {p} : Sampled(q)' = Sampled(q)
  BY <1>1, <1>3 DEF Sampled
<1>5. DOMAIN obs' = Panels /\ lost \in obs'[p] /\ \A q \in Panels \ {p} : obs'[q] = obs[q]
  BY <1>1, <1>3
<1>6. pending' \in SUBSET Panels
  BY <1>1 DEF SeriesTyped
<1>7. ASSUME NEW q \in Panels
      PROVE  /\ Len(series'[q]) <= Sampled(q)'
             /\ obs'[q] = {} => Len(series'[q]) = Sampled(q)'
             /\ obs'[q] # {} => \E o \in obs'[q] : o.sev = "inconclusive"
             /\ \A total \in listed'[q] : total \in Nat /\ listed'[q] = {total}
             /\ obs'[q] = {} /\ Sampled(q)' > 0 => listed'[q] # {}
  <2>1. /\ Len(series[q]) <= Sampled(q)
        /\ obs[q] = {} => Len(series[q]) = Sampled(q)
        /\ obs[q] # {} => \E o \in obs[q] : o.sev = "inconclusive"
        /\ \A total \in listed[q] : total \in Nat /\ listed[q] = {total}
        /\ obs[q] = {} /\ Sampled(q) > 0 => listed[q] # {}
    BY DEF SeriesTyped
  <2>2. CASE q = p
    BY <1>1, <1>2, <1>3, <1>4, <1>5, <2>1, <2>2
  <2>3. CASE q # p
    BY <1>1, <1>4, <1>5, <2>1, <2>3
  <2> QED BY <2>2, <2>3
<1>8. series' \in [Panels -> Seq(Observations)] /\ DOMAIN listed' = Panels
  BY <1>1 DEF SeriesTyped
<1> QED BY <1>5, <1>6, <1>7, <1>8 DEF SeriesTyped

LEMMA TickTyped ==
  ASSUME CountersTyped, SeriesTyped, Tick
  PROVE  SeriesTyped'
<1>1. pending = {} /\ pending' = Panels /\ round' = round + 1 /\ UNCHANGED <<series, listed, obs>>
  BY DEF Tick
<1>2. round \in Nat
  BY CountersAre
<1>3. \A p \in Panels : Sampled(p)' = Sampled(p)
  BY <1>1, <1>2 DEF Sampled
<1> QED BY <1>1, <1>3 DEF SeriesTyped

\* Every step is one of these.
LEMMA StepKinds ==
  ASSUME [Next]_vars
  PROVE  \/ \E p \in Panels : Sample(p) \/ Lose(p)
         \/ Tick
         \/ UNCHANGED <<pending, listed, series, obs, round>>
BY DEF Next, Count, Synchronise, Disable, ChangeQuota, Finished, vars, observed

LEMMA SeriesStep ==
  ASSUME CountersTyped, SeriesTyped, [Next]_vars
  PROVE  SeriesTyped'
BY StepKinds, SampleTyped, LoseTyped, TickTyped, SeriesKept

-----------------------------------------------------------------------------
(* The client that is over its quota *)

LEMMA OverdueInit == CountersTyped /\ Init => Overdue
<1> SUFFICES ASSUME CountersTyped, Init PROVE Overdue
  OBVIOUS
<1>1. Master \in Panels
  BY DEF Panels
<1>2. series[Master] = << >> /\ DOMAIN series[Master] = {} /\ listed[Master] = {}
  BY <1>1 DEF Init
<1>3. overSince # -1 => quota # 0 /\ master >= quota
  BY DEF Init
<1> QED BY <1>2, <1>3 DEF Overdue

\* The part of it that is about the past: an observation made two samples after the
\* quota was used up, and every later one, says so.
SeenOverdue ==
  \A i \in DOMAIN series[Master] : i >= overSince + 2 =>
    \A total \in listed[Master] : total <= quota => series[Master][i].used >= total

\* Whatever becomes of the counter and of the quota, it stays true while both the series
\* and the list are the same.
LEMMA SeenKept ==
  ASSUME CountersTyped, SeriesTyped, Overdue, changes' <= 1, overSince' # -1,
         NEW counter \in Int, NEW limit \in Nat, overSince' = OverSince(counter, limit),
         UNCHANGED <<series, listed>>,
         (quota' = quota /\ changes' = changes) \/ changes' = changes + 1
  PROVE  SeenOverdue'
<1>1. Master \in Panels
  BY DEF Panels
<1>2. round \in Nat /\ overSince \in -1..round /\ changes \in Nat
  BY CountersAre DEF CountersTyped
<1>3. \/ overSince = -1 /\ overSince' = round
      \/ overSince # -1 /\ overSince' = overSince
  BY OverSinceIs
<1>4. Len(series[Master]) \in Nat /\ DOMAIN series[Master] = 1..Len(series[Master])
      /\ Len(series[Master]) <= round + 1
  <2>1. Len(series[Master]) <= Sampled(Master) /\ Sampled(Master) <= round + 1
    BY <1>1, <1>2 DEF SeriesTyped, Sampled
  <2> QED BY <1>1, <1>2, <2>1, LengthTyped
<1>5. \A total \in listed[Master] : total \in Nat
  BY <1>1 DEF SeriesTyped
<1>6. CASE overSince = -1
  BY <1>2, <1>3, <1>4, <1>6 DEF SeenOverdue
<1>7. CASE overSince # -1
  <2>1. changes <= 1 /\ overSince' = overSince
    BY <1>2, <1>3, <1>7
  <2>2. SeenOverdue
    BY <1>7, <2>1 DEF Overdue, SeenOverdue
  <2>3. \A total \in listed[Master] : total <= quota' => total <= quota
    <3>1. CASE quota' = quota
      BY <3>1
    <3>2. CASE changes' = changes + 1
      <4>1. changes = 0
        BY <1>2, <3>2
      <4>2. \A total \in listed[Master] : total = quota
        BY <4>1 DEF Overdue
      <4> QED BY <1>5, <4>2
    <3> QED BY <3>1, <3>2
  <2> QED BY <2>1, <2>2, <2>3 DEF SeenOverdue
<1> QED BY <1>6, <1>7

LEMMA OverdueSample ==
  ASSUME CountersTyped, SeriesTyped, Overdue, Sample(Master)
  PROVE  Overdue'
<1>0. Master \in Panels
  BY DEF Panels
<1> DEFINE len == Len(series[Master])
<1>1. /\ Master \in pending
      /\ series'[Master][len + 1] = Observation(Master)
      /\ DOMAIN series'[Master] = 1..(len + 1)
      /\ \A i \in 1..len : series'[Master][i] = series[Master][i]
      /\ listed'[Master] = (IF round = 0 THEN {quota} ELSE listed[Master])
      /\ UNCHANGED <<round, changes, overSince, quota, enabled, master>>
  BY <1>0, SampleEffect
<1>2. /\ round \in Nat /\ overSince \in -1..round /\ quota \in Nat /\ master \in Nat
  BY CountersAre DEF CountersTyped
<1>3. /\ len \in Nat /\ DOMAIN series[Master] = 1..len
      /\ len <= round
  <2>1. Len(series[Master]) <= Sampled(Master) /\ Sampled(Master) = round
    BY <1>0, <1>1, <1>2 DEF SeriesTyped, Sampled
  <2> QED BY <1>0, <2>1, LengthTyped
<1>4. Observation(Master).used = master /\ Observation(Master).enabled = enabled
  BY <1>0, ObservationTyped
<1> HIDE DEF len
<1>5. /\ overSince # -1 => quota # 0 /\ master >= quota
      /\ enabled => \A i \in 1..len : series[Master][i].enabled
      /\ changes = 0 => listed[Master] \subseteq {quota}
      /\ changes <= 1 /\ overSince # -1 => SeenOverdue
  BY <1>3 DEF Overdue, SeenOverdue
<1>6. enabled => \A i \in 1..(len + 1) : series'[Master][i].enabled
  <2> SUFFICES ASSUME enabled, NEW i \in 1..(len + 1) PROVE series'[Master][i].enabled
    OBVIOUS
  <2>1. CASE i = len + 1
    BY <1>1, <1>4, <2>1
  <2>2. CASE i # len + 1
    BY <1>1, <1>3, <1>5, <2>2
  <2> QED BY <2>1, <2>2
<1>7. changes = 0 => listed'[Master] \subseteq {quota}
  BY <1>1, <1>5
<1>8. ASSUME changes <= 1, overSince # -1,
             NEW i \in 1..(len + 1), i >= overSince + 2, NEW total \in listed'[Master], total <= quota
      PROVE  series'[Master][i].used >= total
  <2>1. total \in Nat
    BY <1>0, <1>1, <1>2, <1>8 DEF SeriesTyped
  <2>2. CASE i = len + 1
    <3>1. master >= total
      BY <1>2, <1>5, <1>8, <2>1
    <3> QED BY <1>1, <1>4, <2>2, <3>1
  <2>3. CASE i # len + 1
    <3>1. i \in 1..len /\ round # 0
      BY <1>2, <1>3, <1>8, <2>3
    <3>2. series'[Master][i] = series[Master][i] /\ total \in listed[Master]
      BY <1>1, <1>8, <3>1
    <3> QED BY <1>3, <1>5, <1>8, <3>1, <3>2 DEF SeenOverdue
  <2> QED BY <2>2, <2>3
<1>9. overSince' # -1 => quota' # 0 /\ master' >= quota'
  BY <1>1, <1>5
<1> QED BY <1>1, <1>6, <1>7, <1>8, <1>9 DEF Overdue

\* The steps that leave the client list, the series and the client alone.
LEMMA OverdueKept ==
  ASSUME CountersTyped, Overdue, UNCHANGED <<overSince, quota, master, changes>>,
         enabled' => enabled, series'[Master] = series[Master], listed'[Master] = listed[Master]
  PROVE  Overdue'
BY DEF Overdue

LEMMA OverdueStep ==
  ASSUME CountersTyped, SeriesTyped, Overdue, [Next]_vars
  PROVE  Overdue'
<1>0. Master \in Panels /\ \A n \in Nodes : n # Master
  BY PanelsAssumption DEF Panels
<1>1. ASSUME NEW p \in Panels, Sample(p) PROVE Overdue'
  <2>1. CASE p = Master
    BY <1>1, <2>1, OverdueSample
  <2>2. CASE p # Master
    <3>1. /\ series'[Master] = series[Master] /\ listed'[Master] = listed[Master]
          /\ UNCHANGED <<overSince, quota, master, changes, enabled>>
      BY <1>0, <1>1, <2>2, SampleEffect
    <3> QED BY <3>1, OverdueKept
  <2> QED BY <2>1, <2>2
<1>2. ASSUME NEW p \in Panels, Lose(p) PROVE Overdue'
  <2>1. UNCHANGED <<overSince, quota, master, changes, enabled, series, listed>>
    BY <1>2 DEF Lose
  <2> QED BY <2>1, OverdueKept
<1>3. CASE Disable \/ Tick \/ (\E n \in Nodes : Count(n)) \/ Finished \/ UNCHANGED vars
  <2>1. UNCHANGED <<overSince, quota, master, changes, series, listed>> /\ (enabled' => enabled)
    BY <1>3 DEF Disable, Tick, Count, Finished, vars, observed
  <2> QED BY <2>1, OverdueKept
<1>4. CASE Synchronise
  <2>1. /\ overSince' = OverSince(master', quota)
        /\ UNCHANGED <<quota, enabled, changes, series, listed>>
    BY <1>4 DEF Synchronise, observed
  <2>2. master' \in Int /\ quota \in Nat
    BY <1>4, SynchroniseStep, CountersAre DEF CountersTyped
  <2>3. overSince' # -1 => quota' # 0 /\ master' >= quota'
    BY <2>1, <2>2, OverSinceIs
  <2>4. changes' <= 1 /\ overSince' # -1 => SeenOverdue'
    BY <2>1, <2>2, SeenKept
  <2> QED BY <2>1, <2>3, <2>4 DEF Overdue, SeenOverdue
<1>5. CASE ChangeQuota
  <2>1. /\ overSince' = OverSince(master, quota') /\ changes' = changes + 1
        /\ UNCHANGED <<master, enabled, series, listed>>
    BY <1>5 DEF ChangeQuota, observed
  <2>2. master \in Int /\ quota' \in Nat /\ changes \in Nat
    <3>1. CountersTyped'
      BY <1>5, CountersStep DEF Next
    <3>2. quota' \in scenario'.quotas /\ scenario' \in Scenarios
      BY <3>1 DEF CountersTyped
    <3> QED BY <3>2, CountersAre, CountsAssumption DEF CountersTyped
  <2>3. overSince' # -1 => quota' # 0 /\ master' >= quota'
    BY <2>1, <2>2, OverSinceIs
  <2>4. changes' <= 1 /\ overSince' # -1 => SeenOverdue'
    BY <2>1, <2>2, SeenKept
  <2>5. changes' # 0
    BY <2>1, <2>2
  <2> QED BY <2>1, <2>3, <2>4, <2>5 DEF Overdue, SeenOverdue
<1> QED BY <1>1, <1>2, <1>3, <1>4, <1>5 DEF Next

-----------------------------------------------------------------------------
(* What the rule pack makes of it *)

\* The snapshot's parts.
LEMMA SnapshotIs ==
  /\ DOMAIN Snapshot = Panels
  /\ \A p \in Panels :
       /\ Snapshot[p].role = (IF p = Master THEN "master" ELSE "node") /\ Snapshot[p].guid = p
       /\ Snapshot[p].obs = obs[p]
       /\ Snapshot[p].inbounds = {InboundOn(n) : n \in IF p = Master THEN Nodes ELSE {p}}
       /\ Snapshot[p].clients =
            {[id |-> Client, enabled |-> TRUE, total |-> total, expiry |-> 0,
              inbounds |-> {InboundOn(n).alias : n \in IF p = Master THEN Nodes ELSE {p}}] :
                total \in listed[p]}
       /\ series[p] # << >> => /\ DOMAIN Snapshot[p].traffic = {Client}
                               /\ Snapshot[p].traffic[Client] = series[p]
       /\ series[p] = << >> => DOMAIN Snapshot[p].traffic = {}
BY DEF Snapshot, When

\* Whatever a rule says is among the findings, and READY is said of neither a failure nor
\* of what is unknown.
LEMMA Ready ==
  ASSUME Verdict = "READY"
  PROVE  /\ \A p \in Panels : \A o \in obs[p] : o.sev # "inconclusive"
         /\ \A f \in EvaluateTraffic(Snapshot) : f.status # "FAIL"
         /\ \A f \in EvaluateLimits(Snapshot, Rounds * Interval) : f.status # "FAIL"
<1> DEFINE noted == UNION {{FromObservation(o) : o \in Snapshot[p].obs} : p \in DOMAIN Snapshot}
           flows == EvaluateTraffic(Snapshot)
           limits == EvaluateLimits(Snapshot, Rounds * Interval)
<1>1. \A f \in Result : f.status \notin {"FAIL", "UNKNOWN"}
  BY DEF Verdict, Readiness
<1>2. noted \subseteq Result /\ flows \subseteq Result /\ limits \subseteq Result
  BY DEF Result, Evaluate
<1>3. \A p \in Panels : \A o \in obs[p] : FromObservation(o) \in noted
  BY SnapshotIs
<1>4. \A o : o.sev = "inconclusive" => FromObservation(o).status = "UNKNOWN"
  BY DEF FromObservation, Finding, StatusOf
<1> HIDE DEF noted, flows, limits
<1>5. ASSUME NEW p \in Panels, NEW o \in obs[p] PROVE o.sev # "inconclusive"
  BY <1>1, <1>2, <1>3, <1>4
<1>6. (\A f \in flows : f.status # "FAIL") /\ (\A f \in limits : f.status # "FAIL")
  BY <1>1, <1>2
<1> QED BY <1>5, <1>6 DEF flows, limits

\* With a READY verdict at the end of the window, nothing is missing.
LEMMA ReadyComplete ==
  ASSUME CountersTyped, SeriesTyped, Closed, Verdict = "READY", NEW p \in Panels
  PROVE  Len(series[p]) = 6 /\ series[p] # << >> /\ \E total \in listed[p] : listed[p] = {total} /\ total \in Nat
<1>1. obs[p] = {}
  BY Ready DEF SeriesTyped
<1>2. Sampled(p) = 6
  BY DEF Sampled, Closed, Rounds
<1>3. Len(series[p]) = 6 /\ listed[p] # {}
  <2>1. /\ obs[p] = {} => Len(series[p]) = Sampled(p)
        /\ obs[p] = {} /\ Sampled(p) > 0 => listed[p] # {}
    BY DEF SeriesTyped
  <2> QED BY <1>1, <1>2, <2>1
<1>4. series[p] # << >>
  BY <1>3
<1>5. \A total \in listed[p] : total \in Nat /\ listed[p] = {total}
  BY DEF SeriesTyped
<1>6. \E total \in listed[p] : listed[p] = {total} /\ total \in Nat
  BY <1>3, <1>5
<1> QED BY <1>3, <1>4, <1>6

\* The client that was over its quota in its last three observations is among the findings.
LEMMA LimitSaid ==
  ASSUME Master \in Panels, Len(series[Master]) = 6, series[Master] \in Seq(Observations),
         NEW total \in listed[Master], total > 0,
         \A i \in 4..6 : series[Master][i].enabled /\ series[Master][i].used >= total
  PROVE  \E f \in EvaluateLimits(Snapshot, Rounds * Interval) : f.status = "FAIL"
<1> DEFINE snap == Snapshot
           finishedAt == Rounds * Interval
           client == [id |-> Client, enabled |-> TRUE, total |-> total, expiry |-> 0,
                      inbounds |-> {InboundOn(n).alias : n \in Nodes}]
           obsd(p, c) == snap[p].traffic[c.id]
           watched(p) == {c \in snap[p].clients :
                            c.id \in DOMAIN snap[p].traffic /\ Len(obsd(p, c)) >= 3}
           lastThree(p, c) == SubSeq(obsd(p, c), Len(obsd(p, c)) - 2, Len(obsd(p, c)))
           exceeding(p) == {c \in watched(p) : LimitExceeded(c, lastThree(p, c), finishedAt)}
<1>1. series[Master] # << >>
  <2>1. Len(<< >>) = 0
    OBVIOUS
  <2> QED BY <2>1
<1>2. /\ DOMAIN snap = Panels /\ client \in snap[Master].clients
      /\ DOMAIN snap[Master].traffic = {Client} /\ snap[Master].traffic[Client] = series[Master]
  BY <1>1, SnapshotIs
<1>3. client.id = Client /\ client.enabled /\ client.total = total
  OBVIOUS
<1> HIDE DEF snap, client
<1>4. obsd(Master, client) = series[Master]
  BY <1>2, <1>3, Zenon
<1>5. client \in watched(Master)
  BY <1>2, <1>3, <1>4
<1>6. \A i \in 1..3 : lastThree(Master, client)[i] = series[Master][i + 3]
  <2>1. lastThree(Master, client) = SubSeq(series[Master], 4, 6)
    <3>1. Len(series[Master]) - 2 = 4
      OBVIOUS
    <3> HIDE DEF obsd
    <3> QED BY <1>4, <3>1
  <2>2. \A i \in 1..3 : SubSeq(series[Master], 4, 6)[i] = series[Master][i + 3]
    OBVIOUS
  <2> QED BY <2>1, <2>2, Zenon
<1>7. \A i \in 1..3 : lastThree(Master, client)[i].enabled /\ lastThree(Master, client)[i].used >= total
  <2>1. \A i \in 1..3 : i + 3 \in 4..6
    OBVIOUS
  <2> HIDE DEF lastThree
  <2> QED BY <1>6, <2>1
<1> HIDE DEF lastThree, watched, finishedAt
<1>8. LimitExceeded(client, lastThree(Master, client), finishedAt)
  BY <1>3, <1>7 DEF LimitExceeded
<1>9. client \in exceeding(Master)
  BY <1>5, <1>8
<1>10. EvaluateLimits(snap, finishedAt)
         = IF \A p \in DOMAIN snap : watched(p) = {} THEN {Finding("LIMIT-001", "UNKNOWN", "")}
           ELSE {Finding("LIMIT-001", "FAIL", c.id) : c \in UNION {exceeding(p) : p \in DOMAIN snap}}
  BY DEF EvaluateLimits, watched, lastThree
<1> HIDE DEF exceeding
<1>11. client \in UNION {exceeding(p) : p \in DOMAIN snap} /\ ~(\A p \in DOMAIN snap : watched(p) = {})
  BY <1>2, <1>5, <1>9
<1>12. Finding("LIMIT-001", "FAIL", client.id) \in EvaluateLimits(snap, finishedAt)
  BY <1>10, <1>11
<1>13. Finding("LIMIT-001", "FAIL", client.id).status = "FAIL"
  BY DEF Finding
<1> QED BY <1>12, <1>13 DEF snap, finishedAt

LEMMA OverdueHolds == CountersTyped /\ SeriesTyped /\ Overdue => OverdueCaught
<1> SUFFICES ASSUME CountersTyped, SeriesTyped, Overdue, Closed, enabled, changes <= 1,
                    overSince \in 0..(Rounds - 3),
                    \A total \in listed[Master] : total \in 1..quota,
                    Verdict = "READY"
             PROVE  FALSE
  BY DEF OverdueCaught
<1>1. Master \in Panels
  BY DEF Panels
<1>2. Len(series[Master]) = 6 /\ \E total \in listed[Master] : listed[Master] = {total} /\ total \in Nat
  BY <1>1, ReadyComplete
<1>3. PICK total \in listed[Master] : total \in Nat /\ total > 0 /\ total <= quota
  BY <1>2, CountersAre
<1>4. series[Master] \in Seq(Observations) /\ DOMAIN series[Master] = 1..6
  BY <1>1, <1>2, LengthTyped
<1>5. \A i \in 4..6 : i \in DOMAIN series[Master] /\ i >= overSince + 2 /\ overSince # -1
  BY <1>4 DEF Rounds
<1>6. \A i \in 4..6 : series[Master][i].enabled /\ series[Master][i].used >= total
  BY <1>3, <1>5 DEF Overdue
<1>7. \E f \in EvaluateLimits(Snapshot, Rounds * Interval) : f.status = "FAIL"
  BY <1>1, <1>2, <1>3, <1>4, <1>6, LimitSaid
<1> QED BY <1>7, Ready

LEMMA TypeHolds == CountersTyped /\ SeriesTyped => TypeOK
<1> SUFFICES ASSUME CountersTyped, SeriesTyped PROVE TypeOK
  OBVIOUS
<1>1. round \in 0..5 /\ Rounds = 5 /\ rate \in [Nodes -> Nat] /\ used \in [Nodes -> Nat]
  BY CountersAre DEF Rounds, CountersTyped
<1>2. ASSUME NEW n \in Nodes PROVE used[n] \in Start[n]..(Start[n] + (Rounds + 1) * rate[n])
  <2>1. rate[n] \in Nat /\ Start[n] \in Nat /\ round * rate[n] \in Nat /\ round * rate[n] <= 5 * rate[n]
    BY <1>1, Times, CountsAssumption
  <2>2. used[n] = Start[n] + round * rate[n] + (IF n \in counted THEN rate[n] ELSE 0)
    BY DEF CountersTyped
  <2>3. (Rounds + 1) * rate[n] = 5 * rate[n] + rate[n]
    BY <1>1, <2>1
  <2>4. 5 * rate[n] \in Nat
    BY <2>1
  <2> QED BY <2>1, <2>2, <2>3, <2>4
<1>3. ASSUME NEW p \in Panels PROVE Len(series[p]) <= round + 1 /\ Cardinality(listed[p]) <= 1
  <2>1. Len(series[p]) <= round + 1
    <3>1. Len(series[p]) <= Sampled(p)
      BY DEF SeriesTyped
    <3>2. /\ Len(series[p]) \in Nat /\ Sampled(p) \in Nat
          /\ Sampled(p) = IF p \in pending THEN round ELSE round + 1
      BY LengthTyped
    <3> QED BY <1>1, <3>1, <3>2
  <2>2. CASE listed[p] = {}
    BY <2>1, <2>2, FS_EmptySet
  <2>3. CASE \E total \in listed[p] : listed[p] = {total}
    <3>1. PICK total \in listed[p] : listed[p] = {total}
      BY <2>3
    <3>2. Cardinality(listed[p]) = 1
      BY <3>1, FS_Singleton
    <3> QED BY <2>1, <3>2
  <2>4. listed[p] = {} \/ \E total \in listed[p] : listed[p] = {total}
    BY DEF SeriesTyped
  <2> QED BY <2>2, <2>3, <2>4
<1>4. from \in 0..Rounds
  BY DEF CountersTyped, Rounds
<1> QED BY <1>2, <1>3, <1>4 DEF TypeOK, CountersTyped, SeriesTyped

-----------------------------------------------------------------------------
(* Intervals in which nothing comes early *)

LEMMA AfterIs ==
  ASSUME NEW r \in [Nodes -> Nat], NEW i \in Nat
  PROVE  /\ After(r, i) \in [Nodes -> Nat] /\ Counts(r, i) \in Nat
         /\ \A n \in Nodes : After(r, i)[n] = Start[n] + i * r[n] /\ i * r[n] \in Nat
<1>1. \A n \in Nodes : i * r[n] \in Nat /\ Start[n] \in Nat
  BY Times, CountsAssumption
<1>2. After(r, i) \in [Nodes -> Nat]
  BY <1>1 DEF After
<1>3. Counts(r, i) \in Nat
  BY <1>2, SumIsTotal DEF Counts
<1> QED BY <1>1, <1>2, <1>3 DEF After

\* The nodes' counters at the beginning and at the end of the counting.
LEMMA UsedIs ==
  ASSUME CountersTyped
  PROVE  /\ counted = {} => used = After(rate, round)
         /\ counted = Nodes => used = After(rate, round + 1)
<1>1. round \in Nat /\ round + 1 \in Nat /\ rate \in [Nodes -> Nat] /\ used \in [Nodes -> Nat]
  BY CountersAre
<1>2. \A n \in Nodes : used[n] = Start[n] + round * rate[n] + (IF n \in counted THEN rate[n] ELSE 0)
  BY DEF CountersTyped
<1>3. \A n \in Nodes : /\ Start[n] \in Nat /\ rate[n] \in Nat /\ round * rate[n] \in Nat
                       /\ (round + 1) * rate[n] = round * rate[n] + rate[n]
  BY <1>1, Times, CountsAssumption
<1>4. \A f, g \in [Nodes -> Nat] : (\A n \in Nodes : f[n] = g[n]) => f = g
  OBVIOUS
<1>5. ASSUME counted = {} PROVE used = After(rate, round)
  <2>1. \A n \in Nodes : used[n] = After(rate, round)[n]
    BY <1>1, <1>2, <1>3, <1>5, AfterIs
  <2> QED BY <1>1, <1>4, <2>1, AfterIs
<1>6. ASSUME counted = Nodes PROVE used = After(rate, round + 1)
  <2>1. \A n \in Nodes : used[n] = After(rate, round + 1)[n]
    <3> TAKE n \in Nodes
    <3>1. After(rate, round + 1)[n] = Start[n] + (round + 1) * rate[n]
      BY <1>1, AfterIs
    <3>2. used[n] = Start[n] + round * rate[n] + rate[n]
      BY <1>2, <1>6
    <3> QED BY <1>3, <3>1, <3>2
  <2> QED BY <1>1, <1>4, <2>1, AfterIs
<1> QED BY <1>5, <1>6

LEMMA RegularInit == CountersTyped /\ Init => Regular
<1> SUFFICES ASSUME CountersTyped, Init PROVE Regular
  OBVIOUS
<1>1. /\ round = 0 /\ counted = {} /\ synced = FALSE /\ used = Start /\ merged = SumAll(Start)
      /\ pending = Panels /\ \A p \in Panels : series[p] = << >>
  BY DEF Init
<1>2. merged = Counts(rate, round)
  BY <1>1, UsedIs DEF Counts
<1>3. Master \in Panels /\ \A n \in Nodes : n \in Panels
  BY DEF Panels
<1>4. \A p \in Panels : series[p] = << >> /\ Len(series[p]) = 0 /\ DOMAIN series[p] = {} /\ Sampled(p) = 0
  BY <1>1 DEF Sampled
<1>5. 1..(Len(series[Master]) - 1) = {}
  BY <1>3, <1>4
<1> QED BY <1>1, <1>2, <1>3, <1>4, <1>5 DEF Regular, InTime, Lead

\* Steps that sample nothing.
LEMMA InTimeKept ==
  ASSUME InTime, UNCHANGED <<rate, gain, from, series>>,
         \A p \in Panels : Sampled(p)' = Sampled(p) /\ (p \notin pending' => p \notin pending),
         synced => synced' \/ pending' = Panels
  PROVE  InTime'
<1>1. \A i : Ahead(i)' = Ahead(i) /\ GainAt(i)' = GainAt(i)
  BY DEF Ahead, GainAt
<1> QED BY <1>1 DEF InTime

LEMMA RegularSample ==
  ASSUME CountersTyped, SeriesTyped, Regular, NEW p \in Panels, Sample(p)
  PROVE  Regular'
<1> SUFFICES ASSUME trouble' = 0 PROVE Regular'
  BY DEF Regular
<1>0. Master \in Panels /\ (\A n \in Nodes : n \in Panels /\ n # Master) /\ Master \notin Nodes
  BY PanelsAssumption DEF Panels
<1>1. trouble = 0 /\ synced /\ counted = Nodes
  BY CostsIs DEF Sample, run
<1>2. /\ merged = Counts(rate, round + 1) /\ InTime /\ Lead
  BY <1>1 DEF Regular
<1>3. /\ p \in pending /\ pending' = pending \ {p}
      /\ Len(series'[p]) = Len(series[p]) + 1 /\ series'[p][Len(series[p]) + 1] = Observation(p)
      /\ DOMAIN series'[p] = 1..(Len(series[p]) + 1)
      /\ \A i \in 1..Len(series[p]) : series'[p][i] = series[p][i]
      /\ \A q \in Panels \ {p} : series'[q] = series[q]
      /\ UNCHANGED <<round, master, merged, used, synced, counted>>
  BY SampleEffect
<1>4. UNCHANGED <<rate, gain, from>>
  BY DEF Sample, run
<1>5. round \in Nat /\ rate \in [Nodes -> Nat] /\ gain \in Nat /\ from \in Int
      /\ master \in Nat /\ merged \in Nat
  BY CountersAre DEF CountersTyped, Rounds
<1>6. \A q \in Panels : Len(series[q]) = Sampled(q) /\ (q \notin pending => synced)
  BY <1>2 DEF InTime
<1>7. Sampled(p) = round /\ Sampled(p)' = round + 1 /\ \A q \in Panels \ {p} : Sampled(q)' = Sampled(q)
  BY <1>3, <1>5 DEF Sampled
<1>8. Len(series[p]) = round
  BY <1>6, <1>7
<1>9. \A q \in Panels : Len(series'[q]) = Sampled(q)' /\ (q \notin pending' => synced')
  <2> TAKE q \in Panels
  <2>1. CASE q = p
    BY <1>1, <1>3, <1>7, <1>8, <2>1
  <2>2. CASE q # p
    BY <1>1, <1>3, <1>6, <1>7, <2>2
  <2> QED BY <2>1, <2>2
<1>10. \A i : Counts(rate, i)' = Counts(rate, i) /\ After(rate, i)' = After(rate, i) /\ GainAt(i)' = GainAt(i)
  BY <1>4 DEF GainAt
<1>11. \A n \in Nodes : \A i \in DOMAIN series'[n] : series'[n][i].used = After(rate, i)[n]
  <2> TAKE n \in Nodes
  <2>1. \A i \in DOMAIN series[n] : series[n][i].used = After(rate, i)[n]
    BY <1>2 DEF InTime
  <2>2. CASE n = p
    <3>1. Observation(p).used = After(rate, round + 1)[p]
      <4>1. Observation(p).used = used[p]
        BY <1>0, <2>2, ObservationTyped
      <4>2. used = After(rate, round + 1)
        BY <1>1, UsedIs
      <4> QED BY <4>1, <4>2
    <3>2. DOMAIN series[p] = 1..round
      BY <1>8, LengthTyped
    <3> SUFFICES ASSUME NEW i \in 1..(round + 1) PROVE series'[p][i].used = After(rate, i)[p]
      BY <1>3, <1>8, <2>2
    <3>3. CASE i = round + 1
      BY <1>3, <1>8, <3>1, <3>3
    <3>4. CASE i # round + 1
      <4>1. i \in 1..round
        BY <1>5, <3>4
      <4> QED BY <1>3, <1>8, <2>1, <2>2, <3>2, <4>1
    <3> QED BY <3>3, <3>4
  <2>3. CASE n # p
    BY <1>0, <1>3, <2>1, <2>3
  <2> QED BY <2>2, <2>3
<1>12. /\ \A i \in 1..(Len(series'[Master]) - 1) : Ahead(i + 1)' = Ahead(i)' + GainAt(i)
       /\ Lead'
  <2>1. CASE p # Master
    <3>1. series'[Master] = series[Master] /\ (Master \in pending' <=> Master \in pending)
      BY <1>0, <1>3, <2>1
    <3>2. \A i : Ahead(i)' = Ahead(i)
      BY <1>4, <3>1 DEF Ahead
    <3>3. Due' = Due
      BY <1>3, <1>4, <3>1 DEF Due, GainAt
    <3>4. \A i \in 1..(Len(series[Master]) - 1) : Ahead(i + 1) = Ahead(i) + GainAt(i)
      BY <1>2 DEF InTime
    <3> HIDE DEF Ahead, Due
    <3>5. Lead'
      BY <1>2, <1>3, <3>1, <3>2, <3>3 DEF Lead
    <3> QED BY <3>1, <3>2, <3>4, <3>5
  <2>2. CASE p = Master
    <3>0. PICK k \in Nat : k = round
      BY <1>5
    <3>1. Len(series[Master]) = k /\ Len(series'[Master]) = k + 1 /\ Master \notin pending'
      BY <1>3, <1>5, <1>8, <2>2, <3>0
    <3>2. \A i \in 1..k : Ahead(i)' = Ahead(i)
      <4>1. \A i \in 1..k : series'[Master][i].used = series[Master][i].used
        BY <1>3, <1>8, <2>2, <3>0
      <4> QED BY <1>4, <4>1 DEF Ahead
    <3>3. Ahead(k + 1)' = master - merged
      <4>1. series'[Master][k + 1].used = master
        BY <1>3, <1>8, <2>2, <3>0, ObservationTyped
      <4>2. merged = Counts(rate', k + 1)
        BY <1>2, <1>4, <3>0
      <4> QED BY <4>1, <4>2 DEF Ahead
    <3>4. \A i \in 1..(k - 1) : Ahead(i + 1) = Ahead(i) + GainAt(i)
      BY <1>2, <3>1 DEF InTime
    <3>5. k # 0 => master - merged = Ahead(k) + GainAt(k)
      <4>1. Due = GainAt(k)
        BY <1>1, <1>3, <2>2, <3>0 DEF Due
      <4>2. k # 0 => series[Master] # << >>
        BY <3>1
      <4> QED BY <1>2, <3>1, <4>1, <4>2 DEF Lead
    <3>6. \A i \in 1..k : Ahead(i + 1)' = Ahead(i)' + GainAt(i)
      <4> TAKE i \in 1..k
      <4>1. CASE i = k
        <5>1. k \in 1..k /\ k # 0
          BY <4>1
        <5>2. Ahead(k + 1)' = Ahead(k)' + GainAt(k)
          BY <3>2, <3>3, <3>5, <5>1
        <5> QED BY <4>1, <5>2
      <4>2. CASE i # k
        <5>1. i \in 1..(k - 1) /\ i + 1 \in 1..k
          BY <4>2
        <5>2. Ahead(i + 1)' = Ahead(i + 1) /\ Ahead(i)' = Ahead(i)
          BY <3>2, <5>1
        <5> QED BY <3>4, <5>1, <5>2
      <4> QED BY <4>1, <4>2
    <3>7. Lead'
      <4>1. Due' = 0
        BY <3>1 DEF Due
      <4>2. Ahead(Len(series[Master]))' = master - merged
        <5>1. series'[Master][Len(series'[Master])].used - Counts(rate', Len(series'[Master]))
                = series'[Master][k + 1].used - Counts(rate', k + 1)
          BY <3>1
        <5> QED BY <3>3, <5>1 DEF Ahead
      <4>3. master - merged \in Int /\ UNCHANGED <<master, merged>>
        BY <1>3, <1>5
      <4> HIDE DEF Ahead, Due
      <4> QED BY <4>1, <4>2, <4>3 DEF Lead
    <3>8. \A i \in 1..(Len(series'[Master]) - 1) : i \in 1..k
      BY <3>1
    <3> QED BY <3>6, <3>7, <3>8
  <2> QED BY <2>1, <2>2
<1>13. InTime'
  BY <1>9, <1>10, <1>11, <1>12 DEF InTime
<1>14. merged' = Counts(rate', IF synced' THEN round' + 1 ELSE round')
  BY <1>1, <1>2, <1>3, <1>4
<1> HIDE DEF InTime, Lead
<1> QED BY <1>1, <1>3, <1>12, <1>13, <1>14 DEF Regular

\* Steps that leave the interval and the master as they are.
LEMMA RegularKept ==
  ASSUME CountersTyped, Regular, trouble' = trouble,
         UNCHANGED <<rate, gain, from, master, merged, round, counted, synced, pending, series>>
  PROVE  Regular'
<1> SUFFICES ASSUME trouble' = 0 PROVE Regular'
  BY DEF Regular
<1>1. (synced => counted = Nodes) /\ merged = Counts(rate, IF synced THEN round + 1 ELSE round)
      /\ InTime /\ Lead
  BY DEF Regular
<1>2. InTime'
  BY <1>1, InTimeKept DEF Sampled
<1>3. Lead'
  BY <1>1 DEF Lead, Due, Ahead, GainAt
<1> QED BY <1>1, <1>2, <1>3 DEF Regular

LEMMA RegularCount ==
  ASSUME CountersTyped, Regular, NEW n \in Nodes, Count(n)
  PROVE  Regular'
<1> SUFFICES ASSUME trouble' = 0 PROVE Regular'
  BY DEF Regular
<1>1. /\ n \notin counted /\ trouble = 0
      /\ UNCHANGED <<rate, gain, from, master, merged, round, synced, pending, series>>
  BY DEF Count, run, observed
<1>2. (synced => counted = Nodes) /\ merged = Counts(rate, IF synced THEN round + 1 ELSE round)
      /\ InTime /\ Lead
  BY <1>1 DEF Regular
<1>3. ~synced
  BY <1>1, <1>2
<1>4. InTime'
  BY <1>1, <1>2, InTimeKept DEF Sampled
<1>5. Lead'
  BY <1>1, <1>2 DEF Lead, Due, Ahead, GainAt
<1> QED BY <1>1, <1>2, <1>3, <1>4, <1>5 DEF Regular

LEMMA AheadTyped ==
  ASSUME CountersTyped, SeriesTyped
  PROVE  /\ \A i \in DOMAIN series[Master] : Ahead(i) \in Int
         /\ series[Master] # << >> => Ahead(Len(series[Master])) \in Int
<1>1. Master \in Panels
  BY DEF Panels
<1>2. series[Master] \in Seq(Observations) /\ DOMAIN series[Master] = 1..Len(series[Master])
      /\ Len(series[Master]) \in Nat
  BY <1>1, LengthTyped
<1>3. ASSUME NEW i \in DOMAIN series[Master] PROVE Ahead(i) \in Int
  <2>1. series[Master][i] \in Observations /\ i \in Nat
    BY <1>2
  <2>2. series[Master][i].used \in Int
    BY <2>1 DEF Observations
  <2>3. Counts(rate, i) \in Nat
    BY <2>1, CountersAre, AfterIs
  <2> QED BY <2>2, <2>3 DEF Ahead
<1>4. series[Master] # << >> => Len(series[Master]) \in DOMAIN series[Master]
  BY <1>2
<1> QED BY <1>3, <1>4

LEMMA RegularSynchronise ==
  ASSUME CountersTyped, SeriesTyped, Regular, Synchronise
  PROVE  Regular'
<1> SUFFICES ASSUME trouble' = 0 PROVE Regular'
  BY DEF Regular
<1>1. /\ ~synced /\ synced' = TRUE /\ merged' = SumAll(used)
      /\ master' = master + SumAll(used) - merged + GainAt(round)
      /\ UNCHANGED <<rate, gain, from, round, counted, pending, series>>
  BY DEF Synchronise, run, observed, GainAt
<1>2. trouble = 0 /\ counted = Nodes
  BY CostsIs DEF Synchronise, run
<1>3. merged = Counts(rate, round) /\ InTime /\ Lead
  BY <1>1, <1>2 DEF Regular
<1>4. merged' = Counts(rate, round + 1)
  BY <1>1, <1>2, UsedIs DEF Counts
<1>5. InTime'
  BY <1>1, <1>3, InTimeKept DEF Sampled
<1>6. Lead'
  <2>1. Master \in pending
    BY <1>1, <1>3 DEF InTime, Panels
  <2>2. Due = 0 /\ Due' = GainAt(round)
    BY <1>1, <2>1 DEF Due, GainAt
  <2>3. Ahead(Len(series[Master]))' = Ahead(Len(series[Master]))
    BY <1>1 DEF Ahead
  <2>4. master' - merged' = master - merged + GainAt(round)
    <3>1. /\ master \in Int /\ merged \in Int /\ SumAll(used) \in Int /\ gain \in Int
      BY CountersAre DEF CountersTyped
    <3>2. GainAt(round) \in Int
      BY <3>1 DEF GainAt
    <3> QED BY <1>1, <3>1, <3>2
  <2>5. master - merged \in Int /\ GainAt(round) \in Int
    BY CountersAre DEF CountersTyped, GainAt
  <2>6. series[Master] # << >> => Ahead(Len(series[Master])) \in Int
    BY AheadTyped
  <2> HIDE DEF Ahead, Due
  <2> QED BY <1>1, <1>3, <2>2, <2>3, <2>4, <2>5, <2>6 DEF Lead
<1> QED BY <1>1, <1>2, <1>4, <1>5, <1>6 DEF Regular

LEMMA RegularTick ==
  ASSUME CountersTyped, SeriesTyped, Regular, Tick
  PROVE  Regular'
<1> SUFFICES ASSUME trouble' = 0 PROVE Regular'
  BY DEF Regular
<1>1. /\ pending = {} /\ synced /\ counted = Nodes
      /\ round' = round + 1 /\ synced' = FALSE /\ pending' = Panels /\ trouble = 0
      /\ UNCHANGED <<rate, gain, from, master, merged, series>>
  BY DEF Tick, run
<1>2. merged = Counts(rate, round + 1) /\ InTime /\ Lead
  BY <1>1 DEF Regular
<1>3. InTime'
  <2>1. \A p \in Panels : Sampled(p)' = Sampled(p)
    BY <1>1, CountersAre DEF Sampled
  <2> QED BY <1>1, <1>2, <2>1, InTimeKept
<1>4. Lead'
  BY <1>1, <1>2 DEF Lead, Due, Ahead, GainAt
<1> QED BY <1>1, <1>2, <1>3, <1>4 DEF Regular

LEMMA RegularStep ==
  ASSUME CountersTyped, SeriesTyped, Regular, [Next]_vars
  PROVE  Regular'
<1>1. ASSUME NEW p \in Panels, Lose(p) PROVE Regular'
  <2>1. trouble' # 0
    BY <1>1, CostsIs DEF Lose, run
  <2> QED BY <2>1 DEF Regular
<1>2. CASE Disable \/ ChangeQuota \/ Finished \/ UNCHANGED vars
  <2>1. /\ trouble' = trouble
        /\ UNCHANGED <<rate, gain, from, master, merged, round, counted, synced, pending, series>>
    BY <1>2 DEF Disable, ChangeQuota, Finished, vars, run, observed
  <2> QED BY <2>1, RegularKept
<1> QED BY <1>1, <1>2, RegularCount, RegularSample, RegularSynchronise, RegularTick DEF Next

\* A constant amount more in every interval.
LEMMA SumPlus ==
  ASSUME NEW f \in [Nodes -> Nat], NEW g \in [Nodes -> Nat], NEW h \in [Nodes -> Nat],
         \A n \in Nodes : h[n] = f[n] + g[n]
  PROVE  SumAll(h) = SumAll(f) + SumAll(g)
<1> DEFINE Bad == {t \in SUBSET Nodes : PartSum(h, t) # PartSum(f, t) + PartSum(g, t)}
<1>1. /\ Family(f, Nodes) /\ SumAll(f) = PartSum(f, Nodes)
      /\ Family(g, Nodes) /\ SumAll(g) = PartSum(g, Nodes)
      /\ Family(h, Nodes) /\ SumAll(h) = PartSum(h, Nodes)
  BY SumIsTotal
<1>2. Bad = {}
  <2> SUFFICES ASSUME Bad # {} PROVE FALSE
    OBVIOUS
  <2>1. PICK t \in Bad : \A u \in Bad : u \subseteq t => u = t
    <3>1. Bad \subseteq SUBSET Nodes /\ IsFiniteSet(Nodes)
      BY PanelsAssumption
    <3> HIDE DEF Bad
    <3> QED BY <3>1, LeastSubset
  <2>2. t \in SUBSET Nodes /\ PartSum(h, t) # PartSum(f, t) + PartSum(g, t)
    BY <2>1
  <2>3. CASE t = {}
    <3>1. PartSum(h, t) = 0 /\ PartSum(f, t) = 0 /\ PartSum(g, t) = 0
      BY <1>1, <2>2, <2>3, SumStep
    <3> QED BY <2>2, <3>1
  <2>4. CASE t # {}
    <3>1. PICK n \in t : n \in Nodes
      BY <2>2, <2>4
    <3> DEFINE u == t \ {n}
    <3>2. u \in SUBSET Nodes /\ u \notin Bad
      BY <2>1, <2>2, <3>1
    <3>3. PartSum(h, u) = PartSum(f, u) + PartSum(g, u)
      BY <3>2
    <3>4. /\ PartSum(h, t) = h[n] + PartSum(h, u) /\ PartSum(f, t) = f[n] + PartSum(f, u)
          /\ PartSum(g, t) = g[n] + PartSum(g, u)
      BY <1>1, <2>2, <3>1, SumAny
    <3> HIDE DEF u
    <3>5. PartSum(f, u) \in Nat /\ PartSum(g, u) \in Nat
      BY <1>1, <3>2, SumType
    <3>6. h[n] = f[n] + g[n] /\ f[n] \in Nat /\ g[n] \in Nat
      BY <3>1
    <3> QED BY <2>2, <3>3, <3>4, <3>5, <3>6
  <2> QED BY <2>3, <2>4
<1>3. Nodes \in SUBSET Nodes
  OBVIOUS
<1> QED BY <1>1, <1>2, <1>3

\* From one interval to the next the nodes' counters grow by this run's traffic.
LEMMA CountsGrow ==
  ASSUME NEW r \in [Nodes -> Nat], NEW i \in Nat
  PROVE  Counts(r, i + 1) = Counts(r, i) + SumAll(r)
<1>1. After(r, i) \in [Nodes -> Nat] /\ After(r, i + 1) \in [Nodes -> Nat]
  BY AfterIs
<1>2. \A n \in Nodes : After(r, i + 1)[n] = After(r, i)[n] + r[n]
  <2> TAKE n \in Nodes
  <2>1. /\ After(r, i)[n] = Start[n] + i * r[n] /\ After(r, i + 1)[n] = Start[n] + (i + 1) * r[n]
        /\ i * r[n] \in Nat
    BY AfterIs
  <2>2. (i + 1) * r[n] = i * r[n] + r[n] /\ r[n] \in Nat /\ Start[n] \in Nat
    BY Times, CountsAssumption
  <2> QED BY <2>1, <2>2
<1> HIDE DEF After
<1> QED BY <1>1, <1>2, SumPlus DEF Counts

\* A counter that is at least as high for every node is so in sum.
LEMMA SumAtLeast ==
  ASSUME NEW f \in [Nodes -> Nat], NEW h \in [Nodes -> Nat], \A n \in Nodes : f[n] <= h[n]
  PROVE  SumAll(f) <= SumAll(h)
<1> DEFINE g == [n \in Nodes |-> h[n] - f[n]]
<1>1. g \in [Nodes -> Nat] /\ \A n \in Nodes : h[n] = f[n] + g[n]
  OBVIOUS
<1> HIDE DEF g
<1>2. SumAll(h) = SumAll(f) + SumAll(g) /\ SumAll(f) \in Nat /\ SumAll(g) \in Nat
  BY <1>1, SumPlus, SumIsTotal
<1> QED BY <1>2

-----------------------------------------------------------------------------
(* How far behind an observation may be *)

LEMMA TrafficTyped ==
  ASSUME CountersTyped
  PROVE  /\ Traffic \in Nat /\ rate \in [Nodes -> Nat] /\ round \in Nat /\ merged \in Nat /\ master \in Nat
         /\ \A i \in Nat : Counts(rate, i) \in Nat /\ Counts(rate, i + 1) = Counts(rate, i) + Traffic
BY CountersAre, SumIsTotal, AfterIs, CountsGrow DEF CountersTyped, Traffic

\* Within an interval the nodes' counters are between those of its beginning and its end.
LEMMA UsedBetween ==
  ASSUME CountersTyped
  PROVE  /\ \A n \in Nodes : /\ used[n] \in Nat /\ rate[n] \in Nat
                             /\ After(rate, round + 1)[n] - rate[n] <= used[n]
                             /\ used[n] <= After(rate, round + 1)[n]
         /\ Counts(rate, round) <= SumAll(used) /\ SumAll(used) <= Counts(rate, round + 1)
<1>1. round \in Nat /\ round + 1 \in Nat /\ rate \in [Nodes -> Nat] /\ used \in [Nodes -> Nat]
  BY CountersAre
<1>2. \A n \in Nodes : used[n] = Start[n] + round * rate[n] + (IF n \in counted THEN rate[n] ELSE 0)
  BY DEF CountersTyped
<1>3. \A n \in Nodes : /\ Start[n] \in Nat /\ rate[n] \in Nat /\ round * rate[n] \in Nat
                       /\ (round + 1) * rate[n] = round * rate[n] + rate[n]
  BY <1>1, Times, CountsAssumption
<1>4. \A n \in Nodes : /\ After(rate, round)[n] = Start[n] + round * rate[n]
                       /\ After(rate, round + 1)[n] = Start[n] + (round + 1) * rate[n]
  BY <1>1, AfterIs
<1>5. ASSUME NEW n \in Nodes
      PROVE  /\ After(rate, round)[n] <= used[n] /\ used[n] <= After(rate, round + 1)[n]
             /\ After(rate, round + 1)[n] - rate[n] <= used[n] /\ used[n] \in Nat /\ rate[n] \in Nat
  <2>1. /\ used[n] = Start[n] + round * rate[n] + (IF n \in counted THEN rate[n] ELSE 0)
        /\ Start[n] \in Nat /\ rate[n] \in Nat /\ round * rate[n] \in Nat
        /\ After(rate, round)[n] = Start[n] + round * rate[n]
        /\ After(rate, round + 1)[n] = Start[n] + round * rate[n] + rate[n]
    BY <1>2, <1>3, <1>4
  <2> HIDE DEF After
  <2> QED BY <2>1
<1>6. After(rate, round) \in [Nodes -> Nat] /\ After(rate, round + 1) \in [Nodes -> Nat]
  BY <1>1, AfterIs
<1> HIDE DEF After
<1>7. Counts(rate, round) <= SumAll(used) /\ SumAll(used) <= Counts(rate, round + 1)
  BY <1>1, <1>5, <1>6, SumAtLeast DEF Counts
<1> QED BY <1>5, <1>7

LEMMA BehindInit == CountersTyped /\ Init => MasterBehind /\ NodeBehind /\ SeriesBehind
<1> SUFFICES ASSUME CountersTyped, Init PROVE MasterBehind /\ NodeBehind /\ SeriesBehind
  OBVIOUS
<1>1. \A p \in Panels : series[p] = << >> /\ DOMAIN series[p] = {}
  BY DEF Init
<1>2. NodeBehind /\ SeriesBehind
  BY <1>1 DEF NodeBehind, SeriesBehind, Panels
<1>3. merged = Counts(rate, 0) /\ round = 0 /\ ~synced
  <2>1. counted = {} /\ round = 0 /\ used = Start /\ merged = SumAll(Start) /\ ~synced
    BY DEF Init
  <2>2. used = After(rate, 0)
    BY <2>1, UsedIs
  <2> QED BY <2>1, <2>2 DEF Counts
<1>4. MasterBehind
  BY <1>3, TrafficTyped DEF MasterBehind
<1> QED BY <1>2, <1>4

\* Steps that leave the interval and the series as they are.
LEMMA BehindKept ==
  ASSUME MasterBehind, NodeBehind, SeriesBehind,
         UNCHANGED <<rate, gain, master, merged, round, synced, series>>,
         \A p \in Panels : obs'[p] = {} => obs[p] = {}
  PROVE  MasterBehind' /\ NodeBehind' /\ SeriesBehind'
<1>1. Traffic' = Traffic /\ \A i : Counts(rate, i)' = Counts(rate, i) /\ After(rate, i)' = After(rate, i)
  BY DEF Traffic
<1>2. MasterBehind'
  BY <1>1 DEF MasterBehind
<1>3. NodeBehind'
  BY <1>1 DEF NodeBehind, Panels
<1>4. SeriesBehind'
  BY <1>1 DEF SeriesBehind, Panels
<1> QED BY <1>2, <1>3, <1>4

LEMMA BehindSynchronise ==
  ASSUME CountersTyped, MasterBehind, NodeBehind, SeriesBehind, Synchronise
  PROVE  MasterBehind' /\ NodeBehind' /\ SeriesBehind'
<1>1. /\ ~synced /\ synced' = TRUE /\ merged' = SumAll(used)
      /\ master' = master + SumAll(used) - merged + GainAt(round)
      /\ UNCHANGED <<rate, gain, round, series, obs>>
  BY DEF Synchronise, run, observed, GainAt
<1>2. Traffic' = Traffic /\ \A i : Counts(rate, i)' = Counts(rate, i) /\ After(rate, i)' = After(rate, i)
  BY <1>1 DEF Traffic
<1>3. /\ Traffic \in Nat /\ Counts(rate, round) \in Nat /\ SumAll(used) \in Nat
      /\ Counts(rate, round + 1) = Counts(rate, round) + Traffic
      /\ merged \in Nat /\ master \in Nat /\ gain \in Nat
  BY TrafficTyped, CountersAre
<1>4. MasterBehind'
  BY <1>1, <1>2, <1>3, UsedBetween DEF MasterBehind
<1>5. NodeBehind'
  BY <1>1, <1>2 DEF NodeBehind
<1>6. gain = 0 => master' - merged' = master - merged
  BY <1>1, <1>3 DEF GainAt
<1>7. SeriesBehind'
  BY <1>1, <1>2, <1>6 DEF SeriesBehind
<1> QED BY <1>4, <1>5, <1>7

LEMMA BehindTick ==
  ASSUME MasterBehind, NodeBehind, SeriesBehind, Tick
  PROVE  MasterBehind' /\ NodeBehind' /\ SeriesBehind'
<1>1. /\ synced /\ round' = round + 1 /\ ~synced'
      /\ UNCHANGED <<rate, gain, master, merged, series, obs>>
  BY DEF Tick, run
<1>2. Traffic' = Traffic /\ \A i : Counts(rate, i)' = Counts(rate, i) /\ After(rate, i)' = After(rate, i)
  BY <1>1 DEF Traffic
<1>3. MasterBehind'
  BY <1>1, <1>2 DEF MasterBehind
<1>4. NodeBehind' /\ SeriesBehind'
  BY <1>1, <1>2 DEF NodeBehind, SeriesBehind
<1> QED BY <1>3, <1>4

LEMMA BehindSample ==
  ASSUME CountersTyped, SeriesTyped, MasterBehind, NodeBehind, SeriesBehind, NEW p \in Panels, Sample(p)
  PROVE  MasterBehind' /\ NodeBehind' /\ SeriesBehind'
<1>0. Master \in Panels /\ Nodes \subseteq Panels /\ \A n \in Nodes : n # Master
  BY PanelsAssumption DEF Panels
<1>1. /\ p \in pending
      /\ series'[p][Len(series[p]) + 1] = Observation(p)
      /\ DOMAIN series'[p] = 1..(Len(series[p]) + 1)
      /\ \A i \in 1..Len(series[p]) : series'[p][i] = series[p][i]
      /\ \A q \in Panels \ {p} : series'[q] = series[q]
      /\ UNCHANGED <<obs, round, master, merged, synced>>
  BY SampleEffect
<1>2. UNCHANGED <<rate, gain>>
  BY DEF Sample, run
<1>3. Traffic' = Traffic /\ \A i : Counts(rate, i)' = Counts(rate, i) /\ After(rate, i)' = After(rate, i)
  BY <1>2 DEF Traffic
<1>4. MasterBehind'
  BY <1>1, <1>3 DEF MasterBehind
<1>5. obs[p] = {} => Len(series[p]) = round
  <2>1. obs[p] = {} => Len(series[p]) = Sampled(p)
    BY DEF SeriesTyped
  <2> QED BY <1>1, <2>1, LengthTyped
<1>6. Len(series[p]) \in Nat /\ DOMAIN series[p] = 1..Len(series[p]) /\ round \in Nat
  BY LengthTyped, CountersAre
<1>7. NodeBehind'
  <2> SUFFICES ASSUME NEW n \in Nodes, obs[n] = {}, NEW i \in DOMAIN series'[n]
               PROVE  /\ After(rate, i)[n] - rate[n] <= series'[n][i].used
                      /\ series'[n][i].used <= After(rate, i)[n]
    BY <1>1, <1>2, <1>3 DEF NodeBehind
  <2>1. \A j \in DOMAIN series[n] : /\ After(rate, j)[n] - rate[n] <= series[n][j].used
                                    /\ series[n][j].used <= After(rate, j)[n]
    BY DEF NodeBehind
  <2> HIDE DEF After
  <2>2. CASE n # p
    BY <1>0, <1>1, <2>1, <2>2
  <2>3. CASE n = p /\ i = round + 1
    <3>1. series'[p][i].used = used[p]
      <4>1. series'[p][i] = Observation(p)
        BY <1>1, <1>5, <2>3
      <4> QED BY <1>0, <2>3, <4>1, ObservationTyped
    <3> QED BY <2>3, <3>1, UsedBetween
  <2>4. CASE n = p /\ i # round + 1
    <3>1. i \in 1..Len(series[p])
      BY <1>1, <1>5, <1>6, <2>4
    <3> QED BY <1>1, <1>6, <2>1, <2>4, <3>1
  <2> QED BY <2>2, <2>3, <2>4
<1>8. SeriesBehind'
  <2> DEFINE within(x, i) == /\ Counts(rate, i) - 2 * Traffic <= x - (master - merged)
                             /\ x - (master - merged) <= Counts(rate, i)
  <2> SUFFICES ASSUME gain = 0, obs[Master] = {}, NEW i \in DOMAIN series'[Master]
               PROVE  within(series'[Master][i].used, i)
    BY <1>1, <1>2, <1>3 DEF SeriesBehind
  <2>1. \A j \in DOMAIN series[Master] : within(series[Master][j].used, j)
    BY DEF SeriesBehind
  <2>2. CASE p # Master
    <3> HIDE DEF within
    <3> QED BY <1>0, <1>1, <2>1, <2>2
  <2>3. CASE p = Master /\ i = round + 1
    <3>1. series'[Master][i].used = master
      <4>1. series'[Master][i] = Observation(Master)
        BY <1>1, <1>5, <2>3
      <4> QED BY <1>0, <4>1, ObservationTyped
    <3>2. /\ Traffic \in Nat /\ Counts(rate, round) \in Nat /\ merged \in Nat /\ master \in Nat
          /\ Counts(rate, round + 1) = Counts(rate, round) + Traffic
      BY TrafficTyped
    <3>3. /\ Counts(rate, IF synced THEN round + 1 ELSE round) - Traffic <= merged
          /\ merged <= Counts(rate, IF synced THEN round + 1 ELSE round)
      BY DEF MasterBehind
    <3>4. within(master, round + 1)
      <4> HIDE DEF Counts, Traffic
      <4>1. CASE synced
        BY <3>2, <3>3, <4>1
      <4>2. CASE ~synced
        BY <3>2, <3>3, <4>2
      <4> QED BY <4>1, <4>2
    <3> HIDE DEF within
    <3> QED BY <2>3, <3>1, <3>4
  <2>4. CASE p = Master /\ i # round + 1
    <3>1. i \in 1..Len(series[p])
      BY <1>1, <1>5, <1>6, <2>4
    <3> HIDE DEF within
    <3> QED BY <1>1, <1>6, <2>1, <2>4, <3>1
  <2> QED BY <2>2, <2>3, <2>4
<1> QED BY <1>4, <1>7, <1>8

LEMMA BehindStep ==
  ASSUME CountersTyped, SeriesTyped, MasterBehind, NodeBehind, SeriesBehind, [Next]_vars
  PROVE  MasterBehind' /\ NodeBehind' /\ SeriesBehind'
<1>1. ASSUME NEW p \in Panels, Lose(p) PROVE MasterBehind' /\ NodeBehind' /\ SeriesBehind'
  <2>1. /\ UNCHANGED <<rate, gain, master, merged, round, synced, series>>
        /\ obs' = [obs EXCEPT ![p] = @ \cup {Obs("API-001", "traffic_sample_failed", "inconclusive", p)}]
    BY <1>1 DEF Lose, run
  <2>2. \A q \in Panels : obs'[q] = {} => obs[q] = {}
    <3>1. DOMAIN obs = Panels
      BY DEF SeriesTyped
    <3> QED BY <2>1, <3>1
  <2> QED BY <2>1, <2>2, BehindKept
<1>2. CASE Disable \/ ChangeQuota \/ Finished \/ UNCHANGED vars \/ \E n \in Nodes : Count(n)
  <2>1. UNCHANGED <<rate, gain, master, merged, round, synced, series, obs>>
    BY <1>2 DEF Disable, ChangeQuota, Finished, Count, vars, run, observed
  <2> QED BY <2>1, BehindKept
<1> QED BY <1>1, <1>2, BehindSample, BehindSynchronise, BehindTick DEF Next

LEMMA WindowInit == Init => WindowInv
BY CountersInit, SeriesInit, OverdueInit, RegularInit, BehindInit DEF WindowInv

LEMMA WindowStep == WindowInv /\ [Next]_vars => WindowInv'
BY CountersStep, SeriesStep, OverdueStep, RegularStep, BehindStep DEF WindowInv

LEMMA WindowInvariant == Spec => []WindowInv
BY WindowInit, WindowStep, PTL DEF Spec

-----------------------------------------------------------------------------
(* The series as the rule pack compares them *)

\* What a node has counted at its i-th observation.
UsedAt(p, i) ==
  IF i <= Len(Snapshot[p].traffic[Client]) THEN Snapshot[p].traffic[Client][i].used ELSE 0
SumAt(i) == MapThenSumSet(LAMBDA p : UsedAt(p, i), Nodes)

\* Equal terms have equal sums.
LEMMA EqualSums ==
  ASSUME NEW f \in [Nodes -> Nat], NEW i, \A n \in Nodes : f[n] = UsedAt(n, i)
  PROVE  SumAll(f) = SumAt(i)
<1> DEFINE at(x) == f[x]
           seen(x) == UsedAt(x, i)
           F(g) == g = [s \in SUBSET Nodes |->
                          IF s = {} THEN 0
                          ELSE at(CHOOSE x \in s : TRUE) + g[s \ {CHOOSE x \in s : TRUE}]]
           G(g) == g = [s \in SUBSET Nodes |->
                          IF s = {} THEN 0
                          ELSE seen(CHOOSE x \in s : TRUE) + g[s \ {CHOOSE x \in s : TRUE}]]
<1>0. \A x \in Nodes : at(x) = seen(x)
  OBVIOUS
<1>1. (CHOOSE g : F(g))[Nodes] = SumAll(f)
  BY DEF SumAll, MapThenSumSet, MapThenFoldSet
<1>2. (CHOOSE g : G(g))[Nodes] = SumAt(i)
  BY DEF SumAt, MapThenSumSet, MapThenFoldSet
<1>3. \A g : F(g) <=> G(g)
  <2> HIDE DEF at, seen
  <2> SUFFICES ASSUME NEW g, NEW s \in SUBSET Nodes, s # {}
               PROVE  at(CHOOSE x \in s : TRUE) = seen(CHOOSE x \in s : TRUE)
    BY Zenon
  <2>1. (CHOOSE x \in s : TRUE) \in Nodes
    OBVIOUS
  <2> QED BY <1>0, <2>1
<1>4. (CHOOSE g : F(g)) = (CHOOSE g : G(g))
  <2> HIDE DEF F, G
  <2> QED BY <1>3
<1> HIDE DEF F, G
<1> QED BY <1>1, <1>2, <1>4

\* Every panel was sampled six times.
Complete == \A p \in Panels : series[p] \in Seq(Observations) /\ Len(series[p]) = 6

\* What was read at the i-th observation of every node, of the master, and in sum.
Read(i) == [n \in Nodes |-> series[n][i].used]
MasterUsed == [i \in 1..6 |-> series[Master][i].used]
NodesUsed == [i \in 1..6 |-> SumAll(Read(i))]

LEMMA ReadTyped ==
  ASSUME Complete
  PROVE  /\ \A i \in 1..6 : Read(i) \in [Nodes -> Nat]
         /\ \A i \in 1..6 : MasterUsed[i] \in Nat /\ NodesUsed[i] \in Nat
<1>1. ASSUME NEW p \in Panels, NEW i \in 1..6 PROVE series[p][i].used \in Nat
  <2>1. series[p] \in Seq(Observations) /\ Len(series[p]) = 6
    BY DEF Complete
  <2>2. series[p][i] \in Observations
    BY <2>1
  <2> QED BY <2>2 DEF Observations
<1>2. Master \in Panels /\ Nodes \subseteq Panels
  BY DEF Panels
<1>3. \A i \in 1..6 : Read(i) \in [Nodes -> Nat]
  BY <1>1, <1>2 DEF Read
<1>4. \A i \in 1..6 : SumAll(Read(i)) \in Nat
  <2> HIDE DEF Read
  <2> QED BY <1>3, SumIsTotal
<1> QED BY <1>1, <1>2, <1>3, <1>4 DEF MasterUsed, NodesUsed

\* Then this is what the rule pack compares: six counters of the master with six sums.
LEMMA ComparedSeries ==
  ASSUME Complete
  PROVE  /\ UsedSeries(Snapshot[Master].traffic, Client) = MasterUsed
         /\ NodeSeries(Snapshot, Client) = Nodes
         /\ SumSeries(Snapshot, Client) = NodesUsed
<1> HIDE DEF Snapshot
<1>1. /\ Master \in Panels /\ Nodes \subseteq Panels /\ Master \notin Nodes
      /\ \A p \in Panels : p # Master => p \in Nodes
  BY PanelsAssumption DEF Panels
<1>2. \A p \in Panels : series[p] # << >>
  <2>1. \A p \in Panels : Len(series[p]) = 6
    BY DEF Complete
  <2> QED BY <2>1
<1>3. \A p \in Panels : /\ Client \in DOMAIN Snapshot[p].traffic
                        /\ Snapshot[p].traffic[Client] = series[p]
                        /\ Snapshot[p].role = (IF p = Master THEN "master" ELSE "node")
  BY <1>2, SnapshotIs
<1>4. UsedSeries(Snapshot[Master].traffic, Client) = MasterUsed
  <2>1. Snapshot[Master].traffic[Client] = series[Master] /\ Len(series[Master]) = 6
    BY <1>1, <1>3 DEF Complete
  <2> QED BY <2>1 DEF UsedSeries, MasterUsed
<1>5. NodeSeries(Snapshot, Client) = Nodes
  BY <1>1, <1>3, SnapshotIs DEF NodeSeries
<1>6. ASSUME NEW n \in Nodes, NEW i \in 1..6 PROVE Read(i)[n] = UsedAt(n, i)
  <2>1. Snapshot[n].traffic[Client] = series[n] /\ Len(series[n]) = 6
    BY <1>1, <1>3 DEF Complete
  <2> QED BY <2>1 DEF UsedAt, Read
<1>7. \A i \in 1..6 : SumAll(Read(i)) = SumAt(i)
  <2> TAKE i \in 1..6
  <2>1. Read(i) \in [Nodes -> Nat]
    BY ReadTyped
  <2> HIDE DEF Read
  <2> QED BY <1>6, <2>1, EqualSums
<1> DEFINE lengths == {Len(Snapshot[p].traffic[Client]) : p \in Nodes}
<1>8. Max(lengths) = 6
  <2>1. \A p \in Nodes : Len(Snapshot[p].traffic[Client]) = 6
    BY <1>1, <1>3 DEF Complete
  <2>2. lengths = {6}
    BY <2>1, PanelsAssumption
  <2>3. Max({6}) = 6
    BY DEF Max
  <2> QED BY <2>2, <2>3
<1>9. SumSeries(Snapshot, Client) = [i \in 1..Max(lengths) |-> SumAt(i)]
  BY <1>5 DEF SumSeries, SumAt, UsedAt
<1>10. SumSeries(Snapshot, Client) = NodesUsed
  <2> HIDE DEF lengths
  <2>1. SumSeries(Snapshot, Client) = [i \in 1..6 |-> SumAt(i)]
    BY <1>8, <1>9
  <2> QED BY <1>7, <2>1 DEF NodesUsed
<1> QED BY <1>4, <1>5, <1>10

\* The client is compared.
LEMMA ClientCompared ==
  ASSUME Complete, listed[Master] # {}
  PROVE  EvaluateTraffic(Snapshot) =
           ClientTrafficFindings(MasterUsed, NodesUsed, Client)
<1> HIDE DEF Snapshot
<1> DEFINE m == Snapshot[Master]
           said == ClientTrafficFindings(MasterUsed, NodesUsed, Client)
<1>1. /\ Master \in Panels /\ Nodes \subseteq Panels /\ Master \notin Nodes /\ Nodes # {}
  BY PanelsAssumption DEF Panels
<1>2. series[Master] # << >> /\ Len(series[Master]) = 6
  <2>1. Len(series[Master]) = 6
    BY <1>1 DEF Complete
  <2>2. Len(<< >>) # 6
    OBVIOUS
  <2>3. ASSUME series[Master] = << >> PROVE FALSE
    BY <2>1, <2>2, <2>3, Zenon
  <2> QED BY <2>1, <2>3
<1>3. /\ DOMAIN Snapshot = Panels /\ m.guid = Master
      /\ \A p \in Panels : Snapshot[p].role = (IF p = Master THEN "master" ELSE "node")
      /\ DOMAIN m.traffic = {Client} /\ m.traffic[Client] = series[Master]
  BY <1>1, <1>2, SnapshotIs
<1>4. (CHOOSE p \in DOMAIN Snapshot : Snapshot[p].role = "master") = Master
  <2>1. \A p \in Panels : Snapshot[p].role = "master" <=> p = Master
    BY <1>3
  <2> QED BY <1>1, <1>3, <2>1
<1>5. \E client \in m.clients : client.id = Client /\ IsNodeOnlyClient(client, m)
  <2>1. PICK total \in listed[Master] : TRUE
    OBVIOUS
  <2> DEFINE aliases == {InboundOn(n).alias : n \in Nodes}
             client == [id |-> Client, enabled |-> TRUE, total |-> total, expiry |-> 0,
                        inbounds |-> aliases]
  <2>2. client \in m.clients /\ m.inbounds = {InboundOn(n) : n \in Nodes}
    BY <1>1, <2>1, SnapshotIs
  <2>3. client.id = Client /\ client.inbounds = aliases
    OBVIOUS
  <2> HIDE DEF client
  <2>4. aliases # {}
    BY <1>1
  <2>5. ASSUME NEW alias \in aliases
        PROVE  \E in \in m.inbounds : in.alias = alias /\ in.origin # m.guid
    <3>1. PICK n \in Nodes : alias = InboundOn(n).alias
      OBVIOUS
    <3>2. InboundOn(n) \in m.inbounds /\ InboundOn(n).origin = n /\ n # m.guid
      BY <1>1, <1>3, <2>2 DEF InboundOn
    <3> QED BY <3>1, <3>2
  <2>6. IsNodeOnlyClient(client, m)
    <3> HIDE DEF aliases
    <3> QED BY <2>3, <2>4, <2>5 DEF IsNodeOnlyClient
  <2> QED BY <2>2, <2>3, <2>6
<1>6. /\ UsedSeries(m.traffic, Client) = MasterUsed
      /\ NodeSeries(Snapshot, Client) = Nodes
      /\ SumSeries(Snapshot, Client) = NodesUsed
  BY ComparedSeries
<1> HIDE DEF m
<1>7. ComparedClients(Snapshot, Master) = {Client}
  <2>1. \A c : c \in ComparedClients(Snapshot, Master) <=>
                 /\ c \in DOMAIN m.traffic
                 /\ \E client \in m.clients : client.id = c /\ IsNodeOnlyClient(client, m)
                 /\ Len(m.traffic[c]) >= 4 /\ NodeSeries(Snapshot, c) # {}
    BY DEF ComparedClients, m
  <2>2. Len(m.traffic[Client]) >= 4
    <3>1. Len(m.traffic[Client]) = 6
      BY <1>2, <1>3, Zenon
    <3> QED BY <3>1
  <2>3. Client \in ComparedClients(Snapshot, Master)
    BY <1>1, <1>3, <1>5, <1>6, <2>1, <2>2
  <2>4. \A c \in ComparedClients(Snapshot, Master) : c = Client
    BY <1>3, <2>1
  <2> QED BY <2>3, <2>4
<1> DEFINE compared == ComparedClients(Snapshot, Master)
           found(c) == ClientTrafficFindings(UsedSeries(m.traffic, c), SumSeries(Snapshot, c), c)
<1>8. EvaluateTraffic(Snapshot)
        = When(\E p \in DOMAIN Snapshot : Snapshot[p].role = "node",
               IF compared = {} THEN {Finding(rule, "UNKNOWN", "") : rule \in {"TRAFFIC-001", "TRAFFIC-002"}}
               ELSE UNION {found(c) : c \in compared})
  BY <1>4 DEF EvaluateTraffic, m
<1>9. \E p \in DOMAIN Snapshot : Snapshot[p].role = "node"
  BY <1>1, <1>3
<1>10. found(Client) = said
  BY <1>6, Zenon
<1> HIDE DEF found, said
<1>11. EvaluateTraffic(Snapshot) = found(Client)
  BY <1>7, <1>8, <1>9 DEF When
<1> QED BY <1>10, <1>11 DEF said

\* How the two series move.
LEMMA SeriesMove ==
  ASSUME WindowInv, Complete, trouble = 0
  PROVE  /\ \A i \in 1..6 : /\ MasterUsed[i] \in Int /\ NodesUsed[i] \in Nat
                            /\ MasterUsed[i] - NodesUsed[i] = Ahead(i)
         /\ \A i \in 1..5 : /\ NodesUsed[i + 1] = NodesUsed[i] + SumAll(rate)
                            /\ Ahead(i + 1) = Ahead(i) + GainAt(i)
         /\ \A i \in 1..6 : Ahead(i) \in Int
         /\ Closed => master - merged = Ahead(6) /\ merged = NodesUsed[6]
         /\ SumAll(rate) \in Nat
<1>0. CountersTyped /\ SeriesTyped /\ Regular
  BY DEF WindowInv
<1>1. /\ Master \in Panels /\ Len(series[Master]) = 6 /\ series[Master] \in Seq(Observations)
      /\ DOMAIN series[Master] = 1..6
  BY <1>0, LengthTyped DEF Complete, Panels
<1>2. rate \in [Nodes -> Nat] /\ SumAll(rate) \in Nat
  BY <1>0, CountersAre, SumIsTotal
<1>3. \A i \in 1..6 : Ahead(i) \in Int
  BY <1>0, <1>1, AheadTyped
<1>8. ASSUME NEW i \in 1..6 PROVE NodesUsed[i] = Counts(rate, i)
  <2>0. i \in Nat
    OBVIOUS
  <2>1. After(rate, i) \in [Nodes -> Nat] /\ Read(i) \in [Nodes -> Nat]
    BY <1>2, <2>0, AfterIs, ReadTyped
  <2>2. ASSUME NEW n \in Nodes PROVE Read(i)[n] = After(rate, i)[n]
    <3>1. n \in Panels /\ DOMAIN series[n] = 1..6
      <4>1. n \in Panels
        BY DEF Panels
      <4> QED BY <1>0, <4>1, LengthTyped DEF Complete
    <3>2. series[n][i].used = After(rate, i)[n]
      BY <1>0, <3>1 DEF Regular, InTime
    <3> QED BY <3>2 DEF Read
  <2>3. Read(i) = After(rate, i)
    <3> HIDE DEF Read, After
    <3> QED BY <2>1, <2>2
  <2> QED BY <2>3 DEF NodesUsed, Counts
<1>4. ASSUME NEW i \in 1..6
      PROVE  MasterUsed[i] \in Int /\ NodesUsed[i] \in Nat /\ MasterUsed[i] - NodesUsed[i] = Ahead(i)
  <2>1. MasterUsed[i] \in Nat /\ NodesUsed[i] \in Nat
    BY ReadTyped
  <2>3. MasterUsed[i] = series[Master][i].used
    BY DEF MasterUsed
  <2>2. NodesUsed[i] = Counts(rate, i)
    BY <1>8
  <2>4. Ahead(i) = MasterUsed[i] - NodesUsed[i]
    BY <2>2, <2>3 DEF Ahead
  <2> HIDE DEF MasterUsed, NodesUsed, Ahead
  <2> QED BY <2>1, <2>4
<1>5. \A i \in 1..5 : NodesUsed[i + 1] = NodesUsed[i] + SumAll(rate)
  <2> TAKE i \in 1..5
  <2>1. Counts(rate, i + 1) = Counts(rate, i) + SumAll(rate)
    BY <1>2, CountsGrow
  <2> QED BY <1>8, <2>1
<1>6. \A i \in 1..5 : Ahead(i + 1) = Ahead(i) + GainAt(i)
  <2>1. \A i \in 1..(Len(series[Master]) - 1) : Ahead(i + 1) = Ahead(i) + GainAt(i)
    BY <1>0 DEF Regular, InTime
  <2>2. \A i \in 1..5 : i \in 1..(Len(series[Master]) - 1)
    BY <1>1
  <2> HIDE DEF Ahead, GainAt
  <2> QED BY <2>1, <2>2
<1>7. ASSUME Closed PROVE master - merged = Ahead(6) /\ merged = NodesUsed[6]
  <2>1. round = 5 /\ pending = {} /\ synced
    BY <1>7 DEF Closed, Rounds
  <2>2. merged = Counts(rate, 6) /\ Lead
    BY <1>0, <2>1 DEF Regular
  <2>3. Len(<< >>) # 6
    OBVIOUS
  <2>4. series[Master] # << >>
    <3>1. ASSUME series[Master] = << >> PROVE FALSE
      BY <1>1, <2>3, <3>1, Zenon
    <3> QED BY <3>1
  <2>5. Due = 0
    BY <2>1 DEF Due
  <2>6. master - merged = Ahead(Len(series[Master])) + Due
    BY <2>2, <2>4 DEF Lead
  <2>7. Ahead(Len(series[Master])) = Ahead(6)
    BY <1>1
  <2>8. master - merged = Ahead(6) + 0
    BY <2>5, <2>6, <2>7, Zenon
  <2> HIDE DEF Ahead
  <2> QED BY <1>3, <1>8, <2>2, <2>8
<1> QED BY <1>2, <1>3, <1>4, <1>5, <1>6, <1>7

\* In a READY window nothing was lost.
NothingLost == \A p \in Panels : obs[p] = {}

\* When nothing was lost, nothing is missing.
LEMMA WholeComplete ==
  ASSUME WindowInv, Closed, NothingLost
  PROVE  Complete /\ listed[Master] # {}
<1>1. CountersTyped /\ SeriesTyped /\ Master \in Panels
  BY DEF WindowInv, Panels
<1>2. ASSUME NEW p \in Panels PROVE Len(series[p]) = 6 /\ listed[p] # {} /\ series[p] \in Seq(Observations)
  <2>1. /\ obs[p] = {} => Len(series[p]) = Sampled(p)
        /\ obs[p] = {} /\ Sampled(p) > 0 => listed[p] # {}
        /\ series[p] \in Seq(Observations)
    BY <1>1 DEF SeriesTyped
  <2>2. obs[p] = {}
    BY DEF NothingLost
  <2>3. Sampled(p) = 6
    BY DEF Sampled, Closed, Rounds
  <2> QED BY <2>1, <2>2, <2>3
<1>3. Complete
  BY <1>2 DEF Complete
<1> QED BY <1>1, <1>2, <1>3

LEMMA ReadyWhole ==
  ASSUME WindowInv, Closed, Verdict = "READY"
  PROVE  Complete /\ listed[Master] # {} /\ NothingLost
<1>1. NothingLost
  BY Ready DEF NothingLost, WindowInv, SeriesTyped
<1> QED BY <1>1, WholeComplete

\* A READY window in which nothing came early was observed without troubles.
LEMMA ReadyUntroubled ==
  ASSUME WindowInv, InTurn, Closed, Verdict = "READY"
  PROVE  trouble = 0 /\ Complete /\ listed[Master] # {}
<1>1. CountersTyped /\ SeriesTyped /\ IsFiniteSet(Panels) /\ Master \in Panels
  BY PanelsAssumption, FS_AddElement DEF WindowInv, Panels
<1>2. \A p \in Panels : Len(series[p]) = 6 /\ listed[p] # {}
  BY <1>1, ReadyComplete
<1>3. Complete
  BY <1>1, <1>2 DEF Complete, SeriesTyped
<1> DEFINE missing(x) == Rounds + 1 - Len(series[x])
           zeros == [x \in Panels |-> 0]
           zero(x) == zeros[x]
           F(g) == g = [s \in SUBSET Panels |->
                          IF s = {} THEN 0
                          ELSE missing(CHOOSE x \in s : TRUE) + g[s \ {CHOOSE x \in s : TRUE}]]
           G(g) == g = [s \in SUBSET Panels |->
                          IF s = {} THEN 0
                          ELSE zero(CHOOSE x \in s : TRUE) + g[s \ {CHOOSE x \in s : TRUE}]]
<1>4. \A x \in Panels : missing(x) = zero(x)
  BY <1>2 DEF Rounds
<1>5. (CHOOSE g : F(g))[Panels] = trouble
  BY DEF InTurn, MapThenSumSet, MapThenFoldSet
<1>6. (CHOOSE g : G(g))[Panels] = 0
  <2>1. Total(zeros) = 0 /\ DOMAIN zeros = Panels
    BY <1>1, TotalZero
  <2>2. (CHOOSE g : G(g))[Panels] = MapThenSumSet(LAMBDA p : zeros[p], Panels)
    BY DEF MapThenSumSet, MapThenFoldSet
  <2>3. Total(zeros) = MapThenSumSet(LAMBDA p : zeros[p], Panels)
    BY <2>1 DEF Total
  <2> QED BY <2>1, <2>2, <2>3
<1>7. \A g : F(g) <=> G(g)
  <2> HIDE DEF missing, zero
  <2> SUFFICES ASSUME NEW g, NEW s \in SUBSET Panels, s # {}
               PROVE  missing(CHOOSE x \in s : TRUE) = zero(CHOOSE x \in s : TRUE)
    BY Zenon
  <2>1. (CHOOSE x \in s : TRUE) \in Panels
    OBVIOUS
  <2> QED BY <1>4, <2>1
<1>8. (CHOOSE g : F(g)) = (CHOOSE g : G(g))
  <2> HIDE DEF F, G
  <2> QED BY <1>7
<1>9. trouble = 0
  <2> HIDE DEF F, G
  <2> QED BY <1>5, <1>6, <1>8
<1> QED BY <1>1, <1>2, <1>3, <1>9

\* The findings about the client, with six observations on both sides.
LEMMA SixCompared ==
  ClientTrafficFindings(MasterUsed, NodesUsed, Client)
    = When(RepeatedMasterDelta(MasterUsed, NodesUsed, 6), {Finding("TRAFFIC-001", "FAIL", Client)})
      \cup When(\E i \in 1..6 : Deviates(MasterUsed, NodesUsed, i),
                {Finding("TRAFFIC-002", "WARN", Client)})
      \cup When(\E i \in 1..4 : \A j \in i..(i + 2) : Deviates(MasterUsed, NodesUsed, j),
                {Finding("TRAFFIC-002", "FAIL", Client)})
<1>1. Len(MasterUsed) = 6 /\ Len(NodesUsed) = 6
  BY DEF MasterUsed, NodesUsed
<1> HIDE DEF MasterUsed, NodesUsed
<1>2. Smaller(Len(MasterUsed), Len(NodesUsed)) = 6
  BY <1>1 DEF Smaller
<1> QED BY <1>2 DEF ClientTrafficFindings, When

\* Then a READY verdict is one in which neither traffic rule has failed for the client.
LEMMA ReadyTraffic ==
  ASSUME WindowInv, Closed, Verdict = "READY"
  PROVE  /\ ~RepeatedMasterDelta(MasterUsed, NodesUsed, 6)
         /\ ~\E i \in 1..4 : \A j \in i..(i + 2) : Deviates(MasterUsed, NodesUsed, j)
<1>1. Complete /\ listed[Master] # {}
  BY ReadyWhole
<1>2. EvaluateTraffic(Snapshot) = ClientTrafficFindings(MasterUsed, NodesUsed, Client)
  BY <1>1, ClientCompared
<1>3. \A f \in ClientTrafficFindings(MasterUsed, NodesUsed, Client) : f.status # "FAIL"
  BY <1>2, Ready
<1> HIDE DEF MasterUsed, NodesUsed
<1>7. /\ Finding("TRAFFIC-001", "FAIL", Client).status = "FAIL"
      /\ Finding("TRAFFIC-002", "FAIL", Client).status = "FAIL"
  BY DEF Finding
<1> QED BY <1>3, <1>7, SixCompared DEF When

LEMMA AccumulationHolds == WindowInv => AccumulationCaught
<1> SUFFICES ASSUME WindowInv, Closed, gain > 0, Idle, InTurn, Verdict = "READY" PROVE FALSE
  BY DEF AccumulationCaught
<1>1. trouble = 0 /\ Complete /\ ~RepeatedMasterDelta(MasterUsed, NodesUsed, 6)
  BY ReadyUntroubled, ReadyTraffic
<1>2. gain \in Nat /\ from \in 1..3 /\ rate \in [Nodes -> Nat]
  BY CountersAre DEF WindowInv, CountersTyped, Rounds
<1>3. SumAll(rate) = 0
  <2>1. rate = [n \in Nodes |-> 0]
    BY <1>2 DEF Idle
  <2>2. Total(rate) = 0
    BY <2>1, TotalZero, PanelsAssumption
  <2> QED BY <1>2, <2>2, SumIsTotal
<1> DEFINE m == MasterUsed
           n == NodesUsed
<1>4. ASSUME NEW i \in 1..5
      PROVE  n[i + 1] - n[i] = 0 /\ (i >= from => m[i + 1] - m[i] = gain)
  <2>1. /\ m[i] \in Int /\ n[i] \in Nat /\ m[i] - n[i] = Ahead(i) /\ Ahead(i) \in Int
        /\ m[i + 1] \in Int /\ n[i + 1] \in Nat /\ m[i + 1] - n[i + 1] = Ahead(i + 1)
        /\ n[i + 1] = n[i] + SumAll(rate) /\ Ahead(i + 1) = Ahead(i) + GainAt(i)
    BY <1>1, SeriesMove
  <2>2. i >= from => GainAt(i) = gain
    BY DEF GainAt
  <2> HIDE DEF Ahead, GainAt, m, n
  <2> QED BY <1>2, <1>3, <2>1, <2>2
<1>5. Abs(0) <= QuietDelta
  BY DEF Abs, QuietDelta
<1>6. \A i \in from..(from + 2) : i \in 1..5 /\ i >= from
  BY <1>2
<1>7. from \in 1..(6 - 3) /\ from \in from..(from + 2)
  BY <1>2
<1>8. gain - gain = 0
  BY <1>2
<1> HIDE DEF m, n
<1>9. RepeatedMasterDelta(m, n, 6)
  <2>1. m[from + 1] - m[from] = gain /\ m[from + 1] - m[from] > 0
    BY <1>4, <1>6, <1>7
  <2>2. ASSUME NEW i \in from..(from + 2)
        PROVE  m[i + 1] - m[i] = gain /\ n[i + 1] - n[i] = 0
    BY <1>4, <1>6
  <2>3. Abs(gain - gain) <= 1
    BY <1>8 DEF Abs
  <2>4. \A i \in from..(from + 2) :
          /\ Abs((m[i + 1] - m[i]) - (m[from + 1] - m[from])) <= 1
          /\ Abs(n[i + 1] - n[i]) <= QuietDelta
    BY <1>5, <2>1, <2>2, <2>3
  <2> QED BY <1>7, <2>1, <2>4 DEF RepeatedMasterDelta
<1> QED BY <1>1, <1>9 DEF m, n

-----------------------------------------------------------------------------
(* A master that is off *)

LEMMA Quotients ==
  \A a, c \in Nat : \A b \in Nat \ {0} : a < c * b => a \div b \in Nat /\ a \div b < c
BY Z3

\* Both thresholds are passed wherever the counters are this far apart and no higher than this.
LEMMA FarDeviates ==
  ASSUME NEW m, NEW n, NEW i, m[i] \in Nat, n[i] \in Nat,
         NEW gap \in Int, NEW top \in Nat, m[i] <= top, n[i] <= top, gap <= Abs(m[i] - n[i]),
         gap > AbsoluteThreshold, gap * RelativeDen > top * RelativeNum
  PROVE  Deviates(m, n, i)
<1> DEFINE high == Larger(Abs(m[i]), Abs(n[i]))
           share == (high * RelativeNum) \div RelativeDen
<1>1. high \in Nat /\ high <= top
  BY DEF Larger, Abs
<1>2. AbsoluteThreshold \in Nat /\ RelativeNum \in Nat /\ RelativeDen \in Nat \ {0} /\ gap \in Nat
  BY ThresholdsAssumption
<1> HIDE DEF high
<1>3. high * RelativeNum <= top * RelativeNum /\ high * RelativeNum \in Nat
  BY <1>1, <1>2, Times
<1>4. gap * RelativeDen \in Nat /\ top * RelativeNum \in Nat
  BY <1>2, Times
<1>5. high * RelativeNum < gap * RelativeDen
  BY <1>3, <1>4
<1>6. share \in Nat /\ share < gap
  BY <1>2, <1>3, <1>5, Quotients
<1>7. Threshold(m[i], n[i]) = Larger(AbsoluteThreshold, share)
  BY DEF Threshold, high
<1>8. Abs(m[i] - n[i]) \in Nat
  BY DEF Abs
<1> HIDE DEF share
<1>9. Larger(AbsoluteThreshold, share) < gap
  BY <1>2, <1>6 DEF Larger
<1>10. Larger(AbsoluteThreshold, share) \in Nat
  BY <1>2, <1>6 DEF Larger
<1>11. Abs(m[i] - n[i]) > Threshold(m[i], n[i])
  BY <1>7, <1>8, <1>9, <1>10
<1> QED BY <1>11 DEF Deviates

\* If it deviates in every observation, READY is out of the question.
LEMMA AlwaysOff ==
  ASSUME WindowInv, Closed, \A i \in 1..6 : Deviates(MasterUsed, NodesUsed, i)
  PROVE  Verdict # "READY"
<1> SUFFICES ASSUME Verdict = "READY" PROVE FALSE
  OBVIOUS
<1>1. ~\E i \in 1..4 : \A j \in i..(i + 2) : Deviates(MasterUsed, NodesUsed, j)
  BY ReadyTraffic
<1>2. \A j \in 1..(1 + 2) : j \in 1..6
  OBVIOUS
<1> QED BY <1>1, <1>2

\* By how much a counter is off, if so much of it may be a delay.
FarOffBy(slack) ==
  LET gap == Abs(master - merged) - slack
      top == Larger(master, merged) + slack
  IN gap > AbsoluteThreshold /\ gap * RelativeDen > top * RelativeNum

\* In an undisturbed window the master is off by the same amount all the time.
LEMMA UndisturbedOff ==
  ASSUME WindowInv, Closed, gain = 0, FarOff, trouble = 0, Complete, NEW i \in 1..6
  PROVE  Deviates(MasterUsed, NodesUsed, i)
<1>1. /\ \A j \in 1..6 : MasterUsed[j] \in Int /\ NodesUsed[j] \in Nat /\ Ahead(j) \in Int
                         /\ MasterUsed[j] - NodesUsed[j] = Ahead(j)
      /\ \A j \in 1..5 : NodesUsed[j + 1] = NodesUsed[j] + SumAll(rate) /\ Ahead(j + 1) = Ahead(j) + GainAt(j)
      /\ master - merged = Ahead(6) /\ merged = NodesUsed[6] /\ SumAll(rate) \in Nat
  BY SeriesMove
<1>2. \A j : GainAt(j) = 0
  BY DEF GainAt
<1>3. MasterUsed[i] \in Nat /\ master \in Nat /\ merged \in Nat
  BY ReadTyped DEF WindowInv, CountersTyped
<1> HIDE DEF Ahead, GainAt, MasterUsed, NodesUsed
<1>4. \A j \in 1..5 : Ahead(j + 1) = Ahead(j) /\ NodesUsed[j] <= NodesUsed[j + 1]
  BY <1>1, <1>2
<1>5. Ahead(i) = Ahead(6) /\ NodesUsed[i] <= NodesUsed[6]
  <2>1. /\ Ahead(2) = Ahead(1) /\ Ahead(3) = Ahead(2) /\ Ahead(4) = Ahead(3)
        /\ Ahead(5) = Ahead(4) /\ Ahead(6) = Ahead(5)
    BY <1>4
  <2>2. /\ NodesUsed[1] <= NodesUsed[2] /\ NodesUsed[2] <= NodesUsed[3] /\ NodesUsed[3] <= NodesUsed[4]
        /\ NodesUsed[4] <= NodesUsed[5] /\ NodesUsed[5] <= NodesUsed[6]
    BY <1>4
  <2>3. i = 1 \/ i = 2 \/ i = 3 \/ i = 4 \/ i = 5 \/ i = 6
    OBVIOUS
  <2>4. \A j \in 1..6 : NodesUsed[j] \in Nat
    BY <1>1
  <2> QED BY <2>1, <2>2, <2>3, <2>4
<1> DEFINE gap == Abs(master - merged)
           top == Larger(master, merged)
<1>6. MasterUsed[i] - NodesUsed[i] = master - merged /\ NodesUsed[i] \in Nat /\ NodesUsed[i] <= merged
  BY <1>1, <1>5
<1>7. MasterUsed[i] <= master
  BY <1>3, <1>6
<1>8. /\ gap \in Int /\ top \in Nat /\ MasterUsed[i] <= top /\ NodesUsed[i] <= top
      /\ gap <= Abs(MasterUsed[i] - NodesUsed[i])
  BY <1>3, <1>6, <1>7 DEF Abs, Larger
<1>9. gap > AbsoluteThreshold /\ gap * RelativeDen > top * RelativeNum
  BY DEF FarOff
<1> HIDE DEF gap, top
<1> QED BY <1>3, <1>6, <1>8, <1>9, FarDeviates

\* With nothing lost, the series are from about the same time.
LEMMA SeriesNear ==
  ASSUME WindowInv, Closed, NothingLost, Complete, gain = 0
  PROVE  /\ \A i \in 1..6 :
              /\ MasterUsed[i] \in Nat /\ NodesUsed[i] \in Nat /\ Counts(rate, i) \in Nat
              /\ Counts(rate, i) - Traffic <= NodesUsed[i] /\ NodesUsed[i] <= Counts(rate, i)
              /\ Counts(rate, i) - 2 * Traffic <= MasterUsed[i] - (master - merged)
              /\ MasterUsed[i] - (master - merged) <= Counts(rate, i)
         /\ \A i \in 1..5 : Counts(rate, i + 1) = Counts(rate, i) + Traffic
         /\ Counts(rate, 6) - Traffic <= merged
         /\ Traffic \in Nat /\ master \in Nat /\ merged \in Nat
<1>1. CountersTyped /\ SeriesTyped /\ MasterBehind /\ NodeBehind /\ SeriesBehind
  BY DEF WindowInv
<1>2. /\ Traffic \in Nat /\ rate \in [Nodes -> Nat] /\ merged \in Nat /\ master \in Nat
      /\ \A i \in Nat : Counts(rate, i) \in Nat /\ Counts(rate, i + 1) = Counts(rate, i) + Traffic
  BY <1>1, TrafficTyped
<1>3. Master \in Panels /\ Nodes \subseteq Panels
  BY DEF Panels
<1>4. ASSUME NEW p \in Panels PROVE DOMAIN series[p] = 1..6 /\ obs[p] = {}
  BY <1>1, LengthTyped DEF Complete, NothingLost
<1>5. ASSUME NEW i \in 1..6 PROVE Counts(rate, i) - Traffic <= NodesUsed[i] /\ NodesUsed[i] <= Counts(rate, i)
  <2>1. i \in Nat /\ i - 1 \in Nat /\ (i - 1) + 1 = i
    OBVIOUS
  <2>2. /\ Read(i) \in [Nodes -> Nat] /\ After(rate, i) \in [Nodes -> Nat]
        /\ After(rate, i - 1) \in [Nodes -> Nat]
    BY <1>2, <2>1, AfterIs, ReadTyped
  <2>3. ASSUME NEW n \in Nodes PROVE After(rate, i - 1)[n] <= Read(i)[n] /\ Read(i)[n] <= After(rate, i)[n]
    <3>1. /\ After(rate, i)[n] - rate[n] <= series[n][i].used
          /\ series[n][i].used <= After(rate, i)[n]
      BY <1>1, <1>3, <1>4 DEF NodeBehind
    <3>2. Read(i)[n] = series[n][i].used
      BY DEF Read
    <3>3. After(rate, i)[n] = After(rate, i - 1)[n] + rate[n]
      <4>1. /\ After(rate, i - 1)[n] = Start[n] + (i - 1) * rate[n] /\ After(rate, i)[n] = Start[n] + i * rate[n]
            /\ (i - 1) * rate[n] \in Nat /\ rate[n] \in Nat
        BY <1>2, <2>1, AfterIs
      <4>2. ((i - 1) + 1) * rate[n] = (i - 1) * rate[n] + rate[n]
        BY <2>1, <4>1, Times
      <4>3. i * rate[n] = (i - 1) * rate[n] + rate[n]
        BY <2>1, <4>2
      <4>4. Start[n] \in Nat
        BY CountsAssumption
      <4> HIDE DEF After
      <4> QED BY <4>1, <4>3, <4>4
    <3>4. After(rate, i - 1)[n] \in Nat /\ rate[n] \in Nat /\ Read(i)[n] \in Nat
      BY <1>2, <2>2
    <3> HIDE DEF After, Read
    <3> QED BY <3>1, <3>2, <3>3, <3>4
  <2> HIDE DEF Read, After
  <2>4. Counts(rate, i - 1) <= SumAll(Read(i)) /\ SumAll(Read(i)) <= Counts(rate, i)
    BY <2>2, <2>3, SumAtLeast DEF Counts
  <2>5. Counts(rate, i) = Counts(rate, i - 1) + Traffic /\ Counts(rate, i - 1) \in Nat
    <3>1. Counts(rate, (i - 1) + 1) = Counts(rate, i - 1) + Traffic /\ Counts(rate, i - 1) \in Nat
      BY <1>2, <2>1
    <3> QED BY <2>1, <3>1
  <2>6. NodesUsed[i] = SumAll(Read(i)) /\ NodesUsed[i] \in Nat
    BY ReadTyped DEF NodesUsed
  <2> HIDE DEF Counts, Traffic, NodesUsed
  <2> QED BY <1>2, <2>4, <2>5, <2>6
<1>6. ASSUME NEW i \in 1..6
      PROVE  /\ Counts(rate, i) - 2 * Traffic <= MasterUsed[i] - (master - merged)
             /\ MasterUsed[i] - (master - merged) <= Counts(rate, i)
  <2>1. i \in DOMAIN series[Master] /\ obs[Master] = {}
    BY <1>3, <1>4
  <2>2. MasterUsed[i] = series[Master][i].used
    BY DEF MasterUsed
  <2> QED BY <1>1, <2>1, <2>2 DEF SeriesBehind
<1>7. Counts(rate, 6) - Traffic <= merged
  <2>1. round = 5 /\ synced
    BY DEF Closed, Rounds
  <2> QED BY <1>1, <2>1 DEF MasterBehind
<1>8. \A i \in 1..5 : Counts(rate, i + 1) = Counts(rate, i) + Traffic
  BY <1>2
<1>9. \A i \in 1..6 : MasterUsed[i] \in Nat /\ NodesUsed[i] \in Nat /\ Counts(rate, i) \in Nat
  BY <1>2, ReadTyped
<1> QED BY <1>2, <1>5, <1>6, <1>7, <1>8, <1>9

\* So a master that is further off than they can be apart deviates all the time.
LEMMA DelayedOff ==
  ASSUME WindowInv, Closed, gain = 0, FarOffBy(2 * Traffic), NothingLost, Complete, NEW i \in 1..6
  PROVE  Deviates(MasterUsed, NodesUsed, i)
<1>1. /\ MasterUsed[i] \in Nat /\ NodesUsed[i] \in Nat /\ Counts(rate, i) \in Nat
      /\ Counts(rate, i) - Traffic <= NodesUsed[i] /\ NodesUsed[i] <= Counts(rate, i)
      /\ Counts(rate, i) - 2 * Traffic <= MasterUsed[i] - (master - merged)
      /\ MasterUsed[i] - (master - merged) <= Counts(rate, i)
      /\ Counts(rate, 6) - Traffic <= merged
      /\ Traffic \in Nat /\ master \in Nat /\ merged \in Nat
  BY SeriesNear
<1>2. Counts(rate, i) <= Counts(rate, 6)
  <2>1. \A j \in 1..5 : Counts(rate, j + 1) = Counts(rate, j) + Traffic
    BY SeriesNear
  <2>2. \A j \in 1..6 : Counts(rate, j) \in Nat
    BY SeriesNear
  <2> HIDE DEF Counts, Traffic
  <2>3. \A j \in 1..5 : Counts(rate, j) <= Counts(rate, j + 1)
    BY <1>1, <2>1, <2>2
  <2>4. /\ Counts(rate, 1) <= Counts(rate, 2) /\ Counts(rate, 2) <= Counts(rate, 3)
        /\ Counts(rate, 3) <= Counts(rate, 4) /\ Counts(rate, 4) <= Counts(rate, 5)
        /\ Counts(rate, 5) <= Counts(rate, 6)
    BY <2>3
  <2>5. i = 1 \/ i = 2 \/ i = 3 \/ i = 4 \/ i = 5 \/ i = 6
    OBVIOUS
  <2> QED BY <2>2, <2>4, <2>5
<1>3. Counts(rate, 6) \in Nat
  BY SeriesNear
<1> DEFINE gap == Abs(master - merged) - 2 * Traffic
           top == Larger(master, merged) + 2 * Traffic
<1>4. gap > AbsoluteThreshold /\ gap * RelativeDen > top * RelativeNum
  BY DEF FarOffBy
<1> HIDE DEF Counts, Traffic, MasterUsed, NodesUsed
<1>5. gap \in Int /\ top \in Nat
  BY <1>1 DEF Abs, Larger
<1>6. NodesUsed[i] <= merged + Traffic /\ MasterUsed[i] <= master + Traffic
  BY <1>1, <1>2, <1>3
<1>7. NodesUsed[i] <= top /\ MasterUsed[i] <= top
  BY <1>1, <1>6 DEF Larger
<1>8. gap <= Abs(MasterUsed[i] - NodesUsed[i])
  BY <1>1 DEF Abs
<1> HIDE DEF gap, top
<1> QED BY <1>1, <1>4, <1>5, <1>7, <1>8, FarDeviates

LEMMA DeviationHolds == WindowInv => (InTurn \/ FarOffBy(2 * Traffic) => DeviationCaught)
<1> SUFFICES ASSUME WindowInv, InTurn \/ FarOffBy(2 * Traffic), Closed, gain = 0, FarOff, Verdict = "READY"
             PROVE  FALSE
  BY DEF DeviationCaught
<1>1. Complete /\ NothingLost
  BY ReadyWhole
<1>2. CASE InTurn
  <2>1. trouble = 0
    BY <1>2, ReadyUntroubled
  <2> QED BY <1>1, <2>1, UndisturbedOff, AlwaysOff
<1>3. CASE FarOffBy(2 * Traffic)
  BY <1>1, <1>3, DelayedOff, AlwaysOff
<1> QED BY <1>2, <1>3

-----------------------------------------------------------------------------
(* A master that takes over its nodes' traffic *)

\* The rules that the other evaluators report of.
LEMMA FindingFields ==
  \A r, s, x : Finding(r, s, x).rule = r /\ Finding(r, s, x).status = s
BY DEF Finding

LEMMA PassedStatus ==
  ASSUME NEW S, NEW g \in {Finding(r, "PASS", "") : r \in S}
  PROVE  g.status = "PASS"
<1>1. PICK r \in S : g = Finding(r, "PASS", "")
  OBVIOUS
<1> QED BY <1>1, FindingFields

LEMMA SubscriptionFindingRules ==
  ASSUME NEW sub, NEW g \in SubscriptionFindings(sub)
  PROVE  g.rule \in {"SUB-001", "SUB-003"}
<1>1. \/ \E s : g = Finding("SUB-001", s, sub.client)
      \/ \E s : g = Finding("SUB-003", s, sub.client)
  BY Zenon DEF SubscriptionFindings, When
<1> QED BY <1>1, FindingFields

LEMMA SubscriptionRules ==
  ASSUME NEW snap, NEW g \in EvaluateSubscriptions(snap)
  PROVE  g.rule \in {"SUB-001", "SUB-003"}
<1>1. \/ \E r \in {"SUB-001", "SUB-003"} : g = Finding(r, "UNKNOWN", "")
      \/ \E sub : g \in SubscriptionFindings(sub)
  BY Zenon DEF EvaluateSubscriptions
<1>2. ASSUME NEW r \in {"SUB-001", "SUB-003"}, g = Finding(r, "UNKNOWN", "")
      PROVE  g.rule \in {"SUB-001", "SUB-003"}
  BY <1>2, FindingFields
<1>3. ASSUME NEW sub, g \in SubscriptionFindings(sub)
      PROVE  g.rule \in {"SUB-001", "SUB-003"}
  BY <1>3, SubscriptionFindingRules
<1> QED BY <1>1, <1>2, <1>3, Zenon

LEMMA LimitRules ==
  ASSUME NEW snap, NEW at, NEW g \in EvaluateLimits(snap, at)
  PROVE  g.rule = "LIMIT-001"
<1>1. \E s, x : g = Finding("LIMIT-001", s, x)
  BY Zenon DEF EvaluateLimits
<1> QED BY <1>1, FindingFields

\* Where nothing was recorded, a traffic rule's failure is the comparison's.
LEMMA ReportedTraffic ==
  ASSUME NothingLost, NEW rule \in {"TRAFFIC-001", "TRAFFIC-002"}, Reported(rule, "FAIL")
  PROVE  \E f \in EvaluateTraffic(Snapshot) : f.rule = rule /\ f.status = "FAIL"
<1> HIDE DEF Snapshot
<1> DEFINE finishedAt == Rounds * Interval
           noted == UNION {{FromObservation(o) : o \in Snapshot[p].obs} : p \in DOMAIN Snapshot}
           versions == EvaluateVersionSupport(Snapshot)
           evidence == EvaluateConfigEvidence(Snapshot)
           subscriptions == EvaluateSubscriptions(Snapshot)
           flows == EvaluateTraffic(Snapshot)
           limits == EvaluateLimits(Snapshot, finishedAt)
           found == noted \cup versions \cup evidence \cup subscriptions \cup flows \cup limits
           passed == {Finding(r, "PASS", "") : r \in {q \in RuleOrder : ~\E f \in found : f.rule = q}}
<1>1. PICK f \in Result : f.rule = rule /\ f.status = "FAIL"
  BY DEF Reported
<1>2. Result = found \cup passed
  BY DEF Result, Evaluate
<1>3. noted = {}
  BY SnapshotIs DEF NothingLost
<1>4. \A g \in passed : g.status = "PASS"
  BY Zenon, PassedStatus
<1>5. \A g \in versions : g.rule = "API-003"
  BY DEF EvaluateVersionSupport, Finding
<1>6. \A g \in evidence : g.rule \in {"CFG-001", "CFG-002", "CFG-003"}
  BY DEF EvaluateConfigEvidence, Finding
<1>7. \A g \in subscriptions : g.rule \in {"SUB-001", "SUB-003"}
  BY SubscriptionRules
<1>8. \A g \in limits : g.rule = "LIMIT-001"
  BY LimitRules
<1>9. f \notin passed
  BY <1>1, <1>4
<1> HIDE DEF passed, noted, versions, evidence, subscriptions, flows, limits
<1>10. f \in flows
  BY <1>1, <1>2, <1>3, <1>5, <1>6, <1>7, <1>8, <1>9
<1> QED BY <1>1, <1>10 DEF flows

\* The traffic is too much to count as unchanged, and too little to be a deviation.
Told == (Traffic = 0 \/ 2 * Traffic > 3 * QuietDelta) /\ 2 * Traffic <= AbsoluteThreshold

\* Then the counters never repeat a delta that the nodes do not have.
LEMMA NoRepetition ==
  ASSUME WindowInv, Closed, NothingLost, Complete, gain = 0, Told
  PROVE  ~RepeatedMasterDelta(MasterUsed, NodesUsed, 6)
<1> SUFFICES ASSUME RepeatedMasterDelta(MasterUsed, NodesUsed, 6) PROVE FALSE
  OBVIOUS
<1> DEFINE m == MasterUsed
           n == NodesUsed
           similar(base, d) == Abs(d - base) <= 1 \/ 100 * Abs(d - base) <= base
<1>1. PICK s \in 1..3 :
        /\ m[s + 1] - m[s] > 0
        /\ \A i \in s..(s + 2) : similar(m[s + 1] - m[s], m[i + 1] - m[i]) /\ Abs(n[i + 1] - n[i]) <= QuietDelta
  BY DEF RepeatedMasterDelta
<1>2. \A i \in 1..6 :
        /\ m[i] \in Nat /\ n[i] \in Nat /\ Counts(rate, i) \in Nat
        /\ Counts(rate, i) - Traffic <= n[i] /\ n[i] <= Counts(rate, i)
        /\ Counts(rate, i) - 2 * Traffic <= m[i] - (master - merged)
        /\ m[i] - (master - merged) <= Counts(rate, i)
  BY SeriesNear
<1>3. \A i \in 1..5 : Counts(rate, i + 1) = Counts(rate, i) + Traffic
  BY SeriesNear
<1>4. Traffic \in Nat /\ master \in Nat /\ merged \in Nat
  BY SeriesNear
<1> HIDE DEF m, n, Counts, Traffic
<1>5. CASE Traffic = 0
  <2>1. /\ s \in 1..6 /\ s + 1 \in 1..6 /\ s \in 1..5
    OBVIOUS
  <2>2. Counts(rate, s + 1) = Counts(rate, s) + Traffic
    BY <1>3, <2>1
  <2>3. m[s + 1] = m[s]
    BY <1>2, <1>4, <1>5, <2>1, <2>2
  <2> QED BY <1>1, <1>2, <2>1, <2>3
<1>6. CASE 2 * Traffic > 3 * QuietDelta
  <2>1. /\ s \in s..(s + 2) /\ s + 1 \in s..(s + 2) /\ s + 2 \in s..(s + 2)
        /\ (s + 1) + 1 = s + 2 /\ (s + 2) + 1 = s + 3
    OBVIOUS
  <2>2. /\ Abs(n[s + 1] - n[s]) <= QuietDelta /\ Abs(n[s + 2] - n[s + 1]) <= QuietDelta
        /\ Abs(n[s + 3] - n[s + 2]) <= QuietDelta
    BY <1>1, <2>1
  <2>3. /\ s \in 1..6 /\ s + 1 \in 1..6 /\ s + 2 \in 1..6 /\ s + 3 \in 1..6
        /\ s \in 1..5 /\ s + 1 \in 1..5 /\ s + 2 \in 1..5
    OBVIOUS
  <2>4. /\ Counts(rate, s + 1) = Counts(rate, s) + Traffic
        /\ Counts(rate, s + 2) = Counts(rate, s + 1) + Traffic
        /\ Counts(rate, s + 3) = Counts(rate, s + 2) + Traffic
    BY <1>3, <2>1, <2>3
  <2>5. /\ n[s] \in Nat /\ n[s + 1] \in Nat /\ n[s + 2] \in Nat /\ n[s + 3] \in Nat
        /\ Counts(rate, s) \in Nat /\ n[s] <= Counts(rate, s)
        /\ Counts(rate, s + 3) - Traffic <= n[s + 3]
        /\ Counts(rate, s + 1) \in Nat /\ Counts(rate, s + 2) \in Nat /\ Counts(rate, s + 3) \in Nat
    BY <1>2, <2>3
  <2>6. n[s + 3] - n[s] >= 2 * Traffic
    BY <1>4, <2>4, <2>5
  <2>7. /\ n[s + 1] - n[s] <= QuietDelta /\ n[s + 2] - n[s + 1] <= QuietDelta
        /\ n[s + 3] - n[s + 2] <= QuietDelta
    BY <2>2, <2>5 DEF Abs, QuietDelta
  <2> QED BY <1>4, <1>6, <2>5, <2>6, <2>7 DEF QuietDelta
<1> QED BY <1>5, <1>6 DEF Told

\* Nor are they far apart.
LEMMA NoDeviation ==
  ASSUME WindowInv, Closed, NothingLost, Complete, gain = 0, master = merged, Told, NEW i \in 1..6
  PROVE  ~Deviates(MasterUsed, NodesUsed, i)
<1>1. /\ MasterUsed[i] \in Nat /\ NodesUsed[i] \in Nat /\ Counts(rate, i) \in Nat
      /\ Counts(rate, i) - Traffic <= NodesUsed[i] /\ NodesUsed[i] <= Counts(rate, i)
      /\ Counts(rate, i) - 2 * Traffic <= MasterUsed[i] - (master - merged)
      /\ MasterUsed[i] - (master - merged) <= Counts(rate, i)
      /\ Traffic \in Nat /\ master \in Nat /\ merged \in Nat
  BY SeriesNear
<1> DEFINE share == (Larger(Abs(MasterUsed[i]), Abs(NodesUsed[i])) * RelativeNum) \div RelativeDen
<1> HIDE DEF Counts, Traffic, MasterUsed, NodesUsed
<1>2. Abs(MasterUsed[i] - NodesUsed[i]) <= 2 * Traffic /\ Abs(MasterUsed[i] - NodesUsed[i]) \in Nat
  BY <1>1 DEF Abs
<1>3. share \in Int
  <2>1. Larger(Abs(MasterUsed[i]), Abs(NodesUsed[i])) \in Nat
    BY <1>1 DEF Larger, Abs
  <2>2. RelativeNum \in Nat /\ RelativeDen \in Nat \ {0}
    BY ThresholdsAssumption
  <2>3. Larger(Abs(MasterUsed[i]), Abs(NodesUsed[i])) * RelativeNum \in Nat
    BY <2>1, <2>2, Times
  <2> HIDE DEF Larger, Abs
  <2> QED BY <2>2, <2>3
<1>4. Threshold(MasterUsed[i], NodesUsed[i]) = Larger(AbsoluteThreshold, share)
  BY DEF Threshold
<1> HIDE DEF share
<1>5. Larger(AbsoluteThreshold, share) >= AbsoluteThreshold /\ Larger(AbsoluteThreshold, share) \in Int
  BY <1>3, ThresholdsAssumption DEF Larger
<1>6. ~(Abs(MasterUsed[i] - NodesUsed[i]) > Threshold(MasterUsed[i], NodesUsed[i]))
  BY <1>1, <1>2, <1>4, <1>5, ThresholdsAssumption DEF Told
<1> QED BY <1>6 DEF Deviates

LEMMA HealthyHolds == WindowInv => (NothingLost /\ gain = 0 /\ Told => HealthyNotAccused)
<1> SUFFICES ASSUME WindowInv, NothingLost, gain = 0, Told, Closed, master = merged,
                    NEW rule \in {"TRAFFIC-001", "TRAFFIC-002"}, Reported(rule, "FAIL")
             PROVE  FALSE
  BY DEF HealthyNotAccused
<1>1. Complete /\ listed[Master] # {}
  BY WholeComplete
<1>2. PICK f \in EvaluateTraffic(Snapshot) : f.rule = rule /\ f.status = "FAIL"
  BY ReportedTraffic
<1>3. f \in ClientTrafficFindings(MasterUsed, NodesUsed, Client)
  BY <1>1, <1>2, ClientCompared
<1>4. ~RepeatedMasterDelta(MasterUsed, NodesUsed, 6)
  BY <1>1, NoRepetition
<1>5. \A i \in 1..6 : ~Deviates(MasterUsed, NodesUsed, i)
  BY <1>1, NoDeviation
<1>6. ClientTrafficFindings(MasterUsed, NodesUsed, Client) = {}
  <2>1. ClientTrafficFindings(MasterUsed, NodesUsed, Client)
          = When(RepeatedMasterDelta(MasterUsed, NodesUsed, 6), {Finding("TRAFFIC-001", "FAIL", Client)})
            \cup When(\E i \in 1..6 : Deviates(MasterUsed, NodesUsed, i),
                      {Finding("TRAFFIC-002", "WARN", Client)})
            \cup When(\E i \in 1..4 : \A j \in i..(i + 2) : Deviates(MasterUsed, NodesUsed, j),
                      {Finding("TRAFFIC-002", "FAIL", Client)})
    BY SixCompared
  <2>2. ~\E i \in 1..4 : \A j \in i..(i + 2) : Deviates(MasterUsed, NodesUsed, j)
    <3>1. \A i \in 1..4 : i \in i..(i + 2) /\ i \in 1..6
      OBVIOUS
    <3> QED BY <1>5, <3>1
  <2>3. (\E i \in 1..6 : Deviates(MasterUsed, NodesUsed, i)) = FALSE
    BY <1>5
  <2> QED BY <1>4, <1>5, <2>1, <2>2 DEF When
<1> QED BY <1>3, <1>6

-----------------------------------------------------------------------------
(* What holds of every window *)

\* The state of a window has its type: no panel has more observations than the window has
\* samples (sampleAllTraffic), no client list is kept but the first, and the master has taken
\* over nothing that no node has counted.
THEOREM WindowTyped == Spec => []TypeOK
<1>1. WindowInv => TypeOK
  BY TypeHolds DEF WindowInv
<1> QED BY <1>1, WindowInvariant, PTL

\* Whatever is lost or comes early, a client that was over its quota in the last three samples, and
\* is enabled, is never part of a READY run (evaluateLimits), with any number of nodes and any
\* quotas of which one takes the place of another at most once.
THEOREM OverdueIsCaught == Spec => []OverdueCaught
<1>1. WindowInv => OverdueCaught
  BY OverdueHolds DEF WindowInv
<1> QED BY <1>1, WindowInvariant, PTL

\* A master that adds something to itself in three intervals in which its nodes are idle is never
\* part of a READY run (repeatedMasterDelta), however little it adds and whatever is lost: if
\* nothing came early, either an observation is missing, and that is said, or the three deltas
\* are among those that were compared.
THEOREM AccumulationIsCaught == Spec => []AccumulationCaught
<1>1. WindowInv => AccumulationCaught
  BY AccumulationHolds
<1> QED BY <1>1, WindowInvariant, PTL

\* A master whose counter is off by more than both thresholds is never part of a READY run (the
\* persistent deviation of evaluateTraffic) if nothing comes early; and if anything does, when it
\* is off by more than two intervals' traffic besides, because a comparison by position may hide
\* that much.
THEOREM DeviationIsCaught == Spec => [](InTurn \/ FarOffBy(2 * Traffic) => DeviationCaught)
<1>1. WindowInv => (InTurn \/ FarOffBy(2 * Traffic) => DeviationCaught)
  BY DeviationHolds
<1> QED BY <1>1, WindowInvariant, PTL

\* A master that takes over its nodes' traffic is not accused, however often it synchronises
\* early or is sampled early, as long as nothing is lost and two intervals' traffic are no
\* deviation, but are more than three deltas that count as unchanged (or there is none at all).
THEOREM HealthyIsNotAccused == Spec => [](NothingLost /\ gain = 0 /\ Told => HealthyNotAccused)
<1>1. WindowInv => (NothingLost /\ gain = 0 /\ Told => HealthyNotAccused)
  BY HealthyHolds
<1> QED BY <1>1, WindowInvariant, PTL
=============================================================================
