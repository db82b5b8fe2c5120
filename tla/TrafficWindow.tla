--------------------------- MODULE TrafficWindow ---------------------------
(***************************************************************************)
(* internal/collect and internal/rules: the six traffic observations of a  *)
(* run while the counters they read are moving.  One client has an inbound *)
(* on every node; each panel counts its traffic.  The panels are external: *)
(* a master that works takes over the nodes' counters once per interval,   *)
(* and disables a client that is over its quota.                           *)
(*                                                                         *)
(* The regular course of an interval is: the nodes count, the master       *)
(* synchronises, every panel is sampled.  What comes too early in it (a    *)
(* synchronisation, a sample) and a sample that is never answered are      *)
(* troubles, and a scenario bounds the troubles of a run.                  *)
(***************************************************************************)
EXTENDS Rules

CONSTANTS Master, Nodes,
          Interval,    \* seconds between two samples
          Start,       \* node -> what it has counted when the run starts
          Scenarios    \* set of [rates: what the nodes may count per interval,
                       \*   offsets: how far the master's counter may be off from the start,
                       \*   gains: what it may add to itself at every synchronisation,
                       \*   quotas: the client's total, 0 for none,
                       \*   changes, trouble: bounds on changes of the quota and troubles]

ASSUME PanelsAssumption == Master \notin Nodes /\ IsFiniteSet(Nodes) /\ Nodes # {}
Panels == Nodes \cup {Master}
Rounds == 5          \* samples after the first observation

VARIABLES scenario,
          rate, gain, from,  \* this run's traffic; the round at which the gains begin
          used,      \* node -> its counter
          master,    \* the master's counter
          merged,    \* what it has taken over from the nodes
          quota, enabled,    \* the client on the master
          overSince, \* the round in which it went over its quota, -1: it is not
          round, counted, synced, pending,  \* the interval: what has happened in it
          listed,    \* panel -> the quota in the client list read first, {} if none was
          series,    \* panel -> its observations
          obs,       \* panel -> recorded observations
          changes, trouble

vars == <<scenario, rate, gain, from, used, master, merged, quota, enabled, overSince, round, counted,
          synced, pending, listed, series, obs, changes, trouble>>
run == <<scenario, rate, gain, from>>
observed == <<pending, listed, series, obs>>

SumAll(f) == MapThenSumSet(LAMBDA n : f[n], Nodes)

\* Counters are natural numbers; a master may be off from the start.
ASSUME CountsAssumption ==
  /\ Start \in [Nodes -> Nat] /\ Interval \in Nat
  /\ \A s \in Scenarios :
       /\ s.rates \subseteq [Nodes -> Nat] /\ s.gains \subseteq Nat
       /\ \A offset \in s.offsets : SumAll(Start) + offset \in Nat
       /\ s.quotas \subseteq Nat /\ s.changes \in Nat /\ s.trouble \in Nat
\* The configuration is refused otherwise.
ASSUME ThresholdsAssumption ==
  AbsoluteThreshold \in Nat \ {0} /\ RelativeNum \in Nat /\ RelativeDen \in Nat \ {0}

Costs(inTurn) == IF inTurn THEN UNCHANGED trouble
                 ELSE trouble < scenario.trouble /\ trouble' = trouble + 1

OverSince(counter, limit) ==
  IF limit = 0 \/ counter < limit THEN -1
  ELSE IF overSince = -1 THEN round ELSE overSince

-----------------------------------------------------------------------------
(* The panels *)

\* A node's clients transfer data.
Count(n) ==
  /\ n \notin counted
  /\ counted' = counted \cup {n}
  /\ used' = [used EXCEPT ![n] = @ + rate[n]]
  /\ UNCHANGED <<run, master, merged, quota, enabled, overSince, round, synced, observed, changes,
                 trouble>>

\* The master takes over what the nodes have counted since, and, when it
\* accumulates, something else as well.
Synchronise ==
  /\ ~synced
  /\ synced' = TRUE
  /\ merged' = SumAll(used)
  /\ master' = master + SumAll(used) - merged + (IF round >= from THEN gain ELSE 0)
  /\ overSince' = OverSince(master', quota)
  /\ Costs(counted = Nodes)
  /\ UNCHANGED <<run, used, quota, enabled, round, counted, observed, changes>>

\* The master disables the client, sooner or later.
Disable ==
  /\ enabled /\ overSince # -1
  /\ enabled' = FALSE
  /\ UNCHANGED <<run, used, master, merged, quota, overSince, round, counted, synced, observed,
                 changes, trouble>>

\* The operator changes the quota while the window is open.
ChangeQuota ==
  /\ changes < scenario.changes /\ changes' = changes + 1
  /\ quota' \in scenario.quotas \ {quota}
  /\ overSince' = OverSince(master, quota')
  /\ UNCHANGED <<run, used, master, merged, enabled, round, counted, synced, observed, trouble>>

-----------------------------------------------------------------------------
(* The collector *)

\* What a panel's client list says of the client.
Observation(p) == [at |-> round * Interval,
                   used |-> IF p = Master THEN master ELSE used[p],
                   enabled |-> IF p = Master THEN enabled ELSE TRUE]

\* The first client list is also the one that limits are judged by.
Sample(p) ==
  /\ p \in pending
  /\ pending' = pending \ {p}
  /\ series' = [series EXCEPT ![p] = Append(@, Observation(p))]
  /\ listed' = IF round = 0 THEN [listed EXCEPT ![p] = {IF p = Master THEN quota ELSE 0}]
               ELSE listed
  /\ Costs(synced /\ counted = Nodes)
  /\ UNCHANGED <<run, used, master, merged, quota, enabled, overSince, round, counted, synced, obs,
                 changes>>

Lose(p) ==
  /\ p \in pending
  /\ pending' = pending \ {p}
  /\ obs' = [obs EXCEPT ![p] = @ \cup {Obs("API-001", "traffic_sample_failed", "inconclusive", p)}]
  /\ Costs(FALSE)
  /\ UNCHANGED <<run, used, master, merged, quota, enabled, overSince, round, counted, synced,
                 listed, series, changes>>

\* Mutant: one interval too many.
Tick_OneMore ==
  /\ round <= Rounds
  /\ pending = {} /\ synced /\ counted = Nodes
  /\ round' = round + 1
  /\ counted' = {} /\ synced' = FALSE /\ pending' = Panels
  /\ UNCHANGED <<run, used, master, merged, quota, enabled, overSince, listed, series, obs, changes,
                 trouble>>

\* The ticker fires: the next interval begins, and it will be sampled.
Tick ==
  /\ round < Rounds
  /\ pending = {} /\ synced /\ counted = Nodes
  /\ round' = round + 1
  /\ counted' = {} /\ synced' = FALSE /\ pending' = Panels
  /\ UNCHANGED <<run, used, master, merged, quota, enabled, overSince, listed, series, obs, changes,
                 trouble>>

Closed == round = Rounds /\ pending = {} /\ synced /\ counted = Nodes

\* The window is closed.
Finished == Closed /\ UNCHANGED vars

Init ==
  /\ scenario \in Scenarios
  /\ rate \in scenario.rates /\ gain \in scenario.gains
  /\ from \in (IF gain = 0 THEN {0} ELSE 1..(Rounds - 2))
  /\ used = Start /\ merged = SumAll(Start)
  /\ \E offset \in scenario.offsets : master = SumAll(Start) + offset
  /\ quota \in scenario.quotas /\ enabled = TRUE
  /\ overSince = IF quota # 0 /\ master >= quota THEN 0 ELSE -1
  /\ round = 0 /\ counted = {} /\ synced = FALSE /\ pending = Panels
  /\ listed = [p \in Panels |-> {}]
  /\ series = [p \in Panels |-> << >>]
  /\ obs = [p \in Panels |-> {}]
  /\ changes = 0 /\ trouble = 0

Next == \/ \E n \in Nodes : Count(n)
        \/ \E p \in Panels : Sample(p) \/ Lose(p)
        \/ Synchronise \/ Disable \/ ChangeQuota \/ Tick \/ Finished

Spec == Init /\ [][Next]_vars

-----------------------------------------------------------------------------
(* The snapshot, in which only the traffic can be at fault *)

Client == "c"
InboundOn(n) == [alias |-> <<"in", n>>, origin |-> n]

Snapshot == [p \in Panels |->
  [role |-> IF p = Master THEN "master" ELSE "node", guid |-> p, version |-> "v3.6.0",
   generated |-> TRUE,
   inbounds |-> {InboundOn(n) : n \in IF p = Master THEN Nodes ELSE {p}},
   clients |-> {[id |-> Client, enabled |-> TRUE, total |-> total, expiry |-> 0,
                 inbounds |-> {InboundOn(n).alias : n \in IF p = Master THEN Nodes ELSE {p}}] :
                   total \in listed[p]},
   subs |-> {[client |-> Client, code |-> "", agree |-> TRUE]},
   traffic |-> [c \in When(series[p] # << >>, {Client}) |-> series[p]],
   obs |-> obs[p]]]

Result == Evaluate(Snapshot, Rounds * Interval)
Verdict == Readiness(Result)
Reported(rule, status) == \E f \in Result : f.rule = rule /\ f.status = status

-----------------------------------------------------------------------------
(* What is expected of it *)

\* Types, and bounds: no panel has more observations than the window has samples, and
\* the master has taken over nothing that no node has counted.
TypeOK ==
  /\ scenario \in Scenarios
  /\ rate \in scenario.rates /\ gain \in scenario.gains /\ from \in 0..Rounds
  /\ DOMAIN used = Nodes /\ \A n \in Nodes : used[n] \in Start[n]..(Start[n] + (Rounds + 1) * rate[n])
  /\ merged <= SumAll(used)
  /\ quota \in scenario.quotas /\ enabled \in BOOLEAN /\ overSince \in -1..round
  /\ round \in 0..Rounds /\ counted \in SUBSET Nodes /\ synced \in BOOLEAN
  /\ pending \in SUBSET Panels
  /\ \A p \in Panels : Len(series[p]) <= round + 1 /\ Cardinality(listed[p]) <= 1
  /\ changes \in 0..scenario.changes /\ trouble \in 0..scenario.trouble

\* A master that takes over its nodes' traffic is not accused, although it lags
\* behind by up to an interval and up to two samples come early or never: the
\* series that are compared by position are then from different times.  Three samples
\* of one node that are lost make the code accuse it.
HealthyNotAccused ==
  Closed /\ master = merged =>
    ~Reported("TRAFFIC-001", "FAIL") /\ ~Reported("TRAFFIC-002", "FAIL")

Idle == \A n \in Nodes : rate[n] = 0

\* Nothing came early: every trouble is a lost sample.
InTurn == trouble = MapThenSumSet(LAMBDA p : Rounds + 1 - Len(series[p]), Panels)

\* A master that adds the same amount in three intervals while its nodes are idle is
\* never part of a READY run, whatever is lost.
AccumulationCaught == Closed /\ gain > 0 /\ Idle /\ InTurn => Verdict # "READY"

\* Neither is one whose counter is off by more than either threshold all the time, too
\* high or too low.
FarOff ==
  LET gap == Abs(master - merged)
  IN gap > AbsoluteThreshold /\ gap * RelativeDen > Larger(master, merged) * RelativeNum
DeviationCaught == Closed /\ gain = 0 /\ FarOff => Verdict # "READY"

\* A client that has been over its quota since before the last three samples, and has
\* not been disabled, is never part of a READY run: not when samples are lost or come
\* early, and not when its quota has been raised since it was listed.  (A quota that
\* goes down and up again may be one it had used up all the time, but not by the list.)
OverdueCaught ==
  Closed /\ enabled /\ changes <= 1 /\ overSince \in 0..(Rounds - 3)
    /\ (\A total \in listed[Master] : total \in 1..quota)
  => Verdict # "READY"
=============================================================================
