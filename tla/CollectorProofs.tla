-------------------------- MODULE CollectorProofs --------------------------
(***************************************************************************)
(* Proofs about Collector, for every set of panels, every configuration,   *)
(* every answer of the panels and every number of failing reads.           *)
(***************************************************************************)
EXTENDS Collector, SamplingProofs

-----------------------------------------------------------------------------
(* The semaphore and the WaitGroup *)

Holders == {p \in Panels : pc[p] = "running"}
Active  == {p \in Panels : pc[p] # "idle"}

\* The counters are those of the goroutines, and between two phases nobody runs.
\* The inductive invariant: BoundedInFlight says nothing of the counter that the
\* guard of Acquire reads, nor of the goroutines a new phase starts from.
Accounting ==
  /\ pc \in [Panels -> GoroutineStates]
  /\ sem = Cardinality(Holders)
  /\ sem <= PanelConcurrency
  /\ wg = Cardinality(Active)
  /\ phase \in Phases
  /\ phase \in {"wait", "done", "interrupted"} => wg = 0

\* The panels of the configuration are finitely many, and so are any of them.
LEMMA FiniteParts ==
  /\ IsFiniteSet(Panels)
  /\ \A S \in SUBSET Panels : IsFiniteSet(S) /\ Cardinality(S) \in Nat
BY OneMaster, FS_Subset, FS_CardinalityType

\* What the steps of the goroutines and of the main goroutine do to the
\* counters: five kinds are all there are.
LEMMA StepKinds ==
  ASSUME [Next]_vars
  PROVE  \/ UNCHANGED <<pc, sem, wg>>
         \/ \E p \in Panels : Acquire(p)
         \/ \E p \in Panels : pc[p] = "running" /\ Return(p) /\ wg' = wg /\ phase' = phase
         \/ \E p \in Panels : Leave(p)
         \/ \E P \in SUBSET Panels : Spawn(P) /\ phase' \in {"subscribe", "sample"}
<1>1. CASE UNCHANGED vars
  BY <1>1 DEF vars
<1>2. ASSUME NEW p \in Panels, CollectPanel(p)
      PROVE  \/ UNCHANGED <<pc, sem, wg>>
             \/ pc[p] = "running" /\ Return(p) /\ wg' = wg /\ phase' = phase
  BY <1>2 DEF CollectPanel, Read, ReadStatus, NullStatus, StatusInterrupted, FinishPanel, EndStatus,
              Running
<1>3. ASSUME NEW p \in Panels, CollectSubscriptions(p) \/ SampleTraffic(p)
      PROVE  \/ UNCHANGED <<pc, sem, wg>>
             \/ pc[p] = "running" /\ Return(p) /\ wg' = wg /\ phase' = phase
  BY <1>3 DEF CollectSubscriptions, SampleLinks, CheckExternal, FinishSubscriptions, SampleTraffic,
              Running
<1>4. CASE Reconcile
  <2>1. {p \in Panels : budget'[p] > 0} \in SUBSET Panels
    OBVIOUS
  <2> QED BY <1>4, <2>1 DEF Reconcile
<1>5. CASE Tick
  <2>1. {p \in Panels : Supported(p)} \in SUBSET Panels
    OBVIOUS
  <2> QED BY <1>5, <2>1 DEF Tick
<1>6. CASE FinishSubscribe \/ Interrupt \/ FinishSample \/ Cancel \/ Finished
  BY <1>6 DEF FinishSubscribe, Interrupt, FinishSample, Cancel, Finished, vars
<1> QED
  BY <1>1, <1>2, <1>3, <1>4, <1>5, <1>6 DEF Next, Goroutine, Main

\* The main goroutine leaves a phase when its WaitGroup is down to zero.
LEMMA PhaseStep ==
  ASSUME [Next]_vars, phase \in Phases
  PROVE  /\ phase' \in Phases
         /\ phase' # phase => AllDone \/ phase = "wait"
         /\ phase' # phase /\ phase' \in {"wait", "done", "interrupted"} => wg' = wg
         /\ phase' # phase => phase' # "collect"
<1>1. CASE UNCHANGED vars
  BY <1>1 DEF vars
<1>2. ASSUME NEW p \in Panels, Goroutine(p) PROVE phase' = phase
  BY <1>2 DEF Goroutine, Acquire, Leave, CollectPanel, Read, ReadStatus, NullStatus,
              StatusInterrupted, FinishPanel, EndStatus, CollectSubscriptions, SampleLinks,
              CheckExternal, FinishSubscriptions, SampleTraffic
<1>3. CASE Main
  BY <1>3 DEF Main, Reconcile, FinishSubscribe, Tick, Interrupt, FinishSample, Phases
<1>4. CASE Cancel \/ Finished
  BY <1>4 DEF Cancel, Finished, vars
<1> QED
  BY <1>1, <1>2, <1>3, <1>4 DEF Next

\* collectAll spawns every panel with all slots free.
LEMMA AccountingInit == Init => Accounting
<1> SUFFICES ASSUME Init PROVE Accounting
  OBVIOUS
<1>1. pc \in [Panels -> GoroutineStates]
  BY DEF Init, GoroutineStates
<1>2. Holders = {} /\ Active = Panels
  BY DEF Init, Holders, Active
<1> QED
  BY <1>1, <1>2, FS_EmptySet, ConcurrencyAssumption DEF Init, Accounting, Phases

\* When the WaitGroup is down to zero no goroutine is left.
LEMMA NobodyActive ==
  ASSUME Accounting, wg = 0
  PROVE  \A p \in Panels : pc[p] = "idle"
<1>1. IsFiniteSet(Active)
  BY FiniteParts DEF Active
<1> QED
  BY <1>1, FS_EmptySet DEF Accounting, Active

\* Every step keeps the semaphore and the WaitGroup in line with the goroutines.
LEMMA AccountingNext == Accounting /\ [Next]_vars => Accounting'
<1> SUFFICES ASSUME Accounting, [Next]_vars PROVE Accounting'
  OBVIOUS
<1> USE DEF Accounting
<1> DEFINE Between == {"wait", "done", "interrupted"}
<1>1. /\ IsFiniteSet(Holders) /\ Cardinality(Holders) \in Nat
      /\ IsFiniteSet(Active) /\ Cardinality(Active) \in Nat
  BY FiniteParts DEF Holders, Active
<1>2. phase' \in Phases
  BY PhaseStep
<1>3. CASE UNCHANGED <<pc, sem, wg>>
  <2>1. Holders' = Holders /\ Active' = Active
    BY <1>3 DEF Holders, Active
  <2>2. phase' \in Between => wg' = 0
    BY <1>3, PhaseStep DEF AllDone
  <2> QED BY <1>2, <1>3, <2>1, <2>2
<1>4. ASSUME NEW p \in Panels, Acquire(p) PROVE Accounting'
  <2>1. pc[p] = "queued" /\ pc' = [pc EXCEPT ![p] = "running"] /\ sem' = sem + 1
        /\ wg' = wg /\ phase' = phase /\ sem < PanelConcurrency
    BY <1>4 DEF Acquire, SlotFree
  <2>2. Holders' = Holders \cup {p} /\ p \notin Holders /\ Active' = Active
    BY <2>1 DEF Holders, Active
  <2>3. Cardinality(Holders') = Cardinality(Holders) + 1
    BY <1>1, <2>2, FS_AddElement
  <2>4. pc' \in [Panels -> GoroutineStates]
    BY <2>1 DEF GoroutineStates
  <2> QED BY <1>1, <1>2, <2>1, <2>2, <2>3, <2>4, ConcurrencyAssumption
<1>5. ASSUME NEW p \in Panels, pc[p] = "running", Return(p), wg' = wg, phase' = phase
      PROVE  Accounting'
  <2>1. pc' = [pc EXCEPT ![p] = "leaving"] /\ sem' = sem - 1
    BY <1>5 DEF Return
  <2>2. Holders' = Holders \ {p} /\ p \in Holders /\ Active' = Active
    BY <1>5, <2>1 DEF Holders, Active
  <2>3. Cardinality(Holders') = Cardinality(Holders) - 1
    BY <1>1, <2>2, FS_RemoveElement
  <2>4. pc' \in [Panels -> GoroutineStates]
    BY <2>1 DEF GoroutineStates
  <2> QED BY <1>1, <1>2, <1>5, <2>1, <2>2, <2>3, <2>4, ConcurrencyAssumption
<1>6. ASSUME NEW p \in Panels, Leave(p) PROVE Accounting'
  <2>1. pc[p] = "leaving" /\ pc' = [pc EXCEPT ![p] = "idle"] /\ wg' = wg - 1
        /\ sem' = sem /\ phase' = phase
    BY <1>6 DEF Leave
  <2>2. Active' = Active \ {p} /\ p \in Active /\ Holders' = Holders
    BY <2>1 DEF Holders, Active
  <2>3. Cardinality(Active') = Cardinality(Active) - 1
    BY <1>1, <2>2, FS_RemoveElement
  <2>4. pc' \in [Panels -> GoroutineStates]
    BY <2>1 DEF GoroutineStates
  <2>5. phase \notin Between
    BY <2>1, NobodyActive
  <2> QED BY <1>1, <1>2, <2>1, <2>2, <2>3, <2>4, <2>5
<1>7. ASSUME NEW P \in SUBSET Panels, Spawn(P), phase' \in {"subscribe", "sample"}
      PROVE  Accounting'
  <2>1. /\ pc' = [p \in Panels |-> IF p \in P THEN "queued" ELSE "idle"]
        /\ wg' = Cardinality(P) /\ sem' = 0
    BY <1>7 DEF Spawn
  <2>2. Holders' = {} /\ Active' = P
    BY <2>1 DEF Holders, Active
  <2>3. pc' \in [Panels -> GoroutineStates]
    BY <2>1 DEF GoroutineStates
  <2> QED BY <1>2, <1>7, <2>1, <2>2, <2>3, FS_EmptySet, ConcurrencyAssumption
<1> QED
  BY <1>3, <1>4, <1>5, <1>6, <1>7, StepKinds

\* The slots in use are the goroutines that hold one, at most panel_concurrency,
\* and the WaitGroup counts those that have not called Done, in every phase.
THEOREM AccountingInvariant == Spec => []Accounting
BY AccountingInit, AccountingNext, PTL DEF Spec

\* transport.panel_concurrency is never exceeded: in no phase do more goroutines
\* than that hold a slot.
THEOREM ConcurrencyBounded == Spec => []BoundedInFlight
<1>1. Accounting => BoundedInFlight
  BY DEF Accounting, BoundedInFlight, Holders
<1> QED
  BY <1>1, AccountingInvariant, PTL

\* The main goroutine reads the work records only when no goroutine that writes
\* them is left: the WaitGroup hands them over.
THEOREM HandoverIsQuiet == Spec => QuietHandover
<1>1. Accounting /\ [Next]_vars =>
        [phase' # phase => \A p \in Panels : pc[p] = "idle"]_vars
  <2> SUFFICES ASSUME Accounting, [Next]_vars, phase' # phase
               PROVE  \A p \in Panels : pc[p] = "idle"
    OBVIOUS
  <2>1. wg = 0
    BY PhaseStep DEF Accounting, AllDone
  <2> QED BY <2>1, NobodyActive
<1> QED
  BY <1>1, AccountingInvariant, PTL DEF Spec, QuietHandover

-----------------------------------------------------------------------------
(* Type correctness *)

ObservationTyped(o) == o.sev \in Severities /\ o.rule \in RuleOrder

\* An observation with a rule and a severity of the pack is well typed.
LEMMA ObsTyped ==
  ASSUME NEW rule \in RuleOrder, NEW kind, NEW sev \in Severities, NEW subject
  PROVE  ObservationTyped(Obs(rule, kind, sev, subject))
BY DEF ObservationTyped, Obs

\* A guarded append adds nothing that was not there.
LEMMA WhenTyped ==
  ASSUME NEW cond, NEW S, \A o \in S : ObservationTyped(o)
  PROVE  \A o \in When(cond, S) : ObservationTyped(o)
BY DEF When

\* The configuration rules only give rules and severities of the pack.
LEMMA ConfigObservationsTyped ==
  ASSUME NEW inbounds, NEW generated
  PROVE  \A o \in ConfigObservations(inbounds, generated) : ObservationTyped(o)
<1>1. ASSUME NEW in \in inbounds, NEW cond, NEW kind,
             NEW rule \in {"CFG-001", "CFG-002", "CFG-003"}, NEW sev \in Severities
      PROVE  \A o \in When(cond, {Obs(rule, kind, sev, in.id)}) : ObservationTyped(o)
  <2>1. \A o \in {Obs(rule, kind, sev, in.id)} : ObservationTyped(o)
    BY ObsTyped DEF RuleOrder
  <2> QED BY <2>1, WhenTyped
<1>2. "blocking" \in Severities /\ "inconclusive" \in Severities
  BY DEF Severities
<1>3. ASSUME NEW in \in inbounds
      PROVE  \A o \in InboundObservations(in, inbounds) : ObservationTyped(o)
  <2> DEFINE missing == in.proto = ""
             unknown == in.proto \notin KnownProtocols \cup {""}
             odd == in.transport \notin KnownTransports
             dangling == \E f \in in.fallbacks : ~FallbackResolves(f, inbounds)
             invalid == in.flow /\ in.proto # "vless"
             S1 == When(missing, {Obs("CFG-002", "missing_protocol", "blocking", in.id)})
             S2 == When(unknown, {Obs("CFG-002", "unknown_protocol", "inconclusive", in.id)})
             S3 == When(odd, {Obs("CFG-002", "unknown_transport", "inconclusive", in.id)})
             S4 == When(dangling, {Obs("CFG-001", "unresolved_fallback", "blocking", in.id)})
             S5 == When(~in.stream, {Obs("CFG-002", "incomplete_security", "blocking", in.id)})
             S6 == When(invalid, {Obs("CFG-002", "invalid_flow", "blocking", in.id)})
  <2>1. InboundObservations(in, inbounds) = S1 \cup S2 \cup S3 \cup S4 \cup S5 \cup S6
    BY DEF InboundObservations
  <2> HIDE DEF missing, unknown, odd, dangling, invalid
  <2>2. /\ \A o \in S1 \cup S2 \cup S3 : ObservationTyped(o)
        /\ \A o \in S4 \cup S5 \cup S6 : ObservationTyped(o)
    BY <1>1, <1>2
  <2> HIDE DEF S1, S2, S3, S4, S5, S6
  <2> QED BY <2>1, <2>2
<1>4. ASSUME NEW in \in inbounds
      PROVE  \A o \in GeneratedObservations(in, generated) : ObservationTyped(o)
  BY <1>1, <1>2, ObsTyped DEF GeneratedObservations, RuleOrder
<1> QED BY <1>3, <1>4 DEF ConfigObservations

\* So does the reconciliation of the topology.
LEMMA TopologyObservationsTyped ==
  ASSUME NEW w, NEW command, NEW target, NEW p \in Panels
  PROVE  \A o \in ReconcileTopology(w, command, target)[p] : ObservationTyped(o)
<1>1. ASSUME NEW node PROVE \A o \in NodeObservations(w, node) : ObservationTyped(o)
  BY DEF NodeObservations, ObservationTyped, When, Obs, Severities, RuleOrder
<1>2. ASSUME NEW c \in Children
      PROVE  /\ \A o \in ConfiguredNodeMissing(w, c) : ObservationTyped(o)
             /\ \A o \in ObjectObservations(w, c) : ObservationTyped(o)
  BY DEF ConfiguredNodeMissing, ObjectObservations, ObservationTyped, When, Obs, Severities,
         RuleOrder
<1>3. \A o \in MasterObservations(w) : ObservationTyped(o)
  <2>1. CASE ~w[Master].supported
    BY <2>1 DEF MasterObservations, ObservationTyped, Obs, Severities, RuleOrder
  <2>2. CASE w[Master].supported
    <3>1. \A o \in NodeListObservations(w) : ObservationTyped(o)
      BY <1>1 DEF NodeListObservations
    <3>2. \A o \in ChildObservations(w) : ObservationTyped(o)
      BY <1>2 DEF ChildObservations
    <3>3. MasterObservations(w) = NodeListObservations(w) \cup ChildObservations(w)
      BY <2>2 DEF MasterObservations
    <3> QED BY <3>1, <3>2, <3>3
  <2> QED BY <2>1, <2>2
<1>4. \A o \in TargetObservations(w, command, target, p) : ObservationTyped(o)
  BY DEF TargetObservations, ObservationTyped, When, Obs, Severities, RuleOrder
<1> QED BY <1>3, <1>4, WhenTyped DEF ReconcileTopology

\* TypeOK without the counters, which Accounting types.
DataTyped ==
  /\ world \in DOMAIN Worlds
  /\ tick \in 0..TrafficSamples
  /\ next \in [Panels -> Reads \cup {"end"}]
  /\ attempt \in [Panels -> 0..(StatusAttempts - 1)]
  /\ got \in [Panels -> SUBSET Reads]
  /\ DOMAIN obs = Panels
  /\ \A p \in Panels : \A o \in obs[p] : o.sev \in Severities /\ o.rule \in RuleOrder
  /\ traffic \in [Panels -> 0..TrafficSamples]
  /\ cancelled \in BOOLEAN
  /\ faults \in 0..MaxFaults[world]

\* Each interval gives a panel at most one sample, and the last one is the fifth.
SamplesCounted ==
  /\ phase = "wait" => tick < TrafficSamples
  /\ phase \in {"collect", "subscribe"} => tick = 0
  /\ \A p \in Panels : /\ traffic[p] <= tick
                       /\ phase = "sample" /\ pc[p] \in {"queued", "running"} => traffic[p] < tick

TypeInv == Accounting /\ DataTyped /\ SamplesCounted

\* The inductive invariant implies type correctness.
LEMMA TypeInvIsTypeOK == TypeInv => TypeOK
<1> SUFFICES ASSUME TypeInv PROVE TypeOK
  OBVIOUS
<1>1. /\ Cardinality(Holders) \in Nat /\ Cardinality(Active) \in Nat
      /\ Cardinality(Panels) \in Nat /\ Cardinality(Active) <= Cardinality(Panels)
  BY FiniteParts, FS_Subset DEF Holders, Active
<1>2. sem \in 0..PanelConcurrency /\ wg \in 0..Cardinality(Panels)
  BY <1>1, ConcurrencyAssumption DEF TypeInv, Accounting
<1> QED BY <1>2 DEF TypeInv, Accounting, DataTyped, TypeOK

\* What the steps do to the observations: they only accumulate, and whoever
\* adds one gives it a rule and a severity the rule pack knows.
LEMMA ObservationsKept ==
  ASSUME DOMAIN obs = Panels, [Next]_vars
  PROVE  /\ DOMAIN obs' = Panels
         /\ \A p \in Panels : obs[p] \subseteq obs'[p]
         /\ \A p \in Panels : \A o \in obs'[p] \ obs[p] : ObservationTyped(o)
<1> DEFINE Kept == /\ DOMAIN obs' = Panels
                   /\ \A p \in Panels : obs[p] \subseteq obs'[p]
                   /\ \A p \in Panels : \A o \in obs'[p] \ obs[p] : ObservationTyped(o)
<1>1. CASE UNCHANGED obs
  BY <1>1
<1>2. ASSUME NEW p \in Panels, NEW S, \A o \in S : ObservationTyped(o),
             obs' = [obs EXCEPT ![p] = @ \cup S]
      PROVE  Kept
  BY <1>2
<1>3. ASSUME NEW p, NEW read, NEW outcome PROVE ObservationTyped(ReadFailure(p, read, outcome))
  BY DEF ObservationTyped, ReadFailure, Obs, Severities, RuleOrder
<1>4. ASSUME NEW p \in Panels, Read(p) PROVE Kept
  <2>1. PICK outcome \in Outcomes(next[p]) :
          obs' = IF outcome = "ok" THEN obs
                 ELSE [obs EXCEPT ![p] = @ \cup {ReadFailure(p, next[p], outcome)}]
    BY <1>4 DEF Read
  <2>2. CASE outcome = "ok"
    BY <2>1, <2>2, <1>1
  <2>3. CASE outcome # "ok"
    BY <2>1, <2>3, <1>2, <1>3
  <2> QED BY <2>2, <2>3
<1>5. ASSUME NEW p \in Panels, NEW S, \A o \in S : ObservationTyped(o), EndStatus(p, S) PROVE Kept
  <2>1. \A o \in S \cup MissingOperations(p) : ObservationTyped(o)
    BY <1>5 DEF MissingOperations, When, Obs, ObservationTyped, Severities, RuleOrder
  <2>2. obs' = [obs EXCEPT ![p] = @ \cup (S \cup MissingOperations(p))]
    BY <1>5 DEF EndStatus
  <2> QED BY <2>1, <2>2, <1>2
<1>6. ASSUME NEW p \in Panels, ReadStatus(p) PROVE Kept
  <2>1. PICK outcome \in Outcomes("status") :
          EndStatus(p, When(outcome # "ok", {ReadFailure(p, "status", outcome)}))
    BY <1>6 DEF ReadStatus
  <2>2. \A o \in When(outcome # "ok", {ReadFailure(p, "status", outcome)}) : ObservationTyped(o)
    BY <1>3 DEF When
  <2> QED BY <2>1, <2>2, <1>5
<1>7. ASSUME NEW p \in Panels, NullStatus(p) \/ StatusInterrupted(p) PROVE Kept
  <2>1. \A o \in {StatusUnavailable(p)} : ObservationTyped(o)
    BY DEF StatusUnavailable, Obs, ObservationTyped, Severities, RuleOrder
  <2>2. UNCHANGED obs \/ EndStatus(p, {StatusUnavailable(p)})
    BY <1>7 DEF NullStatus, StatusInterrupted
  <2> QED BY <2>1, <2>2, <1>1, <1>5
<1>8. ASSUME NEW p \in Panels, FinishPanel(p) PROVE Kept
  <2> DEFINE S == When(Supported(p), ConfigObservations(Listed(p, "inbounds"), Generated(p)))
  <2>1. \A o \in S : ObservationTyped(o)
    BY ConfigObservationsTyped DEF When
  <2>2. obs' = [obs EXCEPT ![p] = @ \cup S]
    BY <1>8 DEF FinishPanel
  <2> QED BY <2>1, <2>2, <1>2
<1>9. ASSUME NEW p \in Panels, SampleLinks(p) PROVE Kept
  <2>1. PICK x \in samples[p], S \in SUBSET Outcomes("links") :
          obs' = [obs EXCEPT ![p] = @ \cup LinkObservations(p, x, S)]
    BY <1>9 DEF SampleLinks
  <2>2. \A o \in LinkObservations(p, x, S) : ObservationTyped(o)
    BY <1>3 DEF LinkObservations
  <2> QED BY <2>1, <2>2, <1>2
<1>10. ASSUME NEW p \in Panels, SampleTraffic(p) PROVE Kept
  <2>1. \A o \in {TrafficLost(p)} : ObservationTyped(o)
    BY DEF TrafficLost, Obs, ObservationTyped, Severities, RuleOrder
  <2>2. UNCHANGED obs \/ obs' = [obs EXCEPT ![p] = @ \cup {TrafficLost(p)}]
    BY <1>10 DEF SampleTraffic
  <2> QED BY <2>1, <2>2, <1>1, <1>2
<1>11. CASE Reconcile
  <2> DEFINE found == ReconcileTopology(Work, Job.command, Job.target)
  <2>1. obs' = [p \in Panels |-> obs[p] \cup found[p]]
    BY <1>11 DEF Reconcile
  <2>2. \A p \in Panels : \A o \in found[p] : ObservationTyped(o)
    BY TopologyObservationsTyped
  <2> HIDE DEF found
  <2> QED BY <2>1, <2>2
<1>12. ASSUME NEW p \in Panels, Acquire(p) \/ Leave(p) \/ CheckExternal(p) \/ FinishSubscriptions(p)
       PROVE  UNCHANGED obs
  BY <1>12 DEF Acquire, Leave, CheckExternal, FinishSubscriptions
<1>13. CASE FinishSubscribe \/ Tick \/ Interrupt \/ FinishSample \/ Cancel \/ Finished
  BY <1>13, <1>1 DEF FinishSubscribe, Tick, Interrupt, FinishSample, Cancel, Finished, vars
<1>14. CASE UNCHANGED vars
  BY <1>14, <1>1 DEF vars
<1> QED
  BY <1>1, <1>4, <1>6, <1>7, <1>8, <1>9, <1>10, <1>11, <1>12, <1>13, <1>14
  DEF Next, Goroutine, CollectPanel, CollectSubscriptions, Main

\* Only the steps of collectPanel up to its end move a panel through its reads,
\* and nothing changes what the panels answer.
LEMMA ReadingSteps ==
  ASSUME [Next]_vars
  PROVE  /\ world' = world
         /\ \/ UNCHANGED <<next, attempt, got>>
            \/ \E p \in Panels : Read(p) \/ ReadStatus(p) \/ NullStatus(p) \/ StatusInterrupted(p)
<1>1. CASE UNCHANGED vars
  BY <1>1 DEF vars
<1>2. ASSUME NEW p \in Panels, Goroutine(p)
      PROVE  /\ world' = world
             /\ \/ UNCHANGED <<next, attempt, got>>
                \/ Read(p) \/ ReadStatus(p) \/ NullStatus(p) \/ StatusInterrupted(p)
  <2>1. CASE Read(p) \/ ReadStatus(p) \/ NullStatus(p) \/ StatusInterrupted(p)
    BY <2>1 DEF Read, ReadStatus, NullStatus, StatusInterrupted, EndStatus
  <2>2. CASE FinishPanel(p)
    BY <2>2 DEF FinishPanel, workVars
  <2>3. CASE CollectSubscriptions(p)
    BY <2>3 DEF CollectSubscriptions, SampleLinks, CheckExternal, FinishSubscriptions, workVars
  <2>4. CASE Acquire(p) \/ Leave(p) \/ SampleTraffic(p)
    BY <2>4 DEF Acquire, Leave, SampleTraffic, workVars
  <2> QED BY <1>2, <2>1, <2>2, <2>3, <2>4 DEF Goroutine, CollectPanel
<1>3. CASE Main
  BY <1>3 DEF Main, Reconcile, FinishSubscribe, Tick, Interrupt, FinishSample, workVars
<1>4. CASE Cancel \/ Finished
  BY <1>4 DEF Cancel, Finished, vars, workVars
<1> QED
  BY <1>1, <1>2, <1>3, <1>4 DEF Next

\* The steps of collectPanel keep its position, its retries and its evidence typed.
LEMMA ReadingTyped ==
  ASSUME [Next]_vars,
         next \in [Panels -> Reads \cup {"end"}],
         attempt \in [Panels -> 0..(StatusAttempts - 1)],
         got \in [Panels -> SUBSET Reads]
  PROVE  /\ next' \in [Panels -> Reads \cup {"end"}]
         /\ attempt' \in [Panels -> 0..(StatusAttempts - 1)]
         /\ got' \in [Panels -> SUBSET Reads]
<1> DEFINE Typed == /\ next' \in [Panels -> Reads \cup {"end"}]
                    /\ attempt' \in [Panels -> 0..(StatusAttempts - 1)]
                    /\ got' \in [Panels -> SUBSET Reads]
<1>1. ASSUME NEW p \in Panels, Read(p) PROVE Typed
  <2>1. next[p] \in Reads \ {"status"} /\ attempt' = attempt
        /\ next' = [next EXCEPT ![p] = After(p, @)]
        /\ (got' = got \/ got' = [got EXCEPT ![p] = @ \cup {next[p]}])
    BY <1>1 DEF Read
  <2>2. After(p, next[p]) \in Reads \cup {"end"}
    BY <2>1 DEF After, Reads
  <2> QED BY <2>1, <2>2
<1>2. ASSUME NEW p \in Panels, NEW S, EndStatus(p, S)
      PROVE  /\ next' \in [Panels -> Reads \cup {"end"}]
             /\ attempt' \in [Panels -> 0..(StatusAttempts - 1)]
  <2>1. Gate(p) \in Reads \cup {"end"}
    BY DEF Gate, Reads
  <2>2. 0 \in 0..(StatusAttempts - 1)
    BY DEF StatusAttempts
  <2> QED BY <1>2, <2>1, <2>2 DEF EndStatus
<1>3. ASSUME NEW p \in Panels, ReadStatus(p) PROVE Typed
  <2>1. got' = got \/ got' = [got EXCEPT ![p] = @ \cup {"status"}]
    BY <1>3 DEF ReadStatus
  <2>2. \E S : EndStatus(p, S)
    BY <1>3 DEF ReadStatus
  <2> QED BY <2>1, <2>2, <1>2 DEF Reads
<1>4. ASSUME NEW p \in Panels, NullStatus(p) PROVE Typed
  <2>1. CASE attempt[p] + 1 < StatusAttempts
    BY <1>4, <2>1 DEF NullStatus, StatusAttempts
  <2>2. CASE ~(attempt[p] + 1 < StatusAttempts)
    BY <1>4, <2>2, <1>2 DEF NullStatus
  <2> QED BY <2>1, <2>2
<1>5. ASSUME NEW p \in Panels, StatusInterrupted(p) PROVE Typed
  BY <1>5, <1>2 DEF StatusInterrupted
<1> QED
  BY <1>1, <1>3, <1>4, <1>5, ReadingSteps

\* A step suffers at most the faults that are left, and undoes neither a fault nor a
\* cancellation.
LEMMA FaultsTyped ==
  ASSUME [Next]_vars, world \in DOMAIN Worlds, cancelled \in BOOLEAN, faults \in 0..MaxFaults[world]
  PROVE  /\ cancelled' \in BOOLEAN /\ (cancelled => cancelled')
         /\ faults' \in 0..MaxFaults[world] /\ faults <= faults'
<1>1. CASE UNCHANGED <<cancelled, faults>>
  BY <1>1
<1>2. ASSUME NEW n \in 0..2, Spend(n) PROVE faults' \in 0..MaxFaults[world] /\ faults <= faults'
  BY <1>2, FaultsAssumption DEF Spend
<1>3. ASSUME NEW outcome, Suffer(outcome)
      PROVE  faults' \in 0..MaxFaults[world] /\ faults <= faults'
  BY <1>2, <1>3 DEF Suffer
<1>4. ASSUME NEW p \in Panels, Read(p) \/ ReadStatus(p) \/ CheckExternal(p) \/ SampleTraffic(p)
      PROVE  cancelled' = cancelled /\ (faults' = faults \/ \E outcome : Suffer(outcome))
  <2>1. CASE Read(p)
    BY <2>1 DEF Read
  <2>2. CASE ReadStatus(p)
    BY <2>2 DEF ReadStatus, EndStatus
  <2>3. CASE CheckExternal(p)
    BY <2>3 DEF CheckExternal
  <2>4. CASE SampleTraffic(p)
    BY <2>4 DEF SampleTraffic
  <2> QED BY <1>4, <2>1, <2>2, <2>3, <2>4
<1>5. ASSUME NEW p \in Panels, SampleLinks(p)
      PROVE  cancelled' = cancelled /\ faults' \in 0..MaxFaults[world] /\ faults <= faults'
  <2> DEFINE lost(share, sub) == (IF share = "ok" THEN 0 ELSE 1) + (IF sub = "ok" THEN 0 ELSE 1)
  <2>1. cancelled' = cancelled /\ (faults' = faults \/ \E share, sub : Spend(lost(share, sub)))
    BY <1>5 DEF SampleLinks
  <2>2. \A share, sub : lost(share, sub) \in 0..2
    OBVIOUS
  <2> HIDE DEF lost
  <2>3. (\E share, sub : Spend(lost(share, sub))) =>
          faults' \in 0..MaxFaults[world] /\ faults <= faults'
    BY <2>2, <1>2
  <2> QED BY <2>1, <2>3
<1>6. ASSUME NEW p \in Panels,
             Acquire(p) \/ Leave(p) \/ NullStatus(p) \/ StatusInterrupted(p) \/ FinishPanel(p)
             \/ FinishSubscriptions(p)
      PROVE  UNCHANGED <<cancelled, faults>>
  BY <1>6 DEF Acquire, Leave, NullStatus, StatusInterrupted, EndStatus, FinishPanel,
              FinishSubscriptions
<1>7. CASE Main \/ Finished \/ UNCHANGED vars
  BY <1>7, <1>1 DEF Main, Reconcile, FinishSubscribe, Tick, Interrupt, FinishSample, Finished, vars
<1>8. CASE Cancel
  BY <1>8 DEF Cancel
<1> QED
  BY <1>1, <1>3, <1>4, <1>5, <1>6, <1>7, <1>8 DEF Next, Goroutine, CollectPanel, CollectSubscriptions

\* Only the last phase counts traffic samples.
LEMMA TrafficSteps ==
  ASSUME [Next]_vars
  PROVE  \/ /\ UNCHANGED <<tick, traffic>>
            /\ \/ \E p \in Panels : pc' = [pc EXCEPT ![p] = "running"] /\ pc[p] = "queued"
               \/ \E p \in Panels : pc' = [pc EXCEPT ![p] = "leaving"]
               \/ \E p \in Panels : pc' = [pc EXCEPT ![p] = "idle"]
               \/ UNCHANGED pc
               \/ phase' = "subscribe"
         \/ Tick
         \/ \E p \in Panels : SampleTraffic(p)
<1>1. CASE UNCHANGED vars
  BY <1>1 DEF vars
<1>2. ASSUME NEW p \in Panels, Goroutine(p), ~SampleTraffic(p) PROVE UNCHANGED <<tick, traffic>>
  BY <1>2 DEF Goroutine, Acquire, Leave, CollectPanel, Read, ReadStatus, NullStatus,
              StatusInterrupted, FinishPanel, EndStatus, CollectSubscriptions, SampleLinks,
              CheckExternal, FinishSubscriptions, workVars
<1>3. ASSUME NEW p \in Panels, Goroutine(p)
      PROVE  \/ pc' = [pc EXCEPT ![p] = "running"] /\ pc[p] = "queued"
             \/ pc' = [pc EXCEPT ![p] = "leaving"]
             \/ pc' = [pc EXCEPT ![p] = "idle"]
             \/ UNCHANGED pc
  BY <1>3 DEF Goroutine, Acquire, Leave, CollectPanel, Read, ReadStatus, NullStatus,
              StatusInterrupted, FinishPanel, EndStatus, CollectSubscriptions, SampleLinks,
              CheckExternal, FinishSubscriptions, SampleTraffic, Return
<1>4. CASE Reconcile
  BY <1>4 DEF Reconcile
<1>5. CASE FinishSubscribe \/ Interrupt \/ FinishSample \/ Cancel \/ Finished
  BY <1>5 DEF FinishSubscribe, Interrupt, FinishSample, Cancel, Finished, vars, workVars
<1> QED
  BY <1>1, <1>2, <1>3, <1>4, <1>5 DEF Next, Main

\* The invariant holds initially.
LEMMA TypeInvInit == Init => TypeInv
<1> SUFFICES ASSUME Init PROVE TypeInv
  OBVIOUS
<1>1. DataTyped
  <2>1. 0 \in 0..TrafficSamples /\ 0 \in 0..(StatusAttempts - 1) /\ 0 \in 0..MaxFaults[world]
    BY FaultsAssumption DEF Init, TrafficSamples, StatusAttempts
  <2>2. "openapi" \in Reads \cup {"end"}
    BY DEF Reads
  <2>3. attempt \in [Panels -> 0..(StatusAttempts - 1)] /\ traffic \in [Panels -> 0..TrafficSamples]
    BY <2>1 DEF Init
  <2>4. next \in [Panels -> Reads \cup {"end"}] /\ got \in [Panels -> SUBSET Reads]
    BY <2>2 DEF Init
  <2>5. DOMAIN obs = Panels /\ \A p \in Panels : obs[p] = {}
    BY DEF Init
  <2> QED BY <2>1, <2>3, <2>4, <2>5 DEF Init, DataTyped
<1>2. SamplesCounted
  BY DEF Init, SamplesCounted
<1> QED BY <1>1, <1>2, AccountingInit DEF TypeInv

\* A panel receives at most one traffic sample per tick.
LEMMA SamplesCountedNext ==
  ASSUME TypeInv, [Next]_vars
  PROVE  /\ SamplesCounted'
         /\ tick' \in 0..TrafficSamples
         /\ traffic' \in [Panels -> 0..TrafficSamples]
<1> USE DEF TypeInv, DataTyped, TrafficSamples
<1>1. /\ phase \in Phases /\ pc \in [Panels -> GoroutineStates]
      /\ phase = "wait" => tick < TrafficSamples
      /\ phase \in {"collect", "subscribe"} => tick = 0
      /\ \A p \in Panels : /\ traffic[p] \in 0..TrafficSamples
                           /\ traffic[p] <= tick
                           /\ phase = "sample" /\ pc[p] \in {"queued", "running"} => traffic[p] < tick
  BY DEF Accounting, SamplesCounted
<1>2. CASE Tick
  <2>1. tick' = tick + 1 /\ phase = "wait" /\ phase' = "sample" /\ traffic' = traffic
    BY <1>2 DEF Tick, workVars
  <2> QED BY <1>1, <2>1 DEF SamplesCounted
<1>3. ASSUME NEW p \in Panels, SampleTraffic(p)
      PROVE  /\ SamplesCounted'
             /\ traffic' \in [Panels -> 0..TrafficSamples]
             /\ tick' = tick
  <2>1. /\ phase = "sample" /\ phase' = phase /\ tick' = tick /\ pc[p] = "running"
        /\ pc' = [pc EXCEPT ![p] = "leaving"]
        /\ traffic' = traffic \/ traffic' = [traffic EXCEPT ![p] = @ + 1]
    BY <1>3 DEF SampleTraffic, Running, Return
  <2>2. traffic[p] < tick
    BY <1>1, <2>1
  <2>3. traffic' \in [Panels -> 0..TrafficSamples]
    BY <2>1, <2>2
  <2>4. \A q \in Panels : traffic'[q] <= tick
    BY <1>1, <2>1, <2>2
  <2>5. \A q \in Panels : pc'[q] \in {"queued", "running"} => traffic'[q] < tick
    BY <1>1, <2>1
  <2> QED BY <2>1, <2>3, <2>4, <2>5 DEF SamplesCounted
<1>4. ASSUME UNCHANGED <<tick, traffic>>,
             \/ \E p \in Panels : pc' = [pc EXCEPT ![p] = "running"] /\ pc[p] = "queued"
             \/ \E p \in Panels : pc' = [pc EXCEPT ![p] = "leaving"]
             \/ \E p \in Panels : pc' = [pc EXCEPT ![p] = "idle"]
             \/ UNCHANGED pc
             \/ phase' = "subscribe",
             ~Tick
      PROVE  SamplesCounted'
  <2>1. /\ phase' = "sample" => phase = "sample"
        /\ phase' = "wait" /\ phase # "wait" => tick < TrafficSamples
        /\ phase' \in {"collect", "subscribe"} => phase \in {"collect", "subscribe"}
    <3>1. phase' = phase \/ Main
      <4>1. ASSUME NEW p \in Panels, Goroutine(p) PROVE phase' = phase
        BY <4>1 DEF Goroutine, Acquire, Leave, CollectPanel, Read, ReadStatus, NullStatus,
                    StatusInterrupted, FinishPanel, EndStatus, CollectSubscriptions, SampleLinks,
                    CheckExternal, FinishSubscriptions, SampleTraffic
      <4> QED BY <4>1 DEF Next, Cancel, Finished, vars
    <3>2. CASE Main
      BY <1>1, <1>4, <3>2 DEF Main, Reconcile, FinishSubscribe, Interrupt, FinishSample
    <3> QED BY <3>1, <3>2
  <2>2. \A q \in Panels : phase' = "sample" /\ pc'[q] \in {"queued", "running"} =>
                            phase = "sample" /\ pc[q] \in {"queued", "running"}
    BY <1>1, <1>4, <2>1
  <2> QED BY <1>1, <1>4, <2>1, <2>2 DEF SamplesCounted
<1> QED
  BY <1>1, <1>2, <1>3, <1>4, TrafficSteps

\* Every step preserves the inductive invariant.
LEMMA TypeInvNext == TypeInv /\ [Next]_vars => TypeInv'
<1> SUFFICES ASSUME TypeInv, [Next]_vars PROVE TypeInv'
  OBVIOUS
<1>1. Accounting'
  BY AccountingNext DEF TypeInv
<1>2. /\ DOMAIN obs' = Panels
      /\ \A p \in Panels : \A o \in obs'[p] : o.sev \in Severities /\ o.rule \in RuleOrder
  BY ObservationsKept DEF TypeInv, DataTyped, ObservationTyped
<1>3. world' = world /\ world' \in DOMAIN Worlds
  BY ReadingSteps DEF TypeInv, DataTyped
<1>4. DataTyped'
  BY <1>2, <1>3, ReadingTyped, FaultsTyped, SamplesCountedNext DEF TypeInv, DataTyped
<1> QED BY <1>1, <1>4, SamplesCountedNext DEF TypeInv

\* Every variable keeps its type: the counters of the semaphore and of the
\* WaitGroup never leave their ranges, and a panel never has a sixth sample.
THEOREM TypeCorrect == Spec => []TypeOK
BY TypeInvInit, TypeInvNext, TypeInvIsTypeOK, PTL DEF Spec

-----------------------------------------------------------------------------
(* The subscription budget *)

\* A panel offers finitely many candidates.
LEMMA EligibleFinite ==
  ASSUME world \in DOMAIN Worlds, NEW p \in Panels
  PROVE  IsFiniteSet(EligibleCandidates(p)) /\ Eligible(p) \in Nat
<1> DEFINE C == Listed(p, "clients")
           I == Listed(p, "inbounds")
           f == [x \in C \X I |-> [client |-> x[1], inbound |-> x[2].id]]
           T == {f[x] : x \in C \X I}
<1>1. IsFiniteSet(C) /\ IsFiniteSet(I)
  <2>1. IsFiniteSet(Answers(p).clients) /\ IsFiniteSet(Answers(p).inbounds)
    BY ListsAssumption DEF Answers, Job
  <2> QED BY <2>1, FS_EmptySet DEF Listed, When
<1>2. IsFiniteSet(C \X I)
  BY <1>1, FS_Product
<1> HIDE DEF C, I
<1>3. IsFiniteSet(T)
  <2>1. f \in Surjection(C \X I, T)
    BY DEF Surjection
  <2> QED BY <1>2, <2>1, FS_Surjection
<1>4. EligibleCandidates(p) \subseteq T
  <2>1. ASSUME NEW c \in C, NEW in \in I PROVE [client |-> c, inbound |-> in.id] \in T
    <3>1. <<c, in>> \in C \X I
      OBVIOUS
    <3>2. f[<<c, in>>] = [client |-> c, inbound |-> in.id]
      BY <3>1
    <3> QED BY <3>1, <3>2
  <2> HIDE DEF f, T
  <2>2. ASSUME NEW x \in Candidates(p) PROVE x \in T
    <3>1. \E c \in Subscribers(p), in \in I : x = [client |-> c, inbound |-> in.id]
      BY DEF Candidates, I
    <3>3. Subscribers(p) \subseteq C
      BY DEF C, Subscribers
    <3>2. PICK c \in C, in \in I : x = [client |-> c, inbound |-> in.id]
      BY <3>1, <3>3
    <3> QED BY <2>1, <3>2
  <2> QED BY <2>2 DEF EligibleCandidates
<1>5. IsFiniteSet(EligibleCandidates(p))
  BY <1>3, <1>4, FS_Subset
<1> QED BY <1>5, FS_CardinalityType DEF Eligible

\* The round robin of this run is one that DealFair is about.
LEMMA BudgetsFair ==
  ASSUME world \in DOMAIN Worlds
  PROVE  /\ Total(Budgets) <= SampleCap
         /\ Budgets \in [Panels -> Nat]
         /\ \A p \in Panels : Budgets[p] <= (IF Supported(p) THEN Eligible(p) ELSE 0)
         /\ \A p, q \in Panels : Supported(p) /\ Budgets[p] < Eligible(p) =>
              Total(Budgets) = SampleCap /\ Budgets[q] <= Budgets[p] + 1
<1> DEFINE P == {p \in Panels : Supported(p)}
           order == Those(PanelOrder, P)
           eligible == [p \in Panels |-> Eligible(p)]
<1> HIDE DEF P
<1>1. /\ order \in Seq(Panels)
      /\ \A i, j \in DOMAIN order : order[i] = order[j] => i = j
      /\ \A k \in DOMAIN order : order[k] \in P
      /\ \A i \in DOMAIN PanelOrder : PanelOrder[i] \in P => \E k \in DOMAIN order : order[k] = PanelOrder[i]
  BY PanelOrderAssumption, ThoseMembers, ThoseDistinct
<1> USE DEF P
<1>2. \A p \in Panels : p \in Range(order) <=> Supported(p)
  <2>1. ASSUME NEW p \in Panels, Supported(p) PROVE p \in Range(order)
    <3>1. PICK i \in DOMAIN PanelOrder : PanelOrder[i] = p
      BY PanelOrderAssumption
    <3>2. PICK k \in DOMAIN order : order[k] = p
      BY <1>1, <2>1, <3>1
    <3> HIDE DEF order
    <3> QED BY <3>2 DEF Range
  <2>2. ASSUME NEW p \in Panels, p \in Range(order) PROVE Supported(p)
    <3>1. PICK k \in DOMAIN order : order[k] = p
      BY <2>2 DEF Range
    <3> QED BY <1>1, <3>1
  <2> QED BY <2>1, <2>2
<1>3. eligible \in [Panels -> Nat]
  BY EligibleFinite
<1>4. \A p \in Panels : eligible[p] = Eligible(p)
  OBVIOUS
<1>5. Budgets = Deal(order, eligible, SampleCap)
  BY DEF Budgets
<1> HIDE DEF order, eligible
<1>6. DealProblem(order, eligible, SampleCap, Panels)
  BY <1>1, <1>3, OneMaster, CapAssumption DEF DealProblem
<1>7. /\ Fits(order, eligible, SampleCap, Panels, Budgets)
      /\ \A p \in Range(order), q \in Panels : Budgets[p] < eligible[p] =>
           Total(Budgets) = SampleCap /\ Budgets[q] <= Budgets[p] + 1
  BY <1>5, <1>6, DealFair
<1>8. /\ Budgets \in [Panels -> Nat]
      /\ Total(Budgets) <= SampleCap
      /\ \A p \in Panels : Budgets[p] <= eligible[p]
      /\ \A p \in Panels : p \notin Range(order) => Budgets[p] = 0
  BY <1>7 DEF Fits, Family
<1>9. \A p \in Panels : Budgets[p] <= (IF Supported(p) THEN Eligible(p) ELSE 0)
  BY <1>2, <1>4, <1>8
<1>10. \A p, q \in Panels : Supported(p) /\ Budgets[p] < Eligible(p) =>
         Total(Budgets) = SampleCap /\ Budgets[q] <= Budgets[p] + 1
  BY <1>2, <1>4, <1>7
<1> QED BY <1>8, <1>9, <1>10

\* The shares are those of the evidence that is there, and what a panel has still to
\* sample is part of a selection of that size.
BudgetKept ==
  phase # "collect" =>
    /\ budget = Budgets
    /\ \A p \in Panels : \E S \in Selections(p, budget[p]) : samples[p] \subseteq S

\* Budgets are dealt once; the samples only become fewer.
LEMMA BudgetSteps ==
  ASSUME [Next]_vars, TypeInv
  PROVE  \/ Reconcile
         \/ /\ phase' = "collect" <=> phase = "collect"
            /\ budget' = budget
            /\ \A p \in Panels : samples'[p] \subseteq samples[p]
            /\ phase # "collect" => got' = got
<1> DEFINE Quiet == /\ phase' = "collect" <=> phase = "collect"
                    /\ budget' = budget
                    /\ \A p \in Panels : samples'[p] \subseteq samples[p]
                    /\ phase # "collect" => got' = got
<1>1. CASE UNCHANGED vars
  BY <1>1 DEF vars
<1>2. ASSUME NEW p \in Panels, CollectPanel(p) PROVE Quiet
  BY <1>2 DEF CollectPanel, Read, ReadStatus, NullStatus, StatusInterrupted, FinishPanel, EndStatus,
              AtStatus, Running, workVars
<1>3. ASSUME NEW p \in Panels, SampleLinks(p) PROVE Quiet
  <2>1. PICK x \in samples[p] : samples' = [samples EXCEPT ![p] = @ \ {x}]
    BY <1>3 DEF SampleLinks
  <2> QED BY <1>3, <2>1 DEF SampleLinks
<1>4. ASSUME NEW p \in Panels,
             CheckExternal(p) \/ FinishSubscriptions(p) \/ SampleTraffic(p) \/ Acquire(p) \/ Leave(p)
      PROVE  Quiet
  BY <1>4 DEF CheckExternal, FinishSubscriptions, SampleTraffic, Acquire, Leave, workVars
<1>5. CASE FinishSubscribe \/ Tick \/ Interrupt \/ FinishSample \/ Cancel \/ Finished
  BY <1>5 DEF FinishSubscribe, Tick, Interrupt, FinishSample, Cancel, Finished, vars, workVars
<1> QED
  BY <1>1, <1>2, <1>3, <1>4, <1>5 DEF Next, Goroutine, CollectSubscriptions, Main

LEMMA BudgetKeptNext ==
  TypeInv /\ BudgetKept /\ [Next]_vars => BudgetKept'
<1> SUFFICES ASSUME TypeInv, BudgetKept, [Next]_vars, phase' # "collect"
             PROVE  /\ budget' = Budgets'
                    /\ \A p \in Panels : \E S \in Selections(p, budget[p])' : samples'[p] \subseteq S
  BY DEF BudgetKept
<1>1. CASE Reconcile
  <2>1. got' = got /\ world' = world
    BY <1>1 DEF Reconcile
  <2>5. budget' = Budgets
    BY <1>1 DEF Reconcile
  <2>2. \A p \in Panels : samples'[p] \in Selections(p, budget'[p])
    BY <1>1 DEF Reconcile
  <2>3. Budgets' = Budgets
    BY <2>1 DEF Budgets, Eligible, EligibleCandidates, Candidates, Subscribers, Listed, Answers, Job,
                Supported, Version
  <2>4. ASSUME NEW p \in Panels PROVE Selections(p, budget[p])' = Selections(p, budget'[p])
    <3>1. EligibleCandidates(p)' = EligibleCandidates(p)
      BY <2>1 DEF EligibleCandidates, Candidates, Subscribers, Listed, Answers, Job
    <3> QED BY <3>1 DEF Selections
  <2> QED BY <2>2, <2>3, <2>4, <2>5
<1>2. CASE /\ phase' = "collect" <=> phase = "collect"
           /\ budget' = budget
           /\ \A p \in Panels : samples'[p] \subseteq samples[p]
           /\ phase # "collect" => got' = got
  <2>1. got' = got /\ world' = world /\ phase # "collect" /\ budget' = budget
    BY <1>2, ReadingSteps
  <2>2. Budgets' = Budgets /\ \A p \in Panels : Selections(p, budget[p])' = Selections(p, budget[p])
    BY <2>1 DEF Budgets, Eligible, EligibleCandidates, Candidates, Subscribers, Listed, Answers, Job,
                Supported, Version, Selections
  <2>3. ASSUME NEW p \in Panels PROVE \E S \in Selections(p, budget[p])' : samples'[p] \subseteq S
    <3>1. PICK S \in Selections(p, budget[p]) : samples[p] \subseteq S
      BY <2>1 DEF BudgetKept
    <3>2. samples'[p] \subseteq S
      BY <1>2, <3>1
    <3>3. S \in Selections(p, budget[p])'
      BY <2>2, <3>1
    <3> QED BY <3>2, <3>3
  <2> QED BY <2>1, <2>2, <2>3 DEF BudgetKept
<1> QED BY <1>1, <1>2, BudgetSteps

LEMMA BudgetFairInvariant == TypeInv /\ BudgetKept => BudgetFair
<1> SUFFICES ASSUME TypeInv, BudgetKept, phase # "collect"
             PROVE  /\ Total(budget) <= SampleCap
                    /\ \A p \in Panels : Cardinality(samples[p]) <= budget[p]
                    /\ \A p \in Panels : budget[p] <= (IF Supported(p) THEN Eligible(p) ELSE 0)
                    /\ \A p, q \in Panels : Supported(p) /\ budget[p] < Eligible(p) =>
                         Total(budget) = SampleCap /\ budget[q] <= budget[p] + 1
  BY DEF BudgetFair
<1>1. budget = Budgets /\ world \in DOMAIN Worlds
  BY DEF BudgetKept, TypeInv, DataTyped
<1>2. ASSUME NEW p \in Panels PROVE Cardinality(samples[p]) <= budget[p]
  <2>1. PICK S \in Selections(p, budget[p]) : samples[p] \subseteq S
    BY DEF BudgetKept
  <2> DEFINE ranks == {Rank(x) : x \in EligibleCandidates(p)}
  <2>2. S \subseteq EligibleCandidates(p) /\ Cardinality(S) = Smaller(budget[p], Cardinality(ranks))
    BY DEF Selections
  <2> HIDE DEF ranks
  <2>3. IsFiniteSet(S) /\ Cardinality(S) \in Nat
    BY <1>1, <2>2, EligibleFinite, FS_Subset, FS_CardinalityType
  <2>4. Cardinality(samples[p]) <= Cardinality(S) /\ Cardinality(samples[p]) \in Nat
    BY <2>1, <2>3, FS_Subset, FS_CardinalityType
  <2>5. budget[p] \in Nat
    BY <1>1, BudgetsFair
  <2>6. Cardinality(S) <= budget[p]
    BY <2>2, <2>3, <2>5 DEF Smaller
  <2> QED BY <2>3, <2>4, <2>5, <2>6
<1> QED BY <1>1, <1>2, BudgetsFair

\* Whatever was read and whatever failed, the subscription budget is dealt fairly: the
\* cap of the configuration holds over all panels, no panel has more than it can
\* use, and none that could use more is two behind another.
THEOREM BudgetIsFair == Spec => []BudgetFair
<1>1. TypeInv /\ Init => BudgetKept
  BY DEF Init, BudgetKept
<1> QED
  BY <1>1, BudgetKeptNext, BudgetFairInvariant, TypeInvInit, TypeInvNext, PTL DEF Spec

-----------------------------------------------------------------------------
(* The evidence: what was not read is said, and READY rests on complete    *)
(* evidence.                                                               *)

\* A non-plain API-001 observation of p names this read.
Recorded(p, read) ==
  \E o \in obs[p] : o.rule = "API-001" /\ o.subject = <<p, read>> /\ o.sev # "plain"

\* The observation of a failed read names it and is never a mere warning.
LEMMA FailureRecorded ==
  ASSUME NEW p, NEW read, NEW outcome
  PROVE  /\ ReadFailure(p, read, outcome).rule = "API-001"
         /\ ReadFailure(p, read, outcome).subject = <<p, read>>
         /\ ReadFailure(p, read, outcome).sev # "plain"
BY DEF ReadFailure, Obs

\* What has been recorded of a read stays recorded.
LEMMA RecordedKept ==
  ASSUME TypeInv, [Next]_vars, NEW p \in Panels, NEW read, Recorded(p, read)
  PROVE  Recorded(p, read)'
BY ObservationsKept DEF TypeInv, DataTyped, Recorded

\* Whether a panel is supported changes only when its update information is read.
LEMMA SupportedKept ==
  ASSUME world' = world, NEW p, "update" \in got'[p] <=> "update" \in got[p]
  PROVE  Supported(p)' = Supported(p)
BY DEF Supported, Version, Answers, Job

\* A step that moves one panel past one read keeps NoSilentGap if that read is
\* now among those whose value was kept, or is recorded.
LEMMA OneReadFurther ==
  ASSUME TypeInv, NoSilentGap, [Next]_vars,
         NEW p \in Panels, NEW now, now = next[p],
         \A q \in Panels \ {p} : next'[q] = next[q] /\ got'[q] = got[q],
         got[p] \subseteq got'[p],
         ReadsBefore(p)' \subseteq ReadsBefore(p) \cup {now},
         now \in got'[p] \/ Recorded(p, now)'
  PROVE  NoSilentGap'
<1>1. ASSUME NEW q \in Panels, NEW read \in ReadsBefore(q)' \ got'[q] PROVE Recorded(q, read)'
  <2>1. CASE q = p
    <3>1. CASE read = now
      BY <1>1, <2>1, <3>1
    <3>2. CASE read # now
      <4>1. read \in ReadsBefore(p) \ got[p]
        BY <1>1, <2>1, <3>2
      <4>2. Recorded(p, read)
        BY <4>1 DEF NoSilentGap, Recorded
      <4> QED BY <2>1, <4>2, RecordedKept
    <3> QED BY <3>1, <3>2
  <2>2. CASE q # p
    <3>1. next'[q] = next[q] /\ got'[q] = got[q]
      BY <2>2
    <3>2. ReadsBefore(q)' = ReadsBefore(q)
      BY <3>1, ReadingSteps, SupportedKept DEF ReadsBefore, ReadsOf
    <3>3. Recorded(q, read)
      BY <1>1, <3>1, <3>2 DEF NoSilentGap, Recorded
    <3> QED BY <3>3, RecordedKept
  <2> QED BY <2>1, <2>2
<1> QED BY <1>1 DEF NoSilentGap, Recorded

\* Every step preserves NoSilentGap.
LEMMA NoSilentGapNext == TypeInv /\ NoSilentGap /\ [Next]_vars => NoSilentGap'
<1> SUFFICES ASSUME TypeInv, NoSilentGap, [Next]_vars PROVE NoSilentGap'
  OBVIOUS
<1> USE DEF TypeInv, DataTyped
<1>1. CASE UNCHANGED <<next, got>>
  <2>1. ASSUME NEW q \in Panels, NEW read \in ReadsBefore(q)' \ got'[q] PROVE Recorded(q, read)'
    <3>1. ReadsBefore(q)' = ReadsBefore(q)
      BY <1>1, ReadingSteps, SupportedKept DEF ReadsBefore, ReadsOf
    <3>2. Recorded(q, read)
      BY <1>1, <2>1, <3>1 DEF NoSilentGap, Recorded
    <3> QED BY <3>2, RecordedKept
  <2> QED BY <2>1 DEF NoSilentGap, Recorded
<1>2. ASSUME NEW p \in Panels, Read(p) PROVE NoSilentGap'
  <2>1. PICK outcome \in Outcomes(next[p]) :
          /\ got' = IF outcome = "ok" THEN [got EXCEPT ![p] = @ \cup {next[p]}] ELSE got
          /\ obs' = IF outcome = "ok" THEN obs
                    ELSE [obs EXCEPT ![p] = @ \cup {ReadFailure(p, next[p], outcome)}]
    BY <1>2 DEF Read
  <2>2. next[p] \in Reads \ {"status"} /\ next' = [next EXCEPT ![p] = After(p, @)]
    BY <1>2 DEF Read
  <2> DEFINE now == next[p]
  <2>3. ASSUME NEW read, read = now PROVE read \in got'[p] \/ Recorded(p, read)'
    BY <2>1, <2>3, FailureRecorded DEF Recorded
  <2>4. /\ \A q \in Panels \ {p} : next'[q] = next[q] /\ got'[q] = got[q]
        /\ got[p] \subseteq got'[p]
    BY <2>1, <2>2
  <2>5. ReadsBefore(p)' \subseteq ReadsBefore(p) \cup {next[p]}
    BY <2>2 DEF ReadsBefore, ReadsOf, After, Reads
  <2>6. PICK read \in Reads : read = now
    BY <2>2
  <2> HIDE DEF TypeInv, DataTyped, now
  <2> QED BY <2>3, <2>4, <2>5, <2>6, OneReadFurther DEF now
\* collectStatus ends with the value, or leaves an observation of the failure.
<1>3. ASSUME NEW p \in Panels, NEW seen, EndStatus(p, seen), AtStatus(p),
             \/ got' = [got EXCEPT ![p] = @ \cup {"status"}]
             \/ /\ got' = got
                /\ \E o \in seen : o.rule = "API-001" /\ o.subject = <<p, "status">> /\ o.sev # "plain"
      PROVE  NoSilentGap'
  <2>1. next[p] = "status" /\ next' = [next EXCEPT ![p] = Gate(p)]
        /\ obs' = [obs EXCEPT ![p] = @ \cup seen \cup MissingOperations(p)]
    BY <1>3 DEF EndStatus, AtStatus
  <2>2. "status" \in got'[p] \/ Recorded(p, "status")'
    BY <1>3, <2>1 DEF Recorded
  <2>3. /\ \A q \in Panels \ {p} : next'[q] = next[q] /\ got'[q] = got[q]
        /\ got[p] \subseteq got'[p]
        /\ "update" \in got'[p] <=> "update" \in got[p]
    BY <1>3, <2>1
  <2>4. ReadsBefore(p)' \subseteq ReadsBefore(p) \cup {"status"}
    <3>1. Supported(p)' = Supported(p)
      BY <2>3, ReadingSteps, SupportedKept
    <3> QED BY <2>1, <3>1 DEF ReadsBefore, Gate
  <2> HIDE DEF TypeInv, DataTyped
  <2> QED BY <2>1, <2>2, <2>3, <2>4, OneReadFurther
<1>4. ASSUME NEW p \in Panels, ReadStatus(p) PROVE NoSilentGap'
  <2>1. PICK outcome \in Outcomes("status") :
          /\ got' = IF outcome = "ok" THEN [got EXCEPT ![p] = @ \cup {"status"}] ELSE got
          /\ EndStatus(p, When(outcome # "ok", {ReadFailure(p, "status", outcome)}))
    BY <1>4 DEF ReadStatus
  <2>2. outcome # "ok" =>
          \E o \in When(outcome # "ok", {ReadFailure(p, "status", outcome)}) :
            o.rule = "API-001" /\ o.subject = <<p, "status">> /\ o.sev # "plain"
    BY FailureRecorded DEF When
  <2>3. AtStatus(p)
    BY <1>4 DEF ReadStatus
  <2>4. \/ got' = [got EXCEPT ![p] = @ \cup {"status"}]
        \/ got' = got /\ outcome # "ok"
    BY <2>1
  <2> QED BY <1>3, <2>1, <2>2, <2>3, <2>4
<1>5. ASSUME NEW p \in Panels, NullStatus(p) \/ StatusInterrupted(p) PROVE NoSilentGap'
  <2>1. CASE UNCHANGED <<next, got>>
    BY <2>1, <1>1
  <2>2. CASE EndStatus(p, {StatusUnavailable(p)}) /\ got' = got
    <3>1. \E o \in {StatusUnavailable(p)} :
            o.rule = "API-001" /\ o.subject = <<p, "status">> /\ o.sev # "plain"
      BY DEF StatusUnavailable, Obs
    <3>2. AtStatus(p)
      BY <1>5 DEF NullStatus, StatusInterrupted
    <3> QED BY <1>3, <2>2, <3>1, <3>2
  <2> QED BY <1>5, <2>1, <2>2 DEF NullStatus, StatusInterrupted
<1> QED
  BY <1>1, <1>2, <1>4, <1>5, ReadingSteps

\* Whatever makes a read fail, on whichever panel and in whatever order: a
\* panel past that read without its value has an observation that says so.
THEOREM MissingEvidenceIsSaid == Spec => []NoSilentGap
<1>1. Init => NoSilentGap
  BY DEF Init, NoSilentGap, ReadsBefore
<1> QED
  BY <1>1, NoSilentGapNext, TypeInvInit, TypeInvNext, PTL DEF Spec

-----------------------------------------------------------------------------
(* Complete evidence *)

\* A panel that is done with collectPanel has come to its end, and only the
\* master is asked for its nodes.
ReadingPlaced ==
  /\ \A p \in Panels : phase # "collect" \/ pc[p] \in {"idle", "leaving"} => next[p] = "end"
  /\ \A p \in Panels : got[p] \subseteq ReadsOf(p)
  /\ \A p \in Panels : next[p] = "nodes" => p = Master

\* The rule pack will not pass this panel.
Said(p) == \E o \in obs[p] : o.sev # "plain"

\* A traffic sample of this panel is missing, and that was said.
Short(p) == TrafficLost(p) \in obs[p]

\* No traffic sample is missing silently: a supported panel of which none is said to
\* has one for every tick, but for the one it is still waiting for.
SamplesAccounted ==
  /\ phase \in {"wait", "sample"} => Job.observe
  /\ phase = "done" => tick = (IF Job.observe THEN TrafficSamples ELSE 0)
  /\ \A p \in Panels : Supported(p) /\ ~Short(p) =>
       traffic[p] = IF phase = "sample" /\ pc[p] \in {"queued", "running"} THEN tick - 1 ELSE tick

-----------------------------------------------------------------------------
\* In the phase of the reads a goroutine leaves only through FinishPanel, and
\* the reads move only the panel whose goroutine is running.
LEMMA CollectSteps ==
  ASSUME [Next]_vars, pc \in [Panels -> GoroutineStates]
  PROVE  /\ \A p \in Panels : phase = "collect" /\ phase' = "collect"
                                /\ pc[p] \in {"queued", "running"} /\ pc'[p] \in {"idle", "leaving"}
                              => next[p] = "end"
         /\ \A p \in Panels : Read(p) \/ ReadStatus(p) \/ NullStatus(p) \/ StatusInterrupted(p) =>
              pc[p] = "running" /\ phase = "collect" /\ UNCHANGED <<pc, phase>>
<1>1. ASSUME NEW p \in Panels, Read(p) \/ ReadStatus(p) \/ NullStatus(p) \/ StatusInterrupted(p)
      PROVE  pc[p] = "running" /\ phase = "collect" /\ UNCHANGED <<pc, phase>>
  BY <1>1 DEF Read, ReadStatus, NullStatus, StatusInterrupted, EndStatus, AtStatus, Running
<1>2. ASSUME NEW p \in Panels, phase = "collect", phase' = "collect",
             pc[p] \in {"queued", "running"}, pc'[p] \in {"idle", "leaving"}
      PROVE  next[p] = "end"
  <2>1. CASE UNCHANGED pc
    BY <1>2, <2>1
  <2>2. ASSUME NEW q \in Panels, Acquire(q) \/ Leave(q) PROVE FALSE
    BY <1>2, <2>2 DEF Acquire, Leave
  <2>3. ASSUME NEW q \in Panels, FinishPanel(q) PROVE next[p] = "end"
    BY <1>2, <2>3 DEF FinishPanel, Return
  <2>4. ASSUME NEW q \in Panels, CollectSubscriptions(q) \/ SampleTraffic(q) PROVE FALSE
    BY <1>2, <2>4 DEF CollectSubscriptions, SampleLinks, CheckExternal, FinishSubscriptions,
                      SampleTraffic, Running
  <2>5. CASE Main
    BY <1>2, <2>5 DEF Main, Reconcile, FinishSubscribe, Tick, Interrupt, FinishSample
  <2>6. CASE Cancel \/ Finished \/ UNCHANGED vars
    BY <2>1, <2>6 DEF Cancel, Finished, vars
  <2> QED
    BY <1>1, <2>1, <2>2, <2>3, <2>4, <2>5, <2>6 DEF Next, Goroutine, CollectPanel
<1> QED BY <1>1, <1>2

\* Every step preserves ReadingPlaced.
LEMMA ReadingPlacedNext ==
  ASSUME TypeInv, ReadingPlaced, [Next]_vars
  PROVE  ReadingPlaced'
<1> USE DEF TypeInv, DataTyped, Accounting
<1>1. CASE UNCHANGED <<next, got>>
  <2>1. ASSUME NEW p \in Panels, phase' # "collect" \/ pc'[p] \in {"idle", "leaving"}
        PROVE  next[p] = "end"
    <3>1. CASE phase # "collect" \/ pc[p] \in {"idle", "leaving"}
      BY <3>1 DEF ReadingPlaced
    <3>2. CASE phase = "collect" /\ pc[p] \in {"queued", "running"}
      <4>1. phase' = "collect"
        BY <3>2, PhaseStep, NobodyActive DEF AllDone
      <4> QED BY <2>1, <3>2, <4>1, CollectSteps
    <3> QED BY <3>1, <3>2 DEF GoroutineStates
  <2> QED BY <1>1, <2>1 DEF ReadingPlaced, ReadsOf
<1>2. ASSUME NEW p \in Panels, Read(p) \/ ReadStatus(p) \/ NullStatus(p) \/ StatusInterrupted(p)
      PROVE  ReadingPlaced'
  <2>1. pc[p] = "running" /\ phase = "collect" /\ UNCHANGED <<pc, phase>>
    BY <1>2, CollectSteps
  <2>2. /\ \A q \in Panels \ {p} : next'[q] = next[q] /\ got'[q] = got[q]
        /\ got'[p] \subseteq got[p] \cup {next[p]}
        /\ next[p] # "end"
        /\ next'[p] = "nodes" => p = Master \/ next'[p] = next[p]
    <3>1. CASE Read(p)
      <4>1. next[p] \in Reads /\ next' = [next EXCEPT ![p] = After(p, next[p])]
        BY <3>1 DEF Read
      <4>2. got' = got \/ got' = [got EXCEPT ![p] = @ \cup {next[p]}]
        BY <3>1 DEF Read
      <4>3. After(p, next[p]) = "nodes" => p = Master
        BY <4>1 DEF After, Reads
      <4> QED BY <4>1, <4>2, <4>3 DEF Reads
    <3>2. CASE ReadStatus(p) \/ NullStatus(p) \/ StatusInterrupted(p)
      <4>1. next[p] = "status"
        BY <3>2 DEF ReadStatus, NullStatus, StatusInterrupted, AtStatus
      <4>2. next' = next \/ next' = [next EXCEPT ![p] = Gate(p)]
        BY <3>2 DEF ReadStatus, NullStatus, StatusInterrupted, EndStatus
      <4>3. got' = got \/ got' = [got EXCEPT ![p] = @ \cup {"status"}]
        BY <3>2 DEF ReadStatus, NullStatus, StatusInterrupted
      <4> QED BY <4>1, <4>2, <4>3 DEF Gate
    <3> QED BY <1>2, <3>1, <3>2
  <2>3. next[p] \in ReadsOf(p)
    BY <2>2 DEF ReadingPlaced, ReadsOf
  <2> QED BY <2>1, <2>2, <2>3 DEF ReadingPlaced, ReadsOf
<1> QED BY <1>1, <1>2, ReadingSteps

-----------------------------------------------------------------------------
\* What can happen once the subscriptions are behind.
LEMMA SamplingSteps ==
  ASSUME [Next]_vars, pc \in [Panels -> GoroutineStates],
         phase \in {"wait", "sample", "done", "interrupted"}
  PROVE  /\ UNCHANGED <<world, got>>
         /\ \/ Tick
            \/ \E p \in Panels : SampleTraffic(p)
            \/ /\ UNCHANGED <<phase, tick, traffic>>
               /\ \A p \in Panels : pc'[p] \in {"queued", "running"} <=> pc[p] \in {"queued", "running"}
            \/ Interrupt \/ FinishSample
<1>1. CASE UNCHANGED vars \/ Cancel \/ Finished
  BY <1>1 DEF Cancel, Finished, vars, workVars
<1>2. ASSUME NEW p \in Panels, Goroutine(p)
      PROVE  /\ UNCHANGED <<world, got>>
             /\ SampleTraffic(p) \/ Acquire(p) \/ Leave(p)
  <2>1. ~CollectPanel(p) /\ ~CollectSubscriptions(p)
    BY DEF CollectPanel, Read, ReadStatus, NullStatus, StatusInterrupted, FinishPanel, AtStatus,
           CollectSubscriptions, SampleLinks, CheckExternal, FinishSubscriptions, Running
  <2> QED BY <1>2, <2>1 DEF Goroutine, SampleTraffic, Acquire, Leave, workVars
<1>3. ASSUME NEW p \in Panels, Acquire(p) \/ Leave(p)
      PROVE  /\ UNCHANGED <<phase, tick, traffic>>
             /\ \A q \in Panels : pc'[q] \in {"queued", "running"} <=> pc[q] \in {"queued", "running"}
  BY <1>3 DEF Acquire, Leave, workVars
<1>4. CASE Main
  BY <1>4 DEF Main, Reconcile, FinishSubscribe, Tick, Interrupt, FinishSample, workVars
<1> QED BY <1>1, <1>2, <1>3, <1>4 DEF Next

\* That a traffic sample is missing stays said.
LEMMA ShortKept ==
  ASSUME TypeInv, [Next]_vars, NEW p \in Panels, Short(p)
  PROVE  Short(p)'
BY ObservationsKept DEF TypeInv, DataTyped, Short, TrafficLost

\* Every step preserves SamplesAccounted.
LEMMA SamplesAccountedNext ==
  ASSUME TypeInv, SamplesAccounted, [Next]_vars
  PROVE  SamplesAccounted'
<1> DEFINE Waiting(p) == phase = "sample" /\ pc[p] \in {"queued", "running"}
<1> USE DEF TypeInv, DataTyped, Accounting
<1>0. TypeInv'
  BY TypeInvNext
<1>1. CASE phase' \in {"collect", "subscribe"}
  <2>1. tick' = 0 /\ \A p \in Panels : traffic'[p] \in Nat /\ traffic'[p] <= tick'
    BY <1>0, <1>1 DEF SamplesCounted
  <2> QED BY <1>1, <2>1 DEF SamplesAccounted
<1>2. CASE phase \in {"collect", "subscribe"} /\ phase' \notin {"collect", "subscribe"}
  <2>1. FinishSubscribe
    <3>1. ASSUME NEW p \in Panels, Goroutine(p) PROVE phase' = phase
      BY <3>1 DEF Goroutine, Acquire, Leave, CollectPanel, Read, ReadStatus, NullStatus,
                  StatusInterrupted, FinishPanel, EndStatus, CollectSubscriptions, SampleLinks,
                  CheckExternal, FinishSubscriptions, SampleTraffic
    <3> QED BY <1>2, <3>1 DEF Next, Main, Reconcile, Tick, Interrupt, FinishSample, Cancel, Finished, vars
  <2>2. /\ phase' = IF Job.observe THEN "wait" ELSE "done"
        /\ tick' = 0 /\ traffic' = traffic /\ Job' = Job
    BY <1>2, <2>1 DEF FinishSubscribe, SamplesCounted, workVars, Job
  <2>3. \A p \in Panels : traffic'[p] \in Nat /\ traffic'[p] <= tick'
    BY <1>0 DEF SamplesCounted
  <2> QED BY <2>2, <2>3 DEF SamplesAccounted
<1>3. CASE phase \in {"wait", "sample", "done", "interrupted"}
  <2>1. UNCHANGED <<world, got>> /\ Job' = Job
    BY <1>3, SamplingSteps DEF Job
  <2>2. ASSUME NEW p \in Panels, Supported(p)', ~Short(p)'
        PROVE  traffic[p] = IF Waiting(p) THEN tick - 1 ELSE tick
    <3>1. Supported(p) /\ ~Short(p)
      BY <2>1, <2>2, SupportedKept, ShortKept
    <3> QED BY <3>1 DEF SamplesAccounted
  <2>3. CASE Tick
    <3>1. /\ phase = "wait" /\ phase' = "sample" /\ tick' = tick + 1 /\ traffic' = traffic
          /\ pc' = [p \in Panels |-> IF p \in {q \in Panels : Supported(q)} THEN "queued" ELSE "idle"]
      BY <2>3 DEF Tick, Spawn, workVars
    <3>2. \A p \in Panels : Supported(p)' => pc'[p] = "queued"
      BY <2>1, <3>1, SupportedKept
    <3> QED BY <2>1, <2>2, <3>1, <3>2 DEF SamplesAccounted
  <2>4. ASSUME NEW q \in Panels, SampleTraffic(q) PROVE SamplesAccounted'
    <3>1. /\ phase = "sample" /\ phase' = "sample" /\ tick' = tick
          /\ pc[q] = "running" /\ pc' = [pc EXCEPT ![q] = "leaving"]
          /\ \/ traffic' = [traffic EXCEPT ![q] = @ + 1]
             \/ traffic' = traffic /\ TrafficLost(q) \in obs'[q]
      BY <2>4 DEF SampleTraffic, Return, Running
    <3>2. TrafficLost(q) \in obs'[q] => Short(q)'
      BY DEF TrafficLost, Short
    <3>3. ASSUME NEW p \in Panels, Supported(p)', ~Short(p)'
          PROVE  traffic'[p] = IF pc'[p] \in {"queued", "running"} THEN tick - 1 ELSE tick
      <4>1. CASE p = q
        <5>1. traffic[q] = tick - 1
          BY <2>2, <3>1, <3>3, <4>1
        <5> QED BY <3>1, <3>2, <3>3, <4>1, <5>1
      <4>2. CASE p # q
        BY <2>2, <3>1, <3>3, <4>2
      <4> QED BY <4>1, <4>2
    <3> QED BY <2>1, <3>1, <3>3 DEF SamplesAccounted
  <2>5. CASE UNCHANGED <<phase, tick, traffic>>
             /\ \A p \in Panels : pc'[p] \in {"queued", "running"} <=> pc[p] \in {"queued", "running"}
    BY <2>1, <2>2, <2>5 DEF SamplesAccounted
  <2>6. CASE Interrupt \/ FinishSample
    <3>1. /\ UNCHANGED <<tick, traffic>>
          /\ phase \in {"wait", "sample"} /\ phase' # "sample"
          /\ phase' = "done" => tick = TrafficSamples
          /\ \A p \in Panels : ~Waiting(p)
      BY <2>6, NobodyActive DEF Interrupt, FinishSample, AllDone, workVars
    <3> QED BY <2>1, <2>2, <3>1 DEF SamplesAccounted
  <2> QED BY <1>3, <2>3, <2>4, <2>5, <2>6, SamplingSteps
<1>4. phase \in Phases /\ phase' \in Phases
  BY <1>0
<1> QED BY <1>1, <1>2, <1>3, <1>4 DEF Phases

-----------------------------------------------------------------------------
LEMMA ReadingPlacedInit == Init => ReadingPlaced
BY DEF Init, ReadingPlaced, ReadsOf

LEMMA SamplesAccountedInit == TypeInv /\ Init => SamplesAccounted
BY DEF Init, SamplesAccounted

-----------------------------------------------------------------------------
\* A READY verdict: no finding of the rule pack is a failure or unknown.
LEMMA ReadyHasNoFinding ==
  ASSUME Verdict = "READY"
  PROVE  \A f \in Result : f.status \notin {"FAIL", "UNKNOWN"}
BY DEF Verdict, Readiness

\* Whatever a rule says is among the findings.
LEMMA EvaluateParts ==
  ASSUME NEW snap, NEW finishedAt
  PROVE  /\ \A p \in DOMAIN snap : \A o \in snap[p].obs :
              FromObservation(o) \in Evaluate(snap, finishedAt)
         /\ EvaluateVersionSupport(snap) \subseteq Evaluate(snap, finishedAt)
         /\ EvaluateSubscriptions(snap) \subseteq Evaluate(snap, finishedAt)
         /\ EvaluateLimits(snap, finishedAt) \subseteq Evaluate(snap, finishedAt)
<1> DEFINE noted == UNION {{FromObservation(o) : o \in snap[p].obs} : p \in DOMAIN snap}
<1>1. ASSUME NEW f, \/ f \in noted
                    \/ f \in EvaluateVersionSupport(snap)
                    \/ f \in EvaluateSubscriptions(snap)
                    \/ f \in EvaluateLimits(snap, finishedAt)
      PROVE  f \in Evaluate(snap, finishedAt)
  BY <1>1 DEF Evaluate
<1>2. \A p \in DOMAIN snap : \A o \in snap[p].obs : FromObservation(o) \in noted
  OBVIOUS
<1> HIDE DEF noted
<1> QED BY <1>1, <1>2

\* The same of the snapshot that Collector hands to the rule pack.
LEMMA ResultParts ==
  /\ \A p \in Panels : \A o \in obs[p] : FromObservation(o) \in Result
  /\ EvaluateVersionSupport(Snapshot) \subseteq Result
  /\ EvaluateSubscriptions(Snapshot) \subseteq Result
  /\ EvaluateLimits(Snapshot, Job.finishedAt) \subseteq Result
<1>1. DOMAIN Snapshot = Panels /\ \A p \in Panels : Snapshot[p].obs = obs[p]
  BY DEF Snapshot
<1> QED BY <1>1, EvaluateParts DEF Result

\* READY is not said of a panel of an unsupported version.
LEMMA ReadySupported ==
  ASSUME Verdict = "READY", NEW p \in Panels
  PROVE  Supported(p)
<1>1. DOMAIN Snapshot = Panels /\ Snapshot[p].version = Version(p)
  BY DEF Snapshot
<1>2. CASE ~Supported(p)
  <2>1. Finding("API-003", "UNKNOWN", p) \in EvaluateVersionSupport(Snapshot)
    BY <1>1, <1>2 DEF EvaluateVersionSupport, Supported, SupportedVersions
  <2> QED BY <2>1, ReadyHasNoFinding, ResultParts DEF Finding
<1> QED BY <1>2

\* READY is not said while an observation blocks or is inconclusive.
LEMMA ReadyNothingSaid ==
  ASSUME TypeInv, Verdict = "READY", NEW p \in Panels
  PROVE  ~Said(p)
<1>1. ASSUME NEW o \in obs[p], o.sev # "plain" PROVE FALSE
  <2>1. o.sev \in {"blocking", "inconclusive"}
    BY <1>1 DEF TypeInv, DataTyped, Severities
  <2>2. FromObservation(o) \in Result
    BY ResultParts
  <2>3. FromObservation(o).status \in {"FAIL", "UNKNOWN"}
    BY <2>1 DEF FromObservation, Finding, StatusOf
  <2> QED BY <2>2, <2>3, ReadyHasNoFinding
<1> QED BY <1>1 DEF Said

\* READY is not said while a selected subscription could not be parsed.
LEMMA ReadySubscriptionsParsed ==
  ASSUME Verdict = "READY", NEW p \in Panels, NEW s \in subs[p]
  PROVE  s.code = ""
<1>1. DOMAIN Snapshot = Panels /\ Snapshot[p].subs = subs[p]
  BY DEF Snapshot
<1>2. s \in UNION {Snapshot[q].subs : q \in DOMAIN Snapshot}
  BY <1>1
<1>3. SubscriptionFindings(s) \subseteq Result
  <2> HIDE DEF Snapshot
  <2>1. SubscriptionFindings(s) \subseteq EvaluateSubscriptions(Snapshot)
    BY <1>2 DEF EvaluateSubscriptions
  <2> QED BY <2>1, ResultParts
<1>4. CASE s.code # ""
  <2>1. \E f \in SubscriptionFindings(s) : f.status \in {"FAIL", "UNKNOWN"}
    BY <1>4 DEF SubscriptionFindings, Finding
  <2> QED BY <1>3, <2>1, ReadyHasNoFinding
<1> QED BY <1>4

\* A traffic series has no more entries than samples were received.
LEMMA SeriesLength ==
  ASSUME NEW p \in Panels, traffic[p] = 0, NEW id \in DOMAIN TrafficSeries(p)
  PROVE  Len(TrafficSeries(p)[id]) \in {0, 1}
<1> DEFINE length == (IF "clients" \in got[p] THEN 1 ELSE 0) + traffic[p]
           clients == IF length = 0 THEN {} ELSE Answers(p).clients
           client(i) == CHOOSE c \in clients : c.id = i
           series == [i \in 1..length |-> [used |-> client(id).used, enabled |-> client(id).enabled]]
           Entry == {[used |-> client(id).used, enabled |-> client(id).enabled]}
<1>1. TrafficSeries(p)[id] = series
  BY DEF TrafficSeries
<1>2. length \in {0, 1}
  OBVIOUS
<1>3. series \in Seq(Entry) /\ DOMAIN series = 1..length
  <2>1. series \in [1..length -> Entry]
    OBVIOUS
  <2>2. length \in Nat
    BY <1>2
  <2> HIDE DEF series, Entry, length
  <2> QED BY <2>1, <2>2
<1>4. Len(series) \in Nat /\ 1..Len(series) = 1..length
  <2> HIDE DEF series, Entry, length
  <2> QED BY <1>3, LenProperties
<1> HIDE DEF series, length
<1>5. PICK n \in Nat : Len(series) = n /\ 1..n = 1..length
  BY <1>4, Zenon
<1>6. n \in {0, 1}
  <2>1. CASE n >= 2
    <3>1. 2 \in 1..n
      BY <2>1
    <3>2. 2 \in 1..length
      BY <1>5, <3>1, Zenon
    <3> QED BY <1>2, <3>2
  <2> QED BY <2>1
<1> QED BY <1>1, <1>5, <1>6, Zenon

\* READY is not said of a run that took no later traffic sample.
LEMMA ReadySampled ==
  ASSUME Verdict = "READY", Panels # {}
  PROVE  \E p \in Panels : traffic[p] # 0
<1>1. ASSUME \A p \in Panels : traffic[p] = 0 PROVE FALSE
  <2>1. DOMAIN Snapshot = Panels /\ \A p \in Panels : Snapshot[p].traffic = TrafficSeries(p)
    BY DEF Snapshot
  <2>2. \A p \in Panels : \A c \in Snapshot[p].clients :
          ~(c.id \in DOMAIN Snapshot[p].traffic /\ Len(Snapshot[p].traffic[c.id]) >= 3)
    <3>1. ASSUME NEW p \in Panels, NEW id \in DOMAIN Snapshot[p].traffic
          PROVE  ~(Len(Snapshot[p].traffic[id]) >= 3)
      <4>1. Snapshot[p].traffic = TrafficSeries(p) /\ traffic[p] = 0
        BY <1>1, <2>1
      <4>2. id \in DOMAIN TrafficSeries(p)
        BY <4>1
      <4>3. Len(TrafficSeries(p)[id]) \in {0, 1}
        BY <4>1, <4>2, SeriesLength
      <4>4. \E n \in {0, 1} : Len(Snapshot[p].traffic[id]) = n
        BY <4>1, <4>3, Zenon
      <4> QED BY <4>4
    <3> HIDE DEF Snapshot
    <3> QED BY <3>1
  <2> HIDE DEF Snapshot
  <2>3. Finding("LIMIT-001", "UNKNOWN", "") \in EvaluateLimits(Snapshot, Job.finishedAt)
    BY <2>1, <2>2 DEF EvaluateLimits
  <2> QED BY <2>3, ReadyHasNoFinding, ResultParts DEF Finding
<1> QED BY <1>1

\* The invariants suffice: what is missing was said, and what was said is
\* among the findings.
LEMMA ReadyIsBackedInvariant ==
  ASSUME TypeInv, NoSilentGap, ReadingPlaced, SamplesAccounted
  PROVE  ReadyIsBacked
<1> SUFFICES ASSUME phase = "done", Verdict = "READY", NEW p \in Panels
             PROVE  /\ Supported(p) /\ got[p] = ReadsOf(p)
                    /\ traffic[p] = TrafficSamples
                    /\ \A s \in subs[p] : s.code = ""
  BY DEF ReadyIsBacked
<1>1. \A q \in Panels : Supported(q) /\ ~Said(q)
  BY ReadySupported, ReadyNothingSaid
<1>2. got[p] = ReadsOf(p)
  <2>1. next[p] = "end" /\ got[p] \subseteq ReadsOf(p)
    BY DEF ReadingPlaced
  <2>2. ReadsBefore(p) = ReadsOf(p)
    BY <1>1, <2>1 DEF ReadsBefore
  <2>3. ReadsBefore(p) \ got[p] = {}
    BY <1>1 DEF NoSilentGap, Said
  <2> QED BY <2>1, <2>2, <2>3
<1>3. \A q \in Panels : traffic[q] = tick
  <2>1. \A q \in Panels : ~Short(q)
    BY <1>1 DEF Short, Said, TrafficLost, Obs
  <2> QED BY <1>1, <2>1 DEF SamplesAccounted
<1>4. tick # 0
  BY <1>3, ReadySampled
<1>5. traffic[p] = TrafficSamples
  BY <1>3, <1>4 DEF SamplesAccounted
<1> QED BY <1>1, <1>2, <1>5, ReadySubscriptionsParsed

\* READY is backed by evidence (internal/collect, internal/rules), whatever
\* fails, is lost or is cancelled on the way: every read of every panel
\* succeeded, no traffic sample is missing, every subscription was parsed.
THEOREM ReadyIsBackedByEvidence == Spec => []ReadyIsBacked
<1> DEFINE IInv == TypeInv /\ NoSilentGap /\ ReadingPlaced /\ SamplesAccounted
<1>1. Init => IInv
  <2>1. Init => NoSilentGap
    BY DEF Init, NoSilentGap, ReadsBefore
  <2> QED BY <2>1, TypeInvInit, ReadingPlacedInit, SamplesAccountedInit
<1>2. IInv /\ [Next]_vars => IInv'
  BY TypeInvNext, NoSilentGapNext, ReadingPlacedNext, SamplesAccountedNext
<1>3. IInv => ReadyIsBacked
  BY ReadyIsBackedInvariant
<1> HIDE DEF IInv
<1> QED BY <1>1, <1>2, <1>3, PTL DEF Spec

-----------------------------------------------------------------------------
(* The verdict: READY is true of the panels, BLOCKED is said exactly of those it *)
(* should be, for every cluster.                                                *)

\* collectPanel has returned for this panel.
Through(p) == phase # "collect" \/ pc[p] \in {"idle", "leaving"}

\* What the OpenAPI document lacks is said as soon as the status is behind.
OperationsJudged ==
  \A p \in Panels : next[p] \notin {"openapi", "update", "status"} =>
    MissingOperations(p) \subseteq obs[p]

\* The configuration rules have been applied to all that was listed.
ConfigurationJudged ==
  \A p \in Panels : Through(p) /\ Supported(p) =>
    ConfigObservations(Listed(p, "inbounds"), Generated(p)) \subseteq obs[p]

Reconciled == ReconcileTopology(Work, Job.command, Job.target)

\* The topology has been reconciled from what is still known of the panels.
TopologyJudged ==
  phase # "collect" => \A p \in Panels : Reconciled[p] \subseteq obs[p]

Judged == OperationsJudged /\ ConfigurationJudged /\ TopologyJudged

-----------------------------------------------------------------------------
LEMMA JudgedInit == TypeInv /\ Init => Judged
BY DEF Init, Judged, OperationsJudged, ConfigurationJudged, Through, TopologyJudged

\* What is concluded from the reads of a panel changes only with them.
LEMMA ConclusionsKept ==
  ASSUME UNCHANGED <<world, got>>, NEW p \in Panels
  PROVE  /\ MissingOperations(p)' = MissingOperations(p)
         /\ Supported(p)' = Supported(p)
         /\ Listed(p, "inbounds")' = Listed(p, "inbounds")
         /\ Generated(p)' = Generated(p)
         /\ Reconciled' = Reconciled
BY DEF MissingOperations, Supported, Version, Listed, Generated, Answers, Job, Reconciled, Work

\* A panel gets through collectPanel only by FinishPanel.
LEMMA ThroughStep ==
  ASSUME TypeInv, [Next]_vars, NEW p \in Panels, ~Through(p), Through(p)'
  PROVE  FinishPanel(p)
<1> USE DEF TypeInv, DataTyped, Accounting, Through
<1>1. phase' = "collect"
  BY PhaseStep, NobodyActive DEF AllDone
<1>2. phase = "collect" /\ pc[p] \in {"queued", "running"} /\ pc'[p] \in {"idle", "leaving"}
  BY <1>1 DEF GoroutineStates
<1>3. CASE UNCHANGED pc
  BY <1>2, <1>3
<1>4. ASSUME NEW q \in Panels, Acquire(q) \/ Leave(q) PROVE FALSE
  BY <1>2, <1>4 DEF Acquire, Leave
<1>5. ASSUME NEW q \in Panels, FinishPanel(q) PROVE q = p
  BY <1>2, <1>5 DEF FinishPanel, Return
<1>6. ASSUME NEW q \in Panels, CollectSubscriptions(q) \/ SampleTraffic(q) PROVE FALSE
  BY <1>2, <1>6 DEF CollectSubscriptions, SampleLinks, CheckExternal, FinishSubscriptions,
                    SampleTraffic, Running
<1>7. ASSUME NEW q \in Panels, Read(q) \/ ReadStatus(q) \/ NullStatus(q) \/ StatusInterrupted(q)
      PROVE  FALSE
  BY <1>3, <1>7, CollectSteps
<1>8. CASE Main
  BY <1>1, <1>2, <1>8 DEF Main, Reconcile, FinishSubscribe, Tick, Interrupt, FinishSample
<1>9. CASE Cancel \/ Finished \/ UNCHANGED vars
  BY <1>3, <1>9 DEF Cancel, Finished, vars
<1> QED
  BY <1>4, <1>5, <1>6, <1>7, <1>8, <1>9 DEF Next, Goroutine, CollectPanel

\* The main goroutine goes on to the subscriptions by way of Reconcile.
LEMMA ReconcileStep ==
  ASSUME [Next]_vars, phase = "collect", phase' # "collect"
  PROVE  Reconcile
<1>1. ASSUME NEW p \in Panels, Goroutine(p) PROVE phase' = phase
  BY <1>1 DEF Goroutine, Acquire, Leave, CollectPanel, Read, ReadStatus, NullStatus,
              StatusInterrupted, FinishPanel, EndStatus, CollectSubscriptions, SampleLinks,
              CheckExternal, FinishSubscriptions, SampleTraffic
<1> QED
  BY <1>1 DEF Next, Main, FinishSubscribe, Tick, Interrupt, FinishSample, Cancel, Finished, vars

\* A step that reads nothing preserves what was judged, and adds what is due.
LEMMA JudgedQuietly ==
  ASSUME TypeInv, Judged, [Next]_vars, UNCHANGED <<next, got>>
  PROVE  Judged'
<1> USE DEF TypeInv, DataTyped
<1>1. UNCHANGED <<world, got>> /\ \A p \in Panels : obs[p] \subseteq obs'[p]
  BY ReadingSteps, ObservationsKept
<1>2. OperationsJudged'
  BY <1>1, ConclusionsKept DEF Judged, OperationsJudged
<1>3. ConfigurationJudged'
  <2> SUFFICES ASSUME NEW p \in Panels, Through(p)', Supported(p)'
               PROVE  ConfigObservations(Listed(p, "inbounds"), Generated(p))' \subseteq obs'[p]
    BY DEF ConfigurationJudged
  <2>1. Supported(p) /\ ConfigObservations(Listed(p, "inbounds"), Generated(p))'
                          = ConfigObservations(Listed(p, "inbounds"), Generated(p))
    BY <1>1, ConclusionsKept
  <2>2. CASE Through(p)
    BY <1>1, <2>1, <2>2 DEF Judged, ConfigurationJudged
  <2>3. CASE ~Through(p)
    <3>1. FinishPanel(p)
      BY <2>3, ThroughStep
    <3>2. ConfigObservations(Listed(p, "inbounds"), Generated(p)) \subseteq obs'[p]
      BY <2>1, <3>1 DEF FinishPanel, When
    <3> QED BY <2>1, <3>2
  <2> QED BY <2>2, <2>3
<1>4. TopologyJudged'
  <2> SUFFICES ASSUME phase' # "collect", NEW p \in Panels PROVE Reconciled'[p] \subseteq obs'[p]
    BY DEF TopologyJudged
  <2>1. Reconciled' = Reconciled
    BY <1>1, ConclusionsKept
  <2>2. CASE phase # "collect"
    BY <1>1, <2>1, <2>2 DEF Judged, TopologyJudged
  <2>3. CASE phase = "collect"
    <3>1. obs'[p] = obs[p] \cup Reconciled[p]
      BY <2>3, ReconcileStep DEF Reconcile, Reconciled
    <3> QED BY <2>1, <3>1
  <2> QED BY <2>2, <2>3
<1> QED BY <1>2, <1>3, <1>4 DEF Judged

\* What a step of one panel's reads leaves alone, and what it may add.
LEMMA ReadingEffect ==
  ASSUME TypeInv, [Next]_vars,
         NEW p \in Panels, Read(p) \/ ReadStatus(p) \/ NullStatus(p) \/ StatusInterrupted(p)
  PROVE  /\ phase = "collect" /\ pc[p] = "running" /\ UNCHANGED <<pc, phase, world>>
         /\ \A q \in Panels \ {p} : next'[q] = next[q] /\ got'[q] = got[q]
         /\ \/ next'[p] = next[p] /\ got'[p] = got[p]
            \/ next[p] = "openapi" /\ next'[p] = "update"
            \/ next[p] = "update" /\ next'[p] = "status"
            \/ /\ next[p] = "status"
               /\ got'[p] \in {got[p], got[p] \cup {"status"}}
               /\ MissingOperations(p) \subseteq obs'[p]
               /\ next'[p] \notin {"openapi", "update", "status"}
            \/ /\ next[p] \in {"config", "inbounds", "clients", "settings", "nodes"}
               /\ got'[p] \in {got[p], got[p] \cup {next[p]}}
               /\ next'[p] \notin {"openapi", "update", "status"}
<1> USE DEF TypeInv, DataTyped
<1>1. UNCHANGED <<pc, phase, world>> /\ phase = "collect" /\ pc[p] = "running"
  BY CollectSteps, ReadingSteps DEF Accounting
<1>2. CASE Read(p)
  <2>1. next[p] \in Reads \ {"status"} /\ next' = [next EXCEPT ![p] = After(p, next[p])]
    BY <1>2 DEF Read
  <2>2. got' = got \/ got' = [got EXCEPT ![p] = @ \cup {next[p]}]
    BY <1>2 DEF Read
  <2>3. /\ next[p] = "openapi" => After(p, next[p]) = "update"
        /\ next[p] = "update" => After(p, next[p]) = "status"
        /\ next[p] \notin {"openapi", "update"} =>
             After(p, next[p]) \notin {"openapi", "update", "status"}
    BY DEF After
  <2> QED BY <1>1, <2>1, <2>2, <2>3 DEF Reads
<1>3. CASE ReadStatus(p) \/ NullStatus(p) \/ StatusInterrupted(p)
  <2>1. next[p] = "status"
    BY <1>3 DEF ReadStatus, NullStatus, StatusInterrupted, AtStatus
  <2>2. got' = got \/ got' = [got EXCEPT ![p] = @ \cup {"status"}]
    BY <1>3 DEF ReadStatus, NullStatus, StatusInterrupted
  <2>3. \/ next' = next /\ got' = got
        \/ /\ next' = [next EXCEPT ![p] = Gate(p)]
           /\ \E seen : obs' = [obs EXCEPT ![p] = @ \cup seen \cup MissingOperations(p)]
    BY <1>3 DEF ReadStatus, NullStatus, StatusInterrupted, EndStatus
  <2>4. CASE next' = next /\ got' = got
    BY <1>1, <2>4
  <2>5. Gate(p) \notin {"openapi", "update", "status"}
    BY DEF Gate
  <2>6. CASE \E seen : obs' = [obs EXCEPT ![p] = @ \cup seen \cup MissingOperations(p)]
    <3>1. MissingOperations(p) \subseteq obs'[p]
      BY <2>6
    <3> QED BY <1>1, <2>1, <2>2, <2>3, <2>5, <3>1
  <2> QED BY <2>3, <2>4, <2>6
<1> QED BY <1>2, <1>3

\* What the OpenAPI document lacks is not affected by the reads that follow it.
LEMMA OperationsKept ==
  ASSUME world' = world, NEW p, NEW read \in Reads \ {"openapi", "update"},
         got'[p] \in {got[p], got[p] \cup {read}}
  PROVE  MissingOperations(p)' = MissingOperations(p)
<1>1. Supported(p)' = Supported(p)
  BY SupportedKept
<1> QED BY <1>1 DEF MissingOperations, Answers, Job

\* A step that reads preserves what was judged.
LEMMA JudgedReading ==
  ASSUME TypeInv, Judged, [Next]_vars,
         NEW p \in Panels, Read(p) \/ ReadStatus(p) \/ NullStatus(p) \/ StatusInterrupted(p)
  PROVE  Judged'
<1> USE DEF TypeInv, DataTyped
<1>1. \A q \in Panels : obs[q] \subseteq obs'[q]
  BY ObservationsKept
<1>2. phase = "collect" /\ pc[p] = "running" /\ UNCHANGED <<pc, phase, world>>
      /\ \A q \in Panels \ {p} : next'[q] = next[q] /\ got'[q] = got[q]
  BY ReadingEffect
<1>3. ASSUME NEW q \in Panels, got'[q] = got[q]
      PROVE  /\ MissingOperations(q)' = MissingOperations(q)
             /\ Supported(q)' = Supported(q)
             /\ ConfigObservations(Listed(q, "inbounds"), Generated(q))'
                  = ConfigObservations(Listed(q, "inbounds"), Generated(q))
  <2>1. /\ MissingOperations(q)' = MissingOperations(q)
        /\ Supported(q)' = Supported(q)
    BY <1>2, <1>3 DEF MissingOperations, Supported, Version, Answers, Job
  <2>2. Listed(q, "inbounds")' = Listed(q, "inbounds") /\ Generated(q)' = Generated(q)
    BY <1>2, <1>3 DEF Listed, Generated, Answers, Job
  <2> QED BY <2>1, <2>2
<1>4. OperationsJudged'
  <2> SUFFICES ASSUME NEW q \in Panels, next'[q] \notin {"openapi", "update", "status"}
               PROVE  MissingOperations(q)' \subseteq obs'[q]
    BY DEF OperationsJudged
  <2>1. CASE next'[q] = next[q] /\ got'[q] = got[q]
    BY <1>1, <1>3, <2>1 DEF Judged, OperationsJudged
  <2>2. CASE q = p /\ ~(next'[p] = next[p] /\ got'[p] = got[p])
    <3>1. CASE next[p] = "status"
      <4>1. got'[p] \in {got[p], got[p] \cup {"status"}} /\ MissingOperations(p) \subseteq obs'[p]
        BY <2>2, <3>1, ReadingEffect
      <4>2. MissingOperations(p)' = MissingOperations(p)
        BY <1>2, <4>1, OperationsKept DEF Reads
      <4> QED BY <2>2, <4>1, <4>2
    <3>2. CASE next[p] \in {"config", "inbounds", "clients", "settings", "nodes"}
      <4>1. got'[p] \in {got[p], got[p] \cup {next[p]}}
        BY <2>2, <3>2, ReadingEffect
      <4>2. MissingOperations(p)' = MissingOperations(p)
        BY <1>2, <3>2, <4>1, OperationsKept DEF Reads
      <4>3. MissingOperations(p) \subseteq obs[p]
        BY <3>2 DEF Judged, OperationsJudged
      <4> QED BY <1>1, <2>2, <4>2, <4>3
    <3> QED BY <2>2, <3>1, <3>2, ReadingEffect
  <2> QED BY <1>2, <2>1, <2>2
<1>5. ConfigurationJudged'
  <2> SUFFICES ASSUME NEW q \in Panels, Through(q)', Supported(q)'
               PROVE  ConfigObservations(Listed(q, "inbounds"), Generated(q))' \subseteq obs'[q]
    BY DEF ConfigurationJudged
  <2>1. Through(q) /\ q # p
    BY <1>2 DEF Through
  <2>2. Supported(q) /\ ConfigObservations(Listed(q, "inbounds"), Generated(q))'
                          = ConfigObservations(Listed(q, "inbounds"), Generated(q))
    BY <1>2, <1>3, <2>1
  <2> QED BY <1>1, <2>1, <2>2 DEF Judged, ConfigurationJudged
<1>6. TopologyJudged'
  BY <1>2 DEF TopologyJudged
<1> QED BY <1>4, <1>5, <1>6 DEF Judged

\* Every step preserves Judged.
LEMMA JudgedNext == TypeInv /\ Judged /\ [Next]_vars => Judged'
BY JudgedQuietly, JudgedReading, ReadingSteps

-----------------------------------------------------------------------------
(* What the rules conclude from complete answers *)

\* With every read answered, what is known of a panel is what it answered.
LEMMA AnswersKnown ==
  ASSUME NEW p \in Panels, got[p] = ReadsOf(p)
  PROVE  /\ Version(p) = Answers(p).version
         /\ Listed(p, "inbounds") = Answers(p).inbounds
         /\ Listed(p, "clients") = Answers(p).clients
         /\ p = Master => Listed(p, "nodes") = Answers(p).nodes
         /\ Generated(p) = Answers(p).generated
         /\ {"openapi", "config", "clients"} \subseteq got[p]
BY DEF ReadsOf, Reads, Version, Listed, When, Generated

\* An inbound is accused by the configuration rules exactly when it is unsound,
\* and unknown to them exactly when its protocol or its transport is.
LEMMA InboundJudged ==
  ASSUME NEW inbounds, NEW generated, NEW in \in inbounds
  PROVE  LET said == InboundObservations(in, inbounds) \cup GeneratedObservations(in, generated)
         IN /\ (\E o \in said : o.sev = "blocking") <=> ~InboundSound(in, inbounds, generated)
            /\ (\E o \in said : o.sev = "inconclusive") <=>
                 in.proto \notin KnownProtocols \cup {""} \/ in.transport \notin KnownTransports
<1> DEFINE missing == in.proto = ""
           unknown == in.proto \notin KnownProtocols \cup {""}
           odd == in.transport \notin KnownTransports
           dangling == \E f \in in.fallbacks : ~FallbackResolves(f, inbounds)
           invalid == in.flow /\ in.proto # "vless"
           absent == in.tag = NoTag \/ in.tag \notin DOMAIN generated
           drift == generated[in.tag] # <<in.proto, in.transport>>
           O(rule, kind, sev) == Obs(rule, kind, sev, in.id)
           said == InboundObservations(in, inbounds) \cup GeneratedObservations(in, generated)
<1>1. InboundSound(in, inbounds, generated) <=>
        ~missing /\ ~dangling /\ in.stream /\ ~invalid /\ ~absent /\ ~drift
  BY DEF InboundSound, FallbackResolves
<1>2. InboundObservations(in, inbounds)
        = When(missing, {O("CFG-002", "missing_protocol", "blocking")})
          \cup When(unknown, {O("CFG-002", "unknown_protocol", "inconclusive")})
          \cup When(odd, {O("CFG-002", "unknown_transport", "inconclusive")})
          \cup When(dangling, {O("CFG-001", "unresolved_fallback", "blocking")})
          \cup When(~in.stream, {O("CFG-002", "incomplete_security", "blocking")})
          \cup When(invalid, {O("CFG-002", "invalid_flow", "blocking")})
  BY DEF InboundObservations
<1>3. GeneratedObservations(in, generated)
        = IF absent THEN {O("CFG-003", "missing_generated_inbound", "blocking")}
          ELSE When(drift, {O("CFG-003", "generated_transport_drift", "blocking")})
  BY DEF GeneratedObservations
<1>4. \A rule, kind, sev : O(rule, kind, sev).sev = sev
  BY DEF Obs
<1> HIDE DEF missing, unknown, odd, dangling, invalid, absent, drift, O
<1>5. (\E o \in said : o.sev = "blocking") <=>
        missing \/ dangling \/ ~in.stream \/ invalid \/ absent \/ drift
  BY <1>2, <1>3, <1>4 DEF When
<1>6. (\E o \in said : o.sev = "inconclusive") <=> unknown \/ odd
  BY <1>2, <1>3, <1>4 DEF When
<1> QED BY <1>1, <1>5, <1>6 DEF unknown, odd

\* The same of all that a panel configures.
LEMMA ConfigurationExact ==
  ASSUME NEW inbounds, NEW generated
  PROVE  LET said == ConfigObservations(inbounds, generated)
         IN /\ (\E o \in said : o.sev = "blocking") <=>
                 \E in \in inbounds : ~InboundSound(in, inbounds, generated)
            /\ (\E o \in said : o.sev = "inconclusive") <=>
                 \E in \in inbounds : \/ in.proto \notin KnownProtocols \cup {""}
                                      \/ in.transport \notin KnownTransports
<1> DEFINE each(in) == InboundObservations(in, inbounds) \cup GeneratedObservations(in, generated)
<1>1. ConfigObservations(inbounds, generated) = UNION {each(in) : in \in inbounds}
  BY DEF ConfigObservations
<1>2. \A in \in inbounds :
        /\ (\E o \in each(in) : o.sev = "blocking") <=> ~InboundSound(in, inbounds, generated)
        /\ (\E o \in each(in) : o.sev = "inconclusive") <=>
             in.proto \notin KnownProtocols \cup {""} \/ in.transport \notin KnownTransports
  BY InboundJudged
<1> HIDE DEF each
<1> QED BY <1>1, <1>2

-----------------------------------------------------------------------------
\* Every read of every panel was answered, and all are of a supported version.
AllAnswered == \A p \in Panels : got[p] = ReadsOf(p) /\ Supported(p)

\* What ClusterAgrees asks of one node.
ChildAgrees(c) ==
  /\ ExpectedGUID[c] = MasterNodeGUID[c]
  /\ \E node \in Answers(Master).nodes : node.guid = MasterNodeGUID[c]
  /\ \A in \in Answers(Master).inbounds : in.origin = MasterNodeGUID[c] =>
       /\ \E own \in Answers(c).inbounds :
            InboundKey(own) = InboundKey(in) /\ own.origin \in {NoGUID, in.origin}
       /\ in.clients \subseteq {client.id : client \in Answers(c).clients}

\* What the reconciliation says of one node: where the master lists it, if it does
\* not, and what it lacks of what the master assigns to it.
SaidOfListed(c) ==
  UNION {NodeObservations(Work, node) :
           node \in {n \in Answers(Master).nodes : n.guid = MasterNodeGUID[c]}}
SaidOfChild(c) == ConfiguredNodeMissing(Work, c) \cup ObjectObservations(Work, c)

\* The reconciliation works on the panels' own answers.
LEMMA WorkAnswered ==
  ASSUME AllAnswered
  PROVE  /\ \A p \in Panels : /\ Work[p].supported
                              /\ Work[p].version = Answers(p).version
                              /\ Work[p].inbounds = Answers(p).inbounds
                              /\ Work[p].clients = Answers(p).clients
         /\ Work[Master].nodes = Answers(Master).nodes
BY AnswersKnown, OneMaster DEF AllAnswered, Work

\* One turn of the loop over the master's nodes: what it concludes, and when.
LEMMA ListedNodeJudged ==
  ASSUME NEW w, NEW node
  PROVE  LET said == NodeObservations(w, node)
         IN /\ (\E o \in said : o.sev = "blocking") <=>
                 \E c \in Children : MasterNodeGUID[c] = node.guid /\ ExpectedGUID[c] # node.guid
            /\ (\E o \in said : o.sev = "inconclusive") <=>
                 ~node.online \/ ~\E c \in Children : MasterNodeGUID[c] = node.guid
<1> DEFINE matches == {c \in Children : MasterNodeGUID[c] = node.guid}
           wrong(c) == {Obs("NODE-001", "node_identity_mismatch", "blocking", c)}
           skew(kind, a, b, c) == When(Differ(a, b), {Obs("NODE-001", kind, "plain", c)})
           skews(c) == skew("xray_version_skew", w[c].xray, w[Master].xray, c)
                       \cup skew("reported_panel_version_skew", node.version, w[c].version, c)
                       \cup skew("reported_xray_version_skew", node.xray, w[c].xray, c)
           offline == {Obs("NODE-001", "node_offline", "inconclusive", node.guid)}
           stranger == {Obs("NODE-001", "node_credentials_missing", "inconclusive", node.guid)}
           of(c) == When(ExpectedGUID[c] # node.guid, wrong(c)) \cup skews(c)
           said == NodeObservations(w, node)
<1>1. said = IF matches = {} THEN stranger
             ELSE When(~node.online, offline) \cup UNION {of(c) : c \in matches}
  <2>1. \A c : of(c) = When(ExpectedGUID[c] # node.guid, wrong(c))
                       \cup skew("xray_version_skew", w[c].xray, w[Master].xray, c)
                       \cup skew("reported_panel_version_skew", node.version, w[c].version, c)
                       \cup skew("reported_xray_version_skew", node.xray, w[c].xray, c)
    BY Zenon
  <2> HIDE DEF of
  <2> QED BY <2>1 DEF NodeObservations
<1>2. /\ \A o \in stranger \cup offline : o.sev = "inconclusive"
      /\ \A c : (\A o \in wrong(c) : o.sev = "blocking") /\ (\A o \in skews(c) : o.sev = "plain")
  BY DEF Obs, When
<1>3. stranger # {} /\ offline # {} /\ \A c : wrong(c) # {}
  OBVIOUS
<1> HIDE DEF stranger, offline, wrong, skews
<1>4. \A c : /\ (\E o \in of(c) : o.sev = "blocking") <=> ExpectedGUID[c] # node.guid
             /\ ~\E o \in of(c) : o.sev = "inconclusive"
  BY <1>2, <1>3 DEF When
<1> HIDE DEF of
<1>5. (\E o \in said : o.sev = "blocking") <=> \E c \in matches : ExpectedGUID[c] # node.guid
  BY <1>1, <1>2, <1>4 DEF When
<1>6. (\E o \in said : o.sev = "inconclusive") <=> ~node.online \/ matches = {}
  BY <1>1, <1>2, <1>3, <1>4 DEF When
<1> QED BY <1>5, <1>6

\* A configured node is accused exactly when the master's view of it is not its own.
LEMMA ChildJudged ==
  ASSUME AllAnswered, NEW c \in Children
  PROVE  (\E o \in SaidOfListed(c) \cup SaidOfChild(c) : o.sev = "blocking") <=> ~ChildAgrees(c)
<1> DEFINE nodes == Answers(Master).nodes
           theirs == Answers(Master).inbounds
           own == Answers(c).inbounds
           assigned == {in \in theirs : in.origin = MasterNodeGUID[c]}
           expected == {InboundIdentity(in, ExpectedGUID[Master]) : in \in assigned}
           actual == {InboundIdentity(in, ExpectedGUID[c]) : in \in own}
           expectedClients == UNION {in.clients : in \in assigned}
           actualClients == {client.id : client \in Answers(c).clients}
           listed == \E node \in nodes : node.guid = MasterNodeGUID[c]
           inbound(a) == Obs("NODE-003", "assigned_inbound_missing", "blocking", a)
           client(a) == Obs("NODE-003", "assigned_client_missing", "blocking", a)
           Blocks(S) == \E o \in S : o.sev = "blocking"
<1>1. /\ Work[c].supported /\ Work[c].inbounds = own /\ Work[c].clients = Answers(c).clients
      /\ Work[Master].inbounds = theirs /\ Work[Master].nodes = nodes
  BY WorkAnswered, OneMaster DEF Children
<1>2. Blocks(SaidOfListed(c)) <=> listed /\ ExpectedGUID[c] # MasterNodeGUID[c]
  <2>1. ASSUME NEW node \in nodes, node.guid = MasterNodeGUID[c]
        PROVE  Blocks(NodeObservations(Work, node)) <=> ExpectedGUID[c] # MasterNodeGUID[c]
    BY <2>1, ListedNodeJudged, DistinctGUIDs
  <2> QED BY <2>1 DEF SaidOfListed
<1>3. Blocks(ConfiguredNodeMissing(Work, c)) <=> ~listed
  BY <1>1 DEF ConfiguredNodeMissing, When, Obs
<1>4. Blocks(ObjectObservations(Work, c)) <=>
        expected \ actual # {} \/ expectedClients \ actualClients # {}
  <2>1. ObjectObservations(Work, c) = {inbound(a) : a \in expected \ actual}
                                      \cup {client(a) : a \in expectedClients \ actualClients}
    BY <1>1 DEF ObjectObservations, AssignedInbounds
  <2>2. \A a : inbound(a).sev = "blocking" /\ client(a).sev = "blocking"
    BY DEF Obs
  <2> HIDE DEF inbound, client, expected, actual, expectedClients, actualClients
  <2> QED BY <2>1, <2>2
<1>5. ASSUME ExpectedGUID[c] = MasterNodeGUID[c]
      PROVE  expected \ actual = {} <=>
               \A in \in assigned : \E o \in own :
                 InboundKey(o) = InboundKey(in) /\ o.origin \in {NoGUID, in.origin}
  <2>1. ASSUME NEW in \in assigned, NEW o \in own
        PROVE  InboundIdentity(in, ExpectedGUID[Master]) = InboundIdentity(o, ExpectedGUID[c]) <=>
                 InboundKey(o) = InboundKey(in) /\ o.origin \in {NoGUID, in.origin}
    <3>1. in.origin = MasterNodeGUID[c] /\ in.origin # NoGUID
      BY DistinctGUIDs
    <3> QED BY <1>5, <3>1 DEF InboundIdentity
  <2> HIDE DEF assigned, own
  <2> QED BY <2>1
<1>6. expectedClients \ actualClients = {} <=> \A in \in assigned : in.clients \subseteq actualClients
  <2> HIDE DEF assigned, actualClients
  <2> QED OBVIOUS
<1>7. ChildAgrees(c) <=>
        /\ ExpectedGUID[c] = MasterNodeGUID[c] /\ listed
        /\ \A in \in assigned : \E o \in own :
             InboundKey(o) = InboundKey(in) /\ o.origin \in {NoGUID, in.origin}
        /\ \A in \in assigned : in.clients \subseteq actualClients
  BY DEF ChildAgrees
<1>8. Blocks(SaidOfListed(c) \cup SaidOfChild(c)) <=>
        \/ Blocks(SaidOfListed(c))
        \/ Blocks(ConfiguredNodeMissing(Work, c))
        \/ Blocks(ObjectObservations(Work, c))
  BY DEF SaidOfChild
<1> HIDE DEF listed, expected, actual, expectedClients, actualClients, assigned, own, Blocks
<1>9. Blocks(SaidOfListed(c) \cup SaidOfChild(c)) <=> ~ChildAgrees(c)
  BY <1>2, <1>3, <1>4, <1>5, <1>6, <1>7, <1>8
<1> QED BY <1>9 DEF Blocks

\* The reconciliation is exact: it accuses somebody if and only if the cluster does
\* not agree, or an upgrade being verified did not reach its target; and a node that
\* is offline, or that Doctor has no credentials for, is said to be unknown.
LEMMA TopologyExact ==
  ASSUME AllAnswered
  PROVE  /\ (\E p \in Panels : \E o \in Reconciled[p] : o.sev = "blocking") <=>
              \/ ~ClusterAgrees
              \/ Job.command = "verify" /\ \E p \in Panels : Answers(p).version # Job.target
         /\ (\E node \in Answers(Master).nodes :
               ~node.online \/ ~\E c \in Children : MasterNodeGUID[c] = node.guid)
            => \E o \in Reconciled[Master] : o.sev = "inconclusive"
<1> DEFINE nodes == Answers(Master).nodes
           target(p) == TargetObservations(Work, Job.command, Job.target, p)
           Blocks(S) == \E o \in S : o.sev = "blocking"
<1>1. /\ Work[Master].supported /\ Work[Master].nodes = nodes
      /\ \A p \in Panels : Work[p].version = Answers(p).version /\ Answers(p).version # NoVersion
  BY WorkAnswered, AnswersKnown, OneMaster DEF AllAnswered, Supported, SupportedVersions, NoVersion
<1>2. \A p \in Panels : Reconciled[p] = When(p = Master, MasterObservations(Work)) \cup target(p)
  BY DEF Reconciled, ReconcileTopology
<1>3. MasterObservations(Work) = (UNION {NodeObservations(Work, node) : node \in nodes})
                                 \cup UNION {SaidOfChild(c) : c \in Children}
  BY <1>1 DEF MasterObservations, NodeListObservations, ChildObservations, SaidOfChild
<1>4. \A p \in Panels : Blocks(target(p)) <=>
        Job.command = "verify" /\ Answers(p).version # Job.target
  BY <1>1 DEF TargetObservations, When, Obs
<1>5. Blocks(MasterObservations(Work)) <=>
        \E c \in Children : Blocks(SaidOfListed(c) \cup SaidOfChild(c))
  <2>1. ASSUME NEW node \in nodes, Blocks(NodeObservations(Work, node))
        PROVE  \E c \in Children : Blocks(SaidOfListed(c))
    <3>1. PICK c \in Children : MasterNodeGUID[c] = node.guid
      BY <2>1, ListedNodeJudged
    <3>2. NodeObservations(Work, node) \subseteq SaidOfListed(c)
      BY <3>1 DEF SaidOfListed
    <3> QED BY <2>1, <3>2
  <2>2. \A c \in Children : SaidOfListed(c) \subseteq UNION {NodeObservations(Work, node) : node \in nodes}
    BY DEF SaidOfListed
  <2> HIDE DEF nodes
  <2> QED BY <1>3, <2>1, <2>2
<1>6. ClusterAgrees <=> \A c \in Children : ChildAgrees(c)
  BY DEF ClusterAgrees, ChildAgrees, Answers
<1>7. Blocks(MasterObservations(Work)) <=> ~ClusterAgrees
  BY <1>5, <1>6, ChildJudged
<1>8. ASSUME NEW node \in nodes, ~node.online \/ ~\E c \in Children : MasterNodeGUID[c] = node.guid
      PROVE  \E o \in Reconciled[Master] : o.sev = "inconclusive"
  <2>1. \E o \in NodeObservations(Work, node) : o.sev = "inconclusive"
    BY <1>8, ListedNodeJudged
  <2>2. MasterObservations(Work) \subseteq Reconciled[Master]
    BY <1>2, OneMaster DEF When
  <2> QED BY <1>3, <2>1, <2>2
<1> HIDE DEF target
<1>9. (\E p \in Panels : Blocks(Reconciled[p])) <=>
        Blocks(MasterObservations(Work)) \/ \E p \in Panels : Blocks(target(p))
  BY <1>2, OneMaster DEF When
<1> QED BY <1>4, <1>7, <1>8, <1>9

-----------------------------------------------------------------------------
\* Six equal entries: as many as the samples of a run, and the last three are equal.
LEMMA SixEqual ==
  ASSUME NEW e
  PROVE  LET s == [i \in 1..6 |-> e]
         IN /\ Len(s) = 6
            /\ \A i \in 1..6 : s[i] = e
            /\ \A i \in 1..3 : SubSeq(s, Len(s) - 2, Len(s))[i] = e
<1> DEFINE s == [i \in 1..6 |-> e]
<1>1. s \in Seq({e}) /\ DOMAIN s = 1..6 /\ \A i \in 1..6 : s[i] = e
  <2>1. s \in [1..6 -> {e}]
    OBVIOUS
  <2> QED BY <2>1
<1> HIDE DEF s
<1>2. Len(s) = 6
  <2>1. PICK n \in Nat : Len(s) = n /\ 1..n = 1..6
    BY <1>1, LenProperties
  <2>2. n = 6
    <3>1. \A i : i \in 1..n <=> i \in 1..6
      BY <2>1, Zenon
    <3>2. 6 \in 1..n /\ 7 \notin 1..n
      BY <3>1
    <3> QED BY <2>1, <3>2
  <2> QED BY <2>1, <2>2
<1>3. \A i \in 1..3 : SubSeq(s, 4, 6)[i] = e
  BY <1>1, <1>2
<1>4. \A i \in 1..3 : SubSeq(s, Len(s) - 2, Len(s))[i] = e
  <2>1. Len(s) - 2 = 4
    BY <1>2
  <2> QED BY <1>2, <1>3, <2>1
<1> QED BY <1>1, <1>2, <1>4 DEF s

\* Every client list was read and no traffic sample is missing.
FullySampled == \A p \in Panels : "clients" \in got[p] /\ traffic[p] = TrafficSamples

Sample(c) == [used |-> c.used, enabled |-> c.enabled]

\* Then every client of a panel has six observations, each of its standing counter.
LEMMA FullSeries ==
  ASSUME TypeInv, FullySampled, NEW p \in Panels
  PROVE  /\ DOMAIN TrafficSeries(p) = {c.id : c \in Answers(p).clients}
         /\ \A c \in Answers(p).clients : TrafficSeries(p)[c.id] = [i \in 1..6 |-> Sample(c)]
<1> DEFINE length == (IF "clients" \in got[p] THEN 1 ELSE 0) + traffic[p]
           clients == IF length = 0 THEN {} ELSE Answers(p).clients
           client(id) == CHOOSE c \in clients : c.id = id
           entry(id) == [used |-> client(id).used, enabled |-> client(id).enabled]
<1>1. length = 6 /\ clients = Answers(p).clients
  BY DEF FullySampled, TrafficSamples
<1>2. \A c \in Answers(p).clients : entry(c.id) = Sample(c)
  <2>1. \A c, d \in Answers(p).clients : c.id = d.id => c = d
    BY ClientsAssumption DEF TypeInv, DataTyped, Answers, Job
  <2>2. \A c \in Answers(p).clients : client(c.id) = c
    BY <1>1, <2>1
  <2> HIDE DEF client
  <2> QED BY <2>2 DEF Sample
<1>3. TrafficSeries(p) = [id \in {c.id : c \in clients} |-> [i \in 1..length |-> entry(id)]]
  BY DEF TrafficSeries
<1> HIDE DEF length, clients, entry
<1>4. DOMAIN TrafficSeries(p) = {c.id : c \in clients}
  BY <1>3
<1>5. ASSUME NEW c \in clients PROVE TrafficSeries(p)[c.id] = [i \in 1..6 |-> Sample(c)]
  <2>1. TrafficSeries(p)[c.id] = [i \in 1..length |-> entry(c.id)]
    BY <1>3
  <2>2. [i \in 1..length |-> entry(c.id)] = [i \in 1..6 |-> Sample(c)]
    BY <1>1, <1>2, Zenon
  <2> QED BY <2>1, <2>2, Zenon
<1> QED BY <1>1, <1>4, <1>5

\* A client exceeds a limit.
Exceeds(c) ==
  c.enabled /\ \/ c.expiry > 0 /\ Job.finishedAt > c.expiry + LimitGrace
               \/ c.total > 0 /\ c.used >= c.total

\* The limit rule is exact: it fails if and only if a client exceeds a limit of its own.
LEMMA LimitsExact ==
  ASSUME TypeInv, FullySampled
  PROVE  (\E f \in EvaluateLimits(Snapshot, Job.finishedAt) : f.status = "FAIL") <=> ~LimitsKept
<1> DEFINE Aliases(p, c) == {Alias(p, in) :
                               in \in {i \in Listed(p, "inbounds") : i.id \in c.inbounds}}
           Client(p, c) == [id |-> c.id, enabled |-> c.enabled, total |-> c.total,
                            expiry |-> c.expiry, inbounds |-> Aliases(p, c)]
           clients(p) == Answers(p).clients
           snap == Snapshot
           series(p, c) == snap[p].traffic[c.id]
           watched(p) == {c \in snap[p].clients :
                            c.id \in DOMAIN snap[p].traffic /\ Len(series(p, c)) >= 3}
           lastThree(p, c) == SubSeq(series(p, c), Len(series(p, c)) - 2, Len(series(p, c)))
           exceeding(p) == {c \in watched(p) : LimitExceeded(c, lastThree(p, c), Job.finishedAt)}
<1>1. /\ DOMAIN snap = Panels
      /\ \A p \in Panels : /\ snap[p].traffic = TrafficSeries(p)
                           /\ snap[p].clients = {Client(p, c) : c \in clients(p)}
  BY DEF Snapshot, FullySampled, Listed, When
<1>2. \A p \in Panels : \A c \in clients(p) :
        /\ Client(p, c).id = c.id /\ Client(p, c).enabled = c.enabled
        /\ Client(p, c).total = c.total /\ Client(p, c).expiry = c.expiry
  OBVIOUS
<1> HIDE DEF snap, Client
<1>3. ASSUME NEW p \in Panels, NEW c \in clients(p)
      PROVE  /\ Client(p, c) \in watched(p)
             /\ LimitExceeded(Client(p, c), lastThree(p, Client(p, c)), Job.finishedAt) <=> Exceeds(c)
  <2>1. series(p, Client(p, c)) = [i \in 1..6 |-> Sample(c)] /\ c.id \in DOMAIN snap[p].traffic
    <3>1. /\ c.id \in DOMAIN TrafficSeries(p)
          /\ TrafficSeries(p)[c.id] = [i \in 1..6 |-> Sample(c)]
      BY FullSeries
    <3>2. snap[p].traffic = TrafficSeries(p) /\ Client(p, c).id = c.id
      BY <1>1, <1>2
    <3> QED BY <3>1, <3>2, Zenon
  <2>2. /\ Len(series(p, Client(p, c))) = 6
        /\ \A i \in 1..3 : lastThree(p, Client(p, c))[i] = Sample(c)
    BY <2>1, SixEqual
  <2>3. Sample(c).used = c.used /\ Sample(c).enabled = c.enabled
    BY DEF Sample
  <2>4. Client(p, c) \in watched(p)
    BY <1>1, <1>2, <2>1, <2>2
  <2>5. (\A i \in 1..3 : lastThree(p, Client(p, c))[i].enabled) <=> c.enabled
    BY <2>2, <2>3
  <2>6. (\A i \in 1..3 : lastThree(p, Client(p, c))[i].used >= c.total) <=> c.used >= c.total
    BY <2>2, <2>3
  <2> HIDE DEF lastThree
  <2>7. LimitExceeded(Client(p, c), lastThree(p, Client(p, c)), Job.finishedAt) <=> Exceeds(c)
    BY <1>2, <2>5, <2>6 DEF LimitExceeded, Exceeds
  <2> QED BY <2>4, <2>7
<1>4. EvaluateLimits(snap, Job.finishedAt)
        = IF \A p \in DOMAIN snap : watched(p) = {} THEN {Finding("LIMIT-001", "UNKNOWN", "")}
          ELSE {Finding("LIMIT-001", "FAIL", c.id) : c \in UNION {exceeding(p) : p \in DOMAIN snap}}
  BY DEF EvaluateLimits
<1>5. \A p \in Panels : \A r \in watched(p) : \E c \in clients(p) : r = Client(p, c)
  BY <1>1
<1> HIDE DEF watched, lastThree
<1>6. (\E f \in EvaluateLimits(snap, Job.finishedAt) : f.status = "FAIL") <=>
        \E p \in Panels : exceeding(p) # {}
  <2>1. \A rule, id : Finding(rule, "FAIL", id).status = "FAIL" /\ Finding(rule, "UNKNOWN", id).status = "UNKNOWN"
    BY DEF Finding
  <2>2. (\A p \in Panels : watched(p) = {}) => \A p \in Panels : exceeding(p) = {}
    OBVIOUS
  <2> HIDE DEF exceeding
  <2>3. CASE \A p \in Panels : watched(p) = {}
    BY <1>1, <1>4, <2>1, <2>2, <2>3
  <2>4. CASE ~\A p \in Panels : watched(p) = {}
    <3>1. EvaluateLimits(snap, Job.finishedAt)
            = {Finding("LIMIT-001", "FAIL", c.id) : c \in UNION {exceeding(p) : p \in Panels}}
      BY <1>1, <1>4, <2>4
    <3>2. UNION {exceeding(p) : p \in Panels} # {} <=> \E p \in Panels : exceeding(p) # {}
      OBVIOUS
    <3> QED BY <2>1, <3>1, <3>2
  <2> QED BY <2>3, <2>4
<1>7. (\E p \in Panels : exceeding(p) # {}) <=> \E p \in Panels : \E c \in clients(p) : Exceeds(c)
  BY <1>3, <1>5
<1>8. ASSUME NEW p \in Panels, NEW c \in clients(p)
      PROVE  Exceeds(c) <=> ~(c.enabled => /\ c.total > 0 => c.used < c.total
                                           /\ c.expiry > 0 => Job.finishedAt <= c.expiry + LimitGrace)
  <2>1. /\ Job.finishedAt \in Nat /\ LimitGrace \in Nat
        /\ c.used \in Nat /\ c.total \in Int /\ c.expiry \in Int
    BY ClientsAssumption, GraceAssumption DEF TypeInv, DataTyped, Answers, Job
  <2> QED BY <2>1 DEF Exceeds
<1>9. LimitsKept <=> \A p \in Panels : \A c \in clients(p) : ~Exceeds(c)
  BY <1>8 DEF LimitsKept
<1> QED BY <1>6, <1>7, <1>9 DEF snap

-----------------------------------------------------------------------------
\* A node's i-th observation of a client, as the rule pack adds it up.
SampledAt(p, id, i) ==
  IF i <= Len(Snapshot[p].traffic[id]) THEN Snapshot[p].traffic[id][i].used ELSE 0

UsedSum(S, id) == MapThenSumSet(LAMBDA p : UsedOn(p, id), S)
SampledSum(S, id, i) == MapThenSumSet(LAMBDA p : SampledAt(p, id, i), S)

\* Equal terms have equal sums: both folds are the same recursive function.
LEMMA EqualSums ==
  ASSUME NEW S, NEW id, NEW i, \A p \in S : UsedOn(p, id) = SampledAt(p, id, i)
  PROVE  UsedSum(S, id) = SampledSum(S, id, i)
<1> DEFINE F(g) == g = [s \in SUBSET S |->
                          IF s = {} THEN 0
                          ELSE UsedOn(CHOOSE x \in s : TRUE, id) + g[s \ {CHOOSE x \in s : TRUE}]]
           G(g) == g = [s \in SUBSET S |->
                          IF s = {} THEN 0
                          ELSE SampledAt(CHOOSE x \in s : TRUE, id, i)
                               + g[s \ {CHOOSE x \in s : TRUE}]]
<1>1. \A g : F(g) <=> G(g)
  <2> SUFFICES ASSUME NEW g, NEW s \in SUBSET S, s # {}
               PROVE  UsedOn(CHOOSE x \in s : TRUE, id) = SampledAt(CHOOSE x \in s : TRUE, id, i)
    BY Zenon
  <2>1. (CHOOSE x \in s : TRUE) \in S
    OBVIOUS
  <2> QED BY <2>1
<1>2. (CHOOSE g : F(g)) = (CHOOSE g : G(g))
  <2> HIDE DEF F, G
  <2> QED BY <1>1
<1>3. UsedSum(S, id) = (CHOOSE g : F(g))[S]
  BY DEF UsedSum, MapThenSumSet, MapThenFoldSet
<1>4. SampledSum(S, id, i) = (CHOOSE g : G(g))[S]
  BY DEF SampledSum, MapThenSumSet, MapThenFoldSet
<1> HIDE DEF F, G
<1> QED BY <1>2, <1>3, <1>4

\* What the snapshot holds of the series and of the roles.
LEMMA SnapshotSeries ==
  /\ DOMAIN Snapshot = Panels
  /\ \A p \in Panels : /\ Snapshot[p].traffic = TrafficSeries(p)
                       /\ Snapshot[p].role = (IF p = Master THEN "master" ELSE "node")
                       /\ Snapshot[p].guid = ExpectedGUID[p]
BY DEF Snapshot

\* The nodes' counters of a client stand still too, and with them their sum.
LEMMA SumsStandStill ==
  ASSUME TypeInv, FullySampled, NEW id, NodesWith(id) # {}
  PROVE  /\ NodeSeries(Snapshot, id) = NodesWith(id)
         /\ SumSeries(Snapshot, id) = [i \in 1..6 |-> UsedSum(NodesWith(id), id)]
<1> HIDE DEF Snapshot
<1> DEFINE nodes == NodesWith(id)
           lengths == {Len(Snapshot[p].traffic[id]) : p \in nodes}
<1>1. NodeSeries(Snapshot, id) = nodes
  <2>1. ASSUME NEW p \in Panels
        PROVE  id \in DOMAIN Snapshot[p].traffic <=> \E c \in Answers(p).clients : c.id = id
    <3>1. DOMAIN TrafficSeries(p) = {c.id : c \in Answers(p).clients}
      BY FullSeries
    <3> QED BY <3>1, SnapshotSeries
  <2>2. \A p \in Panels : Snapshot[p].role = "node" <=> p # Master
    BY SnapshotSeries
  <2> QED BY <2>1, <2>2, SnapshotSeries DEF NodeSeries, NodesWith, Children
<1>2. ASSUME NEW p \in nodes
      PROVE  /\ Len(Snapshot[p].traffic[id]) = 6
             /\ \A i \in 1..6 : UsedOn(p, id) = SampledAt(p, id, i)
  <2> DEFINE c == CHOOSE d \in Answers(p).clients : d.id = id
  <2>1. p \in Panels /\ c \in Answers(p).clients /\ c.id = id
    BY DEF NodesWith, Children
  <2>2. TrafficSeries(p)[c.id] = [i \in 1..6 |-> Sample(c)]
    BY <2>1, FullSeries
  <2>3. Snapshot[p].traffic[id] = [i \in 1..6 |-> Sample(c)]
    BY <2>1, <2>2, SnapshotSeries, Zenon
  <2>4. Len(Snapshot[p].traffic[id]) = 6 /\ \A i \in 1..6 : Snapshot[p].traffic[id][i] = Sample(c)
    BY <2>3, SixEqual
  <2>5. UsedOn(p, id) = c.used /\ Sample(c).used = c.used
    BY DEF UsedOn, Sample
  <2> HIDE DEF c
  <2> QED BY <2>4, <2>5 DEF SampledAt
<1>3. Max(lengths) = 6
  <2>1. lengths = {6}
    <3> HIDE DEF nodes
    <3>1. nodes # {}
      BY DEF nodes
    <3> QED BY <1>2, <3>1
  <2>2. Max({6}) = 6
    BY DEF Max
  <2> QED BY <2>1, <2>2
<1>4. SumSeries(Snapshot, id)
        = [i \in 1..Max(lengths) |-> SampledSum(nodes, id, i)]
  BY <1>1 DEF SumSeries, SampledSum, SampledAt
<1>5. \A i \in 1..6 : UsedSum(nodes, id) = SampledSum(nodes, id, i)
  <2> HIDE DEF nodes
  <2> QED BY <1>2, EqualSums
<1> QED BY <1>1, <1>3, <1>4, <1>5

Deviant(used, sum) == Abs(used - sum) > Threshold(used, sum)

\* With counters that stand still the traffic rules fail exactly if these deviate: no
\* delta of the master is positive, and a deviation lasts for all six samples.
LEMMA StandingCounters ==
  ASSUME NEW used \in Nat, NEW sum, NEW id
  PROVE  LET said == ClientTrafficFindings([i \in 1..6 |-> used], [i \in 1..6 |-> sum], id)
         IN (\E f \in said : f.status = "FAIL") <=> Deviant(used, sum)
<1> DEFINE a == [i \in 1..6 |-> used]
           b == [i \in 1..6 |-> sum]
           said == ClientTrafficFindings(a, b, id)
           persistent == \E i \in 1..4 : \A j \in i..(i + 2) : Deviates(a, b, j)
           warned == \E i \in 1..6 : Deviates(a, b, i)
           F(rule, status) == Finding(rule, status, id)
<1>1. /\ Len(a) = 6 /\ \A i \in 1..6 : a[i] = used
      /\ Len(b) = 6 /\ \A i \in 1..6 : b[i] = sum
  BY SixEqual
<1> HIDE DEF a, b
<1>2. Smaller(Len(a), Len(b)) = 6
  BY <1>1 DEF Smaller
<1>3. ~RepeatedMasterDelta(a, b, 6)
  <2>1. ASSUME NEW start \in 1..(6 - 3) PROVE ~(a[start + 1] - a[start] > 0)
    <3>1. a[start + 1] = used /\ a[start] = used
      BY <1>1
    <3> QED BY <3>1
  <2> QED BY <2>1 DEF RepeatedMasterDelta
<1>4. \A i \in 1..6 : Deviates(a, b, i) <=> Deviant(used, sum)
  BY <1>1 DEF Deviates, Deviant
<1>5. persistent <=> Deviant(used, sum)
  <2>1. \A i \in 1..4 : \A j \in i..(i + 2) : j \in 1..6
    OBVIOUS
  <2>2. Deviant(used, sum) => persistent
    <3>1. 1 \in 1..4
      OBVIOUS
    <3> QED BY <1>4, <2>1, <3>1
  <2>3. persistent => Deviant(used, sum)
    <3>1. \A i \in 1..4 : i \in i..(i + 2)
      OBVIOUS
    <3> QED BY <1>4, <2>1, <3>1
  <2> QED BY <2>2, <2>3
<1>6. said = When(warned, {F("TRAFFIC-002", "WARN")}) \cup When(persistent, {F("TRAFFIC-002", "FAIL")})
  <2>1. 6 >= 4 /\ 6 - 2 = 4
    OBVIOUS
  <2> QED BY <1>2, <1>3, <2>1 DEF ClientTrafficFindings, When
<1>7. \A rule, status : F(rule, status).status = status
  BY DEF Finding
<1> HIDE DEF persistent, warned, F
<1>8. (\E f \in said : f.status = "FAIL") <=> persistent
  BY <1>6, <1>7 DEF When
<1> QED BY <1>5, <1>8 DEF a, b

\* The client as the snapshot holds it.
Kept(p, c) ==
  [id |-> c.id, enabled |-> c.enabled, total |-> c.total, expiry |-> c.expiry,
   inbounds |-> {Alias(p, in) : in \in {i \in Listed(p, "inbounds") : i.id \in c.inbounds}}]

LEMMA SnapshotClients ==
  \A p \in Panels :
    /\ Snapshot[p].clients = {Kept(p, c) : c \in Listed(p, "clients")}
    /\ Snapshot[p].inbounds =
         {[alias |-> Alias(p, in),
           origin |-> IF in.origin = NoGUID THEN ExpectedGUID[p] ELSE in.origin] :
             in \in Listed(p, "inbounds")}
BY DEF Snapshot, Kept

\* The aliases of a client's inbounds tell whether all of them are on nodes.
LEMMA NodeOnlyExact ==
  ASSUME AllAnswered, NEW c
  PROVE  IsNodeOnlyClient(Kept(Master, c), Snapshot[Master]) <=> OnNodesOnly(c)
<1> DEFINE theirs == Answers(Master).inbounds
           own == {in \in theirs : in.id \in c.inbounds}
           Origin(in) == IF in.origin = NoGUID THEN ExpectedGUID[Master] ELSE in.origin
           Seen(in) == [alias |-> Alias(Master, in), origin |-> Origin(in)]
<1>1. Listed(Master, "inbounds") = theirs
  BY AnswersKnown, OneMaster DEF AllAnswered
<1>2. /\ Kept(Master, c).inbounds = {Alias(Master, in) : in \in own}
      /\ Snapshot[Master].inbounds = {Seen(in) : in \in theirs}
      /\ Snapshot[Master].guid = ExpectedGUID[Master]
  BY <1>1, SnapshotClients, SnapshotSeries, OneMaster DEF Kept
<1>3. \A in, other : Alias(Master, in) = Alias(Master, other) => Origin(in) = Origin(other)
  BY DEF Alias, InboundIdentity
<1>4. \A in : /\ Seen(in).alias = Alias(Master, in) /\ Seen(in).origin = Origin(in)
              /\ Origin(in) # ExpectedGUID[Master] <=> in.origin \notin {NoGUID, ExpectedGUID[Master]}
  OBVIOUS
<1> HIDE DEF Origin, Seen, theirs
<1>5. IsNodeOnlyClient(Kept(Master, c), Snapshot[Master]) <=>
        own # {} /\ \A in \in own : \E other \in theirs :
          Alias(Master, other) = Alias(Master, in) /\ Origin(other) # ExpectedGUID[Master]
  <2> HIDE DEF own
  <2>1. IsNodeOnlyClient(Kept(Master, c), Snapshot[Master]) <=>
          /\ {Alias(Master, in) : in \in own} # {}
          /\ \A alias \in {Alias(Master, in) : in \in own} :
               \E r \in {Seen(in) : in \in theirs} :
                 r.alias = alias /\ r.origin # ExpectedGUID[Master]
    BY <1>2 DEF IsNodeOnlyClient
  <2>2. \A alias : (\E r \in {Seen(in) : in \in theirs} :
                      r.alias = alias /\ r.origin # ExpectedGUID[Master])
                   <=> \E other \in theirs :
                         Alias(Master, other) = alias /\ Origin(other) # ExpectedGUID[Master]
    BY <1>4
  <2> QED BY <2>1, <2>2
<1>6. OnNodesOnly(c) <=> own # {} /\ \A in \in own : Origin(in) # ExpectedGUID[Master]
  BY <1>4 DEF OnNodesOnly, theirs
<1> QED BY <1>3, <1>5, <1>6

\* The clients whose counters the pack compares.
LEMMA ComparedExact ==
  ASSUME TypeInv, AllAnswered, FullySampled
  PROVE  ComparedClients(Snapshot, Master) =
           {c.id : c \in {d \in Answers(Master).clients : OnNodesOnly(d) /\ NodesWith(d.id) # {}}}
<1> DEFINE clients == Answers(Master).clients
           watched == {d \in clients : OnNodesOnly(d) /\ NodesWith(d.id) # {}}
<1>1. /\ Snapshot[Master].clients = {Kept(Master, c) : c \in clients}
      /\ DOMAIN Snapshot[Master].traffic = {c.id : c \in clients}
      /\ Snapshot[Master].traffic = TrafficSeries(Master)
  BY AnswersKnown, SnapshotClients, SnapshotSeries, FullSeries, OneMaster DEF AllAnswered
<1>2. ASSUME NEW c \in clients
      PROVE  Len(Snapshot[Master].traffic[c.id]) = 6 /\ Kept(Master, c).id = c.id
  <2>1. TrafficSeries(Master)[c.id] = [i \in 1..6 |-> Sample(c)]
    BY FullSeries, OneMaster
  <2>2. Snapshot[Master].traffic[c.id] = [i \in 1..6 |-> Sample(c)]
    BY <1>1, <2>1, Zenon
  <2> QED BY <2>2, SixEqual DEF Kept
<1>3. \A c \in clients : NodesWith(c.id) # {} => NodeSeries(Snapshot, c.id) # {}
  BY SumsStandStill
<1>4. \A c \in clients : NodeSeries(Snapshot, c.id) # {} => NodesWith(c.id) # {}
  <2> TAKE c \in clients
  <2> HAVE NodeSeries(Snapshot, c.id) # {}
  <2>1. PICK p \in Panels : Snapshot[p].role = "node" /\ c.id \in DOMAIN Snapshot[p].traffic
    BY SnapshotSeries DEF NodeSeries
  <2>2. p \in Children /\ Snapshot[p].traffic = TrafficSeries(p)
    BY <2>1, SnapshotSeries DEF Children
  <2>3. c.id \in {d.id : d \in Answers(p).clients}
    BY <2>1, <2>2, FullSeries
  <2> QED BY <2>2, <2>3 DEF NodesWith
<1>5. \A c \in clients : IsNodeOnlyClient(Kept(Master, c), Snapshot[Master]) <=> OnNodesOnly(c)
  BY NodeOnlyExact
<1>6. \A c, d \in clients : c.id = d.id => c = d
  BY ClientsAssumption, OneMaster DEF TypeInv, DataTyped, Answers, Job
<1>7. ASSUME NEW id
      PROVE  id \in ComparedClients(Snapshot, Master) <=>
               \E c \in clients : /\ c.id = id /\ OnNodesOnly(c) /\ NodesWith(c.id) # {}
  <2> HIDE DEF clients
  <2>1. id \in ComparedClients(Snapshot, Master) <=>
          /\ id \in {c.id : c \in clients}
          /\ \E c \in clients : Kept(Master, c).id = id
                                  /\ IsNodeOnlyClient(Kept(Master, c), Snapshot[Master])
          /\ Len(Snapshot[Master].traffic[id]) >= 4
          /\ NodeSeries(Snapshot, id) # {}
    BY <1>1 DEF ComparedClients
  <2>2. ASSUME NEW c \in clients, c.id = id, OnNodesOnly(c), NodesWith(c.id) # {}
        PROVE  id \in ComparedClients(Snapshot, Master)
    <3>1. Len(Snapshot[Master].traffic[id]) >= 4 /\ NodeSeries(Snapshot, id) # {}
      BY <1>2, <1>3, <2>2
    <3>2. Kept(Master, c).id = id /\ IsNodeOnlyClient(Kept(Master, c), Snapshot[Master])
      BY <1>2, <1>5, <2>2
    <3> QED BY <2>1, <2>2, <3>1, <3>2
  <2>3. ASSUME id \in ComparedClients(Snapshot, Master)
        PROVE  \E c \in clients : /\ c.id = id /\ OnNodesOnly(c) /\ NodesWith(c.id) # {}
    <3>1. PICK c \in clients : Kept(Master, c).id = id
                                 /\ IsNodeOnlyClient(Kept(Master, c), Snapshot[Master])
      BY <2>1, <2>3
    <3>2. c.id = id /\ OnNodesOnly(c) /\ NodesWith(c.id) # {}
      BY <1>2, <1>4, <1>5, <2>1, <2>3, <3>1
    <3> QED BY <3>2
  <2> QED BY <2>2, <2>3
<1> HIDE DEF clients
<1>8. ComparedClients(Snapshot, Master) = {c.id : c \in watched}
  BY <1>7
<1> QED BY <1>8 DEF clients

\* The traffic rules are exact: they fail if and only if the counters of a client that
\* is on nodes only deviate from the sum of the nodes' counters.
LEMMA CountersExact ==
  ASSUME TypeInv, AllAnswered, FullySampled
  PROVE  (\E f \in EvaluateTraffic(Snapshot) : f.status = "FAIL") <=> ~CountersAgree
<1> HIDE DEF Snapshot
<1> DEFINE watched == {d \in Answers(Master).clients : OnNodesOnly(d) /\ NodesWith(d.id) # {}}
           compared == ComparedClients(Snapshot, Master)
           Found(id) == ClientTrafficFindings(UsedSeries(Snapshot[Master].traffic, id),
                                              SumSeries(Snapshot, id), id)
           unknown == {Finding(rule, "UNKNOWN", "") : rule \in {"TRAFFIC-001", "TRAFFIC-002"}}
<1>1. compared = {c.id : c \in watched}
  BY ComparedExact
<1>2. (CHOOSE p \in DOMAIN Snapshot : Snapshot[p].role = "master") = Master
  BY SnapshotSeries, OneMaster
<1>3. EvaluateTraffic(Snapshot)
        = When(\E p \in DOMAIN Snapshot : Snapshot[p].role = "node",
               IF compared = {} THEN unknown ELSE UNION {Found(id) : id \in compared})
  BY <1>2 DEF EvaluateTraffic
<1>4. compared # {} => \E p \in DOMAIN Snapshot : Snapshot[p].role = "node"
  <2>1. ASSUME NEW id, NodesWith(id) # {} PROVE \E p \in DOMAIN Snapshot : Snapshot[p].role = "node"
    BY <2>1, SnapshotSeries DEF NodesWith, Children
  <2> QED BY <1>1, <2>1
<1>5. ASSUME NEW c \in watched
      PROVE  (\E f \in Found(c.id) : f.status = "FAIL") <=> Deviant(c.used, UsedSum(NodesWith(c.id), c.id))
  <2>1. c \in Answers(Master).clients /\ c.used \in Nat
    BY ClientsAssumption, OneMaster DEF TypeInv, DataTyped, Answers, Job
  <2>2. Snapshot[Master].traffic[c.id] = [i \in 1..6 |-> Sample(c)]
    <3>1. TrafficSeries(Master)[c.id] = [i \in 1..6 |-> Sample(c)]
      BY <2>1, FullSeries, OneMaster
    <3>2. Snapshot[Master].traffic = TrafficSeries(Master)
      BY SnapshotSeries, OneMaster
    <3> QED BY <3>1, <3>2, Zenon
  <2>3. UsedSeries(Snapshot[Master].traffic, c.id) = [i \in 1..6 |-> c.used]
    <3>1. /\ Len(Snapshot[Master].traffic[c.id]) = 6
          /\ \A i \in 1..6 : Snapshot[Master].traffic[c.id][i].used = c.used
      BY <2>2, SixEqual DEF Sample
    <3> QED BY <3>1 DEF UsedSeries
  <2>4. SumSeries(Snapshot, c.id) = [i \in 1..6 |-> UsedSum(NodesWith(c.id), c.id)]
    BY SumsStandStill
  <2>5. Found(c.id) = ClientTrafficFindings([i \in 1..6 |-> c.used],
                                            [i \in 1..6 |-> UsedSum(NodesWith(c.id), c.id)], c.id)
    BY <2>3, <2>4, Zenon
  <2> DEFINE sum == UsedSum(NodesWith(c.id), c.id)
             said == ClientTrafficFindings([i \in 1..6 |-> c.used], [i \in 1..6 |-> sum], c.id)
  <2>6. (\E f \in said : f.status = "FAIL") <=> Deviant(c.used, sum)
    <3> HIDE DEF sum
    <3> QED BY <2>1, StandingCounters
  <2> QED BY <2>5, <2>6, Zenon
<1>6. CountersAgree <=> \A c \in watched : ~Deviant(c.used, UsedSum(NodesWith(c.id), c.id))
  BY DEF CountersAgree, Deviant, UsedSum
<1>7. \A f \in unknown : f.status # "FAIL"
  <2>1. \A rule : Finding(rule, "UNKNOWN", "").status = "UNKNOWN"
    BY DEF Finding
  <2> QED BY <2>1
<1> HIDE DEF Found, watched, compared, unknown
<1>8. (\E f \in EvaluateTraffic(Snapshot) : f.status = "FAIL") <=>
        \E id \in compared : \E f \in Found(id) : f.status = "FAIL"
  BY <1>3, <1>4, <1>7 DEF When
<1> QED BY <1>1, <1>5, <1>6, <1>8

-----------------------------------------------------------------------------
(* The verdict *)

\* What can fail: an observation that blocks, a subscription, the traffic, a limit.
LEMMA FailuresAre ==
  Verdict = "BLOCKED" <=>
    \/ \E p \in Panels : \E o \in obs[p] : o.sev = "blocking"
    \/ \E f \in EvaluateSubscriptions(Snapshot) : f.status = "FAIL"
    \/ \E f \in EvaluateTraffic(Snapshot) : f.status = "FAIL"
    \/ \E f \in EvaluateLimits(Snapshot, Job.finishedAt) : f.status = "FAIL"
<1> HIDE DEF Snapshot
<1> DEFINE noted == UNION {{FromObservation(o) : o \in Snapshot[p].obs} : p \in DOMAIN Snapshot}
           versions == EvaluateVersionSupport(Snapshot)
           evidence == EvaluateConfigEvidence(Snapshot)
           subscriptions == EvaluateSubscriptions(Snapshot)
           flows == EvaluateTraffic(Snapshot)
           limits == EvaluateLimits(Snapshot, Job.finishedAt)
           found == noted \cup versions \cup evidence \cup subscriptions \cup flows \cup limits
           passed == {Finding(rule, "PASS", "") : rule \in {r \in RuleOrder : ~\E f \in found : f.rule = r}}
           Fails(S) == \E f \in S : f.status = "FAIL"
<1>1. Result = found \cup passed
  BY DEF Result, Evaluate
<1>2. Fails(noted) <=> \E p \in Panels : \E o \in obs[p] : o.sev = "blocking"
  <2>1. \A o : FromObservation(o).status = "FAIL" <=> o.sev = "blocking"
    BY DEF FromObservation, Finding, StatusOf
  <2>2. DOMAIN Snapshot = Panels /\ \A p \in Panels : Snapshot[p].obs = obs[p]
    BY DEF Snapshot
  <2>3. \A f : f \in noted <=> \E p \in Panels : \E o \in obs[p] : f = FromObservation(o)
    BY <2>2
  <2> HIDE DEF noted
  <2> QED BY <2>1, <2>3
<1>3. ~Fails(versions) /\ ~Fails(evidence) /\ ~Fails(passed)
  <2>1. \A rule, subject : /\ Finding(rule, "UNKNOWN", subject).status = "UNKNOWN"
                           /\ Finding(rule, "PASS", subject).status = "PASS"
    BY DEF Finding
  <2> HIDE DEF found
  <2>2. ~Fails(versions)
    BY <2>1 DEF EvaluateVersionSupport
  <2>3. ~Fails(evidence)
    BY <2>1 DEF EvaluateConfigEvidence
  <2>4. ~Fails(passed)
    BY <2>1
  <2> QED BY <2>2, <2>3, <2>4
<1>4. Verdict = "BLOCKED" <=> Fails(Result)
  BY DEF Verdict, Readiness
<1> HIDE DEF noted, versions, evidence, subscriptions, flows, limits, passed
<1>5. Fails(Result) <=> Fails(noted) \/ Fails(subscriptions) \/ Fails(flows) \/ Fails(limits)
  BY <1>1, <1>3
<1> QED BY <1>2, <1>4, <1>5 DEF subscriptions, flows, limits

\* All panels judged: what is true of them when nothing blocks or is inconclusive.
LEMMA SoundPanels ==
  ASSUME AllAnswered, ReadingPlaced, Judged, phase = "done",
         \A p \in Panels : \A o \in obs[p] : o.sev \notin {"blocking", "inconclusive"}
  PROVE  ClusterAgrees /\ ConfigurationsSound /\ VersionsRight /\ FullyKnown
<1> USE DEF AllAnswered
<1>1. ConfigurationsSound /\ \A p \in Panels : \A in \in Answers(p).inbounds :
                               in.proto \in KnownProtocols /\ in.transport \in KnownTransports
  <2> SUFFICES ASSUME NEW p \in Panels
               PROVE  /\ ~Answers(p).missingOps
                      /\ \A in \in Answers(p).inbounds :
                           /\ InboundSound(in, Answers(p).inbounds, Answers(p).generated)
                           /\ in.proto \in KnownProtocols /\ in.transport \in KnownTransports
    BY DEF ConfigurationsSound
  <2>1. /\ Listed(p, "inbounds") = Answers(p).inbounds /\ Generated(p) = Answers(p).generated
        /\ {"openapi", "config", "clients"} \subseteq got[p]
    BY AnswersKnown
  <2>2. ConfigObservations(Answers(p).inbounds, Answers(p).generated) \subseteq obs[p]
    BY <2>1 DEF Judged, ConfigurationJudged, Through
  <2>3. ASSUME NEW in \in Answers(p).inbounds
        PROVE  /\ InboundSound(in, Answers(p).inbounds, Answers(p).generated)
               /\ in.proto \in KnownProtocols \cup {""} /\ in.transport \in KnownTransports
    <3> DEFINE said == ConfigObservations(Answers(p).inbounds, Answers(p).generated)
    <3>1. ~(\E o \in said : o.sev = "blocking") /\ ~(\E o \in said : o.sev = "inconclusive")
      BY <2>2
    <3>2. /\ (\E o \in said : o.sev = "blocking") <=>
               \E i \in Answers(p).inbounds :
                 ~InboundSound(i, Answers(p).inbounds, Answers(p).generated)
          /\ (\E o \in said : o.sev = "inconclusive") <=>
               \E i \in Answers(p).inbounds : \/ i.proto \notin KnownProtocols \cup {""}
                                              \/ i.transport \notin KnownTransports
      BY ConfigurationExact
    <3> HIDE DEF said
    <3> QED BY <3>1, <3>2
  <2>4. \A in : InboundSound(in, Answers(p).inbounds, Answers(p).generated) => in.proto # ""
    BY DEF InboundSound
  <2>5. ~Answers(p).missingOps
    <3>1. MissingOperations(p) \subseteq obs[p]
      BY DEF Judged, OperationsJudged, ReadingPlaced
    <3>2. Answers(p).missingOps => \E o \in MissingOperations(p) : o.sev = "blocking"
      BY <2>1 DEF MissingOperations, When, Obs
    <3> QED BY <3>1, <3>2
  <2> QED BY <2>3, <2>4, <2>5
<1>2. \A p \in Panels : Reconciled[p] \subseteq obs[p]
  BY DEF Judged, TopologyJudged
<1>3. /\ ClusterAgrees
      /\ Job.command = "verify" => \A p \in Panels : Answers(p).version = Job.target
  BY <1>2, TopologyExact
<1>4. \A node \in Answers(Master).nodes : node.online /\ \E c \in Children : MasterNodeGUID[c] = node.guid
  BY <1>2, TopologyExact, OneMaster
<1>5. VersionsRight
  BY <1>3, AnswersKnown DEF VersionsRight, Supported
<1> QED BY <1>1, <1>3, <1>4, <1>5 DEF FullyKnown

\* The invariants suffice: READY leaves no finding that fails or is unknown, and each
\* rule is exact about what the panels answered.
LEMMA ReadyIsTrueInvariant ==
  ASSUME TypeInv, NoSilentGap, ReadingPlaced, SamplesAccounted, Judged
  PROVE  ReadyIsTrue
<1> SUFFICES ASSUME phase = "done", Verdict = "READY" PROVE Healthy /\ FullyKnown
  BY DEF ReadyIsTrue
<1>1. AllAnswered /\ \A p \in Panels : traffic[p] = TrafficSamples
  BY ReadyIsBackedInvariant DEF ReadyIsBacked, AllAnswered
<1>2. FullySampled
  BY <1>1, AnswersKnown DEF AllAnswered, FullySampled
<1>3. \A p \in Panels : \A o \in obs[p] : o.sev \notin {"blocking", "inconclusive"}
  BY ReadyNothingSaid DEF Said
<1>4. ClusterAgrees /\ ConfigurationsSound /\ VersionsRight /\ FullyKnown
  BY <1>1, <1>3, SoundPanels
<1>5. Verdict # "BLOCKED"
  OBVIOUS
<1>6. LimitsKept
  BY <1>2, <1>5, FailuresAre, LimitsExact
<1>7. CountersAgree
  BY <1>1, <1>2, <1>5, FailuresAre, CountersExact
<1> QED BY <1>4, <1>6, <1>7 DEF Healthy

\* READY is true of the panels (internal/collect, internal/rules): for every cluster
\* and every run, whatever fails, is lost or is cancelled on the way, a READY verdict
\* means that the panels agree, every configuration is sound and known to Doctor, the
\* versions are right, and no limit and no counter is off.
THEOREM ReadyIsTrueOfPanels == Spec => []ReadyIsTrue
<1> DEFINE IInv == TypeInv /\ NoSilentGap /\ ReadingPlaced /\ SamplesAccounted /\ Judged
<1>1. Init => IInv
  <2>1. Init => NoSilentGap
    BY DEF Init, NoSilentGap, ReadsBefore
  <2> QED BY <2>1, TypeInvInit, ReadingPlacedInit, SamplesAccountedInit, JudgedInit
<1>2. IInv /\ [Next]_vars => IInv'
  BY TypeInvNext, NoSilentGapNext, ReadingPlacedNext, SamplesAccountedNext, JudgedNext
<1>3. IInv => ReadyIsTrue
  BY ReadyIsTrueInvariant
<1> HIDE DEF IInv
<1> QED BY <1>1, <1>2, <1>3, PTL DEF Spec

-----------------------------------------------------------------------------
(* An untroubled run *)

\* No read has failed, and nobody has cancelled the run.
Untroubled == faults = 0 /\ ~cancelled

\* What may be concluded of a panel so far.
Concluded(p) ==
  When(next[p] \notin {"openapi", "update", "status"}, MissingOperations(p))
  \cup When(Through(p) /\ Supported(p), ConfigObservations(Listed(p, "inbounds"), Generated(p)))
  \cup When(phase # "collect", Reconciled[p])

Late == {"config", "inbounds", "clients", "settings", "nodes"}

\* Only a supported panel is read past its status.
GateKept == \A p \in Panels : next[p] \in Late \/ got[p] \cap Late # {} => Supported(p)

\* What is recorded of a subscription at a URI nothing is asked at.
NoOrigin == "invalid_subscription_origin"

\* An untroubled run says nothing but what it concludes, except that a status is
\* unavailable, and parses every subscription it asks for.
NothingElseSaid ==
  Untroubled => \A p \in Panels : /\ obs[p] \subseteq Concluded(p) \cup {StatusUnavailable(p)}
                                  /\ \A s \in subs[p] : s.code \in {"", NoOrigin}

LEMMA UntroubledInit == Init => GateKept /\ NothingElseSaid
BY DEF Init, GateKept, Late, NothingElseSaid

\* A run that is untroubled was so before, and its reads succeed.
LEMMA UntroubledBefore ==
  ASSUME TypeInv, [Next]_vars, Untroubled'
  PROVE  /\ Untroubled
         /\ \A outcome : Suffer(outcome) => outcome = "ok"
<1> USE DEF TypeInv, DataTyped
<1>1. faults \in Nat /\ faults <= faults' /\ (cancelled => cancelled')
  BY FaultsTyped, FaultsAssumption
<1>2. faults = 0 /\ ~cancelled
  BY <1>1 DEF Untroubled
<1> QED BY <1>2 DEF Untroubled, Suffer, Spend

\* Every step preserves GateKept: the gate lets only supported panels through, and a
\* version once read is not read again.
LEMMA GateKeptNext ==
  ASSUME TypeInv, GateKept, [Next]_vars
  PROVE  GateKept'
<1> USE DEF TypeInv, DataTyped
<1>1. ASSUME NEW p \in Panels, next'[p] = next[p], got'[p] = got[p]
      PROVE  next'[p] \in Late \/ got'[p] \cap Late # {} => Supported(p)'
  BY <1>1, ReadingSteps, SupportedKept DEF GateKept
<1>2. CASE UNCHANGED <<next, got>>
  BY <1>1, <1>2 DEF GateKept
<1>3. ASSUME NEW p \in Panels, Read(p) \/ ReadStatus(p) \/ NullStatus(p) \/ StatusInterrupted(p)
      PROVE  GateKept'
  <2>1. \A q \in Panels \ {p} : next'[q] = next[q] /\ got'[q] = got[q]
    BY <1>3, ReadingEffect
  <2>2. next'[p] \in Late \/ got'[p] \cap Late # {} => Supported(p)'
    <3>1. CASE Read(p)
      <4>1. next[p] \in Reads \ {"status"} /\ next'[p] = After(p, next[p])
            /\ got'[p] \in {got[p], got[p] \cup {next[p]}}
        BY <3>1 DEF Read
      <4>2. CASE next[p] \in {"openapi", "update"}
        <5>1. next'[p] \notin Late /\ (got'[p] \cap Late # {} => got[p] \cap Late # {})
          BY <4>1, <4>2 DEF After, Late
        <5>2. got[p] \cap Late # {} => "update" \in got[p] /\ Supported(p)
          BY DEF GateKept, Supported, Version, NoVersion, SupportedVersions
        <5>3. got[p] \cap Late # {} => Supported(p)'
          BY <4>1, <4>2, <5>2, ReadingSteps, SupportedKept
        <5> QED BY <5>1, <5>3
      <4>3. CASE next[p] \in Late
        <5>1. Supported(p)' = Supported(p)
          BY <4>1, <4>3, ReadingSteps, SupportedKept DEF Late
        <5> QED BY <4>3, <5>1 DEF GateKept
      <4> QED BY <4>1, <4>2, <4>3 DEF Reads, Late
    <3>2. CASE ReadStatus(p) \/ NullStatus(p) \/ StatusInterrupted(p)
      <4>1. got'[p] \in {got[p], got[p] \cup {"status"}}
        BY <3>2 DEF ReadStatus, NullStatus, StatusInterrupted
      <4>2. next'[p] = next[p] \/ next'[p] = Gate(p)
        BY <3>2 DEF ReadStatus, NullStatus, StatusInterrupted, EndStatus
      <4>3. Supported(p)' = Supported(p)
        BY <4>1, ReadingSteps, SupportedKept
      <4> QED BY <4>1, <4>2, <4>3 DEF GateKept, Gate, Late
    <3> QED BY <1>3, <3>1, <3>2
  <2> QED BY <1>1, <2>1, <2>2 DEF GateKept
<1> QED BY <1>2, <1>3, ReadingSteps

\* What was concluded stays concluded.
LEMMA ConcludedKept ==
  ASSUME TypeInv, [Next]_vars, NEW p \in Panels
  PROVE  Concluded(p) \subseteq Concluded(p)'
<1> USE DEF TypeInv, DataTyped
<1>1. phase # "collect" => phase' # "collect"
  BY PhaseStep DEF Accounting
<1>2. Through(p) => Through(p)'
  <2> SUFFICES ASSUME phase = "collect", phase' = "collect", pc[p] \in {"idle", "leaving"}
               PROVE  pc'[p] \in {"idle", "leaving"}
    BY <1>1 DEF Through
  <2> QED BY StepKinds DEF Accounting, Acquire, Return, Leave
<1>3. ASSUME UNCHANGED <<world>>, got'[p] = got[p]
      PROVE  /\ MissingOperations(p)' = MissingOperations(p)
             /\ Supported(p)' = Supported(p)
             /\ ConfigObservations(Listed(p, "inbounds"), Generated(p))'
                  = ConfigObservations(Listed(p, "inbounds"), Generated(p))
  <2>1. /\ MissingOperations(p)' = MissingOperations(p)
        /\ Supported(p)' = Supported(p)
    BY <1>3 DEF MissingOperations, Supported, Version, Answers, Job
  <2>2. Listed(p, "inbounds")' = Listed(p, "inbounds") /\ Generated(p)' = Generated(p)
    BY <1>3 DEF Listed, Generated, Answers, Job
  <2> QED BY <2>1, <2>2
<1>4. CASE UNCHANGED <<next, got>>
  <2>1. Reconciled' = Reconciled /\ world' = world
    BY <1>4, ReadingSteps, ConclusionsKept
  <2> QED BY <1>1, <1>2, <1>3, <1>4, <2>1 DEF Concluded, When
<1>5. ASSUME NEW q \in Panels, Read(q) \/ ReadStatus(q) \/ NullStatus(q) \/ StatusInterrupted(q)
      PROVE  Concluded(p) \subseteq Concluded(p)'
  <2>1. /\ phase = "collect" /\ pc[q] = "running" /\ UNCHANGED <<pc, phase, world>>
        /\ p # q => next'[p] = next[p] /\ got'[p] = got[p]
    BY <1>5, ReadingEffect
  <2>2. CASE p # q
    BY <1>2, <1>3, <2>1, <2>2 DEF Concluded, When
  <2>3. CASE p = q
    <3>1. ~Through(p)
      BY <2>1, <2>3 DEF Through
    <3>2. Concluded(p) = When(next[p] \notin {"openapi", "update", "status"}, MissingOperations(p))
      BY <2>1, <3>1 DEF Concluded, When
    <3>3. CASE next[p] \in {"openapi", "update", "status"}
      BY <3>2, <3>3 DEF When
    <3>4. CASE next[p] \notin {"openapi", "update", "status"}
      <4>1. next'[p] \notin {"openapi", "update", "status"}
        BY <1>5, <2>3, <3>4, ReadingEffect
      <4>2. MissingOperations(p)' = MissingOperations(p)
        <5>1. CASE got'[p] = got[p]
          BY <1>3, <2>1, <5>1
        <5>2. CASE got'[p] # got[p]
          <6>1. next[p] \in Reads /\ got'[p] \in {got[p], got[p] \cup {next[p]}}
            BY <1>5, <2>3, <3>4, <5>2, ReadingEffect DEF Reads
          <6> QED BY <2>1, <3>4, <6>1, OperationsKept
        <5> QED BY <5>1, <5>2
      <4> QED BY <3>2, <4>1, <4>2 DEF Concluded, When
    <3> QED BY <3>3, <3>4
  <2> QED BY <2>2, <2>3
<1> QED BY <1>4, <1>5, ReadingSteps

\* What a step of an untroubled run says is concluded, and what it parses is read.
LEMMA UntroubledStep ==
  ASSUME TypeInv, [Next]_vars, Untroubled', NEW p \in Panels
  PROVE  /\ obs'[p] \subseteq obs[p] \cup Concluded(p)' \cup {StatusUnavailable(p)}
         /\ \A s \in subs'[p] \ subs[p] : s.code \in {"", NoOrigin}
<1> USE DEF TypeInv, DataTyped
<1> DEFINE Ok == /\ obs'[p] \subseteq obs[p] \cup Concluded(p)' \cup {StatusUnavailable(p)}
                 /\ \A s \in subs'[p] \ subs[p] : s.code \in {"", NoOrigin}
<1>0. Untroubled /\ \A outcome : Suffer(outcome) => outcome = "ok"
  BY UntroubledBefore
<1>1. CASE UNCHANGED <<obs, subs>>
  BY <1>1
<1>2. ASSUME NEW q \in Panels, NEW S, obs' = [obs EXCEPT ![q] = @ \cup S], UNCHANGED subs,
             S \subseteq Concluded(q)' \cup {StatusUnavailable(q)}
      PROVE  Ok
  BY <1>2
<1>3. ASSUME NEW q \in Panels, Read(q) PROVE Ok
  <2>1. UNCHANGED <<obs, subs>>
    BY <1>0, <1>3 DEF Read
  <2> QED BY <1>1, <2>1
<1>4. ASSUME NEW q \in Panels, NEW seen, EndStatus(q, seen), next[q] = "status",
             got'[q] \in {got[q], got[q] \cup {"status"}}, seen \subseteq {StatusUnavailable(q)}
      PROVE  Ok
  <2>1. /\ next'[q] = Gate(q) /\ UNCHANGED <<world, subs>>
        /\ obs' = [obs EXCEPT ![q] = @ \cup (seen \cup MissingOperations(q))]
    BY <1>4 DEF EndStatus
  <2>2. MissingOperations(q)' = MissingOperations(q)
    BY <1>4, <2>1, OperationsKept DEF Reads
  <2>3. MissingOperations(q)' \subseteq Concluded(q)'
    <3>1. next'[q] \notin {"openapi", "update", "status"}
      BY <2>1 DEF Gate
    <3> QED BY <3>1 DEF Concluded, When
  <2> QED BY <1>2, <1>4, <2>1, <2>2, <2>3
<1>5. ASSUME NEW q \in Panels, ReadStatus(q) PROVE Ok
  <2>1. EndStatus(q, {}) /\ next[q] = "status" /\ got'[q] \in {got[q], got[q] \cup {"status"}}
    <3>1. PICK outcome \in Outcomes("status") :
            /\ Suffer(outcome)
            /\ got' = IF outcome = "ok" THEN [got EXCEPT ![q] = @ \cup {"status"}] ELSE got
            /\ EndStatus(q, When(outcome # "ok", {ReadFailure(q, "status", outcome)}))
      BY <1>5 DEF ReadStatus
    <3>2. outcome = "ok" /\ When(outcome # "ok", {ReadFailure(q, "status", outcome)}) = {}
      BY <1>0, <3>1 DEF When
    <3> QED BY <1>5, <3>1, <3>2 DEF ReadStatus, AtStatus
  <2> QED BY <1>4, <2>1
<1>6. ASSUME NEW q \in Panels, NullStatus(q) PROVE Ok
  <2>1. got' = got /\ next[q] = "status"
        /\ (UNCHANGED <<obs, subs>> \/ EndStatus(q, {StatusUnavailable(q)}))
    BY <1>6 DEF NullStatus, AtStatus
  <2> QED BY <1>1, <1>4, <2>1
<1>7. ASSUME NEW q \in Panels, StatusInterrupted(q) PROVE Ok
  BY <1>0, <1>7 DEF StatusInterrupted, Untroubled
<1>8. ASSUME NEW q \in Panels, FinishPanel(q) PROVE Ok
  <2> DEFINE said == ConfigObservations(Listed(q, "inbounds"), Generated(q))
  <2>1. /\ UNCHANGED <<world, got, subs>> /\ pc'[q] = "leaving"
        /\ obs' = [obs EXCEPT ![q] = @ \cup When(Supported(q), said)]
    BY <1>8 DEF FinishPanel, Return, workVars, Accounting
  <2>2. /\ Supported(q)' = Supported(q)
        /\ Listed(q, "inbounds")' = Listed(q, "inbounds") /\ Generated(q)' = Generated(q)
    BY <2>1, ConclusionsKept
  <2>3. When(Supported(q), said) \subseteq Concluded(q)'
    BY <2>1, <2>2 DEF Concluded, When, Through
  <2> QED BY <1>2, <2>1, <2>3
<1>9. ASSUME NEW q \in Panels, SampleLinks(q) PROVE Ok
  <2>1. PICK x \in samples[q], share \in Outcomes("links"), sub \in Outcomes("links") :
          /\ Spend((IF share = "ok" THEN 0 ELSE 1) + (IF sub = "ok" THEN 0 ELSE 1))
          /\ obs' = [obs EXCEPT ![q] = @ \cup LinkObservations(q, x, {share, sub})]
          /\ subs' = [subs EXCEPT ![q] = @ \cup
                        {SubResult(x, LinkCode({share, sub}), x.client.agree)}]
    BY <1>0, <1>9 DEF SampleLinks, Untroubled
  <2>2. share = "ok" /\ sub = "ok"
    BY <1>0, <2>1 DEF Spend, Untroubled
  <2>3. LinkObservations(q, x, {share, sub}) = {} /\ LinkCode({share, sub}) = ""
    BY <2>2 DEF LinkObservations, LinkCode
  <2>4. obs'[p] = obs[p]
    BY <2>1, <2>3
  <2>5. SubResult(x, LinkCode({share, sub}), x.client.agree).code = ""
    BY <2>3 DEF SubResult
  <2>6. subs'[p] \ subs[p] \subseteq {SubResult(x, LinkCode({share, sub}), x.client.agree)}
    BY <2>1
  <2> QED BY <2>4, <2>5, <2>6
<1>10. ASSUME NEW q \in Panels, CheckExternal(q) PROVE Ok
  <2>1. PICK x, outcome : /\ outcome = "misdirected" \/ Suffer(outcome)
                          /\ UNCHANGED obs
                          /\ subs' = [subs EXCEPT ![q] = @ \cup
                               {SubResult(x.sample, ExternalCode(x.format, outcome), TRUE)}]
    BY <1>10 DEF CheckExternal
  <2> DEFINE result == SubResult(x.sample, ExternalCode(x.format, outcome), TRUE)
  <2>2. ExternalCode(x.format, outcome) \in {"", NoOrigin}
    BY <1>0, <2>1 DEF ExternalCode, NoOrigin
  <2>3. result.code \in {"", NoOrigin}
    BY <2>2 DEF SubResult
  <2>4. subs' = [subs EXCEPT ![q] = @ \cup {result}]
    BY <2>1
  <2> HIDE DEF result
  <2>5. subs'[p] \ subs[p] \subseteq {result}
    BY <2>4
  <2> QED BY <2>1, <2>3, <2>5
<1>11. ASSUME NEW q \in Panels, SampleTraffic(q) PROVE Ok
  <2>1. UNCHANGED <<obs, subs>>
    BY <1>0, <1>11 DEF SampleTraffic
  <2> QED BY <1>1, <2>1
<1>12. CASE Reconcile
  <2>1. /\ UNCHANGED <<world, got, subs>> /\ phase' = "subscribe"
        /\ obs'[p] = obs[p] \cup Reconciled[p]
    BY <1>12 DEF Reconcile, Reconciled
  <2>2. Reconciled' = Reconciled
    BY <2>1, ConclusionsKept
  <2>3. Reconciled[p] \subseteq Concluded(p)'
    BY <2>1, <2>2 DEF Concluded, When
  <2> QED BY <2>1, <2>3
<1>13. ASSUME NEW q \in Panels, Acquire(q) \/ Leave(q) \/ FinishSubscriptions(q) PROVE Ok
  BY <1>1, <1>13 DEF Acquire, Leave, FinishSubscriptions, workVars
<1>14. CASE FinishSubscribe \/ Tick \/ Interrupt \/ FinishSample \/ Cancel \/ Finished
            \/ UNCHANGED vars
  BY <1>1, <1>14 DEF FinishSubscribe, Tick, Interrupt, FinishSample, Cancel, Finished, vars, workVars
<1> QED
  BY <1>3, <1>5, <1>6, <1>7, <1>8, <1>9, <1>10, <1>11, <1>12, <1>13, <1>14
  DEF Next, Goroutine, CollectPanel, CollectSubscriptions, Main

\* Every step preserves NothingElseSaid.
LEMMA NothingElseSaidNext ==
  ASSUME TypeInv, NothingElseSaid, [Next]_vars
  PROVE  NothingElseSaid'
<1> SUFFICES ASSUME Untroubled', NEW p \in Panels
             PROVE  /\ obs'[p] \subseteq Concluded(p)' \cup {StatusUnavailable(p)}
                    /\ \A s \in subs'[p] : s.code \in {"", NoOrigin}
  BY DEF NothingElseSaid, StatusUnavailable
<1>1. /\ obs[p] \subseteq Concluded(p) \cup {StatusUnavailable(p)}
      /\ \A s \in subs[p] : s.code \in {"", NoOrigin}
  BY UntroubledBefore DEF NothingElseSaid
<1> QED BY <1>1, UntroubledStep, ConcludedKept

\* What is concluded is of another rule than a read that failed.
LEMMA ConclusionsAreNotReads ==
  ASSUME NEW p \in Panels
  PROVE  \A o \in Concluded(p) : o.rule # "API-001"
<1>1. \A o \in MissingOperations(p) : o.rule # "API-001"
  BY DEF MissingOperations, When, Obs
<1>2. ASSUME NEW inbounds, NEW generated
      PROVE  \A o \in ConfigObservations(inbounds, generated) : o.rule # "API-001"
  <2>1. ASSUME NEW in PROVE \A o \in GeneratedObservations(in, generated) : o.rule # "API-001"
    BY DEF GeneratedObservations, When, Obs
  <2>2. ASSUME NEW in PROVE \A o \in InboundObservations(in, inbounds) : o.rule # "API-001"
    <3> DEFINE O(rule, kind, sev) == Obs(rule, kind, sev, in.id)
               dangling == \E f \in in.fallbacks : ~FallbackResolves(f, inbounds)
    <3>1. \A rule, kind, sev : O(rule, kind, sev).rule = rule
      BY DEF Obs
    <3>2. InboundObservations(in, inbounds) \subseteq
            {O("CFG-002", "missing_protocol", "blocking"),
             O("CFG-002", "unknown_protocol", "inconclusive"),
             O("CFG-002", "unknown_transport", "inconclusive"),
             O("CFG-001", "unresolved_fallback", "blocking"),
             O("CFG-002", "incomplete_security", "blocking"),
             O("CFG-002", "invalid_flow", "blocking")}
      <4> HIDE DEF dangling
      <4> QED BY DEF InboundObservations, When, dangling
    <3> HIDE DEF O
    <3> QED BY <3>1, <3>2
  <2> QED BY <2>1, <2>2 DEF ConfigObservations
<1>3. \A o \in Reconciled[p] : o.rule # "API-001"
  <2>1. ASSUME NEW node PROVE \A o \in NodeObservations(Work, node) : o.rule # "API-001"
    BY DEF NodeObservations, When, Obs
  <2>2. ASSUME NEW c PROVE \A o \in ConfiguredNodeMissing(Work, c) \cup ObjectObservations(Work, c) :
                             o.rule # "API-001"
    BY DEF ConfiguredNodeMissing, ObjectObservations, When, Obs
  <2>3. \A o \in MasterObservations(Work) : o.rule # "API-001"
    <3>1. CASE ~Work[Master].supported
      BY <3>1 DEF MasterObservations, Obs
    <3>2. CASE Work[Master].supported
      <4>1. \A o \in NodeListObservations(Work) : o.rule # "API-001"
        BY <2>1 DEF NodeListObservations
      <4>2. \A o \in ChildObservations(Work) : o.rule # "API-001"
        BY <2>2 DEF ChildObservations
      <4>3. MasterObservations(Work) = NodeListObservations(Work) \cup ChildObservations(Work)
        BY <3>2 DEF MasterObservations
      <4> QED BY <4>1, <4>2, <4>3
    <3> QED BY <3>1, <3>2
  <2>4. \A o \in TargetObservations(Work, Job.command, Job.target, p) : o.rule # "API-001"
    BY DEF TargetObservations, When, Obs
  <2>5. Reconciled[p] = When(p = Master, MasterObservations(Work))
                        \cup TargetObservations(Work, Job.command, Job.target, p)
    BY DEF Reconciled, ReconcileTopology
  <2> QED BY <2>3, <2>4, <2>5 DEF When
<1> QED BY <1>1, <1>2, <1>3 DEF Concluded, When

-----------------------------------------------------------------------------
(* External subscriptions *)

\* Formats of a panel nothing is asked of, as far as its settings were read.
NotAsked(p) == ExternalFormats(p) \cap Answers(p).misdirected

Told(p) == \E s \in subs[p] : s.code = NoOrigin

\* The external checks are made after the reads, and all of them: one that cannot be
\* made is still due, or recorded, wherever something is or was sampled.
ExternalKept ==
  /\ DOMAIN subs = Panels
  /\ phase = "collect" => \A p \in Panels : subs[p] = {} /\ samples[p] = {} /\ external[p] = {}
  /\ \A p \in Panels : phase # "subscribe" \/ pc[p] \in {"idle", "leaving"} => external[p] = {}
  /\ \A p \in Panels : \A x \in external[p] : x.format \in ExternalFormats(p)
  /\ \A p \in Panels : Told(p) => NotAsked(p) # {}
  /\ \A p \in Panels : samples[p] # {} \/ subs[p] # {} \/ external[p] # {} =>
       \A f \in NotAsked(p) : Told(p) \/ \E x \in external[p] : x.format = f

LEMMA ExternalInit == Init => ExternalKept
BY DEF Init, ExternalKept, Told

\* A panel that has no share of the budget has no samples.
LEMMA NoShareNoSamples ==
  ASSUME world \in DOMAIN Worlds, NEW p \in Panels, NEW S \in Selections(p, 0)
  PROVE  S = {}
<1> DEFINE ranks == {Rank(x) : x \in EligibleCandidates(p)}
<1>1. S \subseteq EligibleCandidates(p) /\ Cardinality(S) = Smaller(0, Cardinality(ranks))
  BY DEF Selections
<1> HIDE DEF ranks
<1>2. IsFiniteSet(S) /\ Cardinality(S) \in Nat
  BY <1>1, EligibleFinite, FS_Subset, FS_CardinalityType
<1>3. Cardinality(S) = 0
  BY <1>1, <1>2 DEF Smaller
<1> QED BY <1>2, <1>3, FS_EmptySet

\* Every step preserves ExternalKept.
LEMMA ExternalNext ==
  ASSUME TypeInv, ExternalKept, [Next]_vars
  PROVE  ExternalKept'
<1> USE DEF TypeInv, Accounting, DataTyped
<1>0. DOMAIN subs = Panels
  BY DEF ExternalKept
<1>1. ASSUME UNCHANGED <<world, got>>, NEW p \in Panels
      PROVE  ExternalFormats(p)' = ExternalFormats(p) /\ NotAsked(p)' = NotAsked(p)
  BY <1>1 DEF ExternalFormats, NotAsked, Answers, Job
<1>2. ASSUME UNCHANGED <<world, got, samples, external, subs, phase>>,
             \A p \in Panels : pc'[p] \in {"idle", "leaving"} =>
               pc[p] \in {"idle", "leaving"} \/ phase # "subscribe" \/ external[p] = {}
      PROVE  ExternalKept'
  BY <1>1, <1>2 DEF ExternalKept, Told
<1>3. CASE phase = "collect" /\ phase' = "collect"
  <2>1. UNCHANGED <<samples, external, subs>>
    <3>1. ASSUME NEW p \in Panels, CollectSubscriptions(p) \/ SampleTraffic(p) PROVE FALSE
      BY <1>3, <3>1 DEF CollectSubscriptions, SampleLinks, CheckExternal, FinishSubscriptions,
                        SampleTraffic, Running
    <3>2. ASSUME NEW p \in Panels, CollectPanel(p) PROVE UNCHANGED <<samples, external, subs>>
      BY <3>2 DEF CollectPanel, Read, ReadStatus, NullStatus, StatusInterrupted, FinishPanel,
                  EndStatus, workVars
    <3> QED BY <1>3, <3>1, <3>2
            DEF Next, Goroutine, Acquire, Leave, Main, Reconcile, FinishSubscribe, Tick, Interrupt,
                FinishSample, Cancel, Finished, vars, workVars
  <2> QED BY <1>3, <2>1 DEF ExternalKept, Told
<1>4. CASE phase = "collect" /\ phase' # "collect"
  <2>1. /\ Reconcile /\ UNCHANGED <<world, got, subs>> /\ phase' = "subscribe"
        /\ pc' = [p \in Panels |-> IF p \in {q \in Panels : budget'[q] > 0} THEN "queued" ELSE "idle"]
        /\ \A p \in Panels : samples'[p] \in Selections(p, budget'[p])
        /\ external' = [p \in Panels |->
              {[format |-> f, sample |-> x] : f \in ExternalFormats(p), x \in samples'[p]}]
        /\ budget' = Budgets
    BY <1>4, ReconcileStep DEF Reconcile, Spawn
  <2>2. \A p \in Panels : subs'[p] = {}
    BY <1>4, <2>1 DEF ExternalKept
  <2>3. ASSUME NEW p \in Panels, pc'[p] \in {"idle", "leaving"} PROVE external'[p] = {}
    <3>1. budget'[p] = 0
      <4>1. budget'[p] \in Nat
        BY <2>1, BudgetsFair
      <4> QED BY <2>1, <2>3, <4>1
    <3>2. samples'[p] = {}
      BY <2>1, <3>1, NoShareNoSamples
    <3> QED BY <2>1, <3>2
  <2>4. ASSUME NEW p \in Panels, NEW x \in external'[p] PROVE x.format \in ExternalFormats(p)'
    BY <1>1, <2>1
  <2>5. ASSUME NEW p \in Panels, samples'[p] # {} \/ external'[p] # {}, NEW f \in NotAsked(p)'
        PROVE  \E x \in external'[p] : x.format = f
    <3>1. f \in ExternalFormats(p)
      BY <1>1, <2>1 DEF NotAsked
    <3>2. PICK y \in samples'[p] : TRUE
      BY <2>1, <2>5
    <3>3. [format |-> f, sample |-> y] \in external'[p]
      BY <2>1, <3>1
    <3> QED BY <3>3
  <2> QED BY <1>4, <2>1, <2>2, <2>3, <2>4, <2>5 DEF ExternalKept, Told
<1>5. CASE phase = "subscribe"
  <2>1. ASSUME NEW p \in Panels, SampleLinks(p) PROVE ExternalKept'
    <3>1. PICK x \in samples[p], share \in Outcomes("links"), sub \in Outcomes("links") :
            /\ samples' = [samples EXCEPT ![p] = @ \ {x}]
            /\ subs' = [subs EXCEPT ![p] = @ \cup
                          {SubResult(x, LinkCode({share, sub}), x.client.agree)}]
            /\ UNCHANGED <<world, got, external, phase, pc>>
      BY <2>1 DEF SampleLinks
    <3> DEFINE result == SubResult(x, LinkCode({share, sub}), x.client.agree)
    <3>2. result.code # NoOrigin
      BY DEF SubResult, LinkCode, NoOrigin
    <3>3. subs' = [subs EXCEPT ![p] = @ \cup {result}]
      BY <3>1
    <3> HIDE DEF result
    <3>4. \A q \in Panels : Told(q)' <=> Told(q)
      BY <1>0, <3>2, <3>3 DEF Told
    <3>5. \A q \in Panels : samples'[q] # {} \/ subs'[q] # {} => samples[q] # {} \/ subs[q] # {}
      BY <1>0, <3>1, <3>3
    <3> QED BY <1>1, <1>5, <3>1, <3>4, <3>5 DEF ExternalKept
  <2>2. ASSUME NEW p \in Panels, CheckExternal(p) PROVE ExternalKept'
    <3>0. PICK x \in external[p] : \E outcome \in ExternalOutcomes(p, x.format) :
            /\ external' = [external EXCEPT ![p] = @ \ {x}]
            /\ subs' = [subs EXCEPT ![p] = @ \cup
                          {SubResult(x.sample, ExternalCode(x.format, outcome), TRUE)}]
            /\ UNCHANGED <<world, got, samples, phase, pc>>
      BY <2>2 DEF CheckExternal
    <3>1. PICK outcome \in ExternalOutcomes(p, x.format) :
            /\ external' = [external EXCEPT ![p] = @ \ {x}]
            /\ subs' = [subs EXCEPT ![p] = @ \cup
                          {SubResult(x.sample, ExternalCode(x.format, outcome), TRUE)}]
            /\ UNCHANGED <<world, got, samples, phase, pc>>
      BY <3>0
    <3> DEFINE result == SubResult(x.sample, ExternalCode(x.format, outcome), TRUE)
    <3>2. result.code = NoOrigin <=> x.format \in Answers(p).misdirected
      BY <3>1 DEF SubResult, ExternalCode, ExternalOutcomes, NoOrigin
    <3>3. subs' = [subs EXCEPT ![p] = @ \cup {result}]
      BY <3>1
    <3> HIDE DEF result
    <3>4. \A q \in Panels : Told(q) => Told(q)'
      BY <3>3 DEF Told
    <3>5. \A q \in Panels : Told(q)' => Told(q) \/ (q = p /\ x.format \in NotAsked(p))
      <4>1. x.format \in ExternalFormats(p)
        BY <3>1 DEF ExternalKept
      <4>2. \A q \in Panels : subs'[q] = IF q = p THEN subs[p] \cup {result} ELSE subs[q]
        BY <1>0, <3>3
      <4> QED BY <3>2, <4>1, <4>2 DEF Told, NotAsked
    <3>6. x.format \in NotAsked(p) => Told(p)'
      <4>1. result \in subs'[p]
        BY <1>0, <3>3
      <4> QED BY <3>2, <4>1 DEF Told, NotAsked
    <3>7. \A q \in Panels : external'[q] \subseteq external[q]
      BY <3>1
    <3>8. ASSUME NEW q \in Panels, NEW y \in external[q], y.format \in NotAsked(q)
          PROVE  Told(q)' \/ y \in external'[q]
      BY <3>1, <3>6, <3>8
    <3>9. \A q \in Panels \ {p} : subs'[q] = subs[q]
      BY <3>1
    <3>10. ASSUME NEW q \in Panels, samples'[q] # {} \/ subs'[q] # {} \/ external'[q] # {},
                  NEW f \in NotAsked(q)
           PROVE  Told(q)' \/ \E y \in external'[q] : y.format = f
      <4>1. samples[q] # {} \/ subs[q] # {} \/ external[q] # {}
        BY <3>1, <3>7, <3>9, <3>10
      <4>2. Told(q) \/ \E y \in external[q] : y.format = f
        BY <3>10, <4>1 DEF ExternalKept
      <4> QED BY <3>4, <3>8, <3>10, <4>2
    <3>11. \A q \in Panels : Told(q)' => NotAsked(q) # {}
      BY <3>5 DEF ExternalKept
    <3>12. /\ \A q \in Panels : phase' # "subscribe" \/ pc'[q] \in {"idle", "leaving"} => external'[q] = {}
           /\ \A q \in Panels : \A y \in external'[q] : y.format \in ExternalFormats(q)
      BY <3>1, <3>7 DEF ExternalKept
    <3>13. DOMAIN subs' = Panels /\ phase' # "collect"
      BY <1>0, <1>5, <3>1
    <3>14. \A q \in Panels : ExternalFormats(q)' = ExternalFormats(q) /\ NotAsked(q)' = NotAsked(q)
      BY <1>1, <3>1
    <3> QED BY <3>10, <3>11, <3>12, <3>13, <3>14 DEF ExternalKept
  <2>3. ASSUME NEW p \in Panels, CollectPanel(p) \/ SampleTraffic(p) PROVE FALSE
    BY <1>5, <2>3 DEF CollectPanel, Read, ReadStatus, NullStatus, StatusInterrupted, FinishPanel,
                      AtStatus, SampleTraffic, Running
  <2>4. ASSUME NEW p \in Panels, FinishSubscriptions(p) \/ Acquire(p) \/ Leave(p)
        PROVE  ExternalKept'
    <3>1. UNCHANGED <<world, got, samples, external, subs, phase>>
      BY <2>4 DEF FinishSubscriptions, Acquire, Leave, workVars
    <3>2. \A q \in Panels : pc'[q] \in {"idle", "leaving"} =>
            pc[q] \in {"idle", "leaving"} \/ external[q] = {}
      BY <2>4 DEF FinishSubscriptions, Acquire, Leave, Return
    <3> QED BY <1>2, <3>1, <3>2
  <2>5. CASE FinishSubscribe
    <3>1. UNCHANGED <<world, got, samples, external, subs, pc>> /\ wg = 0 /\ phase' # "collect"
      BY <2>5 DEF FinishSubscribe, AllDone, workVars
    <3>2. \A p \in Panels : external[p] = {}
      BY <3>1, NobodyActive DEF ExternalKept
    <3> QED BY <1>1, <3>1, <3>2 DEF ExternalKept, Told
  <2>6. CASE Cancel \/ Finished \/ UNCHANGED vars
    BY <1>2, <2>6 DEF Cancel, Finished, vars, workVars
  <2>7. ~Reconcile /\ ~Tick /\ ~Interrupt /\ ~FinishSample
    BY <1>5 DEF Reconcile, Tick, Interrupt, FinishSample
  <2> QED BY <2>1, <2>2, <2>3, <2>4, <2>5, <2>6, <2>7 DEF Next, Goroutine, CollectSubscriptions, Main
<1>6. CASE phase \notin {"collect", "subscribe"}
  <2>1. UNCHANGED <<world, got, samples, external, subs>>
    <3>1. ASSUME NEW p \in Panels, CollectPanel(p) \/ CollectSubscriptions(p) PROVE FALSE
      BY <1>6, <3>1 DEF CollectPanel, Read, ReadStatus, NullStatus, StatusInterrupted, FinishPanel,
                        AtStatus, CollectSubscriptions, SampleLinks, CheckExternal,
                        FinishSubscriptions, Running
    <3>2. ~Reconcile /\ ~FinishSubscribe
      BY <1>6 DEF Reconcile, FinishSubscribe
    <3> QED BY <3>1, <3>2 DEF Next, Goroutine, Acquire, Leave, SampleTraffic, Main, Tick, Interrupt,
                              FinishSample, Cancel, Finished, vars, workVars
  <2>2. phase' # "collect"
    BY <1>6, PhaseStep
  <2>3. \A p \in Panels : external[p] = {}
    BY <1>6 DEF ExternalKept
  <2> QED BY <1>1, <2>1, <2>2, <2>3 DEF ExternalKept, Told
<1> QED BY <1>3, <1>4, <1>5, <1>6

\* With every read answered, what blocks is what is wrong with the panels.
LEMMA AccusedExactly ==
  ASSUME AllAnswered, ReadingPlaced, Judged, GateKept, NothingElseSaid, Untroubled, phase = "done"
  PROVE  (\E p \in Panels : \E o \in obs[p] : o.sev = "blocking") <=>
           ~(ClusterAgrees /\ ConfigurationsSound /\ VersionsRight)
<1> USE DEF AllAnswered
<1> DEFINE Blocks(S) == \E o \in S : o.sev = "blocking"
           Configured(p) == ConfigObservations(Answers(p).inbounds, Answers(p).generated)
<1>1. \A p \in Panels : /\ Listed(p, "inbounds") = Answers(p).inbounds
                        /\ Generated(p) = Answers(p).generated
                        /\ "openapi" \in got[p] /\ Version(p) = Answers(p).version
                        /\ next[p] = "end"
  BY AnswersKnown DEF ReadingPlaced
<1>2. \A p \in Panels : Blocks(MissingOperations(p)) <=> Answers(p).missingOps
  BY <1>1 DEF MissingOperations, When, Obs
<1>3. \A p \in Panels : Blocks(Configured(p)) <=>
        \E in \in Answers(p).inbounds : ~InboundSound(in, Answers(p).inbounds, Answers(p).generated)
  BY ConfigurationExact
<1>4. \A p \in Panels : Blocks(obs[p]) <=>
        Blocks(MissingOperations(p)) \/ Blocks(Configured(p)) \/ Blocks(Reconciled[p])
  <2> TAKE p \in Panels
  <2>1. MissingOperations(p) \cup Configured(p) \cup Reconciled[p] \subseteq obs[p]
    BY <1>1 DEF Judged, OperationsJudged, ConfigurationJudged, TopologyJudged, Through
  <2>2. obs[p] \subseteq MissingOperations(p) \cup Configured(p) \cup Reconciled[p]
                         \cup {StatusUnavailable(p)}
    BY <1>1 DEF NothingElseSaid, Concluded, When, Through
  <2>3. StatusUnavailable(p).sev = "inconclusive"
    BY DEF StatusUnavailable, Obs
  <2> HIDE DEF Configured
  <2> QED BY <2>1, <2>2, <2>3
<1>5. ConfigurationsSound <=>
        \A p \in Panels : ~Blocks(MissingOperations(p)) /\ ~Blocks(Configured(p))
  BY <1>2, <1>3 DEF ConfigurationsSound
<1>6. (\E p \in Panels : Blocks(Reconciled[p])) <=>
        ~ClusterAgrees \/ (Job.command = "verify" /\ \E p \in Panels : Answers(p).version # Job.target)
  BY TopologyExact
<1>7. VersionsRight <=>
        ~(Job.command = "verify" /\ \E p \in Panels : Answers(p).version # Job.target)
  BY <1>1 DEF VersionsRight, Supported
<1> HIDE DEF Blocks, Configured
<1>8. (\E p \in Panels : Blocks(obs[p])) <=>
        \/ \E p \in Panels : Blocks(MissingOperations(p)) \/ Blocks(Configured(p))
        \/ \E p \in Panels : Blocks(Reconciled[p])
  BY <1>4
<1>9. (\E p \in Panels : Blocks(obs[p])) <=> ~(ClusterAgrees /\ ConfigurationsSound /\ VersionsRight)
  BY <1>5, <1>6, <1>7, <1>8
<1> QED BY <1>9 DEF Blocks

\* The invariants suffice: nothing was said that is not so, and nothing that is so
\* went unsaid.
LEMMA BlockedExactlyInvariant ==
  ASSUME TypeInv, ReadingPlaced, SamplesAccounted, Judged, GateKept, NothingElseSaid, ExternalKept
  PROVE  BlockedExactly
<1> SUFFICES ASSUME EvidenceComplete
             PROVE  Verdict = "BLOCKED" <=>
                      \/ ~Healthy
                      \/ \E p \in Panels : \E s \in subs[p] : ~s.agree
                      \/ \E p \in Panels : subs[p] # {} /\ Misdirected(p)
  BY DEF BlockedExactly
<1>1. Untroubled /\ phase = "done" /\ Job.observe
  BY DEF EvidenceComplete, Untroubled
<1>2. AllAnswered
  <2>1. \A p \in Panels : got[p] = ReadsOf(p) /\ "config" \in got[p]
    BY DEF EvidenceComplete, ReadsOf, Reads
  <2> QED BY <2>1 DEF GateKept, Late, AllAnswered
<1>3. \A p \in Panels : traffic[p] = TrafficSamples
  <2> TAKE p \in Panels
  <2>1. TrafficLost(p) \notin Concluded(p) \cup {StatusUnavailable(p)}
    <3>1. TrafficLost(p).rule = "API-001" /\ TrafficLost(p).kind # StatusUnavailable(p).kind
      BY DEF TrafficLost, StatusUnavailable, Obs
    <3> QED BY <3>1, ConclusionsAreNotReads
  <2>2. ~Short(p)
    BY <1>1, <2>1 DEF NothingElseSaid, Short
  <2> QED BY <1>1, <1>2, <2>2 DEF SamplesAccounted, AllAnswered
<1>4. FullySampled
  BY <1>2, <1>3, AnswersKnown DEF AllAnswered, FullySampled
<1>5. \A p \in Panels : Told(p) <=> subs[p] # {} /\ Misdirected(p)
  <2> TAKE p \in Panels
  <2>1. NotAsked(p) = Answers(p).formats \cap Answers(p).misdirected
    BY <1>2 DEF AllAnswered, ReadsOf, Reads, NotAsked, ExternalFormats
  <2>2. external[p] = {}
    BY <1>1 DEF ExternalKept
  <2> QED BY <2>1, <2>2 DEF ExternalKept, Told, Misdirected
<1>6. (\E f \in EvaluateSubscriptions(Snapshot) : f.status = "FAIL") <=>
        \E p \in Panels : Told(p) \/ \E s \in subs[p] : ~s.agree
  <2> DEFINE all == UNION {Snapshot[p].subs : p \in DOMAIN Snapshot}
  <2>1. \A s : s \in all <=> \E p \in Panels : s \in subs[p]
    BY DEF Snapshot
  <2>2. \A s \in all : s.code \in {"", NoOrigin}
    BY <1>1, <2>1 DEF NothingElseSaid
  <2>3. \A rule, status, subject : Finding(rule, status, subject).status = status
    BY DEF Finding
  <2> DEFINE Wrong(s) == s.code = NoOrigin \/ ~s.agree
  <2>4. ASSUME NEW s \in all
        PROVE  (\E f \in SubscriptionFindings(s) : f.status = "FAIL") <=> Wrong(s)
    <3> HIDE DEF all
    <3>1. CASE s.code = ""
      <4>1. SubscriptionFindings(s) = When(~s.agree, {Finding("SUB-003", "FAIL", s.client)})
        BY <3>1 DEF SubscriptionFindings
      <4>2. Wrong(s) <=> ~s.agree
        BY <3>1 DEF NoOrigin
      <4> QED BY <2>3, <4>1, <4>2 DEF When
    <3>2. CASE s.code = NoOrigin
      <4>1. SubscriptionFindings(s) = {Finding("SUB-001", "FAIL", s.client)}
        BY <3>2 DEF SubscriptionFindings, NoOrigin, LostCodes
      <4> QED BY <2>3, <3>2, <4>1
    <3> QED BY <2>2, <3>1, <3>2
  <2> HIDE DEF all, Wrong
  <2>5. EvaluateSubscriptions(Snapshot)
          = IF all = {} THEN {Finding(rule, "UNKNOWN", "") : rule \in {"SUB-001", "SUB-003"}}
            ELSE UNION {SubscriptionFindings(s) : s \in all}
    BY DEF EvaluateSubscriptions, all
  <2>6. (\E f \in EvaluateSubscriptions(Snapshot) : f.status = "FAIL") <=> \E s \in all : Wrong(s)
    <3>1. CASE all = {}
      <4>1. EvaluateSubscriptions(Snapshot)
              = {Finding(rule, "UNKNOWN", "") : rule \in {"SUB-001", "SUB-003"}}
        BY <2>5, <3>1
      <4>2. \A f \in {Finding(rule, "UNKNOWN", "") : rule \in {"SUB-001", "SUB-003"}} : f.status = "UNKNOWN"
        <5>1. \A rule : Finding(rule, "UNKNOWN", "").status = "UNKNOWN"
          BY DEF Finding
        <5> QED BY <5>1
      <4> QED BY <3>1, <4>1, <4>2
    <3>2. CASE all # {}
      <4>1. EvaluateSubscriptions(Snapshot) = UNION {SubscriptionFindings(s) : s \in all}
        BY <2>5, <3>2
      <4> QED BY <2>4, <4>1
    <3> QED BY <3>1, <3>2
  <2> QED BY <2>1, <2>6 DEF Wrong, Told
<1> QED
  BY <1>1, <1>2, <1>4, <1>5, <1>6, FailuresAre, AccusedExactly, LimitsExact, CountersExact DEF Healthy

\* The verdict is exact (internal/collect, internal/rules): for every cluster, a run that
\* lost nothing says BLOCKED if and only if the panels or their counters disagree, a
\* configuration is broken, a version or a limit is off, or a sampled subscription differs
\* or is to be asked for where nothing can be asked.
THEOREM BlockedIsExact == Spec => []BlockedExactly
<1> DEFINE IInv == /\ TypeInv /\ ReadingPlaced /\ SamplesAccounted /\ Judged
                   /\ GateKept /\ NothingElseSaid /\ ExternalKept
<1>1. Init => IInv
  BY TypeInvInit, ReadingPlacedInit, SamplesAccountedInit, JudgedInit, UntroubledInit, ExternalInit
<1>2. IInv /\ [Next]_vars => IInv'
  BY TypeInvNext, ReadingPlacedNext, SamplesAccountedNext, JudgedNext, GateKeptNext,
     NothingElseSaidNext, ExternalNext
<1>3. IInv => BlockedExactly
  BY BlockedExactlyInvariant
<1> HIDE DEF IInv
<1> QED BY <1>1, <1>2, <1>3, PTL DEF Spec
=============================================================================
