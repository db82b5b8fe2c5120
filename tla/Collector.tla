----------------------------- MODULE Collector -----------------------------
(***************************************************************************)
(* internal/collect: one run of Doctor's collector.  The main goroutine    *)
(* reads every panel in goroutines of their own behind a semaphore, waits  *)
(* for them, reconciles the topology, divides the subscription budget and  *)
(* samples subscriptions (again in parallel), then takes five more traffic *)
(* samples, one per interval.  The rule pack evaluates the snapshot.       *)
(*                                                                         *)
(* A panel's answers are those of `world`, chosen once: the configuration  *)
(* of the panels does not change during a run (their traffic counters are  *)
(* the subject of TrafficWindow; here they stand still).  A read may fail  *)
(* in every way the code distinguishes, as often as MaxFaults says; once   *)
(* the run is cancelled every read is lost.                                *)
(***************************************************************************)
EXTENDS Topology, Rules, Sampling

CONSTANTS PanelOrder,        \* the panels' IDs in increasing order
          PanelConcurrency,  \* transport.panel_concurrency
          SampleCap,         \* subscription.sample_cap
          Worlds,            \* function: what the panels may answer, see Job
          MaxFaults,         \* function: bound on the reads that fail in a world
          Cancellable        \* the worlds in which the run may be cancelled

ASSUME PanelOrderAssumption ==
  /\ PanelOrder \in Seq(Panels)
  /\ Panels = {PanelOrder[i] : i \in DOMAIN PanelOrder}
  /\ \A i, j \in DOMAIN PanelOrder : PanelOrder[i] = PanelOrder[j] => i = j
ASSUME ConcurrencyAssumption == PanelConcurrency \in Nat \ {0}
ASSUME CapAssumption == SampleCap \in Nat \ {0}
ASSUME FaultsAssumption == MaxFaults \in [DOMAIN Worlds -> Nat]
ASSUME GraceAssumption == LimitGrace \in Nat

\* A panel knows its clients by their e-mail addresses, the `id` here: the links of
\* one are asked for by it, and the counters of one are kept under it.
ASSUME ClientsAssumption ==
  \A w \in DOMAIN Worlds :
    /\ Worlds[w].finishedAt \in Nat
    /\ \A p \in Panels : \A c, d \in Worlds[w].panel[p].clients :
         /\ c.id = d.id => c = d
         /\ c.used \in Nat /\ c.total \in Int /\ c.expiry \in Int

\* What a panel returns is a list.
ASSUME ListsAssumption ==
  \A w \in DOMAIN Worlds : \A p \in Panels :
    IsFiniteSet(Worlds[w].panel[p].inbounds) /\ IsFiniteSet(Worlds[w].panel[p].clients)

StatusAttempts == 3          \* statusAttempts
TrafficSamples == 5          \* samples after the first observation

VARIABLES world,      \* which of Worlds this run meets
          phase,      \* where the main goroutine is
          tick,       \* traffic samples started
          pc,         \* panel -> state of its goroutine in this phase
          sem,        \* slots of this phase's semaphore in use
          wg,         \* counter of this phase's WaitGroup
          next,       \* panel -> the read it is about to make
          attempt,    \* panel -> status reads that returned null
          got,        \* panel -> reads whose value was kept
          obs,        \* panel -> observations
          budget,     \* panel -> its share of the subscription samples
          samples,    \* panel -> samples of its share not yet taken
          external,   \* panel -> formats of the external checks not yet made
          subs,       \* panel -> subscription observations
          traffic,    \* panel -> later traffic samples received
          cancelled,  \* the context is done
          faults      \* reads that failed while it was not

vars == <<world, phase, tick, pc, sem, wg, next, attempt, got, obs, budget,
          samples, external, subs, traffic, cancelled, faults>>
workVars == <<next, attempt, got, budget, samples, external, subs, traffic>>

Reads == {"openapi", "update", "status", "config", "inbounds", "clients", "settings", "nodes"}

Phases == {"collect", "subscribe", "wait", "sample", "done", "interrupted"}

-----------------------------------------------------------------------------
(* What a panel's goroutine has read so far *)

\* [command, target, observe, finishedAt, panel : panel -> its answers]
Job == Worlds[world]

Answers(p) == Job.panel[p]

\* NoVersion until getPanelUpdateInfo is parsed.
Version(p) == IF "update" \in got[p] THEN Answers(p).version ELSE NoVersion

Supported(p) == Version(p) \in SupportedVersions

Listed(p, read) == When(read \in got[p], Answers(p)[read])

Generated(p) == IF "config" \in got[p] THEN Answers(p).generated ELSE << >>

\* The panel's work record as reconcileTopology sees it.
Work == [p \in Panels |->
  [supported |-> Supported(p), version |-> Version(p),
   xray |-> IF "status" \in got[p] THEN Answers(p).xray ELSE NoVersion,
   nodes |-> Listed(p, "nodes"), inbounds |-> Listed(p, "inbounds"),
   clients |-> Listed(p, "clients")]]

-----------------------------------------------------------------------------
(* Failing reads *)

\* "lost": no answer (refused, timeout, non-2xx status, oversized body);
\* "unsafe": empty body, wrong media type or no envelope; "failure": an
\* envelope with success false; "malformed": anything else the parser rejects.
\* The OpenAPI document has no envelope; a malformed one lacks every operation.
Failures(read) == IF read = "openapi" THEN {"lost", "unsafe"}
                  ELSE {"lost", "unsafe", "failure", "malformed"}

Outcomes(read) == {"ok"} \cup Failures(read)

\* n of the reads made in one step fail.
Spend(n) == /\ faults + n <= MaxFaults[world]
            /\ faults' = faults + n

\* A read ends with this outcome, and the fault it may be is accounted for.
\* Nothing is read through a cancelled context.
Suffer(outcome) ==
  IF cancelled THEN outcome = "lost" /\ UNCHANGED faults
  ELSE IF outcome = "ok" THEN UNCHANGED faults ELSE Spend(1)

\* Mutant: a lost read is only a warning.
ReadFailure_Warns(p, read, outcome) ==
  Obs("API-001", outcome, IF outcome = "lost" THEN "plain" ELSE "blocking", <<p, read>>)

ReadFailure(p, read, outcome) ==
  Obs("API-001", outcome,
      IF outcome \in {"lost", "failure"} THEN "inconclusive" ELSE "blocking", <<p, read>>)

-----------------------------------------------------------------------------
(* The goroutines: every phase spawns them alike *)

Spawn(P) == /\ pc' = [p \in Panels |-> IF p \in P THEN "queued" ELSE "idle"]
            /\ wg' = Cardinality(P)
            /\ sem' = 0

\* Mutant: one slot too many.
SlotFree_OffByOne == sem <= PanelConcurrency

SlotFree == sem < PanelConcurrency

\* Mutant: a wg.Add that comes too late for wg.Wait.
AllDone_Late == wg <= 1

\* wg.Wait returns.
AllDone == wg = 0

Acquire(p) == /\ pc[p] = "queued"
              /\ SlotFree
              /\ pc' = [pc EXCEPT ![p] = "running"]
              /\ sem' = sem + 1
              /\ UNCHANGED <<world, phase, tick, wg, obs, cancelled, faults, workVars>>

\* Mutants: the slot is released twice, or not on this path.
Return_ReleasesTwice(p) == /\ pc' = [pc EXCEPT ![p] = "leaving"]
                           /\ sem' = sem - 2
Return_KeepsSlot(p) == /\ pc' = [pc EXCEPT ![p] = "leaving"]
                       /\ UNCHANGED sem

\* The deferred release of the slot; wg.Done is deferred earlier, so runs later.
Return(p) == /\ pc' = [pc EXCEPT ![p] = "leaving"]
             /\ sem' = sem - 1

Leave(p) == /\ pc[p] = "leaving"
            /\ pc' = [pc EXCEPT ![p] = "idle"]
            /\ wg' = wg - 1
            /\ UNCHANGED <<world, phase, tick, sem, obs, cancelled, faults, workVars>>

Running(p, ph) == phase = ph /\ pc[p] = "running"

-----------------------------------------------------------------------------
(* collectPanel *)

After(p, read) == CASE read = "openapi"  -> "update"
                    [] read = "update"   -> "status"
                    [] read = "config"   -> "inbounds"
                    [] read = "inbounds" -> "clients"
                    [] read = "clients"  -> "settings"
                    [] read = "settings" /\ p = Master -> "nodes"
                    [] OTHER -> "end"

\* The version gate, after the status: API-003 and the early return.
Gate(p) == IF Supported(p) THEN "config" ELSE "end"

MissingOperations(p) ==
  When("openapi" \in got[p] /\ Answers(p).missingOps,
       {Obs("API-003", "required_openapi_operation_missing",
            IF Supported(p) THEN "blocking" ELSE "inconclusive", p)})

Read(p) ==
  /\ Running(p, "collect")
  /\ next[p] \in Reads \ {"status"}
  /\ \E outcome \in Outcomes(next[p]) :
       /\ Suffer(outcome)
       /\ got' = IF outcome = "ok" THEN [got EXCEPT ![p] = @ \cup {next[p]}] ELSE got
       /\ obs' = IF outcome = "ok" THEN obs
                 ELSE [obs EXCEPT ![p] = @ \cup {ReadFailure(p, next[p], outcome)}]
  /\ next' = [next EXCEPT ![p] = After(p, @)]
  /\ UNCHANGED <<world, phase, tick, pc, sem, wg, attempt, budget, samples, external, subs,
                 traffic, cancelled>>

\* Mutant: a status that stays unavailable is only a warning.
StatusUnavailable_Warns(p) == Obs("API-001", "server_status_unavailable", "plain", <<p, "status">>)

StatusUnavailable(p) == Obs("API-001", "server_status_unavailable", "inconclusive", <<p, "status">>)

\* collectStatus ends, leaving `seen` as evidence: the gate follows.
EndStatus(p, seen) ==
  /\ next' = [next EXCEPT ![p] = Gate(p)]
  /\ attempt' = [attempt EXCEPT ![p] = 0]
  /\ obs' = [obs EXCEPT ![p] = @ \cup seen \cup MissingOperations(p)]
  /\ UNCHANGED <<world, phase, tick, pc, sem, wg, budget, samples, external, subs, traffic,
                 cancelled>>

AtStatus(p) == Running(p, "collect") /\ next[p] = "status"

ReadStatus(p) ==
  /\ AtStatus(p)
  /\ \E outcome \in Outcomes("status") :
       /\ Suffer(outcome)
       /\ got' = IF outcome = "ok" THEN [got EXCEPT ![p] = @ \cup {"status"}] ELSE got
       /\ EndStatus(p, When(outcome # "ok", {ReadFailure(p, "status", outcome)}))

\* A null snapshot (the panel's status cache is cold): retry after a delay,
\* give up at the third.
NullStatus(p) ==
  /\ AtStatus(p)
  /\ ~cancelled
  /\ UNCHANGED <<got, faults>>
  /\ IF attempt[p] + 1 < StatusAttempts
     THEN /\ attempt' = [attempt EXCEPT ![p] = @ + 1]
          /\ UNCHANGED <<world, phase, tick, pc, sem, wg, next, obs, budget, samples, external,
                         subs, traffic, cancelled>>
     ELSE EndStatus(p, {StatusUnavailable(p)})

\* The context is done while the retry delay runs.
StatusInterrupted(p) ==
  /\ AtStatus(p)
  /\ attempt[p] > 0 /\ cancelled
  /\ EndStatus(p, {StatusUnavailable(p)})
  /\ UNCHANGED <<got, faults>>

\* The configuration rules are evaluated, and works[i] is assigned.
FinishPanel(p) ==
  /\ Running(p, "collect")
  /\ next[p] = "end"
  /\ Return(p)
  /\ obs' = [obs EXCEPT ![p] = @ \cup When(Supported(p),
               ConfigObservations(Listed(p, "inbounds"), Generated(p)))]
  /\ UNCHANGED <<world, phase, tick, wg, cancelled, faults, workVars>>

-----------------------------------------------------------------------------
(* collectAllSubscriptions and collectSubscriptions *)

\* A client is eligible on every inbound of its own that its panel listed.
Subscribers(p) == {c \in Listed(p, "clients") : c.enabled /\ c.id # "" /\ c.sub # ""}
Candidates(p) == {[client |-> c, inbound |-> in.id] : c \in Subscribers(p), in \in Listed(p, "inbounds")}
EligibleCandidates(p) == {x \in Candidates(p) : x.inbound \in x.client.inbounds}
Eligible(p) == Cardinality(EligibleCandidates(p))

\* Every supported panel's share of the cap, dealt in ID order.
Budgets == Deal(Those(PanelOrder, {p \in Panels : Supported(p)}), [p \in Panels |-> Eligible(p)], SampleCap)

Rank(x) == <<x.inbound, x.client.sub>>

\* What the two passes over the candidates can select, whatever the order the
\* digests put them in: one per inbound first, never the same rank twice.
Selections(p, n) ==
  LET all == EligibleCandidates(p)
      ranks == {Rank(x) : x \in all}
      strata(S) == Cardinality({x.inbound : x \in S})
  IN {S \in SUBSET all :
        /\ Cardinality(S) = Smaller(n, Cardinality(ranks))
        /\ \A x, y \in S : Rank(x) = Rank(y) => x = y
        /\ strata(S) = Smaller(n, strata(all))}

\* The formats that are enabled and whose URI the settings name.
ExternalFormats(p) == IF "settings" \in got[p] THEN Answers(p).formats ELSE {}

SubResult(x, code, agree) == [client |-> x.client.id, code |-> code, agree |-> agree]

\* fetch records the reads it rejects; an envelope with success false, or links
\* that do not parse, are parse errors without an observation.
LinkObservations(p, x, outcomes) ==
  {ReadFailure(p, x.client.id, o) : o \in outcomes \cap {"lost", "unsafe"}}

LinkCode(outcomes) ==
  IF outcomes \cap {"lost", "unsafe"} # {} THEN "api_evidence_missing"
  ELSE IF outcomes = {"ok"} THEN "" ELSE "parse_error"

\* One selected sample: its share links, then its subscription links.  A
\* cancellation may fall between the two reads.
SampleLinks(p) ==
  /\ Running(p, "subscribe")
  /\ \E x \in samples[p], share \in Outcomes("links"), sub \in Outcomes("links") :
       /\ IF cancelled THEN share \in {"ok", "lost"} /\ sub = "lost" /\ UNCHANGED faults
          ELSE Spend((IF share = "ok" THEN 0 ELSE 1) + (IF sub = "ok" THEN 0 ELSE 1))
       /\ samples' = [samples EXCEPT ![p] = @ \ {x}]
       /\ obs' = [obs EXCEPT ![p] = @ \cup LinkObservations(p, x, {share, sub})]
       /\ subs' = [subs EXCEPT ![p] = @ \cup
                     {SubResult(x, LinkCode({share, sub}), x.client.agree)}]
  /\ UNCHANGED <<world, phase, tick, pc, sem, wg, next, attempt, got, budget, external, traffic,
                 cancelled>>

\* Mutant: whatever URI the settings name is asked.
ExternalOutcomes_Unchecked(p, format) == {"ok", "timeout", "lost", "malformed"}

\* buildSubscriptionURL refuses a URI that is not that of an HTTPS origin: nothing is
\* requested then.
ExternalOutcomes(p, format) ==
  IF format \in Answers(p).misdirected THEN {"misdirected"}
  ELSE {"ok", "timeout", "lost", "refused", "redirected", "untrusted", "malformed"}

\* What is recorded of it, SanitizedErrorCode of a failed read.  A transport error
\* names the URL, and that of the JSON format (served under /json/) contains a
\* parser's keyword; a status other than 2xx or a host that is not allowed does not.
ExternalCode(format, outcome) ==
  CASE outcome = "misdirected" -> "invalid_subscription_origin"
    [] outcome = "ok"         -> ""
    [] outcome = "timeout"    -> "timeout"
    [] outcome = "lost"       -> IF format = "json" THEN "parse_error" ELSE "request_error"
    [] outcome = "refused"    -> "request_error"
    [] outcome = "redirected" -> "redirect_rejected"
    [] outcome = "untrusted"  -> "tls_error"
    [] outcome = "malformed"  -> "parse_error"

CheckExternal(p) ==
  /\ Running(p, "subscribe")
  /\ samples[p] = {}
  /\ \E x \in external[p] : \E outcome \in ExternalOutcomes(p, x.format) :
       /\ IF outcome = "misdirected" THEN UNCHANGED faults ELSE Suffer(outcome)
       /\ external' = [external EXCEPT ![p] = @ \ {x}]
       /\ subs' = [subs EXCEPT ![p] = @ \cup {SubResult(x.sample, ExternalCode(x.format, outcome), TRUE)}]
  /\ UNCHANGED <<world, phase, tick, pc, sem, wg, next, attempt, got, obs, budget, samples, traffic,
                 cancelled>>

FinishSubscriptions(p) ==
  /\ Running(p, "subscribe")
  /\ samples[p] = {} /\ external[p] = {}
  /\ Return(p)
  /\ UNCHANGED <<world, phase, tick, wg, obs, cancelled, faults, workVars>>

-----------------------------------------------------------------------------
(* sampleTraffic: whatever fails, the sample is missing and says so *)

\* Mutant: a missing traffic sample is only a warning.
TrafficLost_Warns(p) == Obs("API-001", "traffic_sample_failed", "plain", <<p, "traffic">>)

TrafficLost(p) == Obs("API-001", "traffic_sample_failed", "inconclusive", <<p, "traffic">>)

SampleTraffic(p) ==
  /\ Running(p, "sample")
  /\ \E outcome \in {"ok", "lost"} :
       /\ Suffer(outcome)
       /\ traffic' = IF outcome = "ok" THEN [traffic EXCEPT ![p] = @ + 1] ELSE traffic
       /\ obs' = IF outcome = "ok" THEN obs ELSE [obs EXCEPT ![p] = @ \cup {TrafficLost(p)}]
  /\ Return(p)
  /\ UNCHANGED <<world, phase, tick, wg, next, attempt, got, budget, samples, external, subs,
                 cancelled>>

-----------------------------------------------------------------------------
(* The main goroutine *)

\* wg.Wait in collectAll, then reconcileTopology and the start of
\* collectAllSubscriptions, which spawns only panels with a share.
Reconcile ==
  /\ phase = "collect" /\ AllDone
  /\ obs' = LET found == ReconcileTopology(Work, Job.command, Job.target)
            IN [p \in Panels |-> obs[p] \cup found[p]]
  /\ budget' = Budgets
  /\ samples' \in {S \in [Panels -> UNION {Selections(p, budget'[p]) : p \in Panels}] :
                     \A p \in Panels : S[p] \in Selections(p, budget'[p])}
  /\ external' = [p \in Panels |->
                    {[format |-> f, sample |-> x] : f \in ExternalFormats(p), x \in samples'[p]}]
  /\ phase' = "subscribe"
  /\ Spawn({p \in Panels : budget'[p] > 0})
  /\ UNCHANGED <<world, tick, next, attempt, got, subs, traffic, cancelled, faults>>

FinishSubscribe ==
  /\ phase = "subscribe" /\ AllDone
  /\ phase' = IF Job.observe THEN "wait" ELSE "done"
  /\ UNCHANGED <<world, tick, pc, sem, wg, obs, cancelled, faults, workVars>>

\* The interval elapses: with the context done too, select takes either case.
Tick ==
  /\ phase = "wait"
  /\ tick' = tick + 1
  /\ phase' = "sample"
  /\ Spawn({p \in Panels : Supported(p)})
  /\ UNCHANGED <<world, obs, cancelled, faults, workVars>>

Interrupt ==
  /\ phase = "wait" /\ cancelled
  /\ phase' = "interrupted"
  /\ UNCHANGED <<world, tick, pc, sem, wg, obs, cancelled, faults, workVars>>

FinishSample ==
  /\ phase = "sample" /\ AllDone
  /\ phase' = IF tick = TrafficSamples THEN "done" ELSE "wait"
  /\ UNCHANGED <<world, tick, pc, sem, wg, obs, cancelled, faults, workVars>>

\* SIGINT or SIGTERM.
Cancel ==
  /\ world \in Cancellable /\ ~cancelled
  /\ phase \notin {"done", "interrupted"}
  /\ cancelled' = TRUE
  /\ UNCHANGED <<world, phase, tick, pc, sem, wg, obs, faults, workVars>>

-----------------------------------------------------------------------------
Init ==
  /\ world \in DOMAIN Worlds
  /\ phase = "collect"
  /\ tick = 0
  /\ pc = [p \in Panels |-> "queued"]
  /\ sem = 0
  /\ wg = Cardinality(Panels)
  /\ next = [p \in Panels |-> "openapi"]
  /\ attempt = [p \in Panels |-> 0]
  /\ got = [p \in Panels |-> {}]
  /\ obs = [p \in Panels |-> {}]
  /\ budget = [p \in Panels |-> 0]
  /\ samples = [p \in Panels |-> {}]
  /\ external = [p \in Panels |-> {}]
  /\ subs = [p \in Panels |-> {}]
  /\ traffic = [p \in Panels |-> 0]
  /\ cancelled = FALSE
  /\ faults = 0

CollectPanel(p) == \/ Read(p) \/ ReadStatus(p) \/ NullStatus(p) \/ StatusInterrupted(p)
                   \/ FinishPanel(p)

CollectSubscriptions(p) == SampleLinks(p) \/ CheckExternal(p) \/ FinishSubscriptions(p)

Goroutine(p) == \/ Acquire(p) \/ Leave(p)
                \/ CollectPanel(p) \/ CollectSubscriptions(p) \/ SampleTraffic(p)

Main == Reconcile \/ FinishSubscribe \/ Tick \/ Interrupt \/ FinishSample

Stopped == phase \in {"done", "interrupted"}

\* The collector has returned.
Finished == Stopped /\ UNCHANGED vars

Next == (\E p \in Panels : Goroutine(p)) \/ Main \/ Cancel \/ Finished

Spec == Init /\ [][Next]_vars

\* Every request has a timeout, every retry and every interval a timer, and a
\* goroutine holds its slot for a bounded number of reads.
Fairness == WF_vars(Main) /\ \A p \in Panels : WF_vars(Goroutine(p))

FairSpec == Spec /\ Fairness

-----------------------------------------------------------------------------
(* The snapshot, and what the rule pack says of it *)

Alias(p, in) == InboundIdentity(in, ExpectedGUID[p])

\* The first observation comes with the client list, the others follow it.
TrafficSeries(p) ==
  LET length == (IF "clients" \in got[p] THEN 1 ELSE 0) + traffic[p]
      clients == IF length = 0 THEN {} ELSE Answers(p).clients
      client(id) == CHOOSE c \in clients : c.id = id
  IN [id \in {c.id : c \in clients} |->
        [i \in 1..length |-> [used |-> client(id).used, enabled |-> client(id).enabled]]]

Snapshot == [p \in Panels |->
  [role |-> IF p = Master THEN "master" ELSE "node",
   guid |-> ExpectedGUID[p], version |-> Version(p), generated |-> "config" \in got[p],
   inbounds |-> {[alias |-> Alias(p, in),
                  origin |-> IF in.origin = NoGUID THEN ExpectedGUID[p] ELSE in.origin] :
                    in \in Listed(p, "inbounds")},
   clients |-> {[id |-> c.id, enabled |-> c.enabled, total |-> c.total, expiry |-> c.expiry,
                 inbounds |-> {Alias(p, in) :
                   in \in {i \in Listed(p, "inbounds") : i.id \in c.inbounds}}] :
                     c \in Listed(p, "clients")},
   subs |-> subs[p], traffic |-> TrafficSeries(p), obs |-> obs[p]]]

Result == Evaluate(Snapshot, Job.finishedAt)

Verdict == Readiness(Result)

-----------------------------------------------------------------------------
(* What is expected of it *)

ReadsOf(p) == IF p = Master THEN Reads ELSE Reads \ {"nodes"}

GoroutineStates == {"idle", "queued", "running", "leaving"}

\* Type correctness.  The slots in use and the WaitGroup counter stay within
\* their ranges (a second release or Done would take them below zero).
TypeOK ==
  /\ world \in DOMAIN Worlds
  /\ phase \in Phases
  /\ tick \in 0..TrafficSamples
  /\ pc \in [Panels -> GoroutineStates]
  /\ sem \in 0..PanelConcurrency
  /\ wg \in 0..Cardinality(Panels)
  /\ next \in [Panels -> Reads \cup {"end"}]
  /\ attempt \in [Panels -> 0..(StatusAttempts - 1)]
  /\ got \in [Panels -> SUBSET Reads]
  /\ DOMAIN obs = Panels
  /\ \A p \in Panels : \A o \in obs[p] : o.sev \in Severities /\ o.rule \in RuleOrder
  /\ traffic \in [Panels -> 0..TrafficSamples]
  /\ cancelled \in BOOLEAN
  /\ faults \in 0..MaxFaults[world]

\* transport.panel_concurrency holds in every phase: no more panels are being
\* read at a time than the configuration allows.
BoundedInFlight == Cardinality({p \in Panels : pc[p] = "running"}) <= PanelConcurrency

\* The main goroutine moves on, and touches the work records, only when no
\* goroutine of the phase before can still write to one.
QuietHandover == [][phase' # phase => \A p \in Panels : pc[p] = "idle"]_vars

\* The reads collectPanel is past, given where it is now.
ReadsBefore(p) ==
  CASE next[p] = "openapi"  -> {}
    [] next[p] = "update"   -> {"openapi"}
    [] next[p] = "status"   -> {"openapi", "update"}
    [] next[p] = "config"   -> {"openapi", "update", "status"}
    [] next[p] = "inbounds" -> {"openapi", "update", "status", "config"}
    [] next[p] = "clients"  -> {"openapi", "update", "status", "config", "inbounds"}
    [] next[p] = "settings" -> {"openapi", "update", "status", "config", "inbounds", "clients"}
    [] next[p] = "nodes"    -> Reads \ {"nodes"}
    [] next[p] = "end"      -> IF Supported(p) THEN ReadsOf(p) ELSE {"openapi", "update", "status"}

\* Missing evidence is never silent: a read that yielded nothing has left a
\* blocking or inconclusive observation naming it, whatever made it fail.
NoSilentGap ==
  \A p \in Panels : \A read \in ReadsBefore(p) \ got[p] :
    \E o \in obs[p] : o.rule = "API-001" /\ o.subject = <<p, read>> /\ o.sev # "plain"

\* READY rests on complete evidence: every read of every panel succeeded, no
\* traffic sample is missing, and every selected subscription was parsed.
ReadyIsBacked ==
  phase = "done" /\ Verdict = "READY" =>
    \A p \in Panels :
      /\ Supported(p) /\ got[p] = ReadsOf(p)
      /\ traffic[p] = TrafficSamples
      /\ \A s \in subs[p] : s.code = ""

-----------------------------------------------------------------------------
(* What is true of the panels, whatever the run read of them *)

ClusterAgrees ==
  LET answers == Job.panel
      nodes == answers[Master].nodes
  IN \A c \in Children :
       /\ ExpectedGUID[c] = MasterNodeGUID[c]
       /\ \E node \in nodes : node.guid = MasterNodeGUID[c]
       /\ \A in \in answers[Master].inbounds : in.origin = MasterNodeGUID[c] =>
            /\ \E own \in answers[c].inbounds :
                 InboundKey(own) = InboundKey(in) /\ own.origin \in {NoGUID, in.origin}
            /\ in.clients \subseteq {client.id : client \in answers[c].clients}

InboundSound(in, inbounds, generated) ==
  /\ in.proto # "" /\ in.stream
  /\ in.flow => in.proto = "vless"
  /\ \A child \in in.fallbacks \ {Explicit} :
       \E other \in inbounds : other.id = child /\ other.port \in Port
  /\ in.tag \in (DOMAIN generated) \ {NoTag}
  /\ generated[in.tag] = <<in.proto, in.transport>>

ConfigurationsSound ==
  \A p \in Panels :
    /\ ~Answers(p).missingOps
    /\ \A in \in Answers(p).inbounds :
         InboundSound(in, Answers(p).inbounds, Answers(p).generated)

\* Nothing Doctor does not know, and nobody it cannot ask.
FullyKnown ==
  /\ \A p \in Panels : \A in \in Answers(p).inbounds :
       in.proto \in KnownProtocols /\ in.transport \in KnownTransports
  /\ \A node \in Answers(Master).nodes :
       node.online /\ \E c \in Children : MasterNodeGUID[c] = node.guid

VersionsRight ==
  \A p \in Panels : Answers(p).version \in
    (IF Job.command = "verify" THEN {Job.target} ELSE SupportedVersions)

LimitsKept ==
  \A p \in Panels : \A c \in Answers(p).clients :
    c.enabled => /\ c.total > 0 => c.used < c.total
                 /\ c.expiry > 0 => Job.finishedAt <= c.expiry + LimitGrace

\* The counters of a client whose inbounds, as the master lists them, are all on nodes.
OnNodesOnly(c) ==
  LET own == {in \in Answers(Master).inbounds : in.id \in c.inbounds}
  IN own # {} /\ \A in \in own : in.origin \notin {NoGUID, ExpectedGUID[Master]}

NodesWith(id) == {p \in Children : \E c \in Answers(p).clients : c.id = id}
UsedOn(p, id) == (CHOOSE c \in Answers(p).clients : c.id = id).used

CountersAgree ==
  \A c \in Answers(Master).clients : OnNodesOnly(c) /\ NodesWith(c.id) # {} =>
    LET sum == MapThenSumSet(LAMBDA p : UsedOn(p, c.id), NodesWith(c.id))
    IN ~(Abs(c.used - sum) > Threshold(c.used, sum))

Healthy ==
  ClusterAgrees /\ ConfigurationsSound /\ VersionsRight /\ LimitsKept /\ CountersAgree

\* READY is true of the panels: whatever is lost, garbled or retried on the way,
\* a cluster with a discrepancy the rules know is never reported as ready.
ReadyIsTrue ==
  phase = "done" /\ Verdict = "READY" => Healthy /\ FullyKnown

EvidenceComplete ==
  /\ phase = "done" /\ Job.observe /\ ~cancelled /\ faults = 0
  /\ \A p \in Panels : got[p] = ReadsOf(p)

\* The panel names, for a format it has enabled, a URI nothing can be asked at: the
\* code takes that for a broken subscription.
Misdirected(p) == Answers(p).formats \cap Answers(p).misdirected # {}

\* With every read answered the verdict is exact: BLOCKED if and only if the panels
\* or their counters disagree, a configuration is broken, a limit is exceeded, or a
\* sampled subscription differs or is sent to a URI that is not an HTTPS origin.
BlockedExactly ==
  EvidenceComplete =>
    (Verdict = "BLOCKED" <=>
       \/ ~Healthy
       \/ \E p \in Panels : \E s \in subs[p] : ~s.agree
       \/ \E p \in Panels : subs[p] # {} /\ Misdirected(p))

\* The sampling budget is spent in full, or every candidate is covered, and no
\* panel gets two samples more than another that could have used them.
BudgetFair ==
  phase \notin {"collect"} =>
    /\ Total(budget) <= SampleCap
    /\ \A p \in Panels : Cardinality(samples[p]) <= budget[p]
    /\ \A p \in Panels : budget[p] <= (IF Supported(p) THEN Eligible(p) ELSE 0)
    /\ \A p, q \in Panels : Supported(p) /\ budget[p] < Eligible(p) =>
         Total(budget) = SampleCap /\ budget[q] <= budget[p] + 1

\* A run always ends, however many reads fail and whenever it is cancelled.
Termination == <>Stopped

\* The failure policy of docs/security-model.md:45-46: timeouts, and whatever
\* else is merely lost, leave a healthy cluster INCONCLUSIVE, never BLOCKED.
OnlyLosses ==
  \A p \in Panels : \A o \in obs[p] : o.rule = "API-001" =>
    o.kind \in {"lost", "server_status_unavailable", "traffic_sample_failed"}
LossIsNotProof ==
  phase = "done" /\ Healthy /\ OnlyLosses
    /\ (\A p \in Panels : \A s \in subs[p] : s.agree /\ s.code \in {"", "api_evidence_missing"})
  => Verdict # "BLOCKED"

\* NODE-001 in the design document, lines 133-135: a version mismatch proven
\* while an upgrade is verified fails, it is not merely inconclusive.
ProvenMismatchBlocks ==
  phase = "done" /\ Job.command = "verify"
    /\ (\E p \in Panels : Supported(p) /\ Version(p) # Job.target)
  => Verdict = "BLOCKED"
=============================================================================
