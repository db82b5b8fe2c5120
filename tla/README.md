# 3x-ui Doctor, formally

TLA+ models of Doctor, the model-checking runs over them and the machine-checked
proofs about them. Paths are relative to the repository root; `collect.go` stands
for `internal/collect/collect.go`, and so on.

Doctor is a command-line program that audits a cluster of 3x-ui panels (one
master, any number of nodes) before and after an upgrade. It only reads. Its one
product is a verdict, `READY`, `BLOCKED` or `INCONCLUSIVE`, and the files that
carry it. What would be worst is a `READY` that is not true; next, a `BLOCKED`
for a cluster nothing is wrong with; then a run that hangs, or an output file
that is lost or torn. The models are about these.

## Inventory

| Component | State | Operations | What makes it correct |
|---|---|---|---|
| Collector (`collect.go`) | a work record per panel (raw answers, snapshot, observations), a semaphore and a WaitGroup per phase, budgets | `Collect`, `collectPanel`, `collectStatus`, `fetchWith`, `collectAllSubscriptions`, `collectSubscriptions`, `sampleAllTraffic`, `sampleTraffic`, `reconcileTopology` | bounded concurrency, clean hand-over between phases, no missing evidence without an observation, fair budget, termination |
| Parsers and configuration rules (`adapter.go`) | none | `ParseInbounds`, `ParseClients`, `ParseNodes`, `ConfigObservations`, `InboundIdentity`, `InboundConnectionState` | one state has one reading, however it is encoded; every broken inbound is reported, a healthy one is not |
| Rule pack (`rules.go`) | none | `Evaluate`, `Readiness` | the verdict follows from the evidence, missing evidence is never success |
| Snapshot files (`snapshot/io.go`) | the output path, a temporary file per writer | `Write`, `WriteJSON`, `Read` | whole or not at all, nothing replaced without `--force`, nothing left behind |
| Command line (`app.go`, `main.go`) | the files it leaves for the next run | `Run`: preflight, check, verify; `ExitCode` | the baseline is written exactly when the run got that far; verify compares like with like |
| Diff (`diff.go`) | none | `Compare` | a change is reported, an unchanged cluster is not |
| HTTP client (`client.go`) | two `http.Client`s per panel, the chain of redirects of a request | `GetPanel`, `PostPanelRead`, `GetExternal`, `request`, `CheckRedirect` | the token stays at its origin, bounded bodies, timeouts; a panel is accused of its own answer only |
| Configuration (`config.go`) | while loading, the names it has seen | `Load`, `applyDefaults`, `validateAndResolve` | one master, unique IDs and GUIDs, positive bounds |
| Subscription parser (`parser.go`) | none | `Parse`, `ParseLinkArray` | equal link sets exactly for equivalent links |
| Redaction (`redact.go`) | the key | `Alias`, `Digest`, `SanitizedErrorCode` | stable aliases; the right class of error |
| Report (`report.go`) | none | `Render` | formatting |

How they interact: `main` turns SIGINT and SIGTERM into a cancelled context and
calls `app.Run`, which loads the configuration, creates the collector and calls
`Collect`. The collector reads every panel in a goroutine of its own, each read
through the HTTP client and a parser of the adapter; the goroutines share nothing
but the semaphore and the WaitGroup, and each writes only its own element of
`works`. When all have returned, the main goroutine reconciles the topology over
all records, divides the sampling budget, spawns goroutines again for the
subscriptions, and then five times for traffic. The resulting snapshot goes to
the rule pack, to the diff when an upgrade is verified, and to files.

What is hard here: goroutines of three phases interleaving around a semaphore
and a WaitGroup; reads that fail in any combination and leave nil behind for the
rules to interpret; a retry loop with a delay; a cancellation that races a timer;
an integer budget dealt over panels of different sizes; one object known under
two identities (by the master and by the node itself); an output protocol of
eight system calls that other runs, kills and power losses can cut anywhere;
counters that are compared although they were read at different times; two reads
that are compared while the operator edits between them; two runs that are
compared although each of them lost something; redirects that change the origin
of a request under way. `PROJECT.json` lists these hazards at their lines.

## Modules

| Module | Models | Uses |
|---|---|---|
| `Findings` | observations, findings, `StatusOf`, `Readiness` (model.go, rules.go) | |
| `PanelConfig` | inbounds of a panel, `ConfigObservations`, `InboundIdentity` (adapter.go) | Findings |
| `Topology` | `reconcileTopology` (collect.go 504-593) | PanelConfig |
| `Rules` | `Evaluate` with every rule (rules.go) | Findings |
| `Sampling` | the division of the budget and the choice of the samples (collect.go) | |
| `Collector` | the collector's goroutines and the main goroutine, step by step | Topology, Rules, Sampling |
| `MCCollector` | clusters for TLC: a healthy one and its deviations | Collector |
| `SamplingProofs` | lemmas about the division of the budget, the choice of samples, sums over sequences | Sampling |
| `CollectorProofs` | proofs: counters, hand-over, types, the budget; no evidence is silently missing, READY rests on all of it and is true of the panels, BLOCKED is exact | Collector, SamplingProofs |
| `AtomicOutput` | the abstract promise of `snapshot.Write` | |
| `OutputFile` | `snapshot.Write`, one action per system call | AtomicOutput (INSTANCE) |
| `MCOutputFile` | writers for TLC | OutputFile |
| `OutputProofs` | proofs: atomicity, reservations, and that OutputFile implements AtomicOutput | OutputFile |
| `SnapshotDiff` | `Compare` (diff.go) | Findings |
| `UpgradeCycle` | `app.Run`, run after run, around an upgrade | SnapshotDiff, Collector (INSTANCE), Topology, Rules, Sampling |
| `MCUpgradeCycle` | clusters, upgrades and command lines for TLC | UpgradeCycle |
| `UpgradeProofs` | proofs: types, exit codes, the baseline, the comparison and what it shows of two clusters | UpgradeCycle, SamplingProofs |
| `TrafficWindow` | the observation window over counters that move | Rules |
| `MCTrafficWindow` | a master and two nodes for TLC | TrafficWindow |
| `WindowProofs` | proofs: types, who is caught and who is not accused, for any traffic | TrafficWindow, SamplingProofs |
| `LinkSets` | the link outputs of a panel, `parser.go`, and their comparison | Rules, Sampling |
| `Rows` | the parsers of panel lists (adapter.go) | PanelConfig, Rules |
| `PanelViews` | a panel that presents its links or its lists in other ways | LinkSets, Rows (INSTANCE) |
| `MCPanel` | a panel with two clients for TLC | PanelViews |
| `PanelProofs` | proofs: the difference of links is found exactly, samples cover the inbounds; lists are read alike, drift is found exactly | PanelViews, SamplingProofs |
| `Exchange` | one read through the HTTP client (client.go, `fetchWith`) | Rules |
| `MCExchange` | three origins for TLC | Exchange |
| `ExchangeProofs` | proofs: types, where requests go, who is accused | Exchange |
| `ConfigLoad` | `Load` (config.go) | |
| `MCConfigLoad` | configuration files for TLC | ConfigLoad |
| `ConfigProofs` | proofs: types, what is accepted is sound, what is refused is not well formed | ConfigLoad |

The pure functions (`Findings`, `PanelConfig`, `Topology`, `Rules`, `Sampling`,
`SnapshotDiff`) are written once; the state machines of the collector, the
window, the links, the lists, the exchange and the upgrade all judge with the
same `Rules`.

### Collector

`world` chooses, once and for all, what the panels answer: a record with the
command, the target version and each panel's version, inbounds, clients, nodes,
generated configuration and external formats. The rest of the state is the
program's. `phase` is the place of the main goroutine in `Collect` ("collect"
until line 69, "subscribe" within `collectAllSubscriptions`, "wait" in the
`select` of line 79, "sample" within `sampleAllTraffic`). `pc[p]` is the state of
the goroutine of panel `p` in this phase: queued before `sem <-`, running,
leaving between the two deferred calls, idle. `sem` and `wg` are the semaphore's
length and the WaitGroup's counter. `next[p]` is the read `collectPanel` is about
to make, `got[p]` the reads whose values it kept, `obs[p]` the observations.

| Action | Code |
|---|---|
| `Acquire`, `Leave`, and `Return` within the finishing actions | 62-66, and the same lines of the two other phases |
| `Read` | one `if body := c.fetch(...)` block of `collectPanel` with `fetchWith`, the parser and `addParseObservation` |
| `ReadStatus`, `NullStatus`, `StatusInterrupted` | one turn of the loop of `collectStatus`, and the version gate that follows it |
| `FinishPanel` | 189-191 |
| `Reconcile` | `wg.Wait`, `reconcileTopology`, the budget loop and the selection of the samples |
| `SampleLinks`, `CheckExternal`, `FinishSubscriptions` | one turn of each loop of `collectSubscriptions` |
| `SampleTraffic` | `sampleTraffic` |
| `FinishSubscribe`, `Tick`, `Interrupt`, `FinishSample` | 71-88 |
| `Cancel` | the context of main.go, at any time |

A read ends in one of the ways the code tells apart (`Failures`): lost (no
answer, a timeout, a status other than 2xx, a body that is too long), unsafe
(empty, not JSON, no envelope), failure (an envelope that reports one) and
malformed (any other error of the parser). An external subscription is not read at
all if the panel's settings name a URI that `buildSubscriptionURL` refuses
(`ExternalOutcomes`). Once the run is cancelled every read
is lost. `Result` and `Verdict` apply the rule pack to the snapshot that the code
would assemble in this state.

Two abstractions deserve a word. The panels' answers do not change during a
run, and in particular their traffic counters stand still, so the traffic rules
are evaluated on constant series of every length (moving ones are the subject of
`TrafficWindow`). Sets stand for slices wherever the code only looks things up or
reports per element.

### Sampling

`Deal` is the round robin over the panels, `Select` the two passes over a
panel's candidates: one per inbound first, then what is left, no client of an
inbound twice. Both work on the order in which the digests of a keyed hash put the candidates.
`Collector` takes every result that some order gives, `UpgradeCycle` and
`LinkSets` are given an order (`DrawOrder`), because what they compare depends on
both runs drawing alike. A digest is made of the inbound and the subscription ID, not
of the client: where clients of an inbound share a subscription ID, `UpgradeCycle`
lets any one of them be drawn (`Firsts`), because the order of the panel's list and
an unstable sort decide. `Those` is a sequence without what is filtered out, as a
loop with `continue` leaves it.

### OutputFile

The path holds nothing, a link, an older file, a writer's reservation (the empty
file of `O_EXCL`), or a writer's body, which is complete ("full"), complete but
not synced ("cached") or cut short ("torn"). `disk` is what it would hold after
a power loss. Every call of `Write` is an action with its failing alternative,
every writer may be killed between two calls, and `Flush`, `PowerLoss` and
`Meddle` are the environment. A writer that has not begun stands for a later run.
The module does not model retries by the user: a writer that returned is done.

### UpgradeCycle and SnapshotDiff

One action per step of `Run`: the arguments are accepted or refused (`Accept`,
`Refuse`: colliding paths, a target v0.1 does not guarantee or that cannot be
resolved, a baseline that is unreadable, of another key or of another target),
`Collect` and `Sample` are the collection in two steps, `WriteBaseline` and
`WriteReport` the two writes in the code's order with their failures, `Die` and
`Interrupt` the ends nobody asked for, `Move` what happens to the panels between
two runs. A collection uses the definitions of `Collector` (an instance named
`C`), whose goroutines it does not repeat: which reads are made, what a lost one
leaves behind, what is sampled and what the rules say. A sample is observed by the
link requests and in each external format (`Sampled`); what is compared of it is keyed
by client and format (`SubscriptionMap`), so that an external raw answer and the links
have one key, of which one value counts. A write does to a path what `AtomicOutput` promises. `file` maps paths to
documents; a document carries, besides what the file says, the cluster it was
made from and whether anything was lost, which only the properties read.

The two properties about files assume that two names are two files; the name
"alias" of `PathOf` is there for what happens otherwise (see the divergences).

### TrafficWindow

The panels count, the master synchronises, disables clients and changes quotas;
the collector reads every panel once per interval or fails to. Within an interval
every order is allowed, but what comes before its turn (a synchronisation before
all nodes have counted, a sample before the synchronisation) and a lost sample
are troubles, of which a scenario bounds the number. The rules then judge the
snapshot that was assembled (`Snapshot`, `Result`).

### LinkSets and Rows

`LinkSets` has one panel with its outputs: share links per client, subscription
per subscription ID, and the raw subscription at an external origin. An edit
changes one output: a link is written differently (`Restyled`), connects
differently (`Altered`) or leads nowhere (`Spoiled`); the external subscription may
also be Base64, whole or cut (`Encode`). The operator may edit a
client, in all outputs at once, while the run is under way. The run draws its
samples, makes its requests in the code's order, parses and compares.

`Rows` goes the way from a JSON row to a rule and back: the panel writes its
inbounds, clients, nodes and generated configuration down in any combination of
eleven ways that differ between releases, the parsers read them. The ways are: numbers as
digits and versions without their v, objects as text, objects within objects as text,
capitals (of tokens in the stream settings and of versions, of protocols), defaults
left out, enabled left out, other names of keys, no traffic row, "type" for "network", and other keys for a client's
name and a fallback's child. `ConnectionState` is what verify compares of an inbound:
as it is parsed (enabled, protocol, tag, origin), as it is written (listen, port), or as
it is written within an object, whose own text form is undone (settings, streamSettings,
sniffing; `Unfolded`).

`PanelViews` puts both into one state space whose halves move one at a time: the
steps of one begin in the initial state of the other. It also says what a panel's
rows can express (`PanelAssumption`) and what a drift is (`DriftsAssumption`).

In the properties, a client is undisturbed if nobody is edited whose links are in
its subscription, and a link is sound as the code takes it: only hysteria needs no
user, and a VMess scheme is written in small letters.

### Exchange

The life of one request: connect, headers, body, redirects, with the two clients
(`panelHTTP`, `externalHTTP`), their rules for redirects and certificates, the
limit on the body and the timeout. `Recorded` and `Subscription` are what the
collector makes of the result. An origin stands for scheme, host and port; some are
`Plain` http, where there is no certificate to verify. The list of allowed hosts knows
an origin by its names only (`Names`, `Listed`).

### ConfigLoad

`Load` step by step: decoding, defaults, the global settings, panel after panel
with the maps of names seen so far, host after host, proxy. A file is a record of
what it says; `given` keeps it as it was written, beside the file with its defaults,
because what a file means (`WellFormed`) is said of the former and without the loader's own
conditions.

## Runs

| Run | Question | Distinct states |
|---|---|---|
| `faults` | Is the verdict right for every pair of 22 deviations, before and after an upgrade? Can two failing reads, or a cancellation and a failing read, make evidence vanish or a sick cluster READY? (`TypeOK`, `NoSilentGap`, `ReadyIsBacked`, `ReadyIsTrue`, `BlockedExactly`) | 4.8 M |
| `parallel` | Are three panels behind two slots read in order, the budget fairly dealt, and does a run end? (`BoundedInFlight`, `BudgetFair`, `QuietHandover`, `Termination`) | 0.2 M |
| `output` | Does Write keep its promise among unforced runs? (`TypeOK`, `NoReservationLeft`, `KeepsPromise`) | 49 k |
| `output_forced` | Is the file whole whatever forced runs and others do? (`NeverTorn`) | 0.4 M |
| `upgrade` | Is a READY verification true of what the upgrade did, does the comparison make anything up, does the exit code say what is on disk, does verify keep its baseline? (`TypeOK`, `ReadyMeansUnchanged`, `NoFalseRegression`, `DeliveredOrSaid`, `BaselineSurvivesVerify`) | 52 k |
| `window` | Do the traffic rules accuse a healthy master when samples are lost or early? Do they miss one that is not? Can a client stay over its quota? (`TypeOK`, `HealthyNotAccused`, `AccumulationCaught`, `DeviationCaught`, `OverdueCaught`) | 1.1 M |
| `panel` | Do SUB-001, SUB-003 and CFG-003 say exactly what is wrong, however it is written? (`TypeOK`, `DifferenceExactly`, `SpoiledIsSaid`, `LossIsUnknown`, `StrataCovered`, `EncodingIsIrrelevant`, `DriftExactly`, `RewritingIsNoChange`) | 0.2 M |
| `exchange` | Where may a read go, whom may it accuse, does it end? (`TypeOK`, `AccusedOfItsAnswer`, `RequestsAreDirected`, `Ends`) | 0.2 M |
| `config` | Is what the loader accepts what the other modules assume, and is nothing refused that is well formed? (`TypeOK`, `AcceptedIsSound`, `RefusedForCause`) | 18 k |
| `lost_reads` | Does a mere loss ever block? It does (`LossIsNotProof` is violated) | |
| `verify_mismatch` | Does a proven version mismatch always fail? It does not (`ProvenMismatchBlocks` is violated) | |
| `output_replaced` | Does an unforced run ever replace a file? It can (`KeepsExisting` is violated) | |

The three violated properties are sentences of the documentation that the code
does not keep; `PROJECT.json` quotes them with their lines.

1. A list that could not be read is an empty list to `reconcileTopology` and to
   `ConfigObservations`. One timed-out read of the node list, of a node's inbounds
   or clients, or of the generated configuration makes a healthy cluster BLOCKED
   with findings about missing objects, where docs/security-model.md says
   INCONCLUSIVE.
2. When the master's version is unsupported or was not read, the comparison of
   the panels' versions with the target is skipped with the rest of the
   reconciliation. A node that demonstrably stayed behind leaves the verdict at
   INCONCLUSIVE, where the design says that a proven version mismatch fails.
3. An unforced writer reserves a free path and later renames over whatever is
   there by then; a complete file that a run with `--force` put there in between
   is replaced.

### Bounds, and why they are enough

- Panels. Reconciliation compares the master with one node at a time and no rule
  but the sum of the nodes' traffic relates two nodes, so a master and one node
  meet every branch of it; `parallel` has three panels, more than slots, one of
  them unsupported, and `window` has two nodes, so that one can miss what the
  other has.
- Worlds of `faults`. A deviation is a change one rule is about, or one that must
  not be reported (`Deviate`, 0 is none). Pairs are there because the rules
  interact: an unsupported master hides its node's mismatch, a panel without
  inbounds hides its clients, a disabled client hides its expiry. The worlds come
  in three groups, with bounds of their own (`AllFaults`, `AllCancellable`): pairs
  of deviations without faults; the healthy cluster and two others with two
  faults; two clusters with a cancellation and a fault.
- `MaxFaults` 2: one fault can hide what another would have shown; `NullStatus`
  is not counted, three of them are possible at any time. Where a run may be
  cancelled it is 1, because after a cancellation every read is lost anyway.
- `SampleCap` 2 against one to three candidates per panel: the budget runs out,
  and in `parallel` the cap meets a panel without a share.
- `MaxErrors` 2 in `output`: a failing rename and a failing release together.
  `MaxLosses`, `MaxMeddling` 1.
- The thresholds (`AbsoluteThreshold`, `RelativeNum`/`RelativeDen`, `LimitGrace`)
  are small numbers with the code's relation to the counters of the worlds. The
  tolerance of 65536 bytes within which a node's counter counts as unchanged is
  the code's own in all runs.
- `upgrade` has two scenarios. To compare: twelve states of the cluster (the old
  release, the new one, and the new one renumbered, without a node's client, with
  a client's quota, links, JSON subscription, inbound order or port changed, with a node
  left behind, with the only client gone from a panel where it had no inbound, or with a
  client that now shares the subscription ID of another), a preflight that
  loses a read, and a verification with its baseline and with another key. The
  verification loses a read too where it finds the old release again (after an upgrade
  that was taken back), the new one, or the new one without a node's client, and loses
  none after the other changes, to keep the run short; a report in place of the baseline
  is given after one change only, the quota's. External formats
  are raw and JSON on one node, Clash on another. For the files: three
  runs of any command over two paths that may hold anything, because a third run
  meets what two have left; one failing write.
- `window` has two scenarios. Counters: nodes that are idle or not, a master that
  is right, off either way or accumulating, with two troubles. Limits: four
  quotas and a change of them, with one trouble.
- `panel`: two clients, one on two inbounds, links of three protocols, a budget of
  two for three candidates; two edits (one per output, so that they can cancel
  each other out) and one lost answer. Eleven ways to write a list, one damaged
  field and four drifts in every combination.
- `config`: every file that differs from a valid one in two places. Each
  comparison of the loader is about one place, or about two of them (a name and
  the map it is looked up in).
- `exchange`: chains of up to four requests, the code's own limit, over four origins:
  the panel, two others, and a plain one with the host of one of these.

Deadlock is checked in `faults`, `window`, `panel`, `exchange` and `config`: there the end
is an action of its own. In `parallel`, `Termination` says more. The output runs
stop when every writer has returned, `upgrade` when the runs are used up.

### Fairness

`FairSpec` of the collector assumes weak fairness of the main goroutine and of
each panel's goroutine. The Go scheduler runs every goroutine that can run; every
request has a timeout (`transport.request_timeout`), the retry and the interval
are timers, and a goroutine makes a bounded number of reads while it holds its
slot. Nothing is assumed of `Cancel`. Acquiring a slot needs no strong fairness:
each goroutine releases its slot once and does not come back for another in the
same phase. That a request ends is itself a property: `Ends` of `Exchange`, which
assumes fairness of the timer (`Expire`) only, because a server may be silent for
ever. All other modules are checked for safety.

## Divergences seen while modelling

What follows was met while the code was translated and checked against its
documentation. No run of this project is about these; the properties above either
exclude them by a condition that names them or are weaker than the sentence.

Around an upgrade:

- docs/security-model.md:46-47: "Output permission failure is an initialization
  error and leaves no completed output." A preflight writes its baseline
  (app.go:150) before its report (165): when the report cannot be written, it
  exits with 3 and the completed baseline stays.
- The same document says (45-46) that timeouts are INCONCLUSIVE. verify accepts
  the baseline of a preflight that lost a read (app.go:113-126), and every object
  the preflight had not seen is then one that appeared (diff.go:69-73): an
  uneventful upgrade with a complete verification is BLOCKED.
- diff.go:109 says of every regression that the upgrade "changed audited state
  unexpectedly". Samples are compared as they were drawn, each under its own
  `sample_cap` (diff.go:77-86): with another cap, a subscription that was not
  drawn is a regression. So it is without one where clients of an inbound share a
  subscription ID: their digests are equal (collect.go:388), and which of them is
  drawn depends on the order of the panel's list and on `sort.Slice`, which is not
  stable (389-397). `NoFalseRegression` assumes that no two do (`OwnSubscriptions`).
- Also by diff.go:77-86, observations of one client in one format overwrite each other:
  of the links and an external raw answer, or of two samples of a client, only the last
  in the order of `sortPanel` (collect.go:664-669) is compared, which is not stable
  either.
- `InboundConnectionState` compares listen and port as they are written, and settings,
  streamSettings and sniffing as they are within their own text (adapter.go:524-536).
  A release that writes the same port as its digits, nests an object as text within
  these, capitalises a network, uses another name for a key or leaves a default out has
  changed every such inbound, and verify is BLOCKED. `RewritingIsNoChange` is about the
  other ways only.
- app.go:91 and 110: "baseline and report output paths must differ".
  `sameOutputPath` compares cleaned names, not files (224-237): two names of one
  file pass, and with `--force` the report replaces the baseline just written.

Traffic and limits; the "design" is
docs/superpowers/specs/2026-08-15-3x-ui-doctor-v0.1-design.md:

- The design (141-143) compares "corresponding" counters. `sumSeries` adds the
  nodes' series by position (rules.go:302-305) and so does the comparison
  (196-199): after one node's sample is lost, later samples are compared with
  earlier ones of the master. The sum goes on to the longest series, so that with three
  samples of a node lost it lacks that node's counter three times: an idle, correct
  cluster fails TRAFFIC-002, where docs/security-model.md:45-46 calls insufficient samples
  inconclusive. `HealthyNotAccused` is about two troubles, the last number at which that
  cannot happen.
- The design (138-140) speaks of a node counter that "remains unchanged". It may
  move by up to 65536 per interval (rules.go:330), and the master's delta need
  only be positive (324): a slow, correctly counted client fails TRAFFIC-001.
- docs/rule-authoring.md:11: a rule must "distinguish missing evidence from a
  passing check". A client counts as valid evidence before the length of its
  series is looked at (rules.go:185-190): when every series is short, nothing is
  compared and both rules pass. The lost samples keep the verdict from READY.
- The design (144-145) grants a quota-exhausted client the 30-second grace. The
  code adds it to an expiry only (rules.go:232).

Links and lists:

- The design (130-132) has SUB-003 compare connection-relevant fields of the
  outputs "for the same anonymous client". `canonicalShadowsocks` cuts off the
  query with the plugin (parser.go:161-163); share links are asked for by e-mail,
  the subscription by its ID (collect.go:427-428), so that two clients with one
  subscription are both reported; and the two are separate requests, so that an
  edit between them is reported as a disagreement.
- parser.go:108 recognises a VMess scheme in any case, line 109 removes it in
  small letters only: `VMESS://` is refused as invalid Base64.
- README.md:93 calls SUB-003 "Share-link versus subscription semantics". The
  subscription at its external origin is parsed, but never compared
  (collect.go:464-484, rules.go:135).
- `ParseInbounds` takes a network from "network" or "type" (adapter.go:248-251),
  `ConfigObservations` from "network" only (451-454): equal settings that use
  "type" are reported to differ.
- The design (147): "Unknown configuration semantics produce INCONCLUSIVE, never
  PASS". A quota of another type, or with digits that do not parse, is 0
  (adapter.go:607-624), and 0 is "no quota" (rules.go:233).

- `normalizeVersion` writes a version in small letters if it begins with a v; otherwise
  it puts a v before it and keeps its capitals (adapter.go:557-560). Two ways of
  writing one version can then differ.

Configuration and requests:

- config.go:138 wants the relative threshold in (0,1]. Both comparisons of line
  137 are false for `.nan`, which YAML can express.
- docs/security-model.md:19: "cross-origin redirects are denied unless the host is
  allowlisted". A subscription at the panel's own origin goes through `panelHTTP`
  (client.go:142-144), which denies all of them (91-93).
- README.md:78: "TLS verification is mandatory." An external read starts over HTTPS
  (client.go:135), but its redirects are judged by host or host and port, not by scheme
  (103): one to plain http, or to another port, of a listed host is followed.
  `RequestsAreDirected` speaks of certificates where there is TLS.
- A panel that enables an external format at a URI which is not an HTTPS origin gets
  `invalid_subscription_origin` (collect.go:466-471), which SUB-001 fails: the cluster
  is BLOCKED, though nothing was read that is wrong with it. `BlockedExactly` has it as a
  condition of its own (`Misdirected`).
- The design says that unreachable is inconclusive (133-134). `SanitizedErrorCode` looks
  for "json" in the text of an error, which names the URL (redact.go:52): a lost read of
  a subscription under /json/ is `parse_error`, and SUB-001 fails.

## Proofs

All are checked by TLAPS, for every value of the constants that satisfies the named
assumptions of the modules. These are: one master among finitely many panels,
distinct IDs and GUIDs, positive concurrency and cap, a grace that is not negative
(what `config.validateAndResolve` enforces, which is a theorem itself, `ConfigSound`);
a panel answers with finite lists, knows a client by one e-mail address, and counts
in natural numbers (`ClientsAssumption`, `ListsAssumption`); in `UpgradeCycle` it
answers alike whatever the command, knows an inbound by its ID and by its tag
(`AnswersAssumption`), and a move between two runs changes the panels only. Of the
panel of `PanelViews`: its own links connect, have each key once in a query, and its
Shadowsocks links one plugin (see the divergences); an edit is one of those the
modules enumerate; rows say what rows can say, an inbound has a tag of its own, and
a drift changes it.

The collector, for any number of panels, any cluster, any failing reads and any
cancellation:

- `AccountingInvariant`, `ConcurrencyBounded`, `HandoverIsQuiet`. That at most
  `panel_concurrency` panels run is not inductive: the guard of `Acquire` reads
  the counter `sem`, not the goroutines. `Accounting` ties `sem` to the number of
  goroutines that hold a slot and `wg` to those that have not called Done, and
  adds that nobody is active between phases, because a new phase resets both
  counters. Every step is one of five kinds (`StepKinds`), each a counting
  argument about one element added to or taken from a finite set.
- `TypeCorrect`. `TypeInv` adds to Accounting that a panel still queued or running
  in a sampling phase has fewer samples than ticks (`SamplesCounted`), without
  which the bound on `traffic` is not inductive.
- `BudgetIsFair` (`BudgetFair`). `BudgetKept` says that the shares are what `Deal`
  gives for the evidence that is there, which does not change after the first phase,
  and that what a panel has still to sample is part of one selection of that size.
  What the round robin does is the lemma `DealFair`: the shares stay within the
  offers, sum up to the cap or to all there is, and differ by more than one only
  where a panel ran out. `Deal` is a recursive function over turns; the lemma
  follows an invariant of the turns through it.
- `MissingEvidenceIsSaid` (`NoSilentGap`). Observations only accumulate
  (`ObservationsKept`), only the steps of `collectPanel` move a panel past a read
  (`ReadingSteps`), and each of them either keeps the value or records the failure.
  The subtle part is the version gate: what counts as "past" at the end depends on
  `Supported`, which changes only with the update information.
- `ReadyIsBackedByEvidence` (`ReadyIsBacked`), through the collector and the rule
  pack. Three invariants meet: `NoSilentGap`; `ReadingPlaced`, a goroutine that has
  left `collectPanel` is at its end, and `got` holds nothing that was not to be
  read; and `SamplesAccounted`, a supported panel of which nothing but warnings is
  said has one traffic sample for every tick, less the one it waits for. A run that
  never ticked is caught elsewhere: a series of at most one observation leaves
  LIMIT-001 without a client to watch (`ReadySampled`), and that is UNKNOWN.
- `ReadyIsTrueOfPanels` (`ReadyIsTrue`). The invariant `Judged` says that what the
  reads imply has been said: the missing operations once the status is behind, the
  configuration findings once `collectPanel` has returned, and the result of
  `reconcileTopology` once the first phase is over, each computed from what was
  kept. It survives because observations are never taken back and `got` no longer
  grows. READY excludes every blocking observation and, by
  `ReadyIsBackedByEvidence`, every gap; what is left is that on complete evidence
  the reconciliation, the configuration rules and the traffic and limit rules are
  silent only if the panels agree, one lemma per rule.
- `BlockedIsExact` (`BlockedExactly`) is the other direction and needs the
  opposite invariant: a run that loses nothing says nothing but what its reads
  imply and that a status was not available (`NothingElseSaid`), with `GateKept`,
  only a supported panel is read past its status. Then each rule is shown to fail
  only for its condition.

The upgrade cycle, for any clusters, command lines, keys, budgets, number of runs,
failures and kills:

- `UpgradeTyped` (`TypeOK`).
- `Delivery` (`DeliveredOrSaid`) and `BaselineKept` (`BaselineSurvivesVerify`), as
  long as no output is another name of a snapshot's path (`PathsDistinct`). The
  invariant says that once a preflight is at its report, the path of its baseline
  holds the snapshot of this very run, and that a run under way has accepted
  arguments, whose two paths differ.
- `ComparisonExact`: for all pairs of snapshots, `Compare` finds a regression
  exactly if a panel came or went, or an object in one of the three maps of a panel
  came, went or is not what it was. Changes of a scalar never block.
- `ReadyIsUnchanged` (`ReadyMeansUnchanged`). The invariant `Lineage` says of every
  document, the baseline in memory included, that it holds the inbounds and clients
  of the cluster it was made from, as far as that run read them, and of every sampled
  link set that it is one the client could be given there (`Faithful`), and of
  the run under way that every list it lost is said by an observation
  (`LossesSaid`). READY excludes those, and regressions; by `ComparisonExact` the
  maps are equal, and by injective aliases so are the inbounds, clients and link sets
  behind them.
- `NothingMadeUp` (`NoFalseRegression`). `Lineage` also says that a complete run
  draws exactly the selection its cluster, cap and the order of the digests
  determine, and observes it in every format (`DrawnInFull`). An upgrade may renumber inbounds, so the candidates of
  two equal clusters are not the same: they correspond place by place, in stratum
  and digest (`Mark`), and the two passes of `Select` then take the same places
  (`SelectAlike`). That a digest belongs to one candidate is the assumption
  `OwnSubscriptions`. The budgets are equal by the same correspondence (`FullShare`).

Links and lists, for any panel, any number of edits and of lost answers:

- `PanelTyped` (`TypeOK`), `DifferenceIsExact` (`DifferenceExactly`),
  `SpoiledIsExact` (`SpoiledIsSaid`), `LossAccusesNobody` (`LossIsUnknown`),
  `StrataAreCovered` (`StrataCovered`). The invariant `LinkInv` says what every
  served link is made of, after any sequence of edits (`GoodLink`: a known or one
  unknown scheme, a host, each key of the query once); that without edits the
  outputs are the panel's own (`Untouched`), and before the run nothing is heard
  (`NotYet`); and that an answer heard is what the output still serves, unless
  one of its clients was edited meanwhile (`Answered`). Then canonical links are
  equal exactly if the links connect alike (`CanonicalIsConnection`), which needs
  that `Encoded` loses nothing of a query in which each key is there once, and
  `Valid` refuses exactly what leads nowhere (`ValidIsSound`). That the sample covers the inbounds is
  the lemma `SelectGood` about the two passes.
- `EncodingNeverMatters` (`EncodingIsIrrelevant`), `DriftIsExact` (`DriftExactly`)
  and `RewritingChangesNothing` (`RewritingIsNoChange`): first what one value is
  read as, however it is written (`ScalarRead`, `TokenRead`, `NestedRead`), then
  a row (`InboundRead`, `ClientRead`, `NodeRead`), then the lists and the rule.

The observation window, for any number of nodes, any traffic, any number of troubles
and any thresholds (counters are natural numbers, `CountsAssumption`; the thresholds
are what the loader accepts, `ThresholdsAssumption`):

- `WindowTyped` (`TypeOK`). A node's counter is, at any time, what it started with
  and its rate times the intervals it has counted in (`CountersTyped`).
- `OverdueIsCaught` (`OverdueCaught`). `Overdue` says that an observation made two
  samples after the quota was used up shows a counter at or above the quota that was
  listed, if that is not above the present one. It survives one change of the quota
  only. `SeriesTyped` says that a panel has all its observations unless it is said
  that one is missing, which READY excludes, so the last three are those of the last
  three rounds.
- `AccumulationIsCaught` (`AccumulationCaught`). `Regular` follows an undisturbed
  window exactly: the i-th observation of a node is what it has counted after i
  intervals, and from one observation to the next the master gets ahead of their sum
  by its gain and nothing else (`InTime`, `Lead`). READY means that no observation is
  missing, so with nothing early there were no troubles, and three equal deltas lie
  side by side in what was compared (`SeriesMove`).
- `DeviationIsCaught` (`DeviationCaught`) and `HealthyIsNotAccused`
  (`HealthyNotAccused`). Once something comes early the rules compare counters of
  different times. `MasterBehind`, `NodeBehind` and `SeriesBehind` bound by how much:
  the i-th observation of a node lies between what it had counted after i - 1 and
  after i intervals, that of the master, less what it is off by, between i - 2 and i.
  So the two series are never more than two intervals' traffic apart (`SeriesNear`), however
  many samples and synchronisations come early; that gives the conditions of the two
  theorems. The scenarios of `window` meet those of the second one: 0, 100 000 and
  250 000 bytes per interval, a threshold of 1 000 000, and 65 536 that count as
  unchanged.

The other components:

- `OutputTypeCorrect`, `InstallationAtomic`: NeverTorn becomes inductive with the
  fact, part of `TypeOK`, that a writer reaches the reservation and the rename
  only with a synced body.
- `PromiseKept`: any number of unforced writers with the path to themselves
  implement `AtomicOutput`. The invariant `Pinned` says that from its reservation
  to its rename a writer's reservation is what the path holds; without it
  `Rename` would not map to `Publish`. With a forced writer it is false, which is
  the third finding.
- `ReservationReleased` (`NoReservationLeft`): any number of writers, forced ones
  included, as long as at most one call fails and the power stays on (the
  property's own condition). A reservation at the path belongs to a writer that is
  still going to remove or replace it, or that met the one failing call.
- `ConfigTyped`, `ConfigSound` (`AcceptedIsSound`), `RefusalIsForCause`
  (`RefusedForCause`): the loader goes through the panels once; the invariant says
  that behind its place the three maps hold exactly the names of the panels it is
  past, which are distinct, and that the counter of masters is theirs. That makes
  the verdict exact in both directions: `ConfigSound` is where the assumptions of
  the other modules come from, and a refusal always names a panel, a pair of panels
  or a setting that is not well formed.
- `ExchangeTyped`, `ReadsAreDirected`, `OnlyAnswersAccuse`: any origins, any
  allowed hosts. Every request on the trail is the first one or a hop its client
  allows, and was sent on a connection verified by the rule of that client; the
  answer belongs to the last of them.

On method. The induction theorems of the library take an operator as a parameter
and cannot be used. Where a fact about a recursive function is needed (`Deal`,
`Select`, sums over sequences), `SamplingProofs` takes a least counterexample
instead: a set of naturals or of subsets that is not empty has a least element, and
the step at that element contradicts it.

What the proofs changed in the models:

- `ReadyIsTrue` and `BlockedExactly` did not mention the counters and held because
  the worlds of the runs keep them within the threshold. `CountersAgree` is now part
  of `Healthy`, and `faults` has a deviation that violates it.
- What is listed of a panel was a CASE with overlapping guards; it is now said per
  kind of list (`Listed`).
- `ReadyMeansUnchanged` was too strong. verify accepts the baseline of a preflight
  that lost a panel's list of clients; if the panel has no client left, both maps
  are empty and nothing is reported. The attempt to prove it showed the case, a third
  panel in `upgrade` reaches it, and the property now excepts exactly it.
- `OverdueCaught` was too strong for two changes of the quota: one that goes down, so
  that the client has used it up since long, and up again is not the one that was
  listed, and the observations in between say nothing of it. The property now says
  that there was at most one.
- `TrafficWindow` says what is assumed of its counters and thresholds, and its sum
  over the nodes has a name of its own (`SumAll`).
- Two clusters are the same to `NoFalseRegression` only if the subscription IDs are:
  they are part of the rank by which samples are drawn.

Model-checked only:

- What `HealthyNotAccused` says of a window in which samples are lost: the sums are
  then short of a whole counter, and whether that is in one or in three observations
  depends on how many are lost. The run loses up to two; with three the code does accuse.
- What `DeviationCaught` says of a master that is off by more than the thresholds, but
  not by two intervals' traffic more, when something comes early: whether it can hide
  depends on the rates, and with those of the run it cannot.
- `Termination` and `Ends`: liveness is out of the prover's reach.

## Not modelled

- Bytes: the alphabets of Base64, the syntax of URLs, YAML and JSON, the canonical form of JSON and
  Clash documents (which nothing compares within a run).
- The search of an OpenAPI document for operations: one fault of `Collector` says
  that an operation is missing. The allowlist of network identifiers, which only
  a report shows.
- Aliases and digests are injective; a collision of HMACs is left out. In
  `UpgradeCycle` they depend on the label of the key.
- The proxy, which has no decision in it, and the check of API paths, which are
  constants of the collector. How GitHub answers when `stable` is resolved is one of
  three results.
- Reports, the wording and order of findings, flag parsing, Windows ACLs (the same
  step of `Write` with another call).
- The directory is not synced after the rename (io.go:115): `PowerLoss` reverts a
  path to what was synced, but a run that reported success and finds the old file
  after a power loss contradicts no sentence of the documentation.

## Plan

Done: the collector with its pure functions; the output protocol; the upgrade
cycle; the traffic window; sampling; links, lists, requests and configuration; as
theorems, all safety properties that the runs check, those of the window under
conditions on its traffic. What is left, in this order:

1. That the writes of `UpgradeCycle` are steps of `AtomicOutput`, for each of its
   paths, as a refinement.
2. The traffic rules for series of any length, with what must be assumed of the
   rates.
