---------------------------- MODULE UpgradeCycle ----------------------------
(***************************************************************************)
(* internal/app: Run, one process after another, around an upgrade.  A     *)
(* preflight leaves a baseline, the operator upgrades the panels, a verify *)
(* compares.  Between its steps a run can fail or be killed; a collection  *)
(* can lose reads.                                                         *)
(*                                                                         *)
(* A collection is two steps here, made of the definitions of Collector    *)
(* (C), whose goroutines are the subject of that module.  What             *)
(* snapshot.Write does to a path is what AtomicOutput promises of it.      *)
(***************************************************************************)
EXTENDS Topology, Rules, Sampling, SnapshotDiff

CONSTANTS PanelOrder, PanelConcurrency, Worlds,  \* as in Collector
          Clusters,    \* the states the panels may be in: Worlds is indexed by
                       \* <<command, cluster>>
          Starts,      \* those they may be in at first
          Moves,       \* pairs of them: what may happen between two runs
          Arguments,   \* command lines, see NoArgs
          DrawOrder,   \* <<inbound identity, subscription ID>> in the order of the
                       \* keyed digests
          Bounds       \* cluster -> [arguments: those that are used,
                       \* occupied: sets of paths that may hold somebody's file at first,
                       \* runs, lost, errors: bounds on runs, lost reads per run, failing writes]

ASSUME ClustersAssumption ==
  /\ Starts \subseteq Clusters
  /\ \A k \in Clusters : Bounds[k].runs \in Nat /\ Bounds[k].errors \in Nat
  /\ \A move \in Moves : /\ move[1] \in Clusters /\ move[2] \in Clusters
                         /\ Bounds[move[1]].runs = Bounds[move[2]].runs
                         /\ Bounds[move[1]].errors = Bounds[move[2]].errors

\* A panel answers alike whatever it is read for.  It knows an inbound by its ID and
\* by its tag, a client by its e-mail address, and a client is attached to the inbounds
\* it lists; it is served something in every format there is.
ASSUME AnswersAssumption ==
  \A k \in Clusters, p \in Panels :
    LET answers == Worlds[<<"verify", k>>].panel[p]
    IN /\ \A command \in {"preflight", "check"} : Worlds[<<command, k>>].panel[p] = answers
       /\ IsFiniteSet(answers.inbounds) /\ IsFiniteSet(answers.clients)
       /\ \A a, b \in answers.inbounds :
            \/ a.id = b.id
            \/ InboundIdentity(a, ExpectedGUID[p]) = InboundIdentity(b, ExpectedGUID[p])
            => a = b
       /\ \A c, d \in answers.clients : c.id = d.id => c = d
       /\ \A c \in answers.clients : /\ c.listed \in Seq(Range(c.listed))
                                     /\ c.inbounds = Range(c.listed)
                                     /\ {"links"} \cup answers.formats \subseteq DOMAIN c.outputs

\* Panels have IDs of their own, and digests an order.
ASSUME OrderAssumption ==
  /\ PanelOrder \in Seq(Panels)
  /\ \A i, j \in DOMAIN PanelOrder : PanelOrder[i] = PanelOrder[j] => i = j
  /\ DrawOrder \in Seq(Range(DrawOrder))
  /\ \A k \in Clusters, p \in Panels :
       LET answers == Worlds[<<"verify", k>>].panel[p]
       IN \A c \in answers.clients, in \in answers.inbounds : in.id \in c.inbounds =>
            <<InboundIdentity(in, ExpectedGUID[p]), c.sub>> \in Range(DrawOrder)

VARIABLES cluster,  \* the panels as they are
          file,     \* path -> what it holds
          pc,       \* where the run is
          args,     \* its command line and configuration
          before,   \* the baseline a verify has read
          got, obs, subs, traffic,  \* what it collected, as in Collector
          exit,     \* how the last run ended, 0 while one is under way
          runs, errors

vars == <<cluster, file, pc, args, before, got, obs, subs, traffic, exit, runs, errors>>
collected == <<got, obs, subs, traffic>>

Bound == Bounds[cluster]

Every(v) == [p \in Panels |-> v]

C == INSTANCE Collector WITH
  SampleCap <- 1, MaxFaults <- [w \in DOMAIN Worlds |-> 0], Cancellable <- {},
  world <- <<args.command, cluster>>, phase <- "done", tick <- 5, pc <- Every("idle"), sem <- 0, wg <- 0, next <- Every("end"),
  attempt <- Every(0), budget <- Every(0), samples <- Every({}), external <- Every({}),
  cancelled <- FALSE, faults <- 0

Guaranteed == "v3.6.0"   \* the only target v0.1 accepts

\* `snapshot` is the path of --baseline-out or --baseline.  `conf` is what doctor.yaml
\* says: the label of the HMAC key and the sample cap.  A label stands for its key
\* (README, lines 69-72).
NoArgs == [command |-> "none", target |-> "", snapshot |-> "baseline", output |-> "-",
           json |-> FALSE, force |-> FALSE, conf |-> [keyID |-> "", cap |-> 1]]

-----------------------------------------------------------------------------
(* Files: two paths, and a name that is another one for the baseline *)

Paths == {"baseline", "report"}
PathOf(output) == IF output = "alias" THEN "baseline" ELSE output

ASSUME ArgumentsAssumption ==
  \A a \in Arguments : /\ a.command \in {"preflight", "verify", "check"}
                       /\ a.snapshot \in Paths /\ a.output \in Paths \cup {"-", "alias"}
                       /\ a.conf.cap \in Nat

Nothing == [what |-> "nothing"]
Foreign == [what |-> "foreign"]   \* somebody's file, or the reservation of a dead writer

\* snapshot.Read.  A report in JSON has the schema version of a snapshot and a
\* manifest, but no panels.
Readable(path) == file[path].what \in {"snapshot", "report"} /\ file[path].json

\* Mutant: the paths are not compared.
SameOutputPath_Never(a, b) == FALSE

\* sameOutputPath compares the names.
SameOutputPath(a, b) == a # "-" /\ a = b

\* How a call of snapshot.Write may end: as AtomicOutput promises.
Written(path, body) ==
  /\ args.force \/ file[path] = Nothing
  /\ file' = [file EXCEPT ![path] = body]
  /\ UNCHANGED errors
NotWritten(path) ==
  /\ IF ~args.force /\ file[path] # Nothing THEN UNCHANGED errors
     ELSE errors < Bound.errors /\ errors' = errors + 1
  /\ UNCHANGED file

-----------------------------------------------------------------------------
(* What a run persists of the panels *)

\* Aliases are keyed: equal for equal identities under equal keys.
Keyed(x) == <<args.conf.keyID, x>>

\* InboundConnectionState: everything but the database ID.
ConnectionState(in) == [in EXCEPT !.id = ""]

InboundMap(inbounds, guid) ==
  [a \in {Keyed(InboundIdentity(in, guid)) : in \in inbounds} |->
     ConnectionState(CHOOSE in \in inbounds : Keyed(InboundIdentity(in, guid)) = a)]

\* Mutant: the inbounds are known by their database IDs.
InboundAliases_ByID(c, inbounds, guid) == Those(c.listed, {in.id : in \in inbounds})

\* A client's inbounds, in the order in which the panel lists them.
InboundAliases(c, inbounds, guid) ==
  LET known == Those(c.listed, {in.id : in \in inbounds})
  IN [i \in DOMAIN known |-> InboundIdentity(CHOOSE in \in inbounds : in.id = known[i], guid)]

ClientState(c, inbounds, guid) ==
  [enabled |-> c.enabled, total |-> c.total, expiry |-> c.expiry,
   inbounds |-> InboundAliases(c, inbounds, guid)]

ClientMap(clients, inbounds, guid) ==
  [a \in {Keyed(c.id) : c \in clients} |->
     ClientState(CHOOSE c \in clients : Keyed(c.id) = a, inbounds, guid)]

\* An observation as compareSubscriptions keeps it: an external answer in the raw
\* format has the key of the link sample, and so have two samples of one client.
Entry(s) == [key |-> <<Keyed(s.client), s.format>>, value |-> <<s.code = "", s.links>>]

\* The last of equal keys counts, and the sort that decides which one is last says only
\* that it is the same one for the same observations.
MapOf(entries) == [a \in {e.key : e \in entries} |-> (CHOOSE e \in entries : e.key = a).value]

SubscriptionMap(observed) == MapOf({Entry(s) : s \in observed})

\* The scalars; an empty set for what was not read.
PanelFields(p) ==
  LET answers == C!Answers(p)
      seen(read, v) == When(read \in got[p], {v})
  IN [f \in Fields |->
        CASE f = "panel_version" -> seen("update", answers.version)
          [] f = "xray_version" -> seen("status", answers.xray)
          [] f = "openapi_hash" -> seen("openapi", answers.version)
          [] f = "generated_config_hash" -> seen("config", Keyed(answers.generated))]

PanelSnapshot(p) ==
  LET guid == ExpectedGUID[p]
      inbounds == C!Listed(p, "inbounds")
  IN [alias |-> Keyed(guid), fields |-> PanelFields(p), inbound |-> InboundMap(inbounds, guid),
      client |-> ClientMap(C!Listed(p, "clients"), inbounds, guid),
      subscription |-> SubscriptionMap(subs[p])]

Current == [p \in Panels |-> PanelSnapshot(p)]

Complete == \A p \in Panels : /\ got[p] = C!ReadsOf(p) /\ traffic[p] = C!TrafficSamples
                              /\ \A s \in subs[p] : s.code = ""

\* What ends up in a file.  `cluster`, `cap`, `got` and `complete` are not in it: they
\* say what it was made from.
Document(what, panels) ==
  [what |-> what, by |-> runs, command |-> args.command, json |-> what = "snapshot" \/ args.json,
   keyID |-> args.conf.keyID, target |-> IF args.command = "check" THEN "" ELSE Guaranteed,
   panels |-> panels, cluster |-> cluster, cap |-> args.conf.cap, got |-> got,
   complete |-> Complete]

-----------------------------------------------------------------------------
(* Collect, as two steps that lose some reads *)

\* What the digest of a candidate is made of.
Mark(p, x) ==
  <<InboundIdentity(CHOOSE in \in C!Listed(p, "inbounds") : in.id = x.inbound, ExpectedGUID[p]),
    x.client.sub>>

\* Clients that share a subscription ID on an inbound have one digest, and one of them is
\* considered: which one is up to the order of the panel's list, and to the sort.
Firsts(p) ==
  LET all == C!EligibleCandidates(p)
  IN {S \in SUBSET all : /\ {Mark(p, x) : x \in S} = {Mark(p, x) : x \in all}
                         /\ \A x, y \in S : Mark(p, x) = Mark(p, y) => x = y}

\* Some candidates of a panel in the order they are drawn in.
DrawnFrom(p, S) ==
  LET known == Those(DrawOrder, {Mark(p, x) : x \in S})
      candidate(x) == [stratum |-> Mark(p, x)[1], rank |-> C!Rank(x), client |-> x.client]
  IN [i \in DOMAIN known |-> candidate(CHOOSE x \in S : Mark(p, x) = known[i])]

Share == Deal(Those(PanelOrder, {p \in Panels : C!Supported(p)}), [p \in Panels |-> C!Eligible(p)],
              args.conf.cap)

Draws(p) == {Range(Select(DrawnFrom(p, S), Share[p])) : S \in Firsts(p)}

\* The reads a panel's version lets the run make, and what it draws from them.
Asked(p) == IF C!Supported(p) THEN C!ReadsOf(p) ELSE {"openapi", "update", "status"}

\* Any of S may be lost, up to the bound on what a run loses.
Lost(S, others) == {Range(f) : f \in UNION {[1..k -> S] : k \in 0..(Bound.lost - others)}}

Answered(p, lost) ==
  LET given == {read \in C!ReadsOf(p) : <<p, read>> \notin lost}
  IN IF "update" \in given /\ C!Answers(p).version \in SupportedVersions THEN given
     ELSE given \cap {"openapi", "update", "status"}

Collect ==
  /\ pc = "collect"
  /\ \E lost \in Lost({x \in Panels \X C!Reads : x[2] \in C!ReadsOf(x[1])}, 0) :
       got' = [p \in Panels |-> Answered(p, lost)]
  /\ pc' = "sample"
  /\ UNCHANGED <<cluster, file, args, before, obs, subs, traffic, exit, runs, errors>>

Missing(p) == Asked(p) \ got[p]

\* Where a drawn candidate is observed: by the panel's link requests, and in every
\* external format.
Sources(p) == {"links"} \cup C!ExternalFormats(p)

FormatOf(source) == IF source = "links" THEN "raw" ELSE source

CodeOf(p, x, source, lost) ==
  CASE source \in C!Answers(p).misdirected -> C!ExternalCode(source, "misdirected")
    [] source \notin C!Answers(p).misdirected /\ <<p, x.rank, source>> \in lost ->
         IF source = "links" THEN "api_evidence_missing" ELSE C!ExternalCode(source, "lost")
    [] OTHER -> ""

ObservedAs(x, source, code) ==
  [client |-> x.client.id, format |-> FormatOf(source), code |-> code,
   agree |-> source = "links" => x.client.agree,
   links |-> IF code = "" THEN x.client.outputs[source] ELSE {}]

\* What is read of a candidate is lost or not, as are the traffic samples of a panel.
Sampled(p, drawn, lost) ==
  {ObservedAs(x, source, CodeOf(p, x, source, lost)) : x \in drawn, source \in Sources(p)}

TrafficRead(p, lost) ==
  IF ~C!Supported(p) THEN 0 ELSE C!TrafficSamples - (IF <<p, << >>, "traffic">> \in lost THEN 1 ELSE 0)

Observed(p, sampled, trafficRead) ==
  {C!ReadFailure(p, read, "lost") : read \in Missing(p)}
  \cup C!MissingOperations(p)
  \cup When(C!Supported(p), ConfigObservations(C!Listed(p, "inbounds"), C!Generated(p)))
  \cup {C!ReadFailure(p, s.client, "lost") : s \in {t \in sampled : t.code = "api_evidence_missing"}}
  \cup When(C!Supported(p) /\ trafficRead < C!TrafficSamples, {C!TrafficLost(p)})
  \cup ReconcileTopology(C!Work, args.command, Guaranteed)[p]

\* One draw of every panel.
AllDraws == {drawn \in [Panels -> UNION {Draws(p) : p \in Panels}] :
               \A p \in Panels : drawn[p] \in Draws(p)}

Losable(p, drawn) ==
  {<<p, << >>, "traffic">>} \cup {<<p, x.rank, source>> : x \in drawn, source \in Sources(p)}

MissingReads == MapThenSumSet(LAMBDA p : Cardinality(Missing(p)), Panels)

Sample ==
  /\ pc = "sample"
  /\ \E drawn \in AllDraws :
       \E lost \in Lost(UNION {Losable(p, drawn[p]) : p \in Panels}, MissingReads) :
         /\ subs' = [p \in Panels |-> Sampled(p, drawn[p], lost)]
         /\ traffic' = [p \in Panels |-> TrafficRead(p, lost)]
         /\ obs' = [p \in Panels |-> Observed(p, Sampled(p, drawn[p], lost), TrafficRead(p, lost))]
  /\ pc' = IF args.command = "preflight" THEN "baseline" ELSE "report"
  /\ UNCHANGED <<cluster, file, args, before, got, exit, runs, errors>>

\* The findings of the rule pack, and those of the comparison.
AllFindings ==
  C!Result \cup When(args.command = "verify", Regressions(before.panels, Current))

Verdict == Readiness(AllFindings)

ExitCode(readiness) == CASE readiness = "READY" -> 0
                         [] readiness = "BLOCKED" -> 1
                         [] readiness = "INCONCLUSIVE" -> 2

-----------------------------------------------------------------------------
(* The run *)

Begin(a) == /\ pc = "idle" /\ runs < Bound.runs /\ a \in Bound.arguments
            /\ runs' = runs + 1
            /\ args' = a
            /\ UNCHANGED <<cluster, file, collected, errors>>

\* The process ends.
End(code) == /\ pc' = "idle"
             /\ exit' = code
             /\ before' = Nothing
             /\ got' = Every({}) /\ obs' = Every({}) /\ subs' = Every({}) /\ traffic' = Every(0)
             /\ UNCHANGED <<cluster, args, runs>>

\* resolveTarget: "stable" is whatever the release metadata say, if they answer.
Resolved(target) == CASE target = "stable" -> {"v3.6.0", "v3.7.0", "unresolved"}
                      [] target = "3.6.0" -> {"v3.6.0"}
                      [] OTHER -> {target}

\* A baseline that verify accepts.
Comparable(a) == /\ Readable(a.snapshot)
                 /\ file[a.snapshot].keyID = a.conf.keyID
                 /\ file[a.snapshot].target = Guaranteed

Accept(a) ==
  /\ Begin(a)
  /\ a.command # "check" => ~SameOutputPath(a.snapshot, a.output)
  /\ a.command = "preflight" => Guaranteed \in Resolved(a.target)
  /\ a.command = "verify" => Comparable(a)
  /\ before' = IF a.command = "verify" THEN file[a.snapshot] ELSE Nothing
  /\ pc' = "collect"
  /\ exit' = 0

\* Mutant: the message is printed, but the run goes on.
Refuse_GoesOn(a) ==
  /\ Begin(a)
  /\ a.command = "verify" /\ ~Comparable(a)
  /\ exit' = 0 /\ pc' = "collect"
  /\ UNCHANGED before

Refuse(a) ==
  /\ Begin(a)
  /\ \/ a.command # "check" /\ SameOutputPath(a.snapshot, a.output)
     \/ a.command = "preflight" /\ Resolved(a.target) # {Guaranteed}
     \/ a.command = "verify" /\ ~Comparable(a)
  /\ exit' = 3
  /\ UNCHANGED <<pc, before>>

\* The collection returns the error of a cancelled context.
Interrupt == pc \in {"collect", "sample"} /\ End(3) /\ UNCHANGED <<file, errors>>

\* Mutant: a baseline that cannot be written does not stop the run.
WriteBaseline_Anyway ==
  /\ pc = "baseline"
  /\ Written(args.snapshot, Document("snapshot", Current)) \/ NotWritten(args.snapshot)
  /\ pc' = "report"
  /\ UNCHANGED <<cluster, args, before, collected, exit, runs>>

WriteBaseline ==
  /\ pc = "baseline"
  /\ \/ /\ Written(args.snapshot, Document("snapshot", Current))
        /\ pc' = "report"
        /\ UNCHANGED <<cluster, args, before, collected, exit, runs>>
     \/ NotWritten(args.snapshot) /\ End(3)

\* To standard output, or to a path.
WriteReport ==
  /\ pc = "report"
  /\ IF args.output = "-"
     THEN /\ UNCHANGED file
          /\ \/ End(ExitCode(Verdict)) /\ UNCHANGED errors
             \/ End(3) /\ errors < Bound.errors /\ errors' = errors + 1
     ELSE LET path == PathOf(args.output)
          IN \/ Written(path, Document("report", << >>)) /\ End(ExitCode(Verdict))
             \/ NotWritten(path) /\ End(3)

\* The process is killed, possibly with a path reserved.
Die ==
  /\ pc # "idle"
  /\ End(137)
  /\ \/ UNCHANGED file
     \/ /\ pc = "baseline" \/ (pc = "report" /\ args.output # "-")
        /\ LET path == IF pc = "baseline" THEN args.snapshot ELSE PathOf(args.output)
           IN file[path] = Nothing /\ file' = [file EXCEPT ![path] = Foreign]
  /\ UNCHANGED errors

\* Between two runs the panels are upgraded, or changed.
Move ==
  /\ pc = "idle" /\ runs > 0
  /\ \E move \in Moves : move[1] = cluster /\ cluster' = move[2]
  /\ UNCHANGED <<file, pc, args, before, collected, exit, runs, errors>>

Init ==
  /\ cluster \in Starts
  /\ \E occupied \in Bound.occupied :
       file = [path \in Paths |-> IF path \in occupied THEN Foreign ELSE Nothing]
  /\ pc = "idle"
  /\ args = NoArgs
  /\ before = Nothing
  /\ got = Every({}) /\ obs = Every({}) /\ subs = Every({}) /\ traffic = Every(0)
  /\ exit = 0
  /\ runs = 0 /\ errors = 0

Next == \/ \E a \in Arguments : Accept(a) \/ Refuse(a)
        \/ Collect \/ Sample \/ Interrupt \/ WriteBaseline \/ WriteReport \/ Die \/ Move

Spec == Init /\ [][Next]_vars

-----------------------------------------------------------------------------
(* What is expected of it *)

\* Types: a verification that is under way always has a baseline it could read.
TypeOK ==
  /\ cluster \in Clusters
  /\ pc \in {"idle", "collect", "sample", "baseline", "report"}
  /\ args \in Arguments \cup {NoArgs}
  /\ DOMAIN file = Paths
  /\ \A path \in Paths : file[path].what \in {"nothing", "foreign", "snapshot", "report"}
  /\ before.what \in (IF args.command = "verify" /\ pc # "idle" THEN {"snapshot", "report"}
                      ELSE {"nothing"})
  /\ exit \in {0, 1, 2, 3, 137}
  /\ runs \in 0..Bound.runs /\ errors \in 0..Bound.errors

\* What the panels are, apart from what an upgrade may change.
Truth(k) ==
  [p \in Panels |->
     LET answers == Worlds[<<"verify", k>>].panel[p]
         identities(id) == {InboundIdentity(in, ExpectedGUID[p]) :
                              in \in {j \in answers.inbounds : j.id = id}}
         known(c) == Those(c.listed, {in.id : in \in answers.inbounds})
     IN [inbounds |-> {<<InboundIdentity(in, ExpectedGUID[p]), ConnectionState(in)>> :
                         in \in answers.inbounds},
         clients |-> {<<c.id, c.enabled, c.total, c.expiry,
                        [i \in DOMAIN known(c) |-> identities(known(c)[i])]>> :
                       c \in answers.clients},
         formats |-> answers.formats,
         outputs |-> {<<c.id, c.sub, c.outputs>> : c \in answers.clients}]]

Verified == pc = "report" /\ args.command = "verify"

\* What a client could be given in a format.
Served(c, format) == {c.outputs[source] : source \in {o \in DOMAIN c.outputs : FormatOf(o) = format}}

\* A READY verification is true of the upgrade whatever baseline it was given (that
\* of a run that lost reads, that was itself blocked, or a report), and whatever it
\* lost itself: every inbound of every panel is as it was then, and every client of
\* one whose clients the baseline lists, or that has a client now; and a client that
\* was sampled was given, in each format, links that it could have been given then.
\* Nothing misses the clients of a panel that has none left, if the baseline lost the
\* list of them, nor the links of a client that is not sampled.
ReadyMeansUnchanged ==
  Verified /\ Verdict = "READY" =>
    \A p \in Panels :
      LET then == Truth(before.cluster)[p]
          now == Truth(cluster)[p]
      IN /\ now.inbounds = then.inbounds
         /\ "clients" \in before.got[p] \/ now.clients # {} => now.clients = then.clients
         /\ \A s \in subs[p] :
              \E t \in subs[p], c \in Worlds[<<"verify", before.cluster>>].panel[p].clients :
                /\ t.client = s.client /\ t.format = s.format /\ c.id = s.client
                /\ t.links \in Served(c, s.format)

\* No two clients that a panel can draw share a subscription ID on an inbound.
OwnSubscriptions(k) ==
  \A p \in Panels :
    \A c, d \in {e \in Worlds[<<"verify", k>>].panel[p].clients : e.enabled /\ e.sub # ""} :
      c.sub = d.sub /\ c.inbounds \cap d.inbounds # {} => c = d

\* No regression is made up: between two complete runs with one sample cap, over
\* panels that were only upgraded, the comparison has nothing to report.  Where clients
\* share a subscription ID the two runs need not draw the same one.
NoFalseRegression ==
  Verified /\ before.what = "snapshot" /\ before.complete /\ Complete
    /\ before.cap = args.conf.cap /\ Truth(before.cluster) = Truth(cluster)
    /\ OwnSubscriptions(before.cluster) /\ OwnSubscriptions(cluster)
  => Regressions(before.panels, Current) = {}

\* Scripts act on the exit code: 0, 1 or 2 promise that the report of this very run,
\* and the baseline of a preflight, are complete where they were asked for.
DeliveredOrSaid ==
  pc = "idle" /\ runs > 0 /\ exit \in 0..2 =>
    /\ args.output # "-" => /\ file[PathOf(args.output)].what = "report"
                            /\ file[PathOf(args.output)].by = runs
    /\ args.command = "preflight" => /\ file[args.snapshot].what = "snapshot"
                                     /\ file[args.snapshot].by = runs

\* A verification never destroys the baseline it compares with, not even with --force.
BaselineSurvivesVerify ==
  [][pc # "idle" /\ args.command = "verify" => file'[args.snapshot] = file[args.snapshot]]_vars
=============================================================================
