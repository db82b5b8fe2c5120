--------------------------- MODULE UpgradeProofs ---------------------------
(***************************************************************************)
(* What a run may be relied on for by the scripts around it, for any       *)
(* panels, any moves of theirs and any command lines, provided that no     *)
(* path is named twice: the code compares names.  The inductive invariant  *)
(* follows the baseline of a preflight from the moment it is written until *)
(* the report is, which goes to another path.                              *)
(***************************************************************************)
EXTENDS UpgradeCycle, SamplingProofs

\* Command lines whose paths are names of different files.
PathsDistinct ==
  \A a \in Arguments : a.snapshot \in Paths /\ a.output \in Paths \cup {"-"}

Preflight == args.command = "preflight"

FilesInv ==
  /\ file = [path \in Paths |-> file[path]]
  /\ pc \in {"idle", "collect", "sample", "baseline", "report"}
  /\ runs \in Nat

\* While a run is under way.
RunInv ==
  pc # "idle" =>
    /\ args \in Arguments
    /\ args.command # "check" => args.snapshot # args.output
    /\ pc = "baseline" => Preflight

\* A preflight that is about to report has written its baseline.
BaselineInv ==
  pc = "report" /\ Preflight => /\ file[args.snapshot].what = "snapshot"
                                /\ file[args.snapshot].by = runs

IInv == FilesInv /\ RunInv /\ BaselineInv /\ DeliveredOrSaid

-----------------------------------------------------------------------------
LEMMA PathOfPath == \A path \in Paths : PathOf(path) = path
  BY DEF PathOf, Paths

LEMMA WrittenIs ==
  ASSUME FilesInv, NEW path \in Paths, NEW body, Written(path, body)
  PROVE  /\ file' = [p \in Paths |-> file'[p]]
         /\ file'[path] = body
         /\ \A p \in Paths : p # path => file'[p] = file[p]
  BY DEF FilesInv, Written

LEMMA DocumentIs ==
  ASSUME NEW what, NEW panels
  PROVE  Document(what, panels).what = what /\ Document(what, panels).by = runs
  BY DEF Document

\* The process ends without having written anything.
LEMMA EndHolds ==
  ASSUME IInv, NEW code \in {3, 137}, End(code), file' = [p \in Paths |-> file'[p]]
  PROVE  IInv'
  BY DEF IInv, End, FilesInv, RunInv, BaselineInv, DeliveredOrSaid

LEMMA InitHolds == Init => IInv
<1> SUFFICES ASSUME Init PROVE IInv
  OBVIOUS
<1>1. file = [path \in Paths |-> file[path]]
  BY DEF Init
<1> QED
  BY <1>1 DEF Init, IInv, FilesInv, RunInv, BaselineInv, DeliveredOrSaid

LEMMA StepHolds == PathsDistinct /\ IInv /\ [Next]_vars => IInv'
<1> SUFFICES ASSUME PathsDistinct, IInv, [Next]_vars PROVE IInv'
  OBVIOUS
<1> USE DEF IInv
<1>1. ASSUME NEW a \in Arguments, Accept(a) PROVE IInv'
  <2>1. a.command # "check" => a.snapshot # a.output
    BY <1>1 DEF Accept, SameOutputPath, PathsDistinct, Paths
  <2>2. pc' = "collect" /\ args' = a /\ runs' = runs + 1 /\ UNCHANGED file
    BY <1>1 DEF Accept, Begin
  <2> QED
    BY <2>1, <2>2 DEF FilesInv, RunInv, BaselineInv, DeliveredOrSaid
<1>2. ASSUME NEW a \in Arguments, Refuse(a) PROVE IInv'
  BY <1>2 DEF Refuse, Begin, FilesInv, RunInv, BaselineInv, DeliveredOrSaid
<1>3. CASE Collect
  BY <1>3 DEF Collect, FilesInv, RunInv, BaselineInv, DeliveredOrSaid
<1>4. CASE Sample
  BY <1>4 DEF Sample, Preflight, FilesInv, RunInv, BaselineInv, DeliveredOrSaid
<1>5. CASE Interrupt
  BY <1>5, EndHolds DEF Interrupt, FilesInv
<1>6. CASE WriteBaseline
  <2>1. args.snapshot \in Paths
    BY <1>6 DEF WriteBaseline, RunInv, PathsDistinct
  <2>2. CASE Written(args.snapshot, Document("snapshot", Current)) /\ pc' = "report"
             /\ UNCHANGED <<cluster, args, before, collected, exit, runs>>
    BY <1>6, <2>1, <2>2, WrittenIs, DocumentIs
       DEF WriteBaseline, Preflight, FilesInv, RunInv, BaselineInv, DeliveredOrSaid
  <2>3. CASE NotWritten(args.snapshot) /\ End(3)
    BY <2>3, EndHolds DEF NotWritten, FilesInv
  <2> QED
    BY <1>6, <2>2, <2>3 DEF WriteBaseline
<1>7. CASE WriteReport
  <2>1. args \in Arguments /\ args.snapshot \in Paths /\ args.output \in Paths \cup {"-"}
        /\ (Preflight => args.snapshot # args.output)
    BY <1>7 DEF WriteReport, RunInv, PathsDistinct, Preflight
  <2>2. CASE args.output = "-"
    BY <1>7, <2>1, <2>2
       DEF WriteReport, End, Preflight, FilesInv, RunInv, BaselineInv, DeliveredOrSaid
  <2>3. CASE args.output # "-" /\ Written(args.output, Document("report", << >>))
             /\ End(ExitCode(Verdict))
    <3>1. args.output \in Paths
      BY <2>1, <2>3
    <3> QED
      BY <1>7, <2>1, <2>3, <3>1, WrittenIs, DocumentIs, PathOfPath
         DEF WriteReport, End, Preflight, FilesInv, RunInv, BaselineInv, DeliveredOrSaid
  <2>4. CASE args.output # "-" /\ NotWritten(args.output) /\ End(3)
    BY <2>4, EndHolds DEF NotWritten, FilesInv
  <2> QED
    BY <1>7, <2>1, <2>2, <2>3, <2>4, PathOfPath DEF WriteReport
<1>8. CASE Die
  <2>1. file' = [p \in Paths |-> file'[p]]
    BY <1>8 DEF Die, FilesInv
  <2> QED
    BY <1>8, <2>1, EndHolds DEF Die
<1>9. CASE Move
  BY <1>9 DEF Move, FilesInv, RunInv, BaselineInv, DeliveredOrSaid
<1>10. CASE UNCHANGED vars
  BY <1>10 DEF vars, FilesInv, RunInv, BaselineInv, DeliveredOrSaid, Preflight
<1> QED
  BY <1>1, <1>2, <1>3, <1>4, <1>5, <1>6, <1>7, <1>8, <1>9, <1>10 DEF Next

\* Exit codes 0, 1 and 2 promise a complete report of that very run, and the complete
\* baseline of a preflight, whatever fails and wherever a process is killed.
THEOREM Delivery ==
  ASSUME PathsDistinct
  PROVE  Spec => []DeliveredOrSaid
<1>1. PathsDistinct /\ IInv /\ [Next]_vars => IInv'
  BY StepHolds
<1>2. IInv => DeliveredOrSaid
  BY DEF IInv
<1> QED
  BY <1>1, <1>2, InitHolds, PTL DEF Spec

\* No verification changes the file it was given as its baseline, with --force or
\* without, and wherever it is killed.
THEOREM BaselineKept ==
  ASSUME PathsDistinct
  PROVE  Spec => BaselineSurvivesVerify
<1>1. PathsDistinct /\ IInv /\ [Next]_vars => IInv'
  BY StepHolds
<1>2. PathsDistinct /\ IInv /\ [Next]_vars
        => [pc # "idle" /\ args.command = "verify" => file'[args.snapshot] = file[args.snapshot]]_vars
  <2> SUFFICES ASSUME PathsDistinct, IInv, [Next]_vars, pc # "idle", args.command = "verify"
               PROVE  file'[args.snapshot] = file[args.snapshot]
    OBVIOUS
  <2>1. args \in Arguments /\ args.snapshot \in Paths /\ args.output \in Paths \cup {"-"}
        /\ args.snapshot # args.output /\ pc # "baseline"
    BY DEF IInv, RunInv, PathsDistinct, Preflight
  <2>2. CASE WriteReport
    BY <2>1, <2>2, PathOfPath, WrittenIs DEF WriteReport, NotWritten, IInv
  <2>3. CASE Die
    BY <2>1, <2>3, PathOfPath DEF Die, IInv, FilesInv
  <2>4. CASE UNCHANGED file
    BY <2>4
  <2> QED
    BY <2>1, <2>2, <2>3, <2>4
       DEF Next, Accept, Refuse, Begin, Collect, Sample, Interrupt, WriteBaseline, Move, vars
<1> QED
  BY <1>1, <1>2, InitHolds, PTL DEF Spec, BaselineSurvivesVerify

-----------------------------------------------------------------------------
(* The comparison *)

\* Nothing differs between two maps exactly if they are equal.
LEMMA DifferingNone ==
  ASSUME NEW f, NEW g, f = [x \in DOMAIN f |-> f[x]], g = [x \in DOMAIN g |-> g[x]]
  PROVE  Differing(f, g) = {} <=> f = g
<1>1. ASSUME Differing(f, g) = {} PROVE f = g
  <2>1. \A x \in (DOMAIN f) \cup (DOMAIN g) : x \in (DOMAIN f) \cap (DOMAIN g) /\ f[x] = g[x]
    BY <1>1 DEF Differing
  <2> QED
    BY <2>1
<1>2. ASSUME f = g PROVE Differing(f, g) = {}
  BY <1>2 DEF Differing
<1> QED
  BY <1>1, <1>2

\* The maps that are compared.
IsSnapshot(s) == \A id \in DOMAIN s : \A kind \in Kinds :
                   s[id][kind] = [a \in DOMAIN s[id][kind] |-> s[id][kind][a]]

\* The comparison blocks an upgrade exactly if a panel came or went, or an inbound, a
\* client or a sampled subscription of one did or is not what it was.  A scalar never
\* blocks.
THEOREM ComparisonExact ==
  ASSUME NEW old, NEW new, IsSnapshot(old), IsSnapshot(new)
  PROVE  Regressions(old, new) = {} <=>
           /\ DOMAIN old = DOMAIN new
           /\ \A id \in DOMAIN old : \A kind \in Kinds : old[id][kind] = new[id][kind]
<1> DEFINE both == (DOMAIN old) \cap (DOMAIN new)
           Same(id) == \A kind \in Kinds : old[id][kind] = new[id][kind]
           Blocking == {c \in Changes(old, new) : c.severity = "error"}
<1>1. Regressions(old, new) = {} <=> Blocking = {}
  BY DEF Regressions
<1>2. \A panel, kind, subject, severity : Change(panel, kind, subject, severity).severity = severity
  BY DEF Change
<1>3. ASSUME NEW id \in both, NEW c \in FieldChanges(id, old[id].fields, new[id].fields)
      PROVE  c.severity # "error"
  <2>1. PICK f \in Fields : c = Change(id, f, {}, FieldSeverity(f))
    BY <1>3 DEF FieldChanges
  <2>2. FieldSeverity(f) # "error"
    BY DEF FieldSeverity
  <2> QED
    BY <1>2, <2>1, <2>2
<1>4. ASSUME NEW id \in both, Same(id) PROVE ObjectChanges(id, old[id], new[id]) = {}
  <2>1. \A kind \in Kinds : Differing(old[id][kind], new[id][kind]) = {}
    BY <1>4 DEF Differing
  <2> QED
    BY <2>1 DEF ObjectChanges
<1>5. ASSUME NEW id \in both, ~Same(id)
      PROVE  \E c \in ObjectChanges(id, old[id], new[id]) : c.severity = "error"
  <2>1. PICK kind \in Kinds : old[id][kind] # new[id][kind]
    BY <1>5
  <2>2. PICK a : a \in Differing(old[id][kind], new[id][kind])
    <3>1. /\ old[id][kind] = [x \in DOMAIN old[id][kind] |-> old[id][kind][x]]
          /\ new[id][kind] = [x \in DOMAIN new[id][kind] |-> new[id][kind][x]]
      BY DEF IsSnapshot
    <3>2. Differing(old[id][kind], new[id][kind]) # {}
      BY <2>1, <3>1, DifferingNone
    <3> QED
      BY <3>2
  <2>3. Change(id, kind, {a}, "error") \in
          {Change(id, kind, {b}, "error") : b \in Differing(old[id][kind], new[id][kind])}
    BY <2>2
  <2>4. Change(id, kind, {a}, "error") \in ObjectChanges(id, old[id], new[id])
    BY <2>3 DEF ObjectChanges
  <2> QED
    BY <1>2, <2>4
<1>6. ASSUME DOMAIN old = DOMAIN new, \A id \in DOMAIN old : Same(id)
      PROVE  Blocking = {}
  <2> SUFFICES ASSUME NEW c \in Changes(old, new) PROVE c.severity # "error"
    OBVIOUS
  <2>1. PICK id \in both : c \in FieldChanges(id, old[id].fields, new[id].fields)
                                  \cup ObjectChanges(id, old[id], new[id])
    BY <1>6 DEF Changes
  <2> QED
    BY <1>3, <1>4, <1>6, <2>1
<1>7. ASSUME Blocking = {}
      PROVE  DOMAIN old = DOMAIN new /\ \A id \in DOMAIN old : Same(id)
  <2>1. ASSUME NEW id \in (DOMAIN old) \ (DOMAIN new) PROVE FALSE
    <3>1. Change(id, "panel", {old[id].alias}, "error") \in Changes(old, new)
      BY <2>1 DEF Changes
    <3> QED
      BY <1>2, <1>7, <3>1
  <2>2. ASSUME NEW id \in (DOMAIN new) \ (DOMAIN old) PROVE FALSE
    <3>1. Change(id, "panel", {new[id].alias}, "error") \in Changes(old, new)
      BY <2>2 DEF Changes
    <3> QED
      BY <1>2, <1>7, <3>1
  <2>3. ASSUME NEW id \in both, ~Same(id) PROVE FALSE
    <3>1. PICK c \in ObjectChanges(id, old[id], new[id]) : c.severity = "error"
      BY <1>5, <2>3
    <3>2. c \in Changes(old, new)
      BY <2>3, <3>1 DEF Changes
    <3> QED
      BY <1>7, <3>1, <3>2
  <2> QED
    BY <2>1, <2>2, <2>3
<1> QED
  BY <1>1, <1>6, <1>7

-----------------------------------------------------------------------------
(* Types *)

LEMMA TypeInit == Init => TypeOK
<1> SUFFICES ASSUME Init PROVE TypeOK
  OBVIOUS
<1>1. cluster \in Clusters /\ Bound.runs \in Nat /\ Bound.errors \in Nat
  BY ClustersAssumption DEF Init, Bound
<1>2. \A path \in Paths : file[path].what \in {"nothing", "foreign"}
  BY DEF Init, Nothing, Foreign
<1>3. DOMAIN file = Paths
  BY DEF Init
<1>4. pc = "idle" /\ args = NoArgs /\ before.what = "nothing" /\ exit = 0 /\ runs = 0 /\ errors = 0
  BY DEF Init, Nothing
<1> QED
  BY <1>1, <1>2, <1>3, <1>4 DEF TypeOK

LEMMA TypeStep == TypeOK /\ [Next]_vars => TypeOK'
<1> SUFFICES ASSUME TypeOK, [Next]_vars PROVE TypeOK'
  OBVIOUS
<1> USE DEF TypeOK
<1>0. Bound.runs \in Nat /\ Bound.errors \in Nat
  BY ClustersAssumption DEF Bound
<1>1. \A code : End(code) => UNCHANGED <<cluster, Bound, runs>> /\ pc' = "idle"
                             /\ before'.what = "nothing" /\ args' = args /\ exit' = code
  BY DEF End, Bound, Nothing
<1>2. \A path, body : Written(path, body) /\ body.what \in {"snapshot", "report"} =>
         /\ DOMAIN file' = Paths /\ UNCHANGED errors
         /\ \A q \in Paths : file'[q].what \in {"nothing", "foreign", "snapshot", "report"}
  BY DEF Written
<1>3. \A path : NotWritten(path) => UNCHANGED file /\ errors' \in 0..Bound.errors
  BY <1>0 DEF NotWritten
<1>4. \A what, panels : Document(what, panels).what = what
  BY DEF Document
<1>5. ExitCode(Verdict) \in {0, 1, 2}
  BY Zenon DEF ExitCode, Verdict, Readiness
<1>6. ASSUME NEW a \in Arguments, Accept(a) \/ Refuse(a) PROVE TypeOK'
  <2>1. /\ pc = "idle" /\ runs' = runs + 1 /\ runs < Bound.runs /\ args' = a
        /\ UNCHANGED <<cluster, Bound, file, errors>>
    BY <1>6 DEF Accept, Refuse, Begin, Bound
  <2>2. runs' \in 0..Bound'.runs
    BY <1>0, <2>1
  <2>3. CASE Accept(a)
    <3>1. before'.what \in (IF a.command = "verify" THEN {"snapshot", "report"} ELSE {"nothing"})
      BY <2>3 DEF Accept, Comparable, Readable, Nothing
    <3> QED BY <2>1, <2>2, <2>3, <3>1 DEF Accept
  <2>4. CASE Refuse(a)
    BY <2>1, <2>2, <2>4 DEF Refuse
  <2> QED BY <1>6, <2>3, <2>4
<1>7. CASE Collect \/ Sample
  BY <1>7 DEF Collect, Sample, Bound
<1>8. CASE Interrupt
  BY <1>8, <1>1 DEF Interrupt
<1>9. CASE WriteBaseline
  <2>1. CASE Written(args.snapshot, Document("snapshot", Current)) /\ pc' = "report"
             /\ UNCHANGED <<cluster, args, before, collected, exit, runs>>
    BY <1>2, <1>4, <1>9, <2>1 DEF WriteBaseline, Bound
  <2>2. CASE NotWritten(args.snapshot) /\ End(3)
    BY <1>1, <1>3, <2>2
  <2> QED BY <1>9, <2>1, <2>2 DEF WriteBaseline
<1>10. CASE WriteReport
  <2>1. CASE args.output = "-"
    BY <1>0, <1>1, <1>5, <1>10, <2>1 DEF WriteReport
  <2>2. CASE Written(PathOf(args.output), Document("report", << >>)) /\ End(ExitCode(Verdict))
    BY <1>1, <1>2, <1>4, <1>5, <2>2
  <2>3. CASE NotWritten(PathOf(args.output)) /\ End(3)
    BY <1>1, <1>3, <2>3
  <2> QED BY <1>10, <2>1, <2>2, <2>3 DEF WriteReport
<1>11. CASE Die
  <2>1. DOMAIN file' = Paths /\ \A q \in Paths : file'[q].what \in
                                        {"nothing", "foreign", "snapshot", "report"}
    BY <1>11 DEF Die, Foreign
  <2> QED BY <1>1, <1>11, <2>1 DEF Die
<1>12. CASE Move
  <2>1. /\ cluster' \in Clusters /\ Bounds[cluster'].runs = Bounds[cluster].runs
        /\ Bounds[cluster'].errors = Bounds[cluster].errors
    BY <1>12, ClustersAssumption DEF Move
  <2> QED BY <1>12, <2>1 DEF Move, Bound
<1>13. CASE UNCHANGED vars
  BY <1>13 DEF vars, Bound
<1> QED
  BY <1>6, <1>7, <1>8, <1>9, <1>10, <1>11, <1>12, <1>13 DEF Next

\* Every state of a cycle is of its type: a verification that is under way has a
\* baseline it could read.
THEOREM UpgradeTyped == Spec => []TypeOK
  BY TypeInit, TypeStep, PTL DEF Spec

-----------------------------------------------------------------------------
(* What two runs draw from panels that are the same *)

\* The candidates of a panel with these clients and inbounds.
Asks(c) == c.enabled /\ c.id # "" /\ c.sub # ""
Subscribed(S) == {c \in S : Asks(c)}
Pairs(S, I) == {[client |-> c, inbound |-> in.id] : c \in S, in \in I}
Offer(S, I) == {x \in Pairs(Subscribed(S), I) : x.inbound \in x.client.inbounds}

\* Where a candidate stands, and what it is known by, from one run to the next.
Place(I, guid, x) == InboundIdentity(CHOOSE in \in I : in.id = x.inbound, guid)
MarkOf(I, guid, x) == <<Place(I, guid, x), x.client.sub>>
Marks(E, I, guid) == {MarkOf(I, guid, x) : x \in E}

\* A panel's answers, as AnswersAssumption has them.
WellKept(S, I, guid) ==
  /\ IsFiniteSet(I) /\ IsFiniteSet(S)
  /\ \A a, b \in I : a.id = b.id \/ InboundIdentity(a, guid) = InboundIdentity(b, guid) => a = b
  /\ \A c, d \in S : c.id = d.id => c = d
  /\ \A c \in S : c.listed \in Seq(Range(c.listed)) /\ c.inbounds = Range(c.listed)

\* The inbounds of a client as they are compared, as a function of a client and of its
\* panel's inbounds.
Attached(c, inbounds, guid) ==
  LET known == Those(c.listed, {in.id : in \in inbounds})
      identities(id) == {InboundIdentity(in, guid) : in \in {j \in inbounds : j.id = id}}
  IN [i \in DOMAIN known |-> identities(known[i])]

ClientTruth(c, inbounds, guid) ==
  <<c.id, c.enabled, c.total, c.expiry, Attached(c, inbounds, guid)>>

InboundTruth(in, guid) == <<InboundIdentity(in, guid), ConnectionState(in)>>
OutputTruth(c) == <<c.id, c.sub, c.outputs>>

\* No two clients that can be drawn share a subscription ID on an inbound.
Unshared(S) ==
  \A c, d \in {e \in S : e.enabled /\ e.sub # ""} :
    c.sub = d.sub /\ c.inbounds \cap d.inbounds # {} => c = d

\* Two states of a panel between which Truth does not tell.
TrueAlike(S, I, T, J, guid) ==
  /\ {InboundTruth(in, guid) : in \in I} = {InboundTruth(in, guid) : in \in J}
  /\ {ClientTruth(c, I, guid) : c \in S} = {ClientTruth(c, J, guid) : c \in T}
  /\ {OutputTruth(c) : c \in S} = {OutputTruth(c) : c \in T}

LEMMA PairsAre ==
  ASSUME NEW S, NEW I
  PROVE  /\ \A x \in Pairs(S, I) : \E c \in S, in \in I : x = [client |-> c, inbound |-> in.id]
         /\ \A c \in S, in \in I : [client |-> c, inbound |-> in.id] \in Pairs(S, I)
BY DEF Pairs

LEMMA OfferIs ==
  ASSUME NEW S, NEW I
  PROVE  /\ \A x \in Offer(S, I) :
              \E c \in S, in \in I : /\ x = [client |-> c, inbound |-> in.id]
                                     /\ Asks(c) /\ in.id \in c.inbounds
         /\ \A c \in S, in \in I : Asks(c) /\ in.id \in c.inbounds =>
              [client |-> c, inbound |-> in.id] \in Offer(S, I)
<1>0. \A c : c \in Subscribed(S) <=> c \in S /\ Asks(c)
  BY DEF Subscribed
<1>1. ASSUME NEW x \in Offer(S, I)
      PROVE  \E c \in S, in \in I : /\ x = [client |-> c, inbound |-> in.id]
                                    /\ Asks(c) /\ in.id \in c.inbounds
  <2>1. x \in Pairs(Subscribed(S), I) /\ x.inbound \in x.client.inbounds
    BY DEF Offer
  <2>2. PICK c \in Subscribed(S), in \in I : x = [client |-> c, inbound |-> in.id]
    BY <2>1, PairsAre
  <2>3. x.client = c /\ x.inbound = in.id
    BY <2>2
  <2> QED BY <1>0, <2>1, <2>2, <2>3
<1>2. ASSUME NEW c \in S, NEW in \in I, Asks(c), in.id \in c.inbounds
      PROVE  [client |-> c, inbound |-> in.id] \in Offer(S, I)
  <2> DEFINE x == [client |-> c, inbound |-> in.id]
  <2>1. x.client = c /\ x.inbound = in.id
    OBVIOUS
  <2>2. x \in Pairs(Subscribed(S), I)
    <3>1. c \in Subscribed(S)
      BY <1>0, <1>2
    <3> QED BY <3>1, PairsAre
  <2> HIDE DEF x
  <2>3. x \in Offer(S, I)
    BY <1>2, <2>1, <2>2 DEF Offer
  <2> QED BY <2>3 DEF x
<1> QED BY <1>1, <1>2

\* A candidate stands at the inbound it names.
LEMMA PlaceIs ==
  ASSUME NEW S, NEW I, NEW guid, WellKept(S, I, guid), NEW c, NEW in \in I
  PROVE  Place(I, guid, [client |-> c, inbound |-> in.id]) = InboundIdentity(in, guid)
<1> DEFINE x == [client |-> c, inbound |-> in.id]
           one == CHOOSE j \in I : j.id = x.inbound
<1>1. x.inbound = in.id
  OBVIOUS
<1>2. one \in I /\ one.id = in.id
  BY <1>1
<1>3. one = in
  BY <1>2 DEF WellKept
<1> QED BY <1>3 DEF Place

LEMMA OfferParts ==
  ASSUME NEW S, NEW I, NEW guid, WellKept(S, I, guid), NEW x \in Offer(S, I)
  PROVE  \E c \in S, in \in I :
           /\ x = [client |-> c, inbound |-> in.id] /\ x.client = c /\ x.inbound = in.id
           /\ Asks(c) /\ in.id \in c.inbounds
           /\ Place(I, guid, x) = InboundIdentity(in, guid)
<1>1. PICK c \in S, in \in I : /\ x = [client |-> c, inbound |-> in.id]
                               /\ Asks(c) /\ in.id \in c.inbounds
  BY OfferIs
<1>2. Place(I, guid, [client |-> c, inbound |-> in.id]) = InboundIdentity(in, guid)
  BY PlaceIs
<1> QED BY <1>1, <1>2

LEMMA PlacesDistinct ==
  ASSUME NEW S, NEW I, NEW guid, WellKept(S, I, guid)
  PROVE  \A x, y \in Offer(S, I) : Place(I, guid, x) = Place(I, guid, y) <=> x.inbound = y.inbound
<1> SUFFICES ASSUME NEW x \in Offer(S, I), NEW y \in Offer(S, I)
             PROVE  Place(I, guid, x) = Place(I, guid, y) <=> x.inbound = y.inbound
  OBVIOUS
<1>1. \E in \in I : x.inbound = in.id /\ Place(I, guid, x) = InboundIdentity(in, guid)
  BY OfferParts
<1>2. \E in \in I : y.inbound = in.id /\ Place(I, guid, y) = InboundIdentity(in, guid)
  BY OfferParts
<1> QED BY <1>1, <1>2 DEF WellKept

\* Without shared subscription IDs a candidate is known by its digest.
LEMMA MarksDistinct ==
  ASSUME NEW S, NEW I, NEW guid, WellKept(S, I, guid), Unshared(S)
  PROVE  \A x, y \in Offer(S, I) : MarkOf(I, guid, x) = MarkOf(I, guid, y) => x = y
<1> SUFFICES ASSUME NEW x \in Offer(S, I), NEW y \in Offer(S, I),
                    MarkOf(I, guid, x) = MarkOf(I, guid, y)
             PROVE  x = y
  OBVIOUS
<1>1. PICK c \in S, in \in I :
           /\ x = [client |-> c, inbound |-> in.id] /\ x.client = c /\ x.inbound = in.id
           /\ Asks(c) /\ in.id \in c.inbounds
           /\ Place(I, guid, x) = InboundIdentity(in, guid)
  BY OfferParts
<1>2. PICK d \in S, j \in I :
           /\ y = [client |-> d, inbound |-> j.id] /\ y.client = d /\ y.inbound = j.id
           /\ Asks(d) /\ j.id \in d.inbounds
           /\ Place(I, guid, y) = InboundIdentity(j, guid)
  BY OfferParts
<1>3. Place(I, guid, x) = Place(I, guid, y) /\ c.sub = d.sub
  BY <1>1, <1>2 DEF MarkOf
<1>4. in = j
  <2>1. InboundIdentity(in, guid) = InboundIdentity(j, guid)
    BY <1>1, <1>2, <1>3
  <2> QED BY <2>1 DEF WellKept
<1>5. c.inbounds \cap d.inbounds # {}
  BY <1>1, <1>2, <1>4
<1>6. c = d
  BY <1>1, <1>2, <1>3, <1>5 DEF Unshared, Asks
<1> QED BY <1>1, <1>2, <1>4, <1>6

\* A candidate of one state has a counterpart in the other, with the same links.
LEMMA Counterpart ==
  ASSUME NEW S, NEW I, NEW T, NEW J, NEW guid, WellKept(S, I, guid), WellKept(T, J, guid),
         TrueAlike(S, I, T, J, guid), NEW x \in Offer(S, I)
  PROVE  \E y \in Offer(T, J) : /\ MarkOf(J, guid, y) = MarkOf(I, guid, x)
                                /\ y.client.id = x.client.id
                                /\ y.client.sub = x.client.sub /\ y.client.outputs = x.client.outputs
<1>1. PICK c \in S, in \in I : /\ x = [client |-> c, inbound |-> in.id]
                               /\ Asks(c) /\ in.id \in c.inbounds
  BY OfferIs
<1>2. PICK d \in T : ClientTruth(c, I, guid) = ClientTruth(d, J, guid)
  <2>1. ClientTruth(c, I, guid) \in {ClientTruth(e, J, guid) : e \in T}
    BY DEF TrueAlike
  <2> QED BY <2>1
<1>3. c.id = d.id /\ c.enabled = d.enabled /\ Attached(c, I, guid) = Attached(d, J, guid)
  BY <1>2 DEF ClientTruth
<1>4. d.sub = c.sub /\ d.outputs = c.outputs
  <2>1. OutputTruth(c) \in {OutputTruth(e) : e \in T}
    BY DEF TrueAlike
  <2>2. PICK e \in T : OutputTruth(c) = OutputTruth(e)
    BY <2>1
  <2>3. c.id = e.id /\ c.sub = e.sub /\ c.outputs = e.outputs
    BY <2>2 DEF OutputTruth
  <2>4. e = d
    BY <1>3, <2>3 DEF WellKept
  <2> QED BY <2>3, <2>4
<1>5. PICK j \in J : j.id \in d.inbounds /\ InboundIdentity(j, guid) = InboundIdentity(in, guid)
  <2> DEFINE ids == {a.id : a \in I}
             jds == {a.id : a \in J}
             known == Those(c.listed, ids)
             other == Those(d.listed, jds)
             identities(id) == {InboundIdentity(a, guid) : a \in {b \in I : b.id = id}}
             jdentities(id) == {InboundIdentity(a, guid) : a \in {b \in J : b.id = id}}
  <2>1. Attached(c, I, guid) = [i \in DOMAIN known |-> identities(known[i])]
    BY DEF Attached
  <2>2. Attached(d, J, guid) = [i \in DOMAIN other |-> jdentities(other[i])]
    BY DEF Attached
  <2>3. in.id \in ids
    OBVIOUS
  <2>4. \A i \in DOMAIN other : other[i] \in Range(d.listed)
    BY ThoseMembers DEF WellKept
  <2>5. PICK i \in DOMAIN known : known[i] = in.id
    <3>0. in.id \in Range(c.listed)
      BY <1>1 DEF WellKept
    <3>1. PICK l \in DOMAIN c.listed : c.listed[l] = in.id
      BY <3>0 DEF Range
    <3>2. c.listed \in Seq(Range(c.listed))
      BY DEF WellKept
    <3> HIDE DEF ids
    <3> QED BY <2>3, <3>1, <3>2, ThoseMembers
  <2>6. InboundIdentity(in, guid) \in identities(known[i])
    BY <2>5
  <2> HIDE DEF known, other, identities, ids, jds
  <2>7. i \in DOMAIN other /\ identities(known[i]) = jdentities(other[i])
    <3>1. DOMAIN Attached(c, I, guid) = DOMAIN known /\ DOMAIN Attached(d, J, guid) = DOMAIN other
      BY <2>1, <2>2
    <3>2. Attached(c, I, guid)[i] = identities(known[i])
      BY <2>1
    <3>3. i \in DOMAIN other
      BY <1>3, <3>1
    <3>4. Attached(d, J, guid)[i] = jdentities(other[i])
      BY <2>2, <3>3
    <3> QED BY <1>3, <3>2, <3>3, <3>4
  <2>8. InboundIdentity(in, guid) \in jdentities(other[i])
    BY <2>6, <2>7
  <2>9. PICK j \in J : j.id = other[i] /\ InboundIdentity(j, guid) = InboundIdentity(in, guid)
    BY <2>8 DEF jdentities
  <2> QED BY <2>4, <2>7, <2>9 DEF WellKept
<1> DEFINE y == [client |-> d, inbound |-> j.id]
<1>6. y \in Offer(T, J)
  BY <1>1, <1>3, <1>4, <1>5, OfferIs DEF Asks
<1>7. MarkOf(J, guid, y) = <<InboundIdentity(j, guid), d.sub>> /\ MarkOf(I, guid, x) = <<InboundIdentity(in, guid), c.sub>>
  <2>1. Place(J, guid, [client |-> d, inbound |-> j.id]) = InboundIdentity(j, guid)
    BY PlaceIs
  <2>2. Place(I, guid, [client |-> c, inbound |-> in.id]) = InboundIdentity(in, guid)
    BY PlaceIs
  <2>3. y.client = d /\ x.client = c
    BY <1>1
  <2> QED BY <1>1, <2>1, <2>2, <2>3 DEF MarkOf
<1>8. /\ y.client.id = x.client.id
      /\ y.client.sub = x.client.sub /\ y.client.outputs = x.client.outputs
  BY <1>1, <1>3, <1>4
<1> HIDE DEF y
<1> QED BY <1>4, <1>5, <1>6, <1>7, <1>8

LEMMA TrueSwapped ==
  ASSUME NEW S, NEW I, NEW T, NEW J, NEW guid, TrueAlike(S, I, T, J, guid)
  PROVE  TrueAlike(T, J, S, I, guid)
BY DEF TrueAlike

LEMMA MarksAlike ==
  ASSUME NEW S, NEW I, NEW T, NEW J, NEW guid, WellKept(S, I, guid), WellKept(T, J, guid),
         TrueAlike(S, I, T, J, guid)
  PROVE  Marks(Offer(S, I), I, guid) = Marks(Offer(T, J), J, guid)
<1>1. ASSUME NEW x \in Offer(S, I) PROVE \E y \in Offer(T, J) : MarkOf(J, guid, y) = MarkOf(I, guid, x)
  BY <1>1, Counterpart
<1>2. ASSUME NEW y \in Offer(T, J) PROVE \E x \in Offer(S, I) : MarkOf(I, guid, x) = MarkOf(J, guid, y)
  <2>1. TrueAlike(T, J, S, I, guid)
    BY TrueSwapped
  <2> QED BY <2>1, Counterpart
<1> QED BY <1>1, <1>2 DEF Marks

LEMMA OfferFinite ==
  ASSUME NEW S, NEW I, IsFiniteSet(S), IsFiniteSet(I)
  PROVE  IsFiniteSet(Offer(S, I))
<1> DEFINE f == [x \in S \X I |-> [client |-> x[1], inbound |-> x[2].id]]
           T == {f[x] : x \in S \X I}
<1>1. IsFiniteSet(S \X I)
  BY FS_Product
<1>2. IsFiniteSet(T)
  <2>1. f \in Surjection(S \X I, T)
    BY DEF Surjection
  <2> QED BY <1>1, <2>1, FS_Surjection
<1>3. Offer(S, I) \subseteq T
  <2>1. ASSUME NEW c \in S, NEW in \in I PROVE [client |-> c, inbound |-> in.id] \in T
    <3>1. <<c, in>> \in S \X I
      OBVIOUS
    <3>2. f[<<c, in>>] = [client |-> c, inbound |-> in.id]
      BY <3>1
    <3> QED BY <3>1, <3>2
  <2> HIDE DEF f, T
  <2>2. ASSUME NEW x \in Offer(S, I) PROVE x \in T
    <3>1. \E c \in S, in \in I : /\ x = [client |-> c, inbound |-> in.id]
                                 /\ Asks(c) /\ in.id \in c.inbounds
      BY OfferIs
    <3> QED BY <2>1, <3>1
  <2> QED BY <2>2
<1> QED BY <1>2, <1>3, FS_Subset

\* There are as many candidates as marks: as many after as before.
LEMMA MarksCount ==
  ASSUME NEW S, NEW I, NEW guid, WellKept(S, I, guid), Unshared(S)
  PROVE  Cardinality(Offer(S, I)) = Cardinality(Marks(Offer(S, I), I, guid))
<1> DEFINE E == Offer(S, I)
           M == Marks(E, I, guid)
           f == [x \in E |-> MarkOf(I, guid, x)]
<1>1. IsFiniteSet(E)
  BY OfferFinite DEF WellKept
<1>2. \A x, y \in E : MarkOf(I, guid, x) = MarkOf(I, guid, y) => x = y
  BY MarksDistinct
<1>3. \A m \in M : \E x \in E : MarkOf(I, guid, x) = m
  BY DEF Marks
<1>4. \A x \in E : MarkOf(I, guid, x) \in M
  BY DEF Marks
<1> HIDE DEF E, M
<1>5. f \in Surjection(E, M)
  BY <1>3, <1>4 DEF Surjection
<1>6. f \in Injection(E, M)
  BY <1>2, <1>4 DEF Injection, IsInjective
<1>7. Cardinality(M) = Cardinality(E)
  BY <1>1, <1>5, <1>6, FS_Surjection
<1> QED BY <1>7 DEF E, M

\* The candidates in the order they are drawn in.
Marked(E, I, guid, m) == CHOOSE x \in E : MarkOf(I, guid, x) = m
AsCandidate(I, guid, x) ==
  [stratum |-> Place(I, guid, x), rank |-> <<x.inbound, x.client.sub>>, client |-> x.client]
Drawing(E, I, guid) ==
  LET known == Those(DrawOrder, Marks(E, I, guid))
  IN [i \in DOMAIN known |-> AsCandidate(I, guid, Marked(E, I, guid, known[i]))]

LEMMA DrawingIs ==
  ASSUME NEW E, NEW I, NEW guid
  PROVE  LET known == Those(DrawOrder, Marks(E, I, guid))
             c == Drawing(E, I, guid)
         IN /\ Len(known) \in Nat /\ DOMAIN c = 1..Len(known) /\ DOMAIN known = 1..Len(known)
            /\ c = [i \in 1..Len(known) |-> c[i]]
            /\ \A i \in 1..Len(known) :
                 \E x \in E : MarkOf(I, guid, x) = known[i] /\ c[i] = AsCandidate(I, guid, x)
<1> DEFINE M == Marks(E, I, guid)
           known == Those(DrawOrder, M)
           c == Drawing(E, I, guid)
<1>1. known \in Seq(Range(DrawOrder)) /\ \A i \in DOMAIN known : known[i] \in M
  BY OrderAssumption, ThoseMembers
<1>2. c = [i \in DOMAIN known |-> AsCandidate(I, guid, Marked(E, I, guid, known[i]))]
  BY DEF Drawing
<1>3. \A m \in M : Marked(E, I, guid, m) \in E /\ MarkOf(I, guid, Marked(E, I, guid, m)) = m
  <2> SUFFICES ASSUME NEW m \in M PROVE Marked(E, I, guid, m) \in E /\ MarkOf(I, guid, Marked(E, I, guid, m)) = m
    OBVIOUS
  <2>1. \E x \in E : MarkOf(I, guid, x) = m
    BY DEF Marks
  <2> QED BY <2>1, Zenon DEF Marked
<1> HIDE DEF M, known, c
<1>4. Len(known) \in Nat /\ DOMAIN known = 1..Len(known)
  BY <1>1
<1>5. DOMAIN c = 1..Len(known) /\ c = [i \in 1..Len(known) |-> c[i]]
  BY <1>2, <1>4
<1>6. ASSUME NEW i \in 1..Len(known)
      PROVE  \E x \in E : MarkOf(I, guid, x) = known[i] /\ c[i] = AsCandidate(I, guid, x)
  <2>1. known[i] \in M
    BY <1>1, <1>4
  <2>2. c[i] = AsCandidate(I, guid, Marked(E, I, guid, known[i]))
    BY <1>2, <1>4
  <2> QED BY <1>3, <2>1, <2>2, Zenon
<1> QED BY <1>4, <1>5, <1>6 DEF known, c, M

LEMMA CandidateIs ==
  ASSUME NEW I, NEW guid, NEW x
  PROVE  /\ AsCandidate(I, guid, x).stratum = Place(I, guid, x)
         /\ AsCandidate(I, guid, x).rank = <<x.inbound, x.client.sub>>
         /\ AsCandidate(I, guid, x).client = x.client
BY DEF AsCandidate

\* Both runs order the same candidates alike.
LEMMA DrawingsAlike ==
  ASSUME NEW S, NEW I, NEW T, NEW J, NEW guid, WellKept(S, I, guid), WellKept(T, J, guid),
         TrueAlike(S, I, T, J, guid), Unshared(T)
  PROVE  LET c == Drawing(Offer(S, I), I, guid)
             d == Drawing(Offer(T, J), J, guid)
         IN /\ Alike(c, d)
            /\ \E V : c \in Seq(V) /\ d \in Seq(V)
            /\ \A i \in DOMAIN c : /\ c[i].client \in S /\ d[i].client \in T
                                   /\ c[i].client.id = d[i].client.id
                                   /\ c[i].client.outputs = d[i].client.outputs
<1> DEFINE E == Offer(S, I)
           F == Offer(T, J)
           c == Drawing(E, I, guid)
           d == Drawing(F, J, guid)
           known == Those(DrawOrder, Marks(E, I, guid))
           n == Len(known)
<1>1. Marks(F, J, guid) = Marks(E, I, guid)
  BY MarksAlike
<1>2. /\ n \in Nat /\ DOMAIN c = 1..n /\ c = [i \in 1..n |-> c[i]]
      /\ \A i \in 1..n : \E x \in E : MarkOf(I, guid, x) = known[i] /\ c[i] = AsCandidate(I, guid, x)
  BY DrawingIs
<1>3. /\ DOMAIN d = 1..n /\ d = [i \in 1..n |-> d[i]]
      /\ \A i \in 1..n : \E y \in F : MarkOf(J, guid, y) = known[i] /\ d[i] = AsCandidate(J, guid, y)
  <2> DEFINE other == Those(DrawOrder, Marks(F, J, guid))
  <2>1. /\ DOMAIN d = 1..Len(other) /\ d = [i \in 1..Len(other) |-> d[i]]
        /\ \A i \in 1..Len(other) :
             \E y \in F : MarkOf(J, guid, y) = other[i] /\ d[i] = AsCandidate(J, guid, y)
    BY DrawingIs
  <2>2. other = known
    BY <1>1
  <2> HIDE DEF other, d, known, F
  <2> QED BY <2>1, <2>2
<1>4. ASSUME NEW x \in E, NEW y \in F, MarkOf(I, guid, x) = MarkOf(J, guid, y)
      PROVE  /\ Place(I, guid, x) = Place(J, guid, y) /\ x.client.id = y.client.id
             /\ x.client.sub = y.client.sub /\ x.client.outputs = y.client.outputs
             /\ x.client \in S /\ y.client \in T
  <2>1. PICK z \in F : /\ MarkOf(J, guid, z) = MarkOf(I, guid, x)
                       /\ z.client.id = x.client.id
                       /\ z.client.sub = x.client.sub /\ z.client.outputs = x.client.outputs
    BY Counterpart
  <2>2. z = y
    BY <1>4, <2>1, MarksDistinct
  <2>3. Place(I, guid, x) = Place(J, guid, y)
    BY <1>4 DEF MarkOf
  <2>4. x.client \in S
    BY OfferParts
  <2>5. y.client \in T
    BY OfferParts
  <2> QED BY <2>1, <2>2, <2>3, <2>4, <2>5
<1>5. /\ \A x, z \in E : Place(I, guid, x) = Place(I, guid, z) <=> x.inbound = z.inbound
      /\ \A y, z \in F : Place(J, guid, y) = Place(J, guid, z) <=> y.inbound = z.inbound
  BY PlacesDistinct
<1> HIDE DEF E, F, c, d, known, n
<1>6. ASSUME NEW i \in 1..n
      PROVE  \E x \in E, y \in F : /\ c[i] = AsCandidate(I, guid, x) /\ d[i] = AsCandidate(J, guid, y)
                                   /\ MarkOf(I, guid, x) = MarkOf(J, guid, y)
  <2>1. PICK x \in E : MarkOf(I, guid, x) = known[i] /\ c[i] = AsCandidate(I, guid, x)
    BY <1>2
  <2>2. PICK y \in F : MarkOf(J, guid, y) = known[i] /\ d[i] = AsCandidate(J, guid, y)
    BY <1>3
  <2> QED BY <2>1, <2>2
<1>7. ASSUME NEW i \in 1..n
      PROVE  /\ c[i].stratum = d[i].stratum /\ c[i].client \in S /\ d[i].client \in T
             /\ c[i].client.id = d[i].client.id /\ c[i].client.outputs = d[i].client.outputs
  <2>1. PICK x \in E, y \in F : /\ c[i] = AsCandidate(I, guid, x) /\ d[i] = AsCandidate(J, guid, y)
                                /\ MarkOf(I, guid, x) = MarkOf(J, guid, y)
    BY <1>6
  <2> QED BY <1>4, <2>1, CandidateIs
<1>8. ASSUME NEW i \in 1..n, NEW j \in 1..n PROVE c[i].rank = c[j].rank <=> d[i].rank = d[j].rank
  <2>1. PICK x \in E, y \in F : /\ c[i] = AsCandidate(I, guid, x) /\ d[i] = AsCandidate(J, guid, y)
                                /\ MarkOf(I, guid, x) = MarkOf(J, guid, y)
    BY <1>6
  <2>2. PICK v \in E, w \in F : /\ c[j] = AsCandidate(I, guid, v) /\ d[j] = AsCandidate(J, guid, w)
                                /\ MarkOf(I, guid, v) = MarkOf(J, guid, w)
    BY <1>6
  <2>3. /\ c[i].rank = <<x.inbound, x.client.sub>> /\ c[j].rank = <<v.inbound, v.client.sub>>
        /\ d[i].rank = <<y.inbound, y.client.sub>> /\ d[j].rank = <<w.inbound, w.client.sub>>
    BY <2>1, <2>2, CandidateIs
  <2>4. x.inbound = v.inbound <=> y.inbound = w.inbound
    BY <1>4, <1>5, <2>1, <2>2
  <2>5. x.client.sub = y.client.sub /\ v.client.sub = w.client.sub
    BY <1>4, <2>1, <2>2
  <2> QED BY <2>3, <2>4, <2>5
<1>9. \E V : c \in Seq(V) /\ d \in Seq(V)
  <2> DEFINE V == {c[i] : i \in 1..n} \cup {d[i] : i \in 1..n}
  <2>1. c \in [1..n -> V] /\ d \in [1..n -> V]
    BY <1>2, <1>3
  <2> HIDE DEF V
  <2>2. c \in Seq(V) /\ d \in Seq(V)
    BY <1>2, <2>1, SeqIs
  <2> QED BY <2>2
<1>10. Alike(c, d)
  BY <1>2, <1>3, <1>7, <1>8 DEF Alike
<1> QED BY <1>2, <1>7, <1>9, <1>10 DEF c, d, E, F

\* The candidates that are observed.
DrawnOf(E, I, guid, n) == Range(Select(Drawing(E, I, guid), n))

SameOutputs(A, B) ==
  \A x \in A : \E y \in B : x.client.id = y.client.id /\ x.client.outputs = y.client.outputs

LEMMA DrawnAlike ==
  ASSUME NEW S, NEW I, NEW T, NEW J, NEW guid, WellKept(S, I, guid), WellKept(T, J, guid),
         TrueAlike(S, I, T, J, guid), Unshared(T), NEW n \in Nat
  PROVE  LET A == DrawnOf(Offer(S, I), I, guid, n)
             B == DrawnOf(Offer(T, J), J, guid, n)
         IN SameOutputs(A, B) /\ SameOutputs(B, A)
<1> DEFINE c == Drawing(Offer(S, I), I, guid)
           d == Drawing(Offer(T, J), J, guid)
           A == DrawnOf(Offer(S, I), I, guid, n)
           B == DrawnOf(Offer(T, J), J, guid, n)
<1>1. /\ Alike(c, d)
      /\ \E V : c \in Seq(V) /\ d \in Seq(V)
      /\ \A i \in DOMAIN c : /\ c[i].client \in S /\ d[i].client \in T
                             /\ c[i].client.id = d[i].client.id
                             /\ c[i].client.outputs = d[i].client.outputs
  BY DrawingsAlike
<1>2. A = Range(Select(c, n)) /\ B = Range(Select(d, n))
  BY DEF DrawnOf
<1> HIDE DEF c, d, A, B
<1>3. PICK P \in SUBSET DOMAIN c : Range(Select(c, n)) = At(c, P) /\ Range(Select(d, n)) = At(d, P)
  <2>1. PICK V : c \in Seq(V) /\ d \in Seq(V)
    BY <1>1
  <2> QED BY <1>1, <2>1, SelectAlike
<1>4. /\ \A x \in A : \E i \in P : x = c[i]
      /\ \A x \in B : \E i \in P : x = d[i]
      /\ \A i \in P : c[i] \in A /\ d[i] \in B
  BY <1>2, <1>3 DEF At
<1>5. SameOutputs(A, B) /\ SameOutputs(B, A)
  BY <1>1, <1>4 DEF SameOutputs
<1> QED BY <1>5 DEF A, B

\* The entries of a snapshot's subscriptions, of these candidates and in these formats.
EntryOf(key, x, source) ==
  [key |-> << <<key, x.client.id>>, FormatOf(source)>>, value |-> <<TRUE, x.client.outputs[source]>>]
SourcesIn(formats) == {"links"} \cup formats
KeyedEntries(key, xs, formats) ==
  {EntryOf(key, x, source) : x \in xs, source \in SourcesIn(formats)}

LEMMA EntriesAlike ==
  ASSUME NEW key, NEW A, NEW B, SameOutputs(A, B), SameOutputs(B, A), NEW formats
  PROVE  KeyedEntries(key, A, formats) = KeyedEntries(key, B, formats)
<1>1. ASSUME NEW X, NEW Y, SameOutputs(X, Y)
      PROVE  KeyedEntries(key, X, formats) \subseteq KeyedEntries(key, Y, formats)
  <2> SUFFICES ASSUME NEW x \in X, NEW source \in SourcesIn(formats)
               PROVE  \E y \in Y : EntryOf(key, x, source) = EntryOf(key, y, source)
    BY DEF KeyedEntries
  <2>1. PICK y \in Y : x.client.id = y.client.id /\ x.client.outputs = y.client.outputs
    BY <1>1 DEF SameOutputs
  <2> QED BY <2>1 DEF EntryOf
<1> QED BY <1>1

\* What a panel answers, and what a run that loses nothing draws from that.
Answer(k, p) == Worlds[<<"verify", k>>].panel[p]
OfferOf(k, p) == Offer(Answer(k, p).clients, Answer(k, p).inbounds)
FullShare(k, cap) ==
  Deal(Those(PanelOrder, Panels), [p \in Panels |-> Cardinality(OfferOf(k, p))], cap)
FullDrawn(k, cap, p) ==
  DrawnOf(OfferOf(k, p), Answer(k, p).inbounds, ExpectedGUID[p], FullShare(k, cap)[p])
FullEntries(key, k, cap, p) == KeyedEntries(key, FullDrawn(k, cap, p), Answer(k, p).formats)

LEMMA OwnIsUnshared ==
  ASSUME NEW k, OwnSubscriptions(k), NEW p \in Panels
  PROVE  Unshared(Answer(k, p).clients)
BY DEF OwnSubscriptions, Unshared, Answer

LEMMA AnswersWellKept ==
  ASSUME NEW k \in Clusters, NEW p \in Panels
  PROVE  WellKept(Answer(k, p).clients, Answer(k, p).inbounds, ExpectedGUID[p])
BY AnswersAssumption DEF Answer, WellKept

LEMMA TruthAlike ==
  ASSUME NEW k, NEW l, Truth(k) = Truth(l), NEW p \in Panels
  PROVE  /\ TrueAlike(Answer(k, p).clients, Answer(k, p).inbounds,
                   Answer(l, p).clients, Answer(l, p).inbounds, ExpectedGUID[p])
         /\ Answer(k, p).formats = Answer(l, p).formats
<1> DEFINE T(m) == [inbounds |-> {InboundTruth(in, ExpectedGUID[p]) : in \in Answer(m, p).inbounds},
                    clients |-> {ClientTruth(c, Answer(m, p).inbounds, ExpectedGUID[p]) :
                                   c \in Answer(m, p).clients},
                    formats |-> Answer(m, p).formats,
                    outputs |-> {OutputTruth(c) : c \in Answer(m, p).clients}]
<1>1. \A m : Truth(m)[p] = T(m)
  BY DEF Truth, Answer, InboundTruth, ClientTruth, OutputTruth, Attached
<1>2. T(k) = T(l)
  BY <1>1
<1> QED BY <1>2 DEF TrueAlike

LEMMA OffersCounted ==
  ASSUME NEW S, NEW I, IsFiniteSet(S), IsFiniteSet(I)
  PROVE  Cardinality(Offer(S, I)) \in Nat
BY OfferFinite, FS_CardinalityType

\* A share is a number, whatever is supported and whatever there is to draw from.
LEMMA ShareIs ==
  ASSUME NEW P \in SUBSET Panels, NEW eligible \in [Panels -> Nat], NEW cap \in Nat, NEW p \in Panels
  PROVE  Deal(Those(PanelOrder, P), eligible, cap)[p] \in Nat
<1> DEFINE order == Those(PanelOrder, P)
<1>1. order \in Seq(Panels) /\ \A i, j \in DOMAIN order : order[i] = order[j] => i = j
  BY OrderAssumption, ThoseMembers, ThoseDistinct
<1> HIDE DEF order
<1>3. DealProblem(order, eligible, cap, Panels)
  BY <1>1, OneMaster DEF DealProblem
<1>4. Fits(order, eligible, cap, Panels, Deal(order, eligible, cap))
  BY <1>3, DealFair
<1>5. Family(Deal(order, eligible, cap), Panels)
  BY <1>4 DEF Fits
<1>6. Deal(order, eligible, cap)[p] \in Nat
  BY <1>5 DEF Family
<1> QED BY <1>6 DEF order

LEMMA FullShareIs ==
  ASSUME NEW k \in Clusters, NEW cap \in Nat, NEW p \in Panels
  PROVE  FullShare(k, cap)[p] \in Nat
<1> DEFINE eligible == [q \in Panels |-> Cardinality(OfferOf(k, q))]
<1>1. eligible \in [Panels -> Nat]
  <2>1. \A q \in Panels : Cardinality(OfferOf(k, q)) \in Nat
    BY AnswersWellKept, OffersCounted DEF OfferOf, WellKept
  <2> QED BY <2>1
<1> HIDE DEF eligible
<1>2. Deal(Those(PanelOrder, Panels), eligible, cap)[p] \in Nat
  BY <1>1, ShareIs
<1> QED BY <1>2 DEF FullShare, eligible

\* Panels that are the same have the same outputs asked for, and give the same.
LEMMA FullDrawnAlike ==
  ASSUME NEW k \in Clusters, NEW l \in Clusters, Truth(k) = Truth(l), NEW cap \in Nat,
         OwnSubscriptions(k), OwnSubscriptions(l), NEW p \in Panels, NEW key
  PROVE  FullEntries(key, k, cap, p) = FullEntries(key, l, cap, p)
<1>1. ASSUME NEW q \in Panels PROVE Cardinality(OfferOf(k, q)) = Cardinality(OfferOf(l, q))
  <2> DEFINE S == Answer(k, q).clients
             I == Answer(k, q).inbounds
             T == Answer(l, q).clients
             J == Answer(l, q).inbounds
             guid == ExpectedGUID[q]
  <2>1. WellKept(S, I, guid) /\ WellKept(T, J, guid) /\ TrueAlike(S, I, T, J, guid)
    BY AnswersWellKept, TruthAlike
  <2>u. Unshared(S) /\ Unshared(T)
    BY OwnIsUnshared
  <2> HIDE DEF S, I, T, J, guid
  <2>2. Marks(Offer(S, I), I, guid) = Marks(Offer(T, J), J, guid)
    BY <2>1, MarksAlike
  <2>3. /\ Cardinality(Offer(S, I)) = Cardinality(Marks(Offer(S, I), I, guid))
        /\ Cardinality(Offer(T, J)) = Cardinality(Marks(Offer(T, J), J, guid))
    BY <2>1, <2>u, MarksCount
  <2> QED BY <2>2, <2>3 DEF OfferOf, S, I, T, J
<1>2. FullShare(k, cap) = FullShare(l, cap)
  <2>1. [q \in Panels |-> Cardinality(OfferOf(k, q))] = [q \in Panels |-> Cardinality(OfferOf(l, q))]
    BY <1>1
  <2> QED BY <2>1 DEF FullShare
<1> DEFINE S == Answer(k, p).clients
           I == Answer(k, p).inbounds
           T == Answer(l, p).clients
           J == Answer(l, p).inbounds
           guid == ExpectedGUID[p]
           n == FullShare(k, cap)[p]
           A == DrawnOf(Offer(S, I), I, guid, n)
           B == DrawnOf(Offer(T, J), J, guid, n)
<1>3. /\ WellKept(S, I, guid) /\ WellKept(T, J, guid) /\ TrueAlike(S, I, T, J, guid) /\ n \in Nat
      /\ Unshared(T)
  BY AnswersWellKept, TruthAlike, FullShareIs, OwnIsUnshared
<1>4. A = FullDrawn(k, cap, p) /\ B = FullDrawn(l, cap, p)
  BY <1>2 DEF FullDrawn, OfferOf
<1>6. Answer(k, p).formats = Answer(l, p).formats
  BY TruthAlike
<1> HIDE DEF S, I, T, J, guid, n
<1>5. SameOutputs(A, B) /\ SameOutputs(B, A)
  BY <1>3, DrawnAlike
<1> HIDE DEF A, B
<1> QED BY <1>4, <1>5, <1>6, EntriesAlike DEF FullEntries

-----------------------------------------------------------------------------
(* What the files were made from *)

InboundsRead(k, reads, p) == When("inbounds" \in reads[p], Answer(k, p).inbounds)
ClientsRead(k, reads, p) == When("clients" \in reads[p], Answer(k, p).clients)

\* The maps of a snapshot, of these inbounds and clients and with this key.
KeyedInbounds(key, inbounds, guid) ==
  [a \in {<<key, InboundIdentity(in, guid)>> : in \in inbounds} |->
     ConnectionState(CHOOSE in \in inbounds : <<key, InboundIdentity(in, guid)>> = a)]
KeyedClients(key, clients, inbounds, guid) ==
  [a \in {<<key, c.id>> : c \in clients} |->
     ClientState(CHOOSE c \in clients : <<key, c.id>> = a, inbounds, guid)]

\* An observation without an error code shows what a client of the panel was served.
ServedTo(k, p, client, format, links) ==
  \E c \in Answer(k, p).clients : c.id = client /\ links \in Served(c, format)

\* A snapshot says of every panel what the panel was when the snapshot was made, as
\* far as that was read.
Faithful(d) ==
  /\ d.what = "report" => d.panels = << >>
  /\ d.what = "snapshot" =>
       /\ d.cluster \in Clusters
       /\ IsSnapshot(d.panels) /\ DOMAIN d.panels = Panels
       /\ \A p \in Panels :
            /\ d.panels[p].inbound =
                 KeyedInbounds(d.keyID, InboundsRead(d.cluster, d.got, p), ExpectedGUID[p])
            /\ d.panels[p].client =
                 KeyedClients(d.keyID, ClientsRead(d.cluster, d.got, p),
                              InboundsRead(d.cluster, d.got, p), ExpectedGUID[p])
            /\ \A client, format, links :
                 LET a == << <<d.keyID, client>>, format>>
                 IN a \in DOMAIN d.panels[p].subscription
                      /\ d.panels[p].subscription[a] = <<TRUE, links>>
                      => ServedTo(d.cluster, p, client, format, links)
            /\ d.complete =>
                 /\ {"inbounds", "clients"} \subseteq d.got[p]
                 /\ OwnSubscriptions(d.cluster) =>
                      d.panels[p].subscription = MapOf(FullEntries(d.keyID, d.cluster, d.cap, p))

\* What a run did not get it has said.
LossesSaid ==
  pc \in {"baseline", "report"} =>
    \A p \in Panels : \A read \in Missing(p) : C!ReadFailure(p, read, "lost") \in obs[p]

\* What it did get of a subscription somebody was served.
SamplesServed ==
  pc \in {"baseline", "report"} =>
    \A p \in Panels : \A s \in subs[p] :
      s.code = "" => ServedTo(cluster, p, s.client, s.format, s.links)

Entries(p) == {Entry(s) : s \in subs[p]}

\* A run that lost nothing has drawn what there was to draw.
DrawnInFull ==
  pc \in {"baseline", "report"} /\ Complete =>
    \A p \in Panels :
      /\ {"inbounds", "clients"} \subseteq got[p]
      /\ OwnSubscriptions(cluster) =>
           Entries(p) = FullEntries(args.conf.keyID, cluster, args.conf.cap, p)

Lineage ==
  /\ TypeOK
  /\ Faithful(before) /\ \A path \in Paths : Faithful(file[path])
  /\ pc # "idle" => /\ args \in Arguments
                    /\ args.command = "verify" => before.keyID = args.conf.keyID
  /\ LossesSaid /\ SamplesServed /\ DrawnInFull

LEMMA AnswersAre ==
  ASSUME cluster \in Clusters, args \in Arguments, NEW p \in Panels
  PROVE  /\ C!Answers(p) = Answer(cluster, p)
         /\ C!Listed(p, "inbounds") = InboundsRead(cluster, got, p)
         /\ C!Listed(p, "clients") = ClientsRead(cluster, got, p)
<1>1. C!Answers(p) = Answer(cluster, p)
  <2>1. args.command \in {"preflight", "verify", "check"}
    BY ArgumentsAssumption
  <2>2. \A command \in {"preflight", "check"} :
          Worlds[<<command, cluster>>].panel[p] = Worlds[<<"verify", cluster>>].panel[p]
    BY AnswersAssumption
  <2> QED BY <2>1, <2>2 DEF C!Answers, C!Job, Answer
<1>2. /\ C!Listed(p, "inbounds") = When("inbounds" \in got[p], C!Answers(p).inbounds)
      /\ C!Listed(p, "clients") = When("clients" \in got[p], C!Answers(p).clients)
  BY DEF C!Listed, C!When, When
<1> QED BY <1>1, <1>2 DEF InboundsRead, ClientsRead

LEMMA CurrentIs ==
  ASSUME cluster \in Clusters, args \in Arguments
  PROVE  /\ IsSnapshot(Current) /\ DOMAIN Current = Panels
         /\ \A p \in Panels :
              /\ Current[p].inbound =
                   KeyedInbounds(args.conf.keyID, InboundsRead(cluster, got, p), ExpectedGUID[p])
              /\ Current[p].client =
                   KeyedClients(args.conf.keyID, ClientsRead(cluster, got, p),
                                InboundsRead(cluster, got, p), ExpectedGUID[p])
              /\ Current[p].subscription = MapOf(Entries(p))
<1>1. DOMAIN Current = Panels /\ \A p \in Panels : Current[p] = PanelSnapshot(p)
  BY DEF Current
<1>2. ASSUME NEW p \in Panels
      PROVE  /\ Current[p].inbound = InboundMap(InboundsRead(cluster, got, p), ExpectedGUID[p])
             /\ Current[p].client = ClientMap(ClientsRead(cluster, got, p),
                                              InboundsRead(cluster, got, p), ExpectedGUID[p])
             /\ Current[p].subscription = MapOf(Entries(p))
  <2>1. /\ C!Listed(p, "inbounds") = InboundsRead(cluster, got, p)
        /\ C!Listed(p, "clients") = ClientsRead(cluster, got, p)
    BY AnswersAre
  <2>2. /\ Current[p].inbound = InboundMap(C!Listed(p, "inbounds"), ExpectedGUID[p])
        /\ Current[p].client = ClientMap(C!Listed(p, "clients"), C!Listed(p, "inbounds"),
                                         ExpectedGUID[p])
        /\ Current[p].subscription = SubscriptionMap(subs[p])
    BY <1>1 DEF PanelSnapshot
  <2>3. SubscriptionMap(subs[p]) = MapOf(Entries(p))
    BY Zenon DEF SubscriptionMap, Entries
  <2> QED BY <2>1, <2>2, <2>3
<1>3. \A p \in Panels :
        /\ Current[p].inbound =
             KeyedInbounds(args.conf.keyID, InboundsRead(cluster, got, p), ExpectedGUID[p])
        /\ Current[p].client =
             KeyedClients(args.conf.keyID, ClientsRead(cluster, got, p),
                          InboundsRead(cluster, got, p), ExpectedGUID[p])
  BY <1>2, Zenon DEF InboundMap, ClientMap, KeyedInbounds, KeyedClients, Keyed
<1>4. ASSUME NEW p \in Panels, NEW kind \in Kinds
      PROVE  Current[p][kind] = [a \in DOMAIN Current[p][kind] |-> Current[p][kind][a]]
  <2>1. CASE kind = "inbound"
    BY <1>2, <2>1 DEF InboundMap
  <2>2. CASE kind = "client"
    BY <1>2, <2>2 DEF ClientMap
  <2>3. CASE kind = "subscription"
    BY <1>2, <2>3 DEF MapOf
  <2> QED BY <2>1, <2>2, <2>3 DEF Kinds
<1> QED BY <1>1, <1>2, <1>3, <1>4 DEF IsSnapshot

LEMMA EligibleIs ==
  ASSUME cluster \in Clusters, args \in Arguments, NEW p \in Panels
  PROVE  /\ C!EligibleCandidates(p)
              = Offer(ClientsRead(cluster, got, p), InboundsRead(cluster, got, p))
         /\ C!Eligible(p) \in Nat
<1> DEFINE S == ClientsRead(cluster, got, p)
           I == InboundsRead(cluster, got, p)
<1>1. C!Listed(p, "inbounds") = I /\ C!Listed(p, "clients") = S
  BY AnswersAre
<1>2. IsFiniteSet(S) /\ IsFiniteSet(I)
  BY AnswersWellKept, FS_EmptySet DEF ClientsRead, InboundsRead, When, WellKept
<1> HIDE DEF S, I
<1>3. C!Subscribers(p) = Subscribed(S)
  BY <1>1 DEF C!Subscribers, Subscribed, Asks
<1>4. C!Candidates(p) = Pairs(C!Subscribers(p), I)
  BY <1>1 DEF C!Candidates, Pairs
<1>5. C!EligibleCandidates(p) = Offer(S, I)
  BY <1>3, <1>4 DEF C!EligibleCandidates, Offer
<1>6. C!Eligible(p) = Cardinality(C!EligibleCandidates(p))
  BY DEF C!Eligible, C!Cardinality, Cardinality
<1> QED BY <1>2, <1>5, <1>6, OffersCounted DEF S, I

\* What is drawn from some candidates are some of them.
LEMMA DrawnAreCandidates ==
  ASSUME NEW E, NEW I, NEW guid, NEW n \in Nat, NEW x \in DrawnOf(E, I, guid, n)
  PROVE  \E y \in E : x = AsCandidate(I, guid, y)
<1> DEFINE known == Those(DrawOrder, Marks(E, I, guid))
           c == Drawing(E, I, guid)
<1>1. /\ Len(known) \in Nat /\ DOMAIN c = 1..Len(known) /\ c = [i \in 1..Len(known) |-> c[i]]
      /\ \A i \in 1..Len(known) :
           \E y \in E : MarkOf(I, guid, y) = known[i] /\ c[i] = AsCandidate(I, guid, y)
  BY DrawingIs
<1> DEFINE l == Len(known)
           V == {c[i] : i \in 1..l}
<1>2. x \in Range(Select(c, n))
  BY DEF DrawnOf
<1> HIDE DEF c, known
<1>3. c \in Seq(V)
  <2>1. l \in Nat /\ DOMAIN c = 1..l /\ c \in [1..l -> V]
    BY <1>1
  <2> HIDE DEF V, l
  <2> QED BY <2>1, SeqIs
<1>4. Alike(c, c)
  BY DEF Alike
<1> HIDE DEF V
<1>5. PICK P \in SUBSET DOMAIN c : Range(Select(c, n)) = At(c, P)
  BY <1>3, <1>4, SelectAlike
<1>6. PICK i \in P : x = c[i]
  BY <1>2, <1>5 DEF At
<1> QED BY <1>1, <1>5, <1>6

LEMMA DrawsAre ==
  ASSUME cluster \in Clusters, args \in Arguments, NEW p \in Panels
  PROVE  LET E == C!EligibleCandidates(p)
             I == C!Listed(p, "inbounds")
         IN /\ Share[p] \in Nat
            /\ \A d \in Draws(p) : \E S \in Firsts(p) :
                 S \subseteq E /\ d = DrawnOf(S, I, ExpectedGUID[p], Share[p])
            /\ \A S \in Firsts(p) :
                 /\ S \subseteq E
                 /\ Marks(S, I, ExpectedGUID[p]) = Marks(E, I, ExpectedGUID[p])
<1> DEFINE E == C!EligibleCandidates(p)
           I == C!Listed(p, "inbounds")
           guid == ExpectedGUID[p]
<1>1. Share[p] \in Nat
  <2> DEFINE P == {q \in Panels : C!Supported(q)}
             eligible == [q \in Panels |-> C!Eligible(q)]
  <2>1. eligible \in [Panels -> Nat] /\ P \in SUBSET Panels /\ args.conf.cap \in Nat
    BY EligibleIs, ArgumentsAssumption
  <2>2. Share = Deal(Those(PanelOrder, P), eligible, args.conf.cap)
    BY DEF Share
  <2> HIDE DEF P, eligible
  <2> QED BY <2>1, <2>2, ShareIs
<1>2. \A x : Mark(p, x) = MarkOf(I, guid, x)
  BY DEF Mark, MarkOf, Place
<1>3. ASSUME NEW S PROVE {Mark(p, x) : x \in S} = Marks(S, I, guid)
  BY <1>2 DEF Marks
<1>4. ASSUME NEW S PROVE DrawnFrom(p, S) = Drawing(S, I, guid)
  <2> DEFINE known == Those(DrawOrder, Marks(S, I, guid))
  <2>1. DrawnFrom(p, S) = [i \in DOMAIN known |->
                             [stratum |-> Mark(p, CHOOSE x \in S : Mark(p, x) = known[i])[1],
                              rank |-> C!Rank(CHOOSE x \in S : Mark(p, x) = known[i]),
                              client |-> (CHOOSE x \in S : Mark(p, x) = known[i]).client]]
    BY <1>3 DEF DrawnFrom
  <2> DEFINE one(i) == CHOOSE x \in S : Mark(p, x) = known[i]
             other(i) == CHOOSE x \in S : MarkOf(I, guid, x) = known[i]
  <2>2. \A i : one(i) = other(i)
    BY <1>2
  <2>3. ASSUME NEW x
        PROVE  [stratum |-> Mark(p, x)[1], rank |-> C!Rank(x), client |-> x.client]
                 = AsCandidate(I, guid, x)
    <3>1. Mark(p, x)[1] = Place(I, guid, x)
      BY DEF Mark, Place
    <3>2. C!Rank(x) = <<x.inbound, x.client.sub>>
      BY DEF C!Rank
    <3> QED BY <3>1, <3>2, Zenon DEF AsCandidate
  <2>4. Drawing(S, I, guid) = [i \in DOMAIN known |-> AsCandidate(I, guid, other(i))]
    BY DEF Drawing, Marked
  <2>5. DrawnFrom(p, S) = [i \in DOMAIN known |-> AsCandidate(I, guid, one(i))]
    BY <2>1, <2>3, Zenon
  <2> HIDE DEF known, one, other
  <2> QED BY <2>2, <2>4, <2>5
<1>5. ASSUME NEW S \in Firsts(p) PROVE S \subseteq E /\ Marks(S, I, guid) = Marks(E, I, guid)
  <2>1. S \subseteq E /\ {Mark(p, x) : x \in S} = {Mark(p, x) : x \in E}
    BY DEF Firsts
  <2> QED BY <1>3, <2>1
<1>6. ASSUME NEW d \in Draws(p)
      PROVE  \E S \in Firsts(p) : S \subseteq E /\ d = DrawnOf(S, I, guid, Share[p])
  <2>1. PICK S \in Firsts(p) : d = Range(Select(DrawnFrom(p, S), Share[p]))
    BY DEF Draws
  <2> QED BY <1>4, <1>5, <2>1 DEF DrawnOf
<1> QED BY <1>1, <1>5, <1>6

\* The clients that are drawn are clients of the panel.
LEMMA DrawnAreServed ==
  ASSUME cluster \in Clusters, args \in Arguments, NEW p \in Panels, NEW d \in Draws(p), NEW x \in d
  PROVE  x.client \in Answer(cluster, p).clients
<1> DEFINE E == C!EligibleCandidates(p)
           I == C!Listed(p, "inbounds")
           T == ClientsRead(cluster, got, p)
           J == InboundsRead(cluster, got, p)
           guid == ExpectedGUID[p]
<1>1. E = Offer(T, J)
  BY EligibleIs
<1>2. Share[p] \in Nat /\ \E S \in Firsts(p) : S \subseteq E /\ d = DrawnOf(S, I, guid, Share[p])
  BY DrawsAre
<1>t. T \subseteq Answer(cluster, p).clients
  BY DEF ClientsRead, When
<1> HIDE DEF E, I, T, J, guid
<1>3. PICK S : S \subseteq E /\ d = DrawnOf(S, I, guid, Share[p])
  BY <1>2
<1>4. PICK y \in S : x = AsCandidate(I, guid, y)
  BY <1>2, <1>3, DrawnAreCandidates
<1>5. y \in Offer(T, J)
  BY <1>1, <1>3, <1>4
<1>6. \E c \in T, in \in J : y = [client |-> c, inbound |-> in.id]
  BY <1>5, OfferIs
<1>7. x.client = y.client
  BY <1>4, CandidateIs
<1> QED BY <1>6, <1>7, <1>t

\* What a run draws when its reads have all succeeded and no subscription is shared.
LEMMA DrawnIs ==
  ASSUME cluster \in Clusters, args \in Arguments, OwnSubscriptions(cluster),
         \A q \in Panels : C!Supported(q) /\ {"inbounds", "clients"} \subseteq got[q],
         NEW p \in Panels, NEW d \in Draws(p)
  PROVE  d = FullDrawn(cluster, args.conf.cap, p)
<1>1. ASSUME NEW q \in Panels
      PROVE  /\ C!Listed(q, "inbounds") = Answer(cluster, q).inbounds
             /\ InboundsRead(cluster, got, q) = Answer(cluster, q).inbounds
             /\ ClientsRead(cluster, got, q) = Answer(cluster, q).clients
  BY AnswersAre DEF InboundsRead, ClientsRead, When
<1>2. ASSUME NEW q \in Panels PROVE C!EligibleCandidates(q) = OfferOf(cluster, q)
  BY <1>1, EligibleIs DEF OfferOf
<1>3. Share = FullShare(cluster, args.conf.cap)
  <2>1. {q \in Panels : C!Supported(q)} = Panels
    OBVIOUS
  <2>2. [q \in Panels |-> C!Eligible(q)] = [q \in Panels |-> Cardinality(OfferOf(cluster, q))]
    <3>1. \A q \in Panels : C!Eligible(q) = Cardinality(OfferOf(cluster, q))
      BY <1>2 DEF C!Eligible, C!Cardinality, Cardinality
    <3> QED BY <3>1
  <2> QED BY <2>1, <2>2 DEF Share, FullShare
<1> DEFINE S == Answer(cluster, p).clients
           I == Answer(cluster, p).inbounds
           guid == ExpectedGUID[p]
           E == Offer(S, I)
<1>4. PICK F \in Firsts(p) : F \subseteq E /\ d = DrawnOf(F, I, guid, Share[p])
  BY <1>1, <1>2, DrawsAre DEF OfferOf
<1>5. Marks(F, I, guid) = Marks(E, I, guid)
  BY <1>1, <1>2, DrawsAre DEF OfferOf
<1>6. WellKept(S, I, guid) /\ Unshared(S)
  BY AnswersWellKept, OwnIsUnshared
<1> HIDE DEF S, I, guid
<1>7. ASSUME NEW x \in E PROVE x \in F
  <2>1. MarkOf(I, guid, x) \in Marks(F, I, guid)
    BY <1>5 DEF Marks
  <2>2. PICK y \in F : MarkOf(I, guid, y) = MarkOf(I, guid, x)
    BY <2>1 DEF Marks
  <2> QED BY <1>4, <1>6, <2>2, MarksDistinct
<1>8. F = E
  BY <1>4, <1>7
<1> QED BY <1>3, <1>4, <1>8 DEF FullDrawn, OfferOf, E, S, I, guid

\* This is what a candidate was served from a source.
ObservationOf(s, x, source) ==
  /\ s.client = x.client.id /\ s.format = FormatOf(source)
  /\ s.links = x.client.outputs[source]

LEMMA SampledIs ==
  ASSUME NEW p, NEW drawn, NEW lost
  PROVE  /\ \A s \in Sampled(p, drawn, lost) :
              s.code = "" => \E x \in drawn, source \in Sources(p) : ObservationOf(s, x, source)
         /\ \A x \in drawn, source \in Sources(p) :
              \E s \in Sampled(p, drawn, lost) : s.code = "" => ObservationOf(s, x, source)
<1>0. ASSUME NEW s \in Sampled(p, drawn, lost)
      PROVE  \E x \in drawn, source \in Sources(p) :
               s = ObservedAs(x, source, CodeOf(p, x, source, lost))
  BY <1>0 DEF Sampled
<1>1. ASSUME NEW s \in Sampled(p, drawn, lost), s.code = ""
      PROVE  \E x \in drawn, source \in Sources(p) : ObservationOf(s, x, source)
  <2>1. PICK x \in drawn, source \in Sources(p) :
           s = ObservedAs(x, source, CodeOf(p, x, source, lost))
    BY <1>0
  <2>2. ObservationOf(s, x, source)
    BY <1>1, <2>1 DEF ObservedAs, ObservationOf
  <2> QED BY <2>2
<1>2. ASSUME NEW x \in drawn, NEW source \in Sources(p)
      PROVE  \E s \in Sampled(p, drawn, lost) : s.code = "" => ObservationOf(s, x, source)
  <2>1. ObservedAs(x, source, CodeOf(p, x, source, lost)) \in Sampled(p, drawn, lost)
    BY DEF Sampled
  <2>2. ObservedAs(x, source, CodeOf(p, x, source, lost)).code = ""
          => ObservationOf(ObservedAs(x, source, CodeOf(p, x, source, lost)), x, source)
    BY DEF ObservedAs, ObservationOf
  <2> QED BY <2>1, <2>2
<1> QED BY <1>1, <1>2

LEMMA KeyedEntriesAre ==
  ASSUME NEW key, NEW xs, NEW formats
  PROVE  /\ \A x \in xs, source \in SourcesIn(formats) :
              EntryOf(key, x, source) \in KeyedEntries(key, xs, formats)
         /\ \A e \in KeyedEntries(key, xs, formats) :
              \E x \in xs, source \in SourcesIn(formats) : e = EntryOf(key, x, source)
BY DEF KeyedEntries

\* What it then has observed.
AllAnswered(D) == \A s \in D : s.code = ""

LEMMA SampledEntries ==
  ASSUME NEW p \in Panels, NEW lost, NEW drawn, NEW formats, Sources(p) = SourcesIn(formats),
         AllAnswered(Sampled(p, drawn, lost))
  PROVE  {Entry(s) : s \in Sampled(p, drawn, lost)} = KeyedEntries(args.conf.keyID, drawn, formats)
<1> DEFINE key == args.conf.keyID
           D == Sampled(p, drawn, lost)
           X == SourcesIn(formats)
<1>1. /\ \A s \in D : \E x \in drawn, source \in X : ObservationOf(s, x, source)
      /\ \A x \in drawn, source \in X : \E s \in D : ObservationOf(s, x, source)
  <2>1. /\ \A s \in D :
              s.code = "" => \E x \in drawn, source \in Sources(p) : ObservationOf(s, x, source)
        /\ \A x \in drawn, source \in Sources(p) :
              \E s \in D : s.code = "" => ObservationOf(s, x, source)
    BY SampledIs
  <2> HIDE DEF D
  <2>2. \A s \in D : s.code = ""
    BY DEF D, AllAnswered
  <2> HIDE DEF X
  <2>3. Sources(p) = X
    BY DEF X
  <2> QED BY <2>1, <2>2, <2>3, Zenon
<1>2. ASSUME NEW s \in D, NEW x, NEW source, ObservationOf(s, x, source)
      PROVE  Entry(s) = EntryOf(key, x, source)
  <2>1. s.code = ""
    BY DEF AllAnswered
  <2>2. /\ s.client = x.client.id /\ s.format = FormatOf(source)
        /\ s.links = x.client.outputs[source]
    BY <1>2 DEF ObservationOf
  <2>3. (s.code = "") = TRUE
    BY <2>1
  <2> HIDE DEF D
  <2>4. /\ << <<key, s.client>>, s.format>> = << <<key, x.client.id>>, FormatOf(source)>>
        /\ <<TRUE, s.links>> = <<TRUE, x.client.outputs[source]>>
    BY <2>2, Zenon
  <2>5. Entry(s) = [key |-> << <<key, s.client>>, s.format>>, value |-> <<TRUE, s.links>>]
    BY <2>3, Zenon DEF Entry, Keyed
  <2> QED BY <2>4, <2>5, Zenon DEF EntryOf
<1> DEFINE K == KeyedEntries(key, drawn, formats)
<1>y. /\ \A x \in drawn, source \in X : EntryOf(key, x, source) \in K
      /\ \A e \in K : \E x \in drawn, source \in X : e = EntryOf(key, x, source)
  BY KeyedEntriesAre
<1> HIDE DEF D, key, X, K
<1>3. ASSUME NEW s \in D PROVE Entry(s) \in K
  <2>1. PICK x \in drawn, source \in X : ObservationOf(s, x, source)
    BY <1>1
  <2>2. Entry(s) = EntryOf(key, x, source)
    BY <1>2, <2>1
  <2> QED BY <2>2, <1>y
<1>4. ASSUME NEW e \in K PROVE \E s \in D : e = Entry(s)
  <2>1. PICK x \in drawn, source \in X : e = EntryOf(key, x, source)
    BY <1>y
  <2>2. PICK s \in D : ObservationOf(s, x, source)
    BY <1>1
  <2> QED BY <1>2, <2>1, <2>2
<1>5. {Entry(s) : s \in D} = K
  <2> HIDE DEF Entry
  <2> QED BY <1>3, <1>4
<1> QED BY <1>5 DEF D, K, key

\* Whatever observation of equal ones counts: what it shows, somebody was served.
LEMMA MapIs ==
  ASSUME NEW p, NEW a \in DOMAIN MapOf(Entries(p))
  PROVE  \E s \in subs[p] : a = Entry(s).key /\ MapOf(Entries(p))[a] = Entry(s).value
<1> DEFINE E == Entries(p)
           one == CHOOSE e \in E : e.key = a
<1>1. DOMAIN MapOf(E) = {e.key : e \in E} /\ MapOf(E)[a] = one.value
  BY DEF MapOf
<1>2. one \in E /\ one.key = a
  BY <1>1
<1>3. \E s \in subs[p] : one = Entry(s)
  BY <1>2 DEF Entries
<1> HIDE DEF E, one
<1> QED BY <1>1, <1>2, <1>3 DEF E

LEMMA MapServed ==
  ASSUME SamplesServed, pc \in {"baseline", "report"}, NEW p \in Panels, NEW client, NEW format, NEW links,
         << <<args.conf.keyID, client>>, format>> \in DOMAIN MapOf(Entries(p)),
         MapOf(Entries(p))[<< <<args.conf.keyID, client>>, format>>] = <<TRUE, links>>
  PROVE  ServedTo(cluster, p, client, format, links)
<1> DEFINE a == << <<args.conf.keyID, client>>, format>>
<1> HIDE DEF a
<1>0. a \in DOMAIN MapOf(Entries(p)) /\ MapOf(Entries(p))[a] = <<TRUE, links>>
  BY DEF a
<1>1. PICK s \in subs[p] : a = Entry(s).key /\ MapOf(Entries(p))[a] = Entry(s).value
  BY <1>0, MapIs
<1>2. s.client = client /\ s.format = format
  BY <1>1 DEF Entry, Keyed, a
<1>3. s.code = "" /\ s.links = links
  <2>1. <<s.code = "", s.links>> = <<TRUE, links>>
    BY <1>0, <1>1 DEF Entry
  <2> QED BY <2>1
<1> QED BY <1>2, <1>3 DEF SamplesServed

LEMMA DocumentsAreFaithful ==
  /\ Faithful(Document("report", << >>)) /\ Faithful(Nothing) /\ Faithful(Foreign)
  /\ cluster \in Clusters /\ args \in Arguments /\ pc = "baseline" /\ DrawnInFull /\ SamplesServed
       => Faithful(Document("snapshot", Current))
<1>1. ASSUME NEW what, NEW panels
      PROVE  /\ Document(what, panels).what = what /\ Document(what, panels).panels = panels
             /\ Document(what, panels).cluster = cluster /\ Document(what, panels).got = got
             /\ Document(what, panels).keyID = args.conf.keyID
             /\ Document(what, panels).cap = args.conf.cap
             /\ Document(what, panels).complete = Complete
  BY DEF Document
<1>2. Faithful(Document("report", << >>)) /\ Faithful(Nothing) /\ Faithful(Foreign)
  <2>1. /\ Document("report", << >>).what = "report" /\ Document("report", << >>).panels = << >>
        /\ Nothing.what = "nothing" /\ Foreign.what = "foreign"
    BY <1>1 DEF Nothing, Foreign
  <2>2. \A d : (d.what = "report" /\ d.panels = << >>) \/ (d.what # "report" /\ d.what # "snapshot")
              => Faithful(d)
    BY Zenon DEF Faithful
  <2>3. "report" # "snapshot" /\ "nothing" \notin {"report", "snapshot"}
        /\ "foreign" \notin {"report", "snapshot"}
    OBVIOUS
  <2> QED BY <2>1, <2>2, <2>3
<1>3. ASSUME cluster \in Clusters, args \in Arguments, pc = "baseline", DrawnInFull, SamplesServed
      PROVE  Faithful(Document("snapshot", Current))
  <2> DEFINE d == Document("snapshot", Current)
  <2>1. /\ d.what = "snapshot" /\ d.panels = Current /\ d.cluster = cluster /\ d.got = got
        /\ d.keyID = args.conf.keyID /\ d.cap = args.conf.cap /\ d.complete = Complete
    BY <1>1
  <2> HIDE DEF d
  <2>2. Complete =>
          \A p \in Panels :
            /\ {"inbounds", "clients"} \subseteq got[p]
            /\ OwnSubscriptions(cluster) =>
                 Current[p].subscription
                   = MapOf(FullEntries(args.conf.keyID, cluster, args.conf.cap, p))
    BY <1>3, CurrentIs DEF DrawnInFull
  <2>3. ASSUME NEW p \in Panels, NEW client, NEW format, NEW links,
               << <<args.conf.keyID, client>>, format>> \in DOMAIN Current[p].subscription,
               Current[p].subscription[<< <<args.conf.keyID, client>>, format>>] = <<TRUE, links>>
        PROVE  ServedTo(cluster, p, client, format, links)
    BY <1>3, <2>3, MapServed, CurrentIs
  <2>4. Faithful(d)
    BY <1>3, <2>1, <2>2, <2>3, CurrentIs, Zenon DEF Faithful
  <2> QED BY <2>4 DEF d
<1> QED BY <1>2, <1>3

LEMMA LineageInit == Init => Lineage
<1> SUFFICES ASSUME Init PROVE Lineage
  OBVIOUS
<1>1. Faithful(before) /\ \A path \in Paths : Faithful(file[path])
  BY DocumentsAreFaithful DEF Init
<1>2. pc = "idle"
  BY DEF Init
<1> QED BY <1>1, <1>2, TypeInit DEF Lineage, LossesSaid, SamplesServed, DrawnInFull

LEMMA DrawnInFullStep ==
  ASSUME Sample, cluster \in Clusters, args \in Arguments
  PROVE  DrawnInFull'
<1> SUFFICES ASSUME Complete', NEW p \in Panels
             PROVE  /\ {"inbounds", "clients"} \subseteq got'[p]
                    /\ OwnSubscriptions(cluster)' =>
                         Entries(p)' = FullEntries(args'.conf.keyID, cluster', args'.conf.cap, p)
  BY DEF DrawnInFull
<1>1. UNCHANGED <<args, cluster, got>>
  BY DEF Sample
<1>2. PICK drawn, lost : /\ \A q \in Panels : drawn[q] \in Draws(q)
                         /\ subs' = [q \in Panels |-> Sampled(q, drawn[q], lost)]
                         /\ traffic' = [q \in Panels |-> TrafficRead(q, lost)]
  BY DEF Sample, AllDraws
<1>3. ASSUME NEW q \in Panels
      PROVE  /\ C!Supported(q) /\ {"inbounds", "clients", "settings"} \subseteq got[q]
             /\ \A s \in Sampled(q, drawn[q], lost) : s.code = ""
  <2>1. /\ got'[q] = C!ReadsOf(q) /\ traffic'[q] = 5
        /\ \A s \in subs'[q] : s.code = ""
    BY DEF Complete, C!TrafficSamples, C!ReadsOf
  <2>2. TrafficRead(q, lost) = 5 /\ Sampled(q, drawn[q], lost) = subs'[q]
    BY <1>2, <2>1
  <2>3. C!Supported(q)
    BY <2>2 DEF TrafficRead
  <2>4. {"inbounds", "clients", "settings"} \subseteq C!ReadsOf(q)
    BY DEF C!ReadsOf, C!Reads
  <2> QED BY <1>1, <2>1, <2>2, <2>3, <2>4
<1>4. ASSUME OwnSubscriptions(cluster)
      PROVE  Entries(p)' = FullEntries(args.conf.keyID, cluster, args.conf.cap, p)
  <2>1. drawn[p] = FullDrawn(cluster, args.conf.cap, p)
    BY <1>2, <1>3, <1>4, DrawnIs
  <2>2. Sources(p) = SourcesIn(Answer(cluster, p).formats)
    BY <1>3, AnswersAre DEF Sources, C!ExternalFormats, SourcesIn
  <2>3. {Entry(s) : s \in Sampled(p, drawn[p], lost)}
          = KeyedEntries(args.conf.keyID, drawn[p], Answer(cluster, p).formats)
    <3>1. AllAnswered(Sampled(p, drawn[p], lost))
      BY <1>3 DEF AllAnswered
    <3> QED BY <2>2, <3>1, SampledEntries
  <2>4. Entries(p)' = {Entry(s) : s \in Sampled(p, drawn[p], lost)}
    <3>1. subs'[p] = Sampled(p, drawn[p], lost)
      BY <1>2
    <3> HIDE DEF Sampled
    <3> QED BY <1>1, <3>1 DEF Entries, Entry, Keyed
  <2> QED BY <2>1, <2>3, <2>4 DEF FullEntries
<1>5. OwnSubscriptions(cluster)' = OwnSubscriptions(cluster)
  BY <1>1 DEF OwnSubscriptions
<1> QED BY <1>1, <1>3, <1>4, <1>5

LEMMA SamplesServedStep ==
  ASSUME Sample, cluster \in Clusters, args \in Arguments
  PROVE  SamplesServed'
<1> SUFFICES ASSUME NEW p \in Panels, NEW s \in subs'[p], s.code = ""
             PROVE  ServedTo(cluster', p, s.client, s.format, s.links)
  BY DEF SamplesServed
<1>1. UNCHANGED <<args, cluster, got>>
  BY DEF Sample
<1>2. PICK drawn, lost : /\ \A q \in Panels : drawn[q] \in Draws(q)
                         /\ subs' = [q \in Panels |-> Sampled(q, drawn[q], lost)]
  BY DEF Sample, AllDraws
<1>3. s \in Sampled(p, drawn[p], lost)
  BY <1>2
<1>4. PICK x \in drawn[p], source \in Sources(p) : ObservationOf(s, x, source)
  BY <1>3, SampledIs
<1> DEFINE c == x.client
<1>5. c \in Answer(cluster, p).clients
  BY <1>2, DrawnAreServed
<1>6. s.client = c.id /\ s.format = FormatOf(source) /\ s.links = c.outputs[source]
  BY <1>4 DEF ObservationOf
<1>7. source \in DOMAIN c.outputs
  <2>1. {"links"} \cup Answer(cluster, p).formats \subseteq DOMAIN c.outputs
    BY <1>5, AnswersAssumption DEF Answer
  <2>2. C!ExternalFormats(p) \subseteq Answer(cluster, p).formats
    BY AnswersAre DEF C!ExternalFormats
  <2> QED BY <2>1, <2>2 DEF Sources
<1> HIDE DEF c
<1>8. s.links \in Served(c, s.format)
  BY <1>6, <1>7 DEF Served
<1> QED BY <1>1, <1>5, <1>6, <1>8 DEF ServedTo

LEMMA LineageStep == Lineage /\ [Next]_vars => Lineage'
<1> SUFFICES ASSUME Lineage, [Next]_vars PROVE Lineage'
  OBVIOUS
<1>0. TypeOK /\ TypeOK'
  BY TypeStep DEF Lineage
<1> DEFINE Files == \A path \in Paths : Faithful(file[path])
           Run == pc # "idle" => /\ args \in Arguments
                                 /\ args.command = "verify" => before.keyID = args.conf.keyID
<1>l. Faithful(before) /\ Files /\ Run /\ LossesSaid /\ SamplesServed /\ DrawnInFull
  BY DEF Lineage
<1> SUFFICES Faithful(before)' /\ Files' /\ Run' /\ LossesSaid' /\ SamplesServed' /\ DrawnInFull'
  BY <1>0 DEF Lineage
<1>w. ASSUME NEW path, NEW body, Faithful(body), Written(path, body) PROVE Files'
  BY <1>w, <1>0, <1>l DEF Written, TypeOK
<1>e. ASSUME NEW code, End(code), Files' PROVE Faithful(before)' /\ Run' /\ LossesSaid' /\ SamplesServed' /\ DrawnInFull'
  BY <1>e, DocumentsAreFaithful DEF End, LossesSaid, SamplesServed, DrawnInFull
<1>k. ASSUME UNCHANGED <<before, args>>, UNCHANGED file, pc # "idle"
      PROVE  Faithful(before)' /\ Files' /\ Run'
  BY <1>k, <1>l
<1>s. ASSUME UNCHANGED <<args, cluster, got>>, NEW p \in Panels PROVE Missing(p)' = Missing(p)
  BY <1>s DEF Missing, Asked, C!Supported, C!Version, C!Answers, C!Job, C!ReadsOf
<1>d. ASSUME UNCHANGED <<args, cluster, got, subs, traffic>>, DrawnInFull, pc = "baseline" \/ pc' = pc
      PROVE  DrawnInFull'
  <2>1. Complete' = Complete
    BY <1>d DEF Complete, C!ReadsOf, C!TrafficSamples
  <2>2. ASSUME NEW p \in Panels PROVE Entries(p)' = Entries(p)
    BY <1>d DEF Entries, Entry, Keyed
  <2>3. OwnSubscriptions(cluster)' = OwnSubscriptions(cluster)
    BY <1>d DEF OwnSubscriptions
  <2> QED BY <1>d, <2>1, <2>2, <2>3 DEF DrawnInFull
<1>v. ASSUME UNCHANGED <<cluster, subs>>, SamplesServed, pc = "baseline" \/ pc' = pc
      PROVE  SamplesServed'
  BY <1>v DEF SamplesServed, ServedTo
<1> HIDE DEF Files, Run
<1>1. ASSUME NEW a \in Arguments, Accept(a) \/ Refuse(a) PROVE Faithful(before)' /\ Files' /\ Run' /\ LossesSaid' /\ SamplesServed' /\ DrawnInFull'
  <2>1. pc = "idle" /\ args' = a /\ UNCHANGED file /\ a.snapshot \in Paths
    BY <1>1, ArgumentsAssumption DEF Accept, Refuse, Begin
  <2>2. Files'
    BY <1>l, <2>1 DEF Files
  <2>3. CASE Accept(a)
    <3>1. pc' = "collect" /\ before' = IF a.command = "verify" THEN file[a.snapshot] ELSE Nothing
      BY <2>3 DEF Accept
    <3>2. a.command = "verify" => file[a.snapshot].keyID = a.conf.keyID
      BY <2>3 DEF Accept, Comparable
    <3>3. Faithful(before)'
      BY <1>l, <2>1, <3>1, DocumentsAreFaithful DEF Files
    <3>4. Run'
      BY <2>1, <3>1, <3>2 DEF Run
    <3>5. LossesSaid' /\ SamplesServed' /\ DrawnInFull'
      BY <3>1 DEF LossesSaid, SamplesServed, DrawnInFull
    <3> QED BY <2>2, <3>3, <3>4, <3>5
  <2>4. CASE Refuse(a)
    <3>1. pc' = "idle" /\ before' = before
      BY <2>1, <2>4 DEF Refuse
    <3> QED BY <1>l, <2>2, <3>1 DEF Run, LossesSaid, SamplesServed, DrawnInFull
  <2> QED BY <1>1, <2>3, <2>4
<1>2. CASE Collect
  BY <1>2, <1>k DEF Collect, LossesSaid, SamplesServed, DrawnInFull
<1>3. CASE Sample
  <2>1. PICK drawn, lost :
          obs' = [p \in Panels |-> Observed(p, Sampled(p, drawn[p], lost), TrafficRead(p, lost))]
    BY <1>3 DEF Sample
  <2>2. UNCHANGED <<args, cluster, got>> /\ UNCHANGED file /\ UNCHANGED before /\ pc = "sample"
    BY <1>3 DEF Sample
  <2>3. ASSUME NEW p \in Panels, NEW read \in Missing(p)'
        PROVE  C!ReadFailure(p, read, "lost") \in obs'[p]
    <3>1. read \in Missing(p)
      BY <1>s, <2>2, <2>3
    <3>2. obs'[p] = Observed(p, Sampled(p, drawn[p], lost), TrafficRead(p, lost))
      BY <2>1
    <3>3. C!ReadFailure(p, read, "lost") \in {C!ReadFailure(p, r, "lost") : r \in Missing(p)}
      BY <3>1
    <3> QED BY <3>2, <3>3 DEF Observed
  <2>4. LossesSaid'
    BY <2>3 DEF LossesSaid
  <2>5. DrawnInFull' /\ SamplesServed'
    BY <1>0, <1>3, <1>l, <2>2, DrawnInFullStep, SamplesServedStep DEF TypeOK, Run
  <2> QED BY <1>k, <2>2, <2>4, <2>5
<1>4. CASE Interrupt
  <2>1. Files'
    BY <1>4, <1>l DEF Interrupt, Files
  <2> QED BY <1>4, <1>e, <2>1 DEF Interrupt
<1>5. CASE WriteBaseline
  <2>1. CASE Written(args.snapshot, Document("snapshot", Current)) /\ pc' = "report"
             /\ UNCHANGED <<cluster, args, before, collected, exit, runs>>
    <3>1. pc = "baseline" /\ UNCHANGED <<cluster, args, before, got, obs, subs, traffic>>
      BY <1>5, <2>1 DEF WriteBaseline, collected
    <3>2. Faithful(Document("snapshot", Current))
      BY <1>0, <1>l, <3>1, DocumentsAreFaithful DEF TypeOK, Run
    <3>3. Files'
      BY <1>w, <2>1, <3>2
    <3>4. Faithful(before)' /\ Run'
      BY <1>l, <3>1 DEF Run
    <3>5. LossesSaid'
      BY <1>l, <1>s, <3>1 DEF LossesSaid
    <3>6. DrawnInFull' /\ SamplesServed'
      BY <1>d, <1>v, <1>l, <3>1
    <3> QED BY <3>3, <3>4, <3>5, <3>6
  <2>2. CASE NotWritten(args.snapshot) /\ End(3)
    <3>1. Files'
      BY <1>l, <2>2 DEF NotWritten, Files
    <3> QED BY <1>e, <2>2, <3>1
  <2> QED BY <1>5, <2>1, <2>2 DEF WriteBaseline
<1>6. CASE WriteReport
  <2>1. CASE args.output = "-"
    <3>1. Files'
      BY <1>6, <1>l, <2>1 DEF WriteReport, Files
    <3> QED BY <1>6, <1>e, <2>1, <3>1 DEF WriteReport
  <2>2. CASE Written(PathOf(args.output), Document("report", << >>)) /\ End(ExitCode(Verdict))
    BY <1>e, <1>w, <2>2, DocumentsAreFaithful
  <2>3. CASE NotWritten(PathOf(args.output)) /\ End(3)
    <3>1. Files'
      BY <1>l, <2>3 DEF NotWritten, Files
    <3> QED BY <1>e, <2>3, <3>1
  <2> QED BY <1>6, <2>1, <2>2, <2>3 DEF WriteReport
<1>7. CASE Die
  <2>1. Files'
    <3>1. CASE UNCHANGED file
      BY <1>l, <3>1 DEF Files
    <3>2. CASE \E path : file' = [file EXCEPT ![path] = Foreign]
      BY <1>0, <1>l, <3>2, DocumentsAreFaithful DEF Files, TypeOK
    <3> QED BY <1>7, <3>1, <3>2 DEF Die
  <2> QED BY <1>7, <1>e, <2>1 DEF Die
<1>8. CASE Move
  BY <1>8, <1>l DEF Move, Files, Run, LossesSaid, SamplesServed, DrawnInFull
<1>9. CASE UNCHANGED vars
  <2>1. UNCHANGED <<args, cluster, got, pc, obs, subs, traffic, file, before>>
    BY <1>9 DEF vars, collected
  <2>2. LossesSaid'
    BY <1>l, <1>s, <2>1 DEF LossesSaid
  <2>3. DrawnInFull' /\ SamplesServed'
    BY <1>d, <1>v, <1>l, <2>1
  <2> QED BY <1>l, <2>1, <2>2, <2>3 DEF Files, Run
<1> QED
  BY <1>1, <1>2, <1>3, <1>4, <1>5, <1>6, <1>7, <1>8, <1>9 DEF Next

-----------------------------------------------------------------------------
(* What a READY verification has read and compared *)

LEMMA ReadyRead ==
  ASSUME LossesSaid, pc = "report", Verdict = "READY"
  PROVE  /\ args.command = "verify" => Regressions(before.panels, Current) = {}
         /\ \A p \in Panels : {"inbounds", "clients"} \subseteq got[p]
                              /\ C!Listed(p, "inbounds") # {}
                              /\ \A s \in subs[p] : s.code = ""
<1>1. \A f \in AllFindings : f.status \notin {"FAIL", "UNKNOWN"}
  BY DEF Verdict, Readiness
<1>2. ASSUME args.command = "verify" PROVE Regressions(before.panels, Current) = {}
  <2>1. \A f \in Regressions(before.panels, Current) : f.status = "FAIL"
    BY DEF Regressions, Finding
  <2>2. Regressions(before.panels, Current) \subseteq AllFindings
    BY <1>2 DEF AllFindings, When
  <2> QED BY <1>1, <2>1, <2>2
<1>3. ASSUME NEW p \in Panels
      PROVE  /\ {"inbounds", "clients"} \subseteq got[p] /\ C!Listed(p, "inbounds") # {}
             /\ \A s \in subs[p] : s.code = ""
  <2>1. /\ DOMAIN C!Snapshot = Panels /\ C!Snapshot[p].subs = subs[p]
        /\ C!Snapshot[p].obs = obs[p] /\ C!Snapshot[p].version = C!Version(p)
        /\ C!Snapshot[p].inbounds = {} <=> C!Listed(p, "inbounds") = {}
    BY DEF C!Snapshot
  <2>2. ASSUME NEW f, \/ f \in {C!FromObservation(o) : o \in obs[p]}
                      \/ f \in C!EvaluateVersionSupport(C!Snapshot)
                      \/ f \in C!EvaluateConfigEvidence(C!Snapshot)
        PROVE  f.status # "UNKNOWN"
    <3>1. f \in C!Result
      BY <2>1, <2>2 DEF C!Result, C!Evaluate
    <3> QED BY <1>1, <3>1 DEF AllFindings
  <2>3. C!Supported(p)
    <3>1. ASSUME ~C!Supported(p) PROVE FALSE
      <4>1. C!Finding("API-003", "UNKNOWN", p) \in C!EvaluateVersionSupport(C!Snapshot)
        BY <2>1, <3>1 DEF C!EvaluateVersionSupport, C!Supported, C!SupportedVersions
      <4> QED BY <2>2, <4>1 DEF C!Finding
    <3> QED BY <3>1
  <2>4. C!Listed(p, "inbounds") # {}
    <3>1. ASSUME C!Listed(p, "inbounds") = {} PROVE FALSE
      <4>1. C!Finding("CFG-001", "UNKNOWN", p) \in C!EvaluateConfigEvidence(C!Snapshot)
        BY <2>1, <3>1 DEF C!EvaluateConfigEvidence
      <4> QED BY <2>2, <4>1 DEF C!Finding
    <3> QED BY <3>1
  <2>5. ASSUME NEW read \in {"inbounds", "clients"}, read \notin got[p] PROVE FALSE
    <3>1. read \in Missing(p)
      BY <2>3, <2>5 DEF Missing, Asked, C!ReadsOf, C!Reads
    <3>2. C!ReadFailure(p, read, "lost") \in obs[p]
      BY <3>1 DEF LossesSaid
    <3>3. C!ReadFailure(p, read, "lost").sev = "inconclusive"
      BY DEF C!ReadFailure, C!Obs
    <3>4. \A o : o.sev = "inconclusive" => C!FromObservation(o).status = "UNKNOWN"
      BY DEF C!FromObservation, C!Finding, C!StatusOf
    <3> QED BY <2>2, <3>2, <3>3, <3>4
  <2>6. ASSUME NEW s \in subs[p], s.code # "" PROVE FALSE
    <3>1. s \in UNION {C!Snapshot[q].subs : q \in DOMAIN C!Snapshot}
      BY <2>1, <2>6
    <3>2. C!SubscriptionFindings(s) \subseteq C!Result
      <4> HIDE DEF C!Snapshot
      <4>1. C!SubscriptionFindings(s) \subseteq C!EvaluateSubscriptions(C!Snapshot)
        BY <3>1 DEF C!EvaluateSubscriptions
      <4> QED BY <4>1 DEF C!Result, C!Evaluate
    <3>3. \E f \in C!SubscriptionFindings(s) : f.status \in {"FAIL", "UNKNOWN"}
      BY <2>6 DEF C!SubscriptionFindings, C!Finding
    <3> QED BY <1>1, <3>2, <3>3 DEF AllFindings
  <2> QED BY <2>4, <2>5, <2>6
<1> QED BY <1>2, <1>3

\* The inbounds of a panel, known by their identities.
Identified(inbounds, guid) ==
  \A a, b \in inbounds : InboundIdentity(a, guid) = InboundIdentity(b, guid) => a = b

\* Equal maps were made of the same inbounds, but for their database IDs.
LEMMA InboundsKept ==
  ASSUME NEW A, NEW B, NEW guid, NEW key, Identified(A, guid), Identified(B, guid),
         KeyedInbounds(key, A, guid) = KeyedInbounds(key, B, guid)
  PROVE  {<<InboundIdentity(in, guid), ConnectionState(in)>> : in \in A}
           \subseteq {<<InboundIdentity(in, guid), ConnectionState(in)>> : in \in B}
<1>1. ASSUME NEW S, Identified(S, guid), NEW in \in S
      PROVE  KeyedInbounds(key, S, guid)[<<key, InboundIdentity(in, guid)>>] = ConnectionState(in)
  <2> DEFINE a == <<key, InboundIdentity(in, guid)>>
             one == CHOOSE x \in S : <<key, InboundIdentity(x, guid)>> = a
  <2>1. one \in S /\ <<key, InboundIdentity(one, guid)>> = a
    OBVIOUS
  <2>2. one = in
    BY <1>1, <2>1 DEF Identified
  <2>3. KeyedInbounds(key, S, guid)[a] = ConnectionState(one)
    BY DEF KeyedInbounds
  <2> QED BY <2>2, <2>3
<1>2. ASSUME NEW in \in A
      PROVE  \E x \in B : /\ InboundIdentity(x, guid) = InboundIdentity(in, guid)
                          /\ ConnectionState(x) = ConnectionState(in)
  <2>1. <<key, InboundIdentity(in, guid)>> \in DOMAIN KeyedInbounds(key, B, guid)
    <3>1. <<key, InboundIdentity(in, guid)>> \in DOMAIN KeyedInbounds(key, A, guid)
      BY DEF KeyedInbounds
    <3> QED BY <3>1
  <2>2. PICK x \in B : <<key, InboundIdentity(x, guid)>> = <<key, InboundIdentity(in, guid)>>
    BY <2>1 DEF KeyedInbounds
  <2> QED BY <1>1, <2>2
<1> QED BY <1>2

LEMMA AttachedIs ==
  ASSUME NEW c, NEW inbounds, NEW guid, c.listed \in Seq(Range(c.listed)),
         \A a, b \in inbounds : a.id = b.id => a = b
  PROVE  Attached(c, inbounds, guid)
           = [i \in DOMAIN InboundAliases(c, inbounds, guid) |->
                {InboundAliases(c, inbounds, guid)[i]}]
<1> DEFINE known == Those(c.listed, {in.id : in \in inbounds})
           One(id) == CHOOSE in \in inbounds : in.id = id
           identities(id) == {InboundIdentity(in, guid) : in \in {j \in inbounds : j.id = id}}
<1>1. ASSUME NEW i \in DOMAIN known PROVE identities(known[i]) = {InboundIdentity(One(known[i]), guid)}
  <2>1. known[i] \in {in.id : in \in inbounds}
    BY ThoseMembers
  <2>2. One(known[i]) \in inbounds /\ One(known[i]).id = known[i]
    BY <2>1
  <2>3. {j \in inbounds : j.id = known[i]} = {One(known[i])}
    BY <2>2
  <2> QED BY <2>3
<1>2. Attached(c, inbounds, guid) = [i \in DOMAIN known |-> identities(known[i])]
  BY DEF Attached
<1>3. InboundAliases(c, inbounds, guid)
        = [i \in DOMAIN known |-> InboundIdentity(One(known[i]), guid)]
  BY DEF InboundAliases
<1> HIDE DEF known, One, identities
<1> QED BY <1>1, <1>2, <1>3

\* Equal maps were made of the same clients, attached to the same inbounds.
LEMMA ClientsKept ==
  ASSUME NEW A, NEW B, NEW I, NEW J, NEW guid, NEW key,
         \A c, d \in A : c.id = d.id => c = d, \A c, d \in B : c.id = d.id => c = d,
         \A c \in A \cup B : c.listed \in Seq(Range(c.listed)),
         \A a, b \in I : a.id = b.id => a = b, \A a, b \in J : a.id = b.id => a = b,
         KeyedClients(key, A, I, guid) = KeyedClients(key, B, J, guid)
  PROVE  {ClientTruth(c, I, guid) : c \in A} \subseteq {ClientTruth(c, J, guid) : c \in B}
<1>1. ASSUME NEW S, \A c, d \in S : c.id = d.id => c = d, NEW inbounds, NEW c \in S
      PROVE  KeyedClients(key, S, inbounds, guid)[<<key, c.id>>] = ClientState(c, inbounds, guid)
  <2> DEFINE one == CHOOSE x \in S : <<key, x.id>> = <<key, c.id>>
  <2>1. one \in S /\ <<key, one.id>> = <<key, c.id>>
    OBVIOUS
  <2>2. one = c
    BY <1>1, <2>1
  <2>3. KeyedClients(key, S, inbounds, guid)[<<key, c.id>>] = ClientState(one, inbounds, guid)
    BY DEF KeyedClients
  <2> QED BY <2>2, <2>3
<1>2. ASSUME NEW c \in A PROVE \E d \in B : ClientTruth(c, I, guid) = ClientTruth(d, J, guid)
  <2>1. <<key, c.id>> \in DOMAIN KeyedClients(key, B, J, guid)
    <3>1. <<key, c.id>> \in DOMAIN KeyedClients(key, A, I, guid)
      BY DEF KeyedClients
    <3> QED BY <3>1
  <2>2. PICK d \in B : <<key, d.id>> = <<key, c.id>>
    BY <2>1 DEF KeyedClients
  <2>3. ClientState(c, I, guid) = ClientState(d, J, guid)
    <3>1. KeyedClients(key, A, I, guid)[<<key, c.id>>] = ClientState(c, I, guid)
      BY <1>1
    <3>2. KeyedClients(key, B, J, guid)[<<key, d.id>>] = ClientState(d, J, guid)
      BY <1>1
    <3> QED BY <2>2, <3>1, <3>2
  <2>4. /\ c.id = d.id /\ c.enabled = d.enabled /\ c.total = d.total /\ c.expiry = d.expiry
        /\ InboundAliases(c, I, guid) = InboundAliases(d, J, guid)
    BY <2>2, <2>3 DEF ClientState
  <2>5. Attached(c, I, guid) = Attached(d, J, guid)
    <3>1. Attached(c, I, guid) = [i \in DOMAIN InboundAliases(c, I, guid) |->
                                    {InboundAliases(c, I, guid)[i]}]
      BY AttachedIs
    <3>2. Attached(d, J, guid) = [i \in DOMAIN InboundAliases(d, J, guid) |->
                                    {InboundAliases(d, J, guid)[i]}]
      BY AttachedIs
    <3> QED BY <2>4, <3>1, <3>2
  <2> QED BY <2>4, <2>5 DEF ClientTruth
<1> QED BY <1>2

\* The comparison of a READY verification: both runs knew the same inbounds of every
\* panel, and the same clients.
LEMMA ReadyCompared ==
  ASSUME Lineage, Verified, Verdict = "READY", NEW p \in Panels
  PROVE  /\ before.cluster \in Clusters /\ cluster \in Clusters
         /\ InboundsRead(cluster, got, p) = Answer(cluster, p).inbounds
         /\ InboundsRead(before.cluster, before.got, p) = Answer(before.cluster, p).inbounds
         /\ ClientsRead(cluster, got, p) = Answer(cluster, p).clients
         /\ \E key :
              /\ KeyedInbounds(key, InboundsRead(before.cluster, before.got, p), ExpectedGUID[p])
                   = KeyedInbounds(key, InboundsRead(cluster, got, p), ExpectedGUID[p])
              /\ KeyedClients(key, ClientsRead(before.cluster, before.got, p),
                              InboundsRead(before.cluster, before.got, p), ExpectedGUID[p])
                   = KeyedClients(key, ClientsRead(cluster, got, p),
                                  InboundsRead(cluster, got, p), ExpectedGUID[p])
         /\ \A s \in subs[p] :
              \E t \in subs[p] : /\ t.client = s.client /\ t.format = s.format
                                /\ ServedTo(before.cluster, p, s.client, s.format, t.links)
<1>1. /\ pc = "report" /\ args.command = "verify" /\ args \in Arguments /\ cluster \in Clusters
      /\ before.keyID = args.conf.keyID /\ before.what \in {"snapshot", "report"}
      /\ Faithful(before) /\ LossesSaid
  BY DEF Verified, Lineage, TypeOK
<1>2. Regressions(before.panels, Current) = {}
      /\ {"inbounds", "clients"} \subseteq got[p] /\ C!Listed(p, "inbounds") # {}
      /\ \A s \in subs[p] : s.code = ""
  BY <1>1, ReadyRead
<1>3. /\ IsSnapshot(Current) /\ DOMAIN Current = Panels
      /\ Current[p].inbound =
           KeyedInbounds(before.keyID, InboundsRead(cluster, got, p), ExpectedGUID[p])
      /\ Current[p].client =
           KeyedClients(before.keyID, ClientsRead(cluster, got, p),
                        InboundsRead(cluster, got, p), ExpectedGUID[p])
      /\ Current[p].subscription = MapOf(Entries(p))
  BY <1>1, CurrentIs
<1>4. before.what = "snapshot"
  <2>1. ASSUME before.what = "report" PROVE FALSE
    <3>1. before.panels = << >>
      BY <1>1, <2>1 DEF Faithful
    <3>2. IsSnapshot(<< >>) /\ DOMAIN << >> = {}
      BY DEF IsSnapshot
    <3>3. Panels = {}
      BY <1>2, <1>3, <3>1, <3>2, ComparisonExact
    <3> QED BY <3>3
  <2> QED BY <1>1, <2>1
<1>5. /\ before.cluster \in Clusters /\ IsSnapshot(before.panels)
      /\ before.panels[p].inbound =
           KeyedInbounds(before.keyID, InboundsRead(before.cluster, before.got, p), ExpectedGUID[p])
      /\ before.panels[p].client =
           KeyedClients(before.keyID, ClientsRead(before.cluster, before.got, p),
                        InboundsRead(before.cluster, before.got, p), ExpectedGUID[p])
      /\ \A client, format, links :
           LET a == << <<before.keyID, client>>, format>>
           IN a \in DOMAIN before.panels[p].subscription
                /\ before.panels[p].subscription[a] = <<TRUE, links>>
                => ServedTo(before.cluster, p, client, format, links)
  BY <1>1, <1>4, Zenon DEF Faithful
<1>6. /\ before.panels[p].inbound = Current[p].inbound /\ before.panels[p].client = Current[p].client
      /\ before.panels[p].subscription = Current[p].subscription
  <2>1. IsSnapshot(before.panels) /\ IsSnapshot(Current) /\ DOMAIN Current = Panels
        /\ Regressions(before.panels, Current) = {}
    BY <1>2, <1>3, <1>5, Zenon
  <2>2. \A kind \in Kinds : before.panels[p][kind] = Current[p][kind]
    BY <2>1, ComparisonExact
  <2> QED BY <2>2 DEF Kinds
<1>7. /\ InboundsRead(cluster, got, p) = Answer(cluster, p).inbounds
      /\ ClientsRead(cluster, got, p) = Answer(cluster, p).clients
      /\ InboundsRead(cluster, got, p) # {}
  BY <1>1, <1>2, AnswersAre DEF InboundsRead, ClientsRead, When
<1>8. InboundsRead(before.cluster, before.got, p) = Answer(before.cluster, p).inbounds
  <2>1. DOMAIN KeyedInbounds(before.keyID, InboundsRead(before.cluster, before.got, p), ExpectedGUID[p])
          = DOMAIN KeyedInbounds(before.keyID, InboundsRead(cluster, got, p), ExpectedGUID[p])
    BY <1>3, <1>5, <1>6
  <2>2. \A S : DOMAIN KeyedInbounds(before.keyID, S, ExpectedGUID[p]) = {} <=> S = {}
    BY DEF KeyedInbounds
  <2>3. InboundsRead(before.cluster, before.got, p) # {}
    BY <1>7, <2>1, <2>2
  <2> QED BY <2>3 DEF InboundsRead, When
<1>9. ASSUME NEW s \in subs[p]
      PROVE  \E t \in subs[p] : /\ t.client = s.client /\ t.format = s.format
                                /\ ServedTo(before.cluster, p, s.client, s.format, t.links)
  <2> DEFINE a == << <<before.keyID, s.client>>, s.format>>
  <2>1. Entry(s) \in Entries(p) /\ Entry(s).key = a
    BY <1>1 DEF Entries, Entry, Keyed
  <2>2. a \in DOMAIN MapOf(Entries(p))
    BY <2>1 DEF MapOf
  <2>3. PICK t \in subs[p] : a = Entry(t).key /\ MapOf(Entries(p))[a] = Entry(t).value
    <3> HIDE DEF a
    <3> QED BY <2>2, MapIs
  <2>4. t.client = s.client /\ t.format = s.format
    BY <2>3 DEF Entry, Keyed
  <2>5. MapOf(Entries(p))[a] = <<TRUE, t.links>>
    <3>1. (t.code = "") = TRUE
      BY <1>2
    <3> HIDE DEF a
    <3> QED BY <2>3, <3>1, Zenon DEF Entry
  <2>6. a \in DOMAIN before.panels[p].subscription
        /\ before.panels[p].subscription[a] = <<TRUE, t.links>>
    BY <1>3, <1>6, <2>2, <2>5
  <2>7. ServedTo(before.cluster, p, s.client, s.format, t.links)
    BY <1>5, <2>6
  <2> QED BY <2>4, <2>7
<1>10. /\ KeyedInbounds(before.keyID, InboundsRead(before.cluster, before.got, p), ExpectedGUID[p])
            = KeyedInbounds(before.keyID, InboundsRead(cluster, got, p), ExpectedGUID[p])
       /\ KeyedClients(before.keyID, ClientsRead(before.cluster, before.got, p),
                       InboundsRead(before.cluster, before.got, p), ExpectedGUID[p])
            = KeyedClients(before.keyID, ClientsRead(cluster, got, p),
                           InboundsRead(cluster, got, p), ExpectedGUID[p])
  BY <1>3, <1>5, <1>6, Zenon
<1>11. before.cluster \in Clusters /\ cluster \in Clusters
  BY <1>1, <1>5
<1> QED BY <1>7, <1>8, <1>9, <1>10, <1>11, Zenon

\* Truth of a panel in the terms of the comparison.
LEMMA TruthIs ==
  ASSUME NEW k, NEW p \in Panels
  PROVE  /\ Truth(k)[p].inbounds =
              {<<InboundIdentity(in, ExpectedGUID[p]), ConnectionState(in)>> :
                 in \in Answer(k, p).inbounds}
         /\ Truth(k)[p].clients =
              {ClientTruth(c, Answer(k, p).inbounds, ExpectedGUID[p]) : c \in Answer(k, p).clients}
  BY DEF Truth, Answer, ClientTruth, Attached

LEMMA AnswersKeyed ==
  ASSUME NEW k \in Clusters, NEW p \in Panels
  PROVE  /\ Identified(Answer(k, p).inbounds, ExpectedGUID[p])
         /\ \A a, b \in Answer(k, p).inbounds : a.id = b.id => a = b
         /\ \A c, d \in Answer(k, p).clients : c.id = d.id => c = d
         /\ \A c \in Answer(k, p).clients : c.listed \in Seq(Range(c.listed))
  BY AnswersAssumption DEF Answer, Identified

LEMMA LineageReady == Lineage => ReadyMeansUnchanged
<1> SUFFICES ASSUME Lineage, Verified, Verdict = "READY", NEW p \in Panels
             PROVE  /\ Truth(cluster)[p].inbounds = Truth(before.cluster)[p].inbounds
                    /\ "clients" \in before.got[p] \/ Truth(cluster)[p].clients # {}
                         => Truth(cluster)[p].clients = Truth(before.cluster)[p].clients
                    /\ \A s \in subs[p] :
                         \E t \in subs[p], c \in Answer(before.cluster, p).clients :
                           /\ t.client = s.client /\ t.format = s.format /\ c.id = s.client
                           /\ t.links \in Served(c, s.format)
  BY DEF ReadyMeansUnchanged, Answer
<1>s. ASSUME NEW s \in subs[p]
      PROVE  \E t \in subs[p], c \in Answer(before.cluster, p).clients :
               /\ t.client = s.client /\ t.format = s.format /\ c.id = s.client
               /\ t.links \in Served(c, s.format)
  <2>1. PICK t \in subs[p] : /\ t.client = s.client /\ t.format = s.format
                             /\ ServedTo(before.cluster, p, s.client, s.format, t.links)
    BY ReadyCompared
  <2> QED BY <2>1 DEF ServedTo
<1> DEFINE A == Answer(before.cluster, p)
           B == Answer(cluster, p)
           guid == ExpectedGUID[p]
           old == ClientsRead(before.cluster, before.got, p)
<1>1. /\ before.cluster \in Clusters /\ cluster \in Clusters
      /\ \E key : /\ KeyedInbounds(key, A.inbounds, guid) = KeyedInbounds(key, B.inbounds, guid)
                  /\ KeyedClients(key, old, A.inbounds, guid)
                       = KeyedClients(key, B.clients, B.inbounds, guid)
  BY ReadyCompared
<1>2. /\ Identified(A.inbounds, guid) /\ \A a, b \in A.inbounds : a.id = b.id => a = b
      /\ \A c, d \in A.clients : c.id = d.id => c = d
      /\ \A c \in A.clients : c.listed \in Seq(Range(c.listed))
      /\ Identified(B.inbounds, guid) /\ \A a, b \in B.inbounds : a.id = b.id => a = b
      /\ \A c, d \in B.clients : c.id = d.id => c = d
      /\ \A c \in B.clients : c.listed \in Seq(Range(c.listed))
  BY <1>1, AnswersKeyed
<1>3. PICK key : /\ KeyedInbounds(key, A.inbounds, guid) = KeyedInbounds(key, B.inbounds, guid)
                 /\ KeyedClients(key, old, A.inbounds, guid)
                      = KeyedClients(key, B.clients, B.inbounds, guid)
  BY <1>1
<1>4. old = A.clients \/ (old = {} /\ "clients" \notin before.got[p])
  BY DEF ClientsRead, When
<1>t. /\ Truth(cluster)[p].inbounds = {<<InboundIdentity(in, guid), ConnectionState(in)>> : in \in B.inbounds}
      /\ Truth(before.cluster)[p].inbounds = {<<InboundIdentity(in, guid), ConnectionState(in)>> : in \in A.inbounds}
      /\ Truth(cluster)[p].clients = {ClientTruth(c, B.inbounds, guid) : c \in B.clients}
      /\ Truth(before.cluster)[p].clients = {ClientTruth(c, A.inbounds, guid) : c \in A.clients}
  BY TruthIs
<1> HIDE DEF A, B, guid, old
<1>5. Truth(cluster)[p].inbounds = Truth(before.cluster)[p].inbounds
  <2>1. {<<InboundIdentity(in, guid), ConnectionState(in)>> : in \in A.inbounds}
          \subseteq {<<InboundIdentity(in, guid), ConnectionState(in)>> : in \in B.inbounds}
    BY <1>2, <1>3, InboundsKept
  <2>2. {<<InboundIdentity(in, guid), ConnectionState(in)>> : in \in B.inbounds}
          \subseteq {<<InboundIdentity(in, guid), ConnectionState(in)>> : in \in A.inbounds}
    BY <1>2, <1>3, InboundsKept
  <2> QED BY <1>t, <2>1, <2>2
<1>6. ASSUME old = A.clients
      PROVE  /\ Truth(cluster)[p].inbounds = Truth(before.cluster)[p].inbounds
             /\ Truth(cluster)[p].clients = Truth(before.cluster)[p].clients
  <2>0. KeyedClients(key, A.clients, A.inbounds, guid) = KeyedClients(key, B.clients, B.inbounds, guid)
    BY <1>3, <1>6
  <2>1. {ClientTruth(c, A.inbounds, guid) : c \in A.clients}
          \subseteq {ClientTruth(c, B.inbounds, guid) : c \in B.clients}
    BY <1>2, <2>0, ClientsKept
  <2>2. {ClientTruth(c, B.inbounds, guid) : c \in B.clients}
          \subseteq {ClientTruth(c, A.inbounds, guid) : c \in A.clients}
    BY <1>2, <2>0, ClientsKept
  <2> QED BY <1>t, <1>5, <2>1, <2>2
<1>7. ASSUME old = {}, "clients" \notin before.got[p]
      PROVE  Truth(cluster)[p].clients = {}
  <2>1. \A S, I : DOMAIN KeyedClients(key, S, I, guid) = {} <=> S = {}
    BY DEF KeyedClients
  <2>2. B.clients = {}
    BY <1>3, <1>7, <2>1
  <2> QED BY <1>t, <2>2
<1>8. /\ Truth(cluster)[p].inbounds = Truth(before.cluster)[p].inbounds
      /\ "clients" \in before.got[p] \/ Truth(cluster)[p].clients # {}
           => Truth(cluster)[p].clients = Truth(before.cluster)[p].clients
  BY <1>4, <1>5, <1>6, <1>7
<1> QED BY <1>s, <1>8

\* A READY verification is true of the upgrade, whatever the baseline was made of and
\* whatever the runs lost: the inbounds of every panel are what they were, and so are
\* its clients, but for those of a panel whose list of them the baseline lost and that
\* has none left; and a client that was sampled was given links, in each format, that it
\* could have been given when the baseline was made.
THEOREM ReadyIsUnchanged == Spec => []ReadyMeansUnchanged
  BY LineageInit, LineageStep, LineageReady, PTL DEF Spec

-----------------------------------------------------------------------------
(* What two complete runs over the same panels have to compare *)

\* The same inbounds give equal maps.
LEMMA InboundsSame ==
  ASSUME NEW A, NEW B, NEW guid, NEW key, Identified(A, guid), Identified(B, guid),
         {InboundTruth(in, guid) : in \in A} = {InboundTruth(in, guid) : in \in B}
  PROVE  KeyedInbounds(key, A, guid) = KeyedInbounds(key, B, guid)
<1> DEFINE N(S) == {<<key, InboundIdentity(in, guid)>> : in \in S}
           One(S, a) == CHOOSE in \in S : <<key, InboundIdentity(in, guid)>> = a
           L(S, a) == ConnectionState(One(S, a))
<1>1. ASSUME NEW S, NEW T, Identified(T, guid),
             {InboundTruth(in, guid) : in \in S} = {InboundTruth(in, guid) : in \in T},
             NEW in \in S
      PROVE  \E x \in T : /\ InboundIdentity(x, guid) = InboundIdentity(in, guid)
                          /\ ConnectionState(x) = ConnectionState(in)
  <2>1. InboundTruth(in, guid) \in {InboundTruth(x, guid) : x \in T}
    BY <1>1
  <2>2. PICK x \in T : InboundTruth(in, guid) = InboundTruth(x, guid)
    BY <2>1
  <2> QED BY <2>2 DEF InboundTruth
<1>a. \A in \in A : \E x \in B : /\ InboundIdentity(x, guid) = InboundIdentity(in, guid)
                                 /\ ConnectionState(x) = ConnectionState(in)
  BY <1>1
<1>b. \A in \in B : \E x \in A : /\ InboundIdentity(x, guid) = InboundIdentity(in, guid)
                                 /\ ConnectionState(x) = ConnectionState(in)
  BY <1>1
<1>2. N(A) = N(B)
  BY <1>a, <1>b
<1>3. ASSUME NEW a \in N(A) PROVE L(A, a) = L(B, a)
  <2>1. One(A, a) \in A /\ <<key, InboundIdentity(One(A, a), guid)>> = a
    OBVIOUS
  <2>2. a \in N(B)
    BY <1>2
  <2>3. One(B, a) \in B /\ <<key, InboundIdentity(One(B, a), guid)>> = a
    BY <2>2
  <2> HIDE DEF One
  <2>4. PICK x \in B : /\ InboundIdentity(x, guid) = InboundIdentity(One(A, a), guid)
                       /\ ConnectionState(x) = ConnectionState(One(A, a))
    BY <1>a, <2>1
  <2>5. InboundIdentity(One(B, a), guid) = InboundIdentity(One(A, a), guid)
    BY <2>1, <2>3
  <2>6. x = One(B, a)
    BY <2>3, <2>4, <2>5 DEF Identified
  <2> QED BY <2>4, <2>6
<1>4. KeyedInbounds(key, A, guid) = [a \in N(A) |-> L(A, a)]
      /\ KeyedInbounds(key, B, guid) = [a \in N(B) |-> L(B, a)]
  BY DEF KeyedInbounds
<1> HIDE DEF N, L
<1> QED BY <1>2, <1>3, <1>4

ClientTruths(S, I, guid) == {ClientTruth(c, I, guid) : c \in S}

\* The same clients, attached to the same inbounds, give equal maps.
LEMMA ClientsSame ==
  ASSUME NEW A, NEW B, NEW I, NEW J, NEW guid, NEW key,
         \A c, d \in A : c.id = d.id => c = d, \A c, d \in B : c.id = d.id => c = d,
         \A c \in A \cup B : c.listed \in Seq(Range(c.listed)),
         \A a, b \in I : a.id = b.id => a = b, \A a, b \in J : a.id = b.id => a = b,
         ClientTruths(A, I, guid) = ClientTruths(B, J, guid)
  PROVE  KeyedClients(key, A, I, guid) = KeyedClients(key, B, J, guid)
<1>1. ASSUME NEW c \in A, NEW d \in B, ClientTruth(c, I, guid) = ClientTruth(d, J, guid)
      PROVE  c.id = d.id /\ ClientState(c, I, guid) = ClientState(d, J, guid)
  <2>1. /\ c.id = d.id /\ c.enabled = d.enabled /\ c.total = d.total /\ c.expiry = d.expiry
        /\ Attached(c, I, guid) = Attached(d, J, guid)
    BY <1>1 DEF ClientTruth
  <2> DEFINE f == InboundAliases(c, I, guid)
             g == InboundAliases(d, J, guid)
  <2>2. f = [i \in DOMAIN f |-> f[i]] /\ g = [i \in DOMAIN g |-> g[i]]
    BY DEF InboundAliases
  <2>3. Attached(c, I, guid) = [i \in DOMAIN f |-> {f[i]}]
    BY AttachedIs
  <2>4. Attached(d, J, guid) = [i \in DOMAIN g |-> {g[i]}]
    BY AttachedIs
  <2> HIDE DEF f, g
  <2>5. DOMAIN f = DOMAIN g /\ \A i \in DOMAIN f : {f[i]} = {g[i]}
    BY <2>1, <2>3, <2>4
  <2>6. f = g
    BY <2>2, <2>5
  <2> QED BY <2>1, <2>6 DEF ClientState, f, g
<1> DEFINE N(S) == {<<key, c.id>> : c \in S}
           One(S, a) == CHOOSE c \in S : <<key, c.id>> = a
<1>a. \A c \in A : \E d \in B : ClientTruth(c, I, guid) = ClientTruth(d, J, guid)
  BY DEF ClientTruths
<1>b. \A d \in B : \E c \in A : ClientTruth(c, I, guid) = ClientTruth(d, J, guid)
  BY DEF ClientTruths
<1>2. N(A) = N(B)
  BY <1>1, <1>a, <1>b
<1>3. ASSUME NEW a \in N(A)
      PROVE  ClientState(One(A, a), I, guid) = ClientState(One(B, a), J, guid)
  <2>1. One(A, a) \in A /\ <<key, One(A, a).id>> = a
    OBVIOUS
  <2>2. a \in N(B)
    BY <1>2
  <2>3. One(B, a) \in B /\ <<key, One(B, a).id>> = a
    BY <2>2
  <2> HIDE DEF One
  <2>4. PICK d \in B : ClientTruth(One(A, a), I, guid) = ClientTruth(d, J, guid)
    BY <1>a, <2>1
  <2>5. One(A, a).id = d.id /\ ClientState(One(A, a), I, guid) = ClientState(d, J, guid)
    BY <1>1, <2>1, <2>4
  <2>6. One(B, a).id = One(A, a).id
    BY <2>1, <2>3
  <2>7. d = One(B, a)
    BY <2>3, <2>5, <2>6
  <2> QED BY <2>5, <2>7
<1> DEFINE L(S, inbounds, a) == ClientState(One(S, a), inbounds, guid)
<1>4. KeyedClients(key, A, I, guid) = [a \in N(A) |-> L(A, I, a)]
      /\ KeyedClients(key, B, J, guid) = [a \in N(B) |-> L(B, J, a)]
  BY DEF KeyedClients
<1>5. \A a \in N(A) : L(A, I, a) = L(B, J, a)
  BY <1>3
<1> HIDE DEF N, L
<1> QED BY <1>2, <1>4, <1>5

LEMMA LineageNothingMadeUp == Lineage => NoFalseRegression
<1> SUFFICES ASSUME Lineage, Verified, before.what = "snapshot", before.complete, Complete,
                    before.cap = args.conf.cap, Truth(before.cluster) = Truth(cluster),
                    OwnSubscriptions(before.cluster), OwnSubscriptions(cluster)
             PROVE  Regressions(before.panels, Current) = {}
  BY DEF NoFalseRegression
<1>1. /\ pc = "report" /\ args \in Arguments /\ cluster \in Clusters
      /\ before.keyID = args.conf.keyID /\ Faithful(before) /\ DrawnInFull
  BY DEF Verified, Lineage, TypeOK
<1>2. IsSnapshot(Current) /\ DOMAIN Current = Panels
  BY <1>1, CurrentIs
<1>3. before.cluster \in Clusters /\ IsSnapshot(before.panels) /\ DOMAIN before.panels = Panels
  BY <1>1 DEF Faithful
<1>4. ASSUME NEW p \in Panels, NEW kind \in Kinds PROVE before.panels[p][kind] = Current[p][kind]
  <2> DEFINE k == before.cluster
             key == args.conf.keyID
             guid == ExpectedGUID[p]
  <2>1. {"inbounds", "clients"} \subseteq got[p] /\ {"inbounds", "clients"} \subseteq before.got[p]
    BY <1>1 DEF Faithful, DrawnInFull
  <2>2. /\ InboundsRead(cluster, got, p) = Answer(cluster, p).inbounds
        /\ ClientsRead(cluster, got, p) = Answer(cluster, p).clients
        /\ InboundsRead(k, before.got, p) = Answer(k, p).inbounds
        /\ ClientsRead(k, before.got, p) = Answer(k, p).clients
    BY <2>1 DEF InboundsRead, ClientsRead, When
  <2>3. /\ Current[p].inbound = KeyedInbounds(key, Answer(cluster, p).inbounds, guid)
        /\ Current[p].client
             = KeyedClients(key, Answer(cluster, p).clients, Answer(cluster, p).inbounds, guid)
        /\ Current[p].subscription = MapOf(FullEntries(key, cluster, args.conf.cap, p))
    BY <1>1, <2>2, CurrentIs DEF DrawnInFull
  <2>4. /\ before.panels[p].inbound = KeyedInbounds(key, Answer(k, p).inbounds, guid)
        /\ before.panels[p].client
             = KeyedClients(key, Answer(k, p).clients, Answer(k, p).inbounds, guid)
        /\ before.panels[p].subscription = MapOf(FullEntries(key, k, args.conf.cap, p))
    BY <1>1, <2>2 DEF Faithful
  <2> HIDE DEF k, key, guid
  <2>5. Truth(k) = Truth(cluster) /\ k \in Clusters /\ OwnSubscriptions(k) /\ OwnSubscriptions(cluster)
    BY <1>3 DEF k
  <2>6. TrueAlike(Answer(k, p).clients, Answer(k, p).inbounds,
                  Answer(cluster, p).clients, Answer(cluster, p).inbounds, guid)
    BY <2>5, TruthAlike DEF guid
  <2>7. /\ Identified(Answer(k, p).inbounds, guid) /\ Identified(Answer(cluster, p).inbounds, guid)
        /\ \A a, b \in Answer(k, p).inbounds : a.id = b.id => a = b
        /\ \A c, d \in Answer(k, p).clients : c.id = d.id => c = d
        /\ \A a, b \in Answer(cluster, p).inbounds : a.id = b.id => a = b
        /\ \A c, d \in Answer(cluster, p).clients : c.id = d.id => c = d
        /\ \A c \in Answer(k, p).clients \cup Answer(cluster, p).clients :
             c.listed \in Seq(Range(c.listed))
    BY <1>1, <2>5, AnswersKeyed DEF guid
  <2>8. CASE kind = "inbound"
    <3>1. {InboundTruth(in, guid) : in \in Answer(k, p).inbounds}
            = {InboundTruth(in, guid) : in \in Answer(cluster, p).inbounds}
      BY <2>6 DEF TrueAlike
    <3>2. KeyedInbounds(key, Answer(k, p).inbounds, guid)
            = KeyedInbounds(key, Answer(cluster, p).inbounds, guid)
      BY <2>7, <3>1, InboundsSame
    <3> QED BY <2>3, <2>4, <2>8, <3>2
  <2>9. CASE kind = "client"
    <3> DEFINE S == Answer(k, p).clients
               I == Answer(k, p).inbounds
               T == Answer(cluster, p).clients
               J == Answer(cluster, p).inbounds
    <3>1. ClientTruths(S, I, guid) = ClientTruths(T, J, guid)
      BY <2>6 DEF TrueAlike, ClientTruths
    <3>2. /\ \A a, b \in I : a.id = b.id => a = b
          /\ \A a, b \in J : a.id = b.id => a = b
          /\ \A c, d \in S : c.id = d.id => c = d
          /\ \A c, d \in T : c.id = d.id => c = d
          /\ \A c \in S \cup T : c.listed \in Seq(Range(c.listed))
      BY <2>7
    <3>3. /\ Current[p].client = KeyedClients(key, T, J, guid)
          /\ before.panels[p].client = KeyedClients(key, S, I, guid)
      BY <2>3, <2>4
    <3> HIDE DEF S, I, T, J
    <3>4. KeyedClients(key, S, I, guid) = KeyedClients(key, T, J, guid)
      BY <3>1, <3>2, ClientsSame
    <3> QED BY <2>9, <3>3, <3>4
  <2>10. CASE kind = "subscription"
    <3>1. args.conf.cap \in Nat
      BY <1>1, ArgumentsAssumption
    <3>2. FullEntries(key, k, args.conf.cap, p) = FullEntries(key, cluster, args.conf.cap, p)
      BY <1>1, <2>5, <3>1, FullDrawnAlike
    <3> QED BY <2>3, <2>4, <2>10, <3>2
  <2> QED BY <2>8, <2>9, <2>10 DEF Kinds
<1> QED BY <1>2, <1>3, <1>4, ComparisonExact

\* No regression is made up: where no two clients share a subscription ID on an inbound,
\* two runs that lost nothing have observed the same clients in the same formats if the
\* panels were only upgraded in between, whatever their database IDs have become, and the
\* comparison of the two has nothing to report.
THEOREM NothingMadeUp == Spec => []NoFalseRegression
  BY LineageInit, LineageStep, LineageNothingMadeUp, PTL DEF Spec
=============================================================================
