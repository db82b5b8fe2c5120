------------------------------- MODULE Rules -------------------------------
(***************************************************************************)
(* internal/rules: the rule pack.  Evaluate is a pure function of the      *)
(* snapshot; `snap` maps each panel to                                     *)
(*   [role, guid, version, generated (was the generated configuration      *)
(*    read), inbounds, clients, subs, traffic, obs]                        *)
(* with inbounds a set of [alias, origin], clients a set of [id, enabled,  *)
(* total, expiry, inbounds (aliases)], subs a set of [client, code, agree] *)
(* and traffic a function from the clients seen to the sequence of their   *)
(* observations [used, enabled] in time order.                             *)
(***************************************************************************)
EXTENDS Findings, Sequences, FiniteSetsExt

CONSTANTS AbsoluteThreshold,  \* traffic.absolute_threshold_bytes
          RelativeNum, RelativeDen,  \* traffic.relative_threshold as a fraction
          LimitGrace          \* traffic.limit_grace

QuietDelta == 65536           \* a node delta up to this counts as unchanged

Abs(n) == IF n < 0 THEN -n ELSE n
Larger(a, b) == IF a > b THEN a ELSE b
Smaller(a, b) == IF a < b THEN a ELSE b

EvaluateVersionSupport(snap) ==
  {Finding("API-003", "UNKNOWN", p) :
     p \in {q \in DOMAIN snap : snap[q].version \notin {"v3.5.0", "v3.6.0"}}}

EvaluateConfigEvidence(snap) ==
  {Finding(rule, "UNKNOWN", p) : rule \in {"CFG-001", "CFG-002", "CFG-003"},
     p \in {q \in DOMAIN snap : ~snap[q].generated \/ snap[q].inbounds = {}}}

\* Error codes that only say the subscription could not be read.
LostCodes == {"api_evidence_missing", "request_error", "timeout"}

\* code is "" when the subscription was parsed.
SubscriptionFindings(sub) ==
  IF sub.code # ""
  THEN {Finding("SUB-001", IF sub.code \in LostCodes THEN "UNKNOWN" ELSE "FAIL", sub.client)}
  ELSE When(~sub.agree, {Finding("SUB-003", "FAIL", sub.client)})

EvaluateSubscriptions(snap) ==
  LET all == UNION {snap[p].subs : p \in DOMAIN snap}
  IN IF all = {} THEN {Finding(rule, "UNKNOWN", "") : rule \in {"SUB-001", "SUB-003"}}
     ELSE UNION {SubscriptionFindings(sub) : sub \in all}

-----------------------------------------------------------------------------
\* A client whose inbounds all originate on nodes: only then must the master's
\* counter equal the sum of the nodes' counters.
IsNodeOnlyClient(client, master) ==
  /\ client.inbounds # {}
  /\ \A alias \in client.inbounds :
       \E in \in master.inbounds : in.alias = alias /\ in.origin # master.guid

UsedSeries(traffic, c) == [i \in 1..Len(traffic[c]) |-> traffic[c][i].used]

NodeSeries(snap, c) ==
  {p \in DOMAIN snap : snap[p].role = "node" /\ c \in DOMAIN snap[p].traffic}

\* Sums by position, up to the longest series: the sampling times are not compared.
SumSeries(snap, c) ==
  LET nodes == NodeSeries(snap, c)
      at(p, i) == IF i <= Len(snap[p].traffic[c]) THEN snap[p].traffic[c][i].used ELSE 0
  IN [i \in 1..Max({Len(snap[p].traffic[c]) : p \in nodes}) |->
        MapThenSumSet(LAMBDA p : at(p, i), nodes)]

\* Mutant: the last window is not looked at.
RepeatedMasterDelta_OffByOne(m, n, count) ==
  LET delta(s, i) == s[i + 1] - s[i]
      similar(base, d) == Abs(d - base) <= 1 \/ 100 * Abs(d - base) <= base
  IN \E start \in 1..(count - 4) :
       /\ delta(m, start) > 0
       /\ \A i \in start..(start + 2) :
            similar(delta(m, start), delta(m, i)) /\ Abs(delta(n, i)) <= QuietDelta

\* Three consecutive master deltas within 1% (at least 1 byte) of the first, a
\* positive one, over intervals in which the nodes' delta counts as unchanged.
RepeatedMasterDelta(m, n, count) ==
  LET delta(s, i) == s[i + 1] - s[i]
      similar(base, d) == Abs(d - base) <= 1 \/ 100 * Abs(d - base) <= base
  IN \E start \in 1..(count - 3) :
       /\ delta(m, start) > 0
       /\ \A i \in start..(start + 2) :
            similar(delta(m, start), delta(m, i)) /\ Abs(delta(n, i)) <= QuietDelta

\* Mutant: whichever of the two thresholds is reached first.
Threshold_Either(a, b) ==
  Smaller(AbsoluteThreshold, (Larger(Abs(a), Abs(b)) * RelativeNum) \div RelativeDen)

Threshold(a, b) ==
  Larger(AbsoluteThreshold, (Larger(Abs(a), Abs(b)) * RelativeNum) \div RelativeDen)

\* Mutant: only a master that is ahead of its nodes.
Deviates_Signed(m, n, i) == m[i] - n[i] > Threshold(m[i], n[i])

Deviates(m, n, i) == Abs(m[i] - n[i]) > Threshold(m[i], n[i])

ClientTrafficFindings(m, n, c) ==
  LET count == Smaller(Len(m), Len(n))
      persistent == \E i \in 1..(count - 2) : \A j \in i..(i + 2) : Deviates(m, n, j)
  IN When(count >= 4,
          When(RepeatedMasterDelta(m, n, count), {Finding("TRAFFIC-001", "FAIL", c)})
          \cup When(\E i \in 1..count : Deviates(m, n, i), {Finding("TRAFFIC-002", "WARN", c)})
          \cup When(persistent, {Finding("TRAFFIC-002", "FAIL", c)}))

\* Clients whose traffic the pack compares: the length test is on the master's
\* series only, that of the nodes is checked when the deltas are computed.
ComparedClients(snap, master) ==
  {c \in DOMAIN snap[master].traffic :
     /\ \E client \in snap[master].clients :
          client.id = c /\ IsNodeOnlyClient(client, snap[master])
     /\ Len(snap[master].traffic[c]) >= 4
     /\ NodeSeries(snap, c) # {}}

EvaluateTraffic(snap) ==
  LET master == CHOOSE p \in DOMAIN snap : snap[p].role = "master"
      compared == ComparedClients(snap, master)
  IN When(\E p \in DOMAIN snap : snap[p].role = "node",
          IF compared = {}
          THEN {Finding(rule, "UNKNOWN", "") : rule \in {"TRAFFIC-001", "TRAFFIC-002"}}
          ELSE UNION {ClientTrafficFindings(UsedSeries(snap[master].traffic, c),
                                            SumSeries(snap, c), c) : c \in compared})

-----------------------------------------------------------------------------
\* Mutant: a quota is kept until it is passed.
LimitExceeded_Strict(client, lastThree, finishedAt) ==
  /\ client.enabled /\ \A i \in 1..3 : lastThree[i].enabled
  /\ \/ client.expiry > 0 /\ finishedAt > client.expiry + LimitGrace
     \/ client.total > 0 /\ \A i \in 1..3 : lastThree[i].used > client.total

LimitExceeded(client, lastThree, finishedAt) ==
  /\ client.enabled /\ \A i \in 1..3 : lastThree[i].enabled
  /\ \/ client.expiry > 0 /\ finishedAt > client.expiry + LimitGrace
     \/ client.total > 0 /\ \A i \in 1..3 : lastThree[i].used >= client.total

EvaluateLimits(snap, finishedAt) ==
  LET series(p, c) == snap[p].traffic[c.id]
      watched(p) == {c \in snap[p].clients :
                       c.id \in DOMAIN snap[p].traffic /\ Len(series(p, c)) >= 3}
      lastThree(p, c) == SubSeq(series(p, c), Len(series(p, c)) - 2, Len(series(p, c)))
      exceeding(p) == {c \in watched(p) : LimitExceeded(c, lastThree(p, c), finishedAt)}
  IN IF \A p \in DOMAIN snap : watched(p) = {} THEN {Finding("LIMIT-001", "UNKNOWN", "")}
     ELSE {Finding("LIMIT-001", "FAIL", c.id) : c \in UNION {exceeding(p) : p \in DOMAIN snap}}

-----------------------------------------------------------------------------
\* The pack's findings; a rule with none of its own is reported as passed.
Evaluate(snap, finishedAt) ==
  LET found == (UNION {{FromObservation(o) : o \in snap[p].obs} : p \in DOMAIN snap})
               \cup EvaluateVersionSupport(snap) \cup EvaluateConfigEvidence(snap)
               \cup EvaluateSubscriptions(snap) \cup EvaluateTraffic(snap)
               \cup EvaluateLimits(snap, finishedAt)
  IN found \cup {Finding(rule, "PASS", "") :
                   rule \in {r \in RuleOrder : ~\E f \in found : f.rule = r}}
=============================================================================
