---------------------------- MODULE MCCollector ----------------------------
(***************************************************************************)
(* Instances of Collector for TLC: a master m with the nodes n1 and n2, one *)
(* inbound and one client per panel, and the ways such a cluster may        *)
(* deviate from the healthy one.                                            *)
(***************************************************************************)
EXTENDS Collector, TLC

CONSTANTS m, n1, n2,     \* panels
          cm, c1, c2     \* clients: of the master itself, of n1, of n2

TwoPanels == {m, n1}
TwoInOrder == <<m, n1>>
ThreePanels == {m, n1, n2}
ThreeInOrder == <<m, n1, n2>>

GUIDs == (m :> "gm") @@ (n1 :> "g1") @@ (n2 :> "g2")

-----------------------------------------------------------------------------
Inbound(id, tag, origin, clients) ==
  [id |-> id, tag |-> tag, origin |-> origin, clients |-> clients, port |-> 443,
   proto |-> "vless", transport |-> "tcp", stream |-> TRUE, flow |-> FALSE, fallbacks |-> {}]

Client(id, sub, inbounds) ==
  [id |-> id, enabled |-> TRUE, sub |-> sub, inbounds |-> inbounds, total |-> 50, expiry |-> 0,
   used |-> 10, agree |-> TRUE]

Node(guid) == [guid |-> guid, online |-> TRUE, version |-> "v3.6.0", xray |-> "v1"]

Panel(inbounds, clients, nodes) ==
  [version |-> "v3.6.0", xray |-> "v1", missingOps |-> FALSE, nodes |-> nodes,
   inbounds |-> inbounds, clients |-> clients, formats |-> {}, misdirected |-> {},
   generated |-> [tag \in {in.tag : in \in inbounds} |-> <<"vless", "tcp">>]]

MasterInbounds == {Inbound("1", "tm", NoGUID, {cm}), Inbound("2", "t1", "g1", {c1})}
                  \cup When(n2 \in Panels, {Inbound("3", "t2", "g2", {c2})})

MasterClients == {Client(cm, "sm", {"1"}), Client(c1, "s1", {"2"})}
                 \cup When(n2 \in Panels, {Client(c2, "s2", {"3"})})

Cluster ==
  (m :> Panel(MasterInbounds, MasterClients, {Node(MasterNodeGUID[c]) : c \in Children}))
  @@ (n1 :> Panel({Inbound("7", "t1", NoGUID, {c1})}, {Client(c1, "s1", {"7"})}, {}))
  @@ (n2 :> Panel({Inbound("8", "t2", "g2", {c2})}, {Client(c2, "s2", {"8"})}, {}))

HealthyWorld(command, observe) ==
  [command |-> command, target |-> "v3.6.0", observe |-> observe, finishedAt |-> 100,
   panel |-> [p \in Panels |-> Cluster[p]]]

-----------------------------------------------------------------------------
(* Deviations from the healthy cluster *)

\* The one inbound (client) of n1, or the master's inbound for n1, changed.
OnNodeInbound(w, field, v) ==
  [w EXCEPT !.panel[n1].inbounds = {[in EXCEPT ![field] = v] : in \in @}]
OnNodeClient(w, field, v) ==
  [w EXCEPT !.panel[n1].clients = {[c EXCEPT ![field] = v] : c \in @}]
OnListedNode(w, field, v) ==
  [w EXCEPT !.panel[m].nodes = {IF n.guid = "g1" THEN [n EXCEPT ![field] = v] ELSE n : n \in @}]

Deviations == 0..22

Deviate(w, k) ==
  CASE k = 0 -> w
    [] k = 1 -> OnListedNode(w, "online", FALSE)
    [] k = 2 -> OnListedNode(w, "guid", "gz")
    [] k = 3 -> [w EXCEPT !.panel[m].nodes = @ \cup {Node("gz")}]
    [] k = 4 -> [w EXCEPT !.panel[n1].missingOps = TRUE]
    [] k = 5 -> [w EXCEPT !.panel[n1].version = "v3.5.0"]
    [] k = 6 -> [w EXCEPT !.panel[m].version = "v3.7.0"]
    [] k = 7 -> [w EXCEPT !.panel[n1].inbounds = {}]
    [] k = 8 -> [w EXCEPT !.panel[n1].clients = {}]
    [] k = 9 -> [w EXCEPT !.panel[n1].generated = << >>]
    [] k = 10 -> OnNodeInbound(w, "proto", "vmess")
    [] k = 11 -> OnNodeInbound(w, "fallbacks", {"9"})
    [] k = 12 -> OnNodeInbound(w, "fallbacks", {"7", Explicit})
    [] k = 13 -> OnNodeInbound(w, "origin", "gz")
    [] k = 14 -> OnNodeInbound(w, "tag", NoTag)
    [] k = 15 -> [OnNodeInbound(OnNodeInbound(w, "flow", TRUE), "transport", "unheard-of")
                    EXCEPT !.panel[n1].generated = ("t1" :> <<"vless", "unheard-of">>)]
    [] k = 16 -> OnNodeClient(w, "used", 60)
    [] k = 17 -> OnNodeClient(OnNodeClient(w, "expiry", 60), "enabled", FALSE)
    [] k = 18 -> OnNodeClient(w, "expiry", 60)
    [] k = 19 -> OnNodeClient(w, "agree", FALSE)
    [] k = 20 -> [w EXCEPT !.panel[n1].xray = "v0"]
    [] k = 21 -> OnNodeClient(OnNodeClient(w, "used", 5000), "total", 0)
    [] k = 22 -> [w EXCEPT !.panel[n1].formats = {"raw", "clash"}, !.panel[n1].misdirected = {"raw"}]

Base(command) == HealthyWorld(command, TRUE)

\* Every pair of deviations, before and after an upgrade.
DeviantWorlds ==
  [i \in {"preflight", "verify"} \X {d \in Deviations \X Deviations : d[1] <= d[2]} |->
     Deviate(Deviate(Base(i[1]), i[2][1]), i[2][2])]

\* n2 runs a release Doctor does not know, and so is read no further.
ParallelWorlds == <<[Base("preflight") EXCEPT !.panel[n2].version = "v3.7.0"]>>

HealthyWorlds == <<Base("preflight")>>

WithExternal(w) == [w EXCEPT !.panel[n1].formats = {"raw", "json"}]

\* The healthy cluster, with external subscriptions, and clusters that must not
\* be taken for it: an operation or a client is missing.
FewWorlds == [k \in {0, 4, 8} |->
                IF k = 0 THEN WithExternal(Base("preflight")) ELSE Deviate(Base("preflight"), k)]

\* With and without an observation window.
CancelWorlds == <<WithExternal(Base("preflight")), HealthyWorld("check", FALSE)>>

\* Any answers without trouble, two failing reads, or one in a run that may be cancelled.
AllWorlds ==
  [k \in ({"deviant"} \X DOMAIN DeviantWorlds) \cup ({"faults"} \X DOMAIN FewWorlds)
         \cup ({"cancelled"} \X DOMAIN CancelWorlds) |->
     CASE k[1] = "deviant" -> DeviantWorlds[k[2]]
       [] k[1] = "faults" -> FewWorlds[k[2]]
       [] k[1] = "cancelled" -> CancelWorlds[k[2]]]

AllFaults == [k \in DOMAIN AllWorlds |-> CASE k[1] = "deviant" -> 0
                                            [] k[1] = "faults" -> 2
                                            [] k[1] = "cancelled" -> 1]
AllCancellable == {k \in DOMAIN AllWorlds : k[1] = "cancelled"}

\* For the instances with one world.
NoFault == <<0>>
OneFault == <<1>>

\* The node was left behind, the master is on a release nobody knows.
VerifyWorlds == <<Deviate(Deviate(Base("verify"), 5), 6)>>
=============================================================================
