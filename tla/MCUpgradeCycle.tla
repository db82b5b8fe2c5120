--------------------------- MODULE MCUpgradeCycle ---------------------------
(***************************************************************************)
(* Instances of UpgradeCycle for TLC: a master m with two nodes.  The      *)
(* master owns two inbounds and the client cm, has one inbound for c1 on   *)
(* the node n1, and n1 has an inbound and a client cl that the master does *)
(* not know of.  All there is on n2 is an inbound of its own, and a client *)
(* cd that is attached to none.                                            *)
(***************************************************************************)
EXTENDS UpgradeCycle, TLC

CONSTANTS m, n1, n2,       \* panels
          cm, c1, cl, cd   \* clients

AllPanels == {m, n1, n2}
InOrder == <<m, n1, n2>>
GUIDs == (m :> "gm") @@ (n1 :> "g1") @@ (n2 :> "g2")

Inbound(id, tag, origin, clients) ==
  [id |-> id, tag |-> tag, origin |-> origin, clients |-> clients, port |-> 443,
   proto |-> "vless", transport |-> "tcp", stream |-> TRUE, flow |-> FALSE, fallbacks |-> {}]

\* What is compared of a client's subscription: the external raw output need not be the
\* list of links.
Outputs == [links |-> {"l"}, raw |-> {"l", "r"}, json |-> {"j"}, clash |-> {"c"}]

Client(id, sub, listed) ==
  [id |-> id, enabled |-> TRUE, sub |-> sub, inbounds |-> Range(listed), listed |-> listed,
   total |-> 50, expiry |-> 0, used |-> 10, agree |-> TRUE, outputs |-> Outputs]

Panel(version, inbounds, clients, nodes, formats) ==
  [version |-> version, xray |-> version, missingOps |-> FALSE, nodes |-> nodes,
   inbounds |-> inbounds, clients |-> clients, formats |-> formats, misdirected |-> {},
   generated |-> [tag \in {in.tag : in \in inbounds} |-> <<"vless", "tcp">>]]

Cluster(version) ==
  (m :> Panel(version,
              {Inbound("1", "tm", NoGUID, {cm}), Inbound("3", "tn", NoGUID, {cm}),
               Inbound("2", "t1", "g1", {c1})},
              {Client(cm, "sm", <<"1", "3">>), Client(c1, "s1", <<"2">>)},
              {[guid |-> g, online |-> TRUE, version |-> version, xray |-> version] :
                 g \in {"g1", "g2"}}, {}))
  @@ (n1 :> Panel(version,
                  {Inbound("7", "t1", NoGUID, {c1}), Inbound("9", "tl", NoGUID, {cl})},
                  {Client(c1, "s1", <<"7">>), Client(cl, "sl", <<"9">>)}, {}, {"raw", "json"}))
  @@ (n2 :> Panel(version, {Inbound("1", "tx", NoGUID, {})}, {Client(cd, "sd", << >>)}, {}, {"clash"}))

\* Client c of panel p with another value in a field.
With(w, p, c, field, v) ==
  [w EXCEPT ![p].clients = {IF d.id = c THEN [d EXCEPT ![field] = v] ELSE d : d \in @}]

\* Everything an upgrade may renumber.
Renumbered(w) ==
  LET other == [id \in {"7", "9"} |-> IF id = "7" THEN "9" ELSE "7"]
  IN [w EXCEPT ![n1].inbounds = {[in EXCEPT !.id = other[@]] : in \in @},
               ![n1].clients = {[c EXCEPT !.inbounds = {other[id] : id \in @},
                                          !.listed = [i \in DOMAIN @ |-> other[@[i]]]] : c \in @}]

NodeClientGone(w) ==
  [w EXCEPT ![n1].clients = {c \in @ : c.id # cl},
            ![n1].inbounds = {[in EXCEPT !.clients = @ \ {cl}] : in \in @}]

NewLinks == [Outputs EXCEPT !.links = {"m"}, !.raw = {"m"}]

\* The old release, the new one, and the new one with a change each.
States ==
  LET new == Cluster("v3.6.0")
  IN <<Cluster("v3.5.0"),
       new,
       Renumbered(new),
       NodeClientGone(new),
       With(new, n1, cl, "total", 60),
       With(With(new, m, cm, "outputs", NewLinks), n1, c1, "outputs", NewLinks),
       With(new, m, cm, "listed", <<"3", "1">>),
       [new EXCEPT ![n1].inbounds = {IF in.tag = "tl" THEN [in EXCEPT !.port = 8443] ELSE in : in \in @}],
       [new EXCEPT ![n1] = Cluster("v3.5.0")[n1]],
       [new EXCEPT ![n2].clients = {}],
       With(new, n1, c1, "outputs", [Outputs EXCEPT !.json = {"k"}]),
       With(With(With(new, n1, cl, "sub", "s1"), n1, cl, "listed", <<"7", "9">>),
            n1, cl, "inbounds", {"7", "9"})>>

\* Two scenarios: any of the states, to compare, or only the first two of them, for
\* the files.
Compared == {"compare"} \X (0..11)
Filed == {"files"} \X (0..1)
BothScenarios == Compared \cup Filed
BothStarts == {<<"compare", 0>>, <<"files", 0>>}

AllWorlds ==
  [i \in {"none", "preflight", "verify", "check"} \X Clusters |->
     [command |-> i[1], target |-> Guaranteed, observe |-> TRUE, finishedAt |-> 100,
      panel |-> States[i[2][2] + 1]]]

\* The upgrade, and what may have happened with it; a way back for a second attempt.
Upgrades == {<<j, k>> \in Clusters \X Clusters :
               j[1] = k[1] /\ <<j[2], k[2]>> \in ({0} \X (1..11)) \cup {<<1, 0>>}}

AnyOrder == << << <<"g1", "t1">>, "s1">>, << <<"gm", "tm">>, "sm">>, << <<"g1", "tl">>, "sl">>,
               << <<"gm", "tn">>, "sm">>, << <<"g1", "tl">>, "s1">> >>

Conf(keyID, cap) == [keyID |-> keyID, cap |-> cap]

Preflight(target, output, json, force, cap) ==
  [command |-> "preflight", target |-> target, snapshot |-> "baseline", output |-> output,
   json |-> json, force |-> force, conf |-> Conf("k1", cap)]

Verify(path, output, json, force, keyID, cap) ==
  [command |-> "verify", target |-> "", snapshot |-> path, output |-> output, json |-> json,
   force |-> force, conf |-> Conf(keyID, cap)]

Check(output, json, force) ==
  [command |-> "check", target |-> "", snapshot |-> "baseline", output |-> output,
   json |-> json, force |-> force, conf |-> Conf("k1", 1)]

\* A preflight, then a verification over every change of the panels: with its
\* baseline, or another key, and once with its report.
BaselineArguments ==
  {Preflight("v3.6.0", "report", TRUE, FALSE, 2),
   Verify("baseline", "-", FALSE, FALSE, "k1", 2), Verify("baseline", "-", FALSE, FALSE, "k2", 2)}
CompareArguments == BaselineArguments \cup {Verify("report", "-", FALSE, FALSE, "k1", 2)}

\* Files that are there already, outputs that collide, every kind of target.
FilesArguments ==
  {Preflight(t, "-", FALSE, FALSE, 1) : t \in {"stable", "3.6.0", "v3.5.0"}}
  \cup {Preflight("v3.6.0", o, TRUE, f, 1) : o \in {"report", "baseline"}, f \in BOOLEAN}
  \cup {Verify("baseline", o, j, f, "k1", 1) : o \in {"report", "baseline"}, j \in BOOLEAN,
                                               f \in BOOLEAN}
  \cup {Check("baseline", TRUE, TRUE), Check("report", FALSE, FALSE)}

AllArguments == CompareArguments \cup FilesArguments

\* Two runs that lose a read each (the verification of most of the changes loses none,
\* to keep the run short); three runs that find anything, with a failing write.
BothBounds ==
  [k \in BothScenarios |->
     IF k \in Compared
     THEN [arguments |-> IF k[2] = 4 THEN CompareArguments ELSE BaselineArguments,
           occupied |-> {{}}, runs |-> 2,
           lost |-> IF k[2] \in {0, 1, 3} THEN 1 ELSE 0, errors |-> 0]
     ELSE [arguments |-> FilesArguments, occupied |-> SUBSET Paths, runs |-> 3, lost |-> 0,
           errors |-> 1]]
=============================================================================
