---------------------------- MODULE MCConfigLoad ----------------------------
(***************************************************************************)
(* Instances of ConfigLoad for TLC: the file of the example with a master  *)
(* and two nodes, and every file that differs from it in up to two places. *)
(***************************************************************************)
EXTENDS ConfigLoad

ExamplePanel(id, role, guid, nodeGUID) ==
  [id |-> id, role |-> role, url |-> "https", token |-> "t", guid |-> guid, nodeGUID |-> nodeGUID,
   pin |-> ""]

Example ==
  [known |-> TRUE, schema |-> 1, keyNamed |-> TRUE, key |-> 32, cap |-> 0, relative |-> 0,
   absolute |-> 0, grace |-> Unset, timeout |-> Unset, concurrency |-> 0, perPanel |-> 0,
   proxy |-> "none", hosts |-> <<"a.example", "b.example">>,
   panels |-> <<ExamplePanel("n1", "node", "g1", "h1"), ExamplePanel("m", "master", "gm", ""),
                ExamplePanel("n2", "node", "g2", "h2")>>]

OtherPanels(p) ==
  {[p EXCEPT !.id = v] : v \in {"", "m", "a/b"}} \cup {[p EXCEPT !.role = v] : v \in {"", "master", "node"}}
  \cup {[p EXCEPT !.guid = v] : v \in {"", "gm", "h1"}}
  \cup {[p EXCEPT !.nodeGUID = v] : v \in {"", "h1", "g1"}}
  \cup {[p EXCEPT !.url = "http"], [p EXCEPT !.token = ""], [p EXCEPT !.pin = "sha256"],
        [p EXCEPT !.pin = "short"]}

Others(f) ==
  {[f EXCEPT !.known = FALSE], [f EXCEPT !.schema = 2], [f EXCEPT !.keyNamed = FALSE],
   [f EXCEPT !.key = 31], [f EXCEPT !.panels = << >>], [f EXCEPT !.panels = SelectSeq(@, LAMBDA p : p.guid # "g1")]}
  \cup {[f EXCEPT !.cap = v] : v \in {-1, 1, 1000, 1001}}
  \cup {[f EXCEPT !.relative = v] : v \in {-1, 1, 1000, 1001, NaN}}
  \cup {[f EXCEPT !.absolute = v] : v \in {-1, 1}}
  \cup {[f EXCEPT !.grace = v] : v \in {-1, 0}} \cup {[f EXCEPT !.timeout = v] : v \in {-1, 0, 1}}
  \cup {[f EXCEPT !.concurrency = v] : v \in {-1, 1, 32, 33}}
  \cup {[f EXCEPT !.perPanel = v] : v \in {-1, 1, 8, 9}}
  \cup {[f EXCEPT !.proxy = v] : v \in {"url", "empty", "bad"}}
  \cup {[f EXCEPT !.hosts[1] = v] : v \in {"", "x/y", "b.example", "B.EXAMPLE"}}
  \cup UNION {{[f EXCEPT !.panels[k] = p] : p \in OtherPanels(f.panels[k])} : k \in DOMAIN f.panels}

AllFiles == {Example} \cup Others(Example) \cup UNION {Others(f) : f \in Others(Example)}

IdentifierLike == {"n1", "m", "n2"}
HTTPSURLs == {"https"}
HostLike == {"a.example", "b.example", "B.EXAMPLE"}
LowerCase(h) == IF h = "B.EXAMPLE" THEN "b.example" ELSE h
=============================================================================
