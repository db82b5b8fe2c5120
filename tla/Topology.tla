------------------------------ MODULE Topology ------------------------------
(***************************************************************************)
(* internal/collect reconcileTopology: after every panel has been read,    *)
(* the master's view of the cluster is compared with each panel's own.     *)
(*                                                                         *)
(* `w` maps each configured panel to what was read of it: [supported,      *)
(* version, xray, nodes, inbounds, clients].  A version that was not read  *)
(* is NoVersion and a list that was not read is empty, as in the code,     *)
(* where both are the zero value.  A node of the master's list is          *)
(* [guid, online, version, xray].                                          *)
(***************************************************************************)
EXTENDS PanelConfig, FiniteSets

CONSTANTS Panels,          \* IDs of the configured panels
          Master,          \* the one with role master
          ExpectedGUID,    \* panel -> its expected_guid
          MasterNodeGUID   \* panel -> its master_node_guid (of no use for Master)

Children == Panels \ {Master}

\* What config.validateAndResolve enforces before a collector exists.
ASSUME OneMaster == Master \in Panels /\ IsFiniteSet(Panels)
ASSUME DistinctGUIDs ==
  /\ \A p, q \in Panels : ExpectedGUID[p] = ExpectedGUID[q] => p = q
  /\ \A p, q \in Children : MasterNodeGUID[p] = MasterNodeGUID[q] => p = q
  /\ \A p \in Children : MasterNodeGUID[p] # NoGUID

NoVersion == ""
Differ(a, b) == a # NoVersion /\ b # NoVersion /\ a # b

SupportedVersions == {"v3.5.0", "v3.6.0"}

\* One turn of the loop over the master's node list.
NodeObservations(w, node) ==
  LET matches == {c \in Children : MasterNodeGUID[c] = node.guid}
      skew(kind, a, b, c) == When(Differ(a, b), {Obs("NODE-001", kind, "plain", c)})
  IN IF matches = {}
     THEN {Obs("NODE-001", "node_credentials_missing", "inconclusive", node.guid)}
     ELSE When(~node.online, {Obs("NODE-001", "node_offline", "inconclusive", node.guid)})
          \cup UNION {When(ExpectedGUID[c] # node.guid,
                           {Obs("NODE-001", "node_identity_mismatch", "blocking", c)})
                      \cup skew("xray_version_skew", w[c].xray, w[Master].xray, c)
                      \cup skew("reported_panel_version_skew", node.version, w[c].version, c)
                      \cup skew("reported_xray_version_skew", node.xray, w[c].xray, c) :
                        c \in matches}

ConfiguredNodeMissing(w, c) ==
  When(~\E node \in w[Master].nodes : node.guid = MasterNodeGUID[c],
       {Obs("NODE-003", "configured_node_missing_from_master", "blocking", c)})

\* Mutant: assignments are looked up by the GUID of the master.
AssignedInbounds_ByMaster(w, c) == {in \in w[Master].inbounds : in.origin = ExpectedGUID[Master]}

\* The inbounds the master assigns to child c: their origin is c's GUID.
AssignedInbounds(w, c) == {in \in w[Master].inbounds : in.origin = MasterNodeGUID[c]}

ObjectObservations(w, c) ==
  IF ~w[c].supported
  THEN {Obs("NODE-003", "node_object_evidence_unavailable", "inconclusive", c)}
  ELSE LET expected == {InboundIdentity(in, ExpectedGUID[Master]) : in \in AssignedInbounds(w, c)}
           actual == {InboundIdentity(in, ExpectedGUID[c]) : in \in w[c].inbounds}
           expectedClients == UNION {in.clients : in \in AssignedInbounds(w, c)}
           actualClients == {client.id : client \in w[c].clients}
       IN {Obs("NODE-003", "assigned_inbound_missing", "blocking", a) : a \in expected \ actual}
          \cup {Obs("NODE-003", "assigned_client_missing", "blocking", a) :
                  a \in expectedClients \ actualClients}

NodeListObservations(w) == UNION {NodeObservations(w, node) : node \in w[Master].nodes}

ChildObservations(w) ==
  UNION {ConfiguredNodeMissing(w, c) \cup ObjectObservations(w, c) : c \in Children}

\* What the master's panel collects from the comparison.
MasterObservations(w) ==
  IF ~w[Master].supported
  THEN {Obs("NODE-001", "topology_evidence_unavailable", "inconclusive", c) : c \in Children}
  ELSE NodeListObservations(w) \cup ChildObservations(w)

\* What each panel collects when an upgrade to `target` is verified: nothing
\* when the master is unsupported, because of the early return.
TargetObservations(w, command, target, p) ==
  When(w[Master].supported /\ command = "verify",
       IF w[p].version = NoVersion
       THEN {Obs("NODE-001", "panel_version_unknown", "inconclusive", p)}
       ELSE When(w[p].version # target,
                 {Obs("NODE-001", "target_version_mismatch", "blocking", p)}))

ReconcileTopology(w, command, target) ==
  [p \in Panels |-> When(p = Master, MasterObservations(w))
                    \cup TargetObservations(w, command, target, p)]
=============================================================================
