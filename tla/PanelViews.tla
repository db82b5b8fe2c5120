----------------------------- MODULE PanelViews -----------------------------
(***************************************************************************)
(* LinkSets and Rows side by side: a panel presents one state in other     *)
(* ways, either its links or its lists.  The steps of the one begin in the *)
(* initial state of the other.                                             *)
(***************************************************************************)
EXTENDS LinkSets

CONSTANTS Panel,       \* what the lists say, see Rows
          RowStyles, RowDamages, RowDrifts

VARIABLES style, damage, drift
lists == <<style, damage, drift>>

R == INSTANCE Rows WITH Styles <- RowStyles, Damages <- RowDamages, Drifts <- RowDrifts

\* The state of a panel as its rows can express it: a network without a name is "tcp",
\* security without a name is "none", and needs no settings; a version is no less a
\* version in capitals.
ASSUME PanelAssumption ==
  /\ Panel.inbounds \subseteq
       [id : STRING, tag : STRING, origin : STRING, enabled : BOOLEAN, listen : STRING,
        clients : SUBSET (STRING \ {""}), port : Int,
        proto : STRING, network : STRING \ {""}, security : STRING \ {""}, transport : STRING,
        stream : BOOLEAN, flow : BOOLEAN, fallbacks : SUBSET STRING]
  /\ \A in \in Panel.inbounds : /\ in.transport = R!Transport(in.network, in.security)
                                /\ in.security = "none" => in.stream
  /\ Panel.clients \subseteq
       [id : STRING, sub : STRING, total : Int, expiry : Int, enabled : BOOLEAN,
        inbounds : SUBSET STRING]
  /\ Panel.nodes \subseteq
       [guid : STRING, version : STRING \ {""}, xray : STRING \ {""}]
  /\ \A n \in Panel.nodes : "^" \o n.version # "" /\ "^" \o n.xray # ""

\* A panel has an inbound, tells them apart by their tags, and a drift changes
\* each of them.
ASSUME DriftsAssumption ==
  /\ Panel.inbounds # {}
  /\ \A in, jn \in Panel.inbounds : in.tag = jn.tag => in = jn
  /\ RowDrifts \subseteq {"network", "security", "protocol", "absent"}
  /\ \A in \in Panel.inbounds :
       /\ in.tag # R!NoTag /\ in.proto # "trojan" /\ in.network # "grpc" /\ in.security # "reality"
       /\ \A network \in {in.network, "grpc"}, security \in {in.security, "reality"} :
            R!Transport(network, security) = in.transport =>
              network = in.network /\ security = in.security

-----------------------------------------------------------------------------
LinksUntouched == samples = << >> /\ edits = 0
ListsUntouched == style = {} /\ damage = {} /\ drift = {}

PanelInit == Init /\ R!Init
PanelNext == \/ ListsUntouched /\ Next /\ UNCHANGED lists
             \/ LinksUntouched /\ R!Next /\ UNCHANGED vars
PanelSpec == PanelInit /\ [][PanelNext]_<<vars, lists>>

\* The properties of Rows, where the lists are what changes.
\* However a panel writes its lists down, the rules see the same.
EncodingIsIrrelevant == LinksUntouched => R!EncodingIsIrrelevant

\* CFG-003 fails exactly if the generated configuration differs.
DriftExactly == LinksUntouched => R!DriftExactly

\* Writing an inbound down in a way that is not compared is no change.
RewritingIsNoChange == [][R!SeenAlike]_lists
=============================================================================
