----------------------------- MODULE ConfigLoad -----------------------------
(***************************************************************************)
(* internal/config: Load.  A file is decoded, defaults take the place of   *)
(* zero values, and validateAndResolve looks at the global settings, at    *)
(* the panels one by one, at the redirect hosts one by one and at the      *)
(* proxy; the first thing it does not like refuses the file.               *)
(*                                                                         *)
(* A file is a record of what it says, with the environment variables it   *)
(* names replaced by what they hold: `key` is the length of the redaction  *)
(* key, a panel's `token` may be "".  A duration that does not parse is    *)
(* negative here: both are refused alike.                                  *)
(***************************************************************************)
EXTENDS Integers, Sequences

CONSTANTS Files,        \* what doctor.yaml may say
          SafeIDs,      \* the identifiers of safeIdentifier
          Panel_URLs,   \* HTTPS, a host, no userinfo, query or fragment
          Hosts,        \* redirect hosts that name a host
          Lower(_),     \* a host without spaces around it, in lower case
          Unset,        \* a duration that is not given
          NaN           \* the float no comparison holds of

PanelType == [id : STRING, role : STRING, url : STRING, token : STRING, guid : STRING,
              nodeGUID : STRING, pin : STRING]
FileType == [known : BOOLEAN, schema : Int, keyNamed : BOOLEAN, key : Nat, cap : Int,
             relative : Int \cup {NaN}, absolute : Int, grace : Int \cup {Unset},
             timeout : Int \cup {Unset}, concurrency : Int, perPanel : Int, proxy : STRING,
             hosts : Seq(STRING), panels : Seq(PanelType)]

ASSUME FilesAssumption == \A f \in Files : f \in FileType

VARIABLES given,    \* the file as it was read
          file,     \* the file, with the defaults once they are applied
          step,     \* where Load is
          i,        \* panels or hosts it is past
          seenIDs, seenGUIDs, seenMasterNodeGUIDs,
          masterCount,
          tokens,   \* the panels it holds a token for
          allowed   \* redirect hosts

vars == <<given, file, step, i, seenIDs, seenGUIDs, seenMasterNodeGUIDs, masterCount, tokens, allowed>>
seen == <<seenIDs, seenGUIDs, seenMasterNodeGUIDs, masterCount, tokens>>

Steps == {"decode", "defaults", "globals", "panels", "hosts", "proxy", "accepted", "refused"}

-----------------------------------------------------------------------------
Or(value, zero, default) == IF value = zero THEN default ELSE value

\* Mutant: the cap on the samples has no default.
Defaulted_NoCap(f) ==
  [f EXCEPT !.relative = Or(@, 0, 50), !.absolute = Or(@, 0, 64 * 1024 * 1024),
            !.grace = Or(@, Unset, 30), !.timeout = Or(@, Unset, 10),
            !.concurrency = Or(@, 0, 4), !.perPanel = Or(@, 0, 2)]

\* A zero that is written down is a zero value like one that is not.
Defaulted(f) ==
  [known |-> f.known, schema |-> f.schema, keyNamed |-> f.keyNamed, key |-> f.key,
   cap |-> Or(f.cap, 0, 50), relative |-> Or(f.relative, 0, 50),
   absolute |-> Or(f.absolute, 0, 64 * 1024 * 1024), grace |-> Or(f.grace, Unset, 30),
   timeout |-> Or(f.timeout, Unset, 10), concurrency |-> Or(f.concurrency, 0, 4),
   perPanel |-> Or(f.perPanel, 0, 2), proxy |-> f.proxy, hosts |-> f.hosts, panels |-> f.panels]

\* The relative threshold, in thousandths: `r <= 0 || r > 1` refuses it.
RelativeRefused(r) == r # NaN /\ (r <= 0 \/ r > 1000)

GlobalsGood(f) ==
  /\ f.schema = 1
  /\ f.panels # << >>
  /\ f.keyNamed /\ f.key >= 32
  /\ f.timeout > 0 /\ f.grace >= 0
  /\ f.cap \in 1..1000
  /\ ~RelativeRefused(f.relative)
  /\ f.absolute >= 1
  /\ f.concurrency \in 1..32 /\ f.perPanel \in 1..8

\* Mutant: one map for the GUIDs of both kinds.
IdentityGood_OneMap(p) ==
  /\ p.id \in SafeIDs /\ p.id \notin seenIDs
  /\ p.guid # "" /\ p.guid \notin seenGUIDs \cup seenMasterNodeGUIDs

\* A panel is looked at: its identity among those before it, its role, the rest.
IdentityGood(p) ==
  /\ p.id \in SafeIDs /\ p.id \notin seenIDs
  /\ p.guid # "" /\ p.guid \notin seenGUIDs

\* Mutant: a node's GUID at the master is only required.
RoleGood_NotUnique(p) == p.role = "master" \/ (p.role = "node" /\ p.nodeGUID # "")

RoleGood(p) ==
  \/ p.role = "master"
  \/ p.role = "node" /\ p.nodeGUID # "" /\ p.nodeGUID \notin seenMasterNodeGUIDs

AccessGood(p) == p.url \in Panel_URLs /\ p.token # "" /\ p.pin \in {"", "sha256"}

PanelGood(p) == IdentityGood(p) /\ RoleGood(p) /\ AccessGood(p)

HostGood(h) == h \in Hosts /\ Lower(h) \notin allowed

-----------------------------------------------------------------------------
Refuse == step' = "refused" /\ UNCHANGED <<given, file, i, seen, allowed>>

\* KnownFields: a key that the schema does not have is an error, as is bad YAML.
Decode ==
  /\ step = "decode"
  /\ IF file.known
     THEN step' = "defaults" /\ UNCHANGED <<given, file, i, seen, allowed>>
     ELSE Refuse

ApplyDefaults ==
  /\ step = "defaults"
  /\ file' = Defaulted(file)
  /\ step' = "globals"
  /\ UNCHANGED <<given, i, seen, allowed>>

Globals ==
  /\ step = "globals"
  /\ IF GlobalsGood(file)
     THEN step' = "panels" /\ UNCHANGED <<given, file, i, seen, allowed>>
     ELSE Refuse

CheckPanel ==
  /\ step = "panels" /\ i < Len(file.panels)
  /\ LET p == file.panels[i + 1]
     IN IF PanelGood(p)
        THEN /\ i' = i + 1
             /\ seenIDs' = seenIDs \cup {p.id}
             /\ seenGUIDs' = seenGUIDs \cup {p.guid}
             /\ seenMasterNodeGUIDs' = IF p.role = "node" THEN seenMasterNodeGUIDs \cup {p.nodeGUID}
                                       ELSE seenMasterNodeGUIDs
             /\ masterCount' = masterCount + (IF p.role = "master" THEN 1 ELSE 0)
             /\ tokens' = tokens \cup {p.id}
             /\ UNCHANGED <<given, file, step, allowed>>
        ELSE Refuse

\* Mutant: the panels' index is not reset for the hosts.
CountMasters_KeepsIndex ==
  /\ step = "panels" /\ i = Len(file.panels)
  /\ IF masterCount = 1
     THEN /\ step' = "hosts"
          /\ UNCHANGED <<given, file, i, seen, allowed>>
     ELSE Refuse

CountMasters ==
  /\ step = "panels" /\ i = Len(file.panels)
  /\ IF masterCount = 1
     THEN /\ step' = "hosts" /\ i' = 0
          /\ UNCHANGED <<given, file, seen, allowed>>
     ELSE Refuse

CheckHost ==
  /\ step = "hosts" /\ i < Len(file.hosts)
  /\ LET h == file.hosts[i + 1]
     IN IF HostGood(h)
        THEN /\ i' = i + 1
             /\ allowed' = allowed \cup {Lower(h)}
             /\ UNCHANGED <<given, file, step, seen>>
        ELSE Refuse

LastHost ==
  /\ step = "hosts" /\ i = Len(file.hosts)
  /\ step' = "proxy"
  /\ UNCHANGED <<given, file, i, seen, allowed>>

\* No proxy, or an environment variable that holds the URL of one.
Proxy ==
  /\ step = "proxy"
  /\ IF file.proxy \in {"none", "url"}
     THEN step' = "accepted" /\ UNCHANGED <<given, file, i, seen, allowed>>
     ELSE Refuse

Returned == step \in {"accepted", "refused"}

Finished == Returned /\ UNCHANGED vars

Init ==
  /\ given \in Files /\ file = given
  /\ step = "decode" /\ i = 0
  /\ seenIDs = {} /\ seenGUIDs = {} /\ seenMasterNodeGUIDs = {}
  /\ masterCount = 0 /\ tokens = {} /\ allowed = {}

Next == \/ Decode \/ ApplyDefaults \/ Globals \/ CheckPanel \/ CountMasters \/ CheckHost \/ LastHost
        \/ Proxy \/ Finished

Spec == Init /\ [][Next]_vars

-----------------------------------------------------------------------------
(* What is expected of it *)

\* Every state of a loading is of its type: the place never leaves the list it is in.
TypeOK ==
  /\ given \in FileType /\ file \in FileType
  /\ step \in Steps
  /\ i \in 0..Len(IF step \in {"hosts", "proxy", "accepted"} THEN file.hosts ELSE file.panels)
       \/ step = "refused"
  /\ masterCount \in Nat

IDs == {file.panels[k].id : k \in DOMAIN file.panels}
PanelOf(id) == file.panels[CHOOSE k \in DOMAIN file.panels : file.panels[k].id = id]
Masters == {id \in IDs : PanelOf(id).role = "master"}

\* What Topology and Collector assume of their constants (OneMaster, DistinctGUIDs,
\* ConcurrencyAssumption, CapAssumption), of the panels and settings of this file.
OneMasterHere == \E master \in IDs : Masters = {master}
DistinctGUIDsHere ==
  /\ \A p, q \in IDs : PanelOf(p).guid = PanelOf(q).guid => p = q
  /\ \A p, q \in IDs \ Masters : PanelOf(p).nodeGUID = PanelOf(q).nodeGUID => p = q
  /\ \A p \in IDs \ Masters : PanelOf(p).nodeGUID # ""
BoundsHere == file.concurrency \in Nat \ {0} /\ file.cap \in Nat \ {0}
DistinctIDsHere ==
  \A j, k \in DOMAIN file.panels : file.panels[j].id = file.panels[k].id => j = k

\* An accepted configuration is one the rest of the program is right to rely on:
\* whatever a file says, a collector only ever exists with one master, panels that
\* nothing mistakes for one another, bounds that are bounds, and all the tokens.
AcceptedIsSound ==
  step = "accepted" =>
    OneMasterHere /\ DistinctIDsHere /\ DistinctGUIDsHere /\ BoundsHere /\ tokens = IDs

\* A file that means something, said of the file as it was written: every setting is
\* left out or within what it may be, and the lists name nothing twice, in any order.
SettingsMeant(f) ==
  /\ f.known /\ f.schema = 1 /\ f.keyNamed /\ f.key >= 32
  /\ f.cap \in 0..1000 /\ f.relative \in 0..1000 /\ f.absolute \in Nat
  /\ f.grace \in {Unset} \cup Nat /\ f.timeout \in {Unset} \cup (Nat \ {0})
  /\ f.concurrency \in 0..32 /\ f.perPanel \in 0..8
  /\ f.proxy \in {"none", "url"}

PanelMeant(p) ==
  /\ p.id \in SafeIDs /\ p.guid # "" /\ p.url \in Panel_URLs /\ p.token # ""
  /\ p.pin \in {"", "sha256"}
  /\ p.role = "master" \/ (p.role = "node" /\ p.nodeGUID # "")

WellFormed(f) ==
  LET places == DOMAIN f.panels
      nodes == {k \in places : f.panels[k].role # "master"}
      Distinct(at, field) ==
        \A j, k \in at : f.panels[j][field] = f.panels[k][field] => j = k
  IN /\ SettingsMeant(f)
     /\ \E master \in places : places \ nodes = {master}
     /\ Distinct(places, "id") /\ Distinct(places, "guid") /\ Distinct(nodes, "nodeGUID")
     /\ \A k \in places : PanelMeant(f.panels[k])
     /\ \A k \in DOMAIN f.hosts : f.hosts[k] \in Hosts
     /\ \A j, k \in DOMAIN f.hosts : Lower(f.hosts[j]) = Lower(f.hosts[k]) => j = k

\* A file as written that means something is never refused: not for the order its
\* panels or hosts come in, not for a master whose GUID is also a node's GUID at the
\* master, and not for any of the settings it leaves out.
RefusedForCause == step = "refused" => ~WellFormed(given)
=============================================================================
