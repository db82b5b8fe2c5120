---------------------------- MODULE ConfigProofs ----------------------------
(***************************************************************************)
(* What Topology and Collector assume of their constants holds of every    *)
(* configuration that Load accepts.  The inductive invariant says what the *)
(* loop over the panels has established of the ones it is past: the maps   *)
(* hold exactly their identifiers, which are therefore distinct, and the   *)
(* count of masters tells none and one from several.  The same facts show  *)
(* that what Load refuses a file for is wrong with the file.               *)
(***************************************************************************)
EXTENDS ConfigLoad, TLAPS

Before == {"decode", "defaults", "globals"}
Beyond == {"hosts", "proxy", "accepted"}

Role(k) == file.panels[k].role

\* The panels 1 to n have been looked at and found good.
MapsExact(n) ==
  /\ seenIDs = {file.panels[k].id : k \in 1..n}
  /\ tokens = seenIDs
  /\ seenGUIDs = {file.panels[k].guid : k \in 1..n}
  /\ seenMasterNodeGUIDs = {file.panels[k].nodeGUID : k \in {j \in 1..n : Role(j) = "node"}}

PastDistinct(n) ==
  \A j, k \in 1..n : j # k =>
    /\ file.panels[j].id # file.panels[k].id
    /\ file.panels[j].guid # file.panels[k].guid
    /\ Role(j) = "node" /\ Role(k) = "node" => file.panels[j].nodeGUID # file.panels[k].nodeGUID

RolesKnown(n) ==
  \A k \in 1..n : Role(k) = "master" \/ (Role(k) = "node" /\ file.panels[k].nodeGUID # "")

CountRight(n) ==
  /\ masterCount \in Nat
  /\ masterCount = 0 => \A k \in 1..n : Role(k) # "master"
  /\ masterCount = 1 => \E k \in 1..n : \A j \in 1..n : Role(j) = "master" <=> j = k
  /\ masterCount > 1 => \E j, k \in 1..n : j # k /\ Role(j) = "master" /\ Role(k) = "master"

Past(n) == MapsExact(n) /\ PastDistinct(n) /\ RolesKnown(n) /\ CountRight(n)

IInv ==
  /\ given \in FileType /\ file \in FileType
  /\ step \in Steps /\ i \in Nat /\ masterCount \in Nat
  /\ step \in Before => /\ i = 0 /\ masterCount = 0
                        /\ seenIDs = {} /\ seenGUIDs = {} /\ seenMasterNodeGUIDs = {} /\ tokens = {}
                        /\ allowed = {}
  /\ step \in {"panels"} \cup Beyond => file.concurrency \in 1..32 /\ file.cap \in 1..1000
  /\ step = "panels" => i <= Len(file.panels) /\ Past(i) /\ allowed = {}
  /\ step \in Beyond => masterCount = 1 /\ Past(Len(file.panels)) /\ i <= Len(file.hosts)
  /\ step = "hosts" => allowed = {Lower(file.hosts[k]) : k \in 1..i}

-----------------------------------------------------------------------------
\* Defaults leave the panels and the type of a file alone.
LEMMA DefaultedType ==
  ASSUME NEW f \in FileType
  PROVE  Defaulted(f) \in FileType
  BY SMT DEF Defaulted, FileType, Or

LEMMA PanelTyped ==
  ASSUME file \in FileType, NEW k \in 1..Len(file.panels)
  PROVE  file.panels[k] \in PanelType
<1>1. file.panels \in Seq(PanelType)
  BY DEF FileType
<1> QED BY <1>1

\* Nothing has been looked at yet.
LEMMA NonePast ==
  ASSUME masterCount = 0, seenIDs = {}, seenGUIDs = {}, seenMasterNodeGUIDs = {}, tokens = {}
  PROVE  Past(0)
  BY DEF Past, MapsExact, PastDistinct, RolesKnown, CountRight

\* One turn of the loop over the panels.
LEMMA OnePast ==
  ASSUME IInv, CheckPanel, step' = "panels"
  PROVE  i' \in Nat /\ i' <= Len(file.panels) /\ Past(i)' /\ file' = file
<1> DEFINE p == file.panels[i + 1]
<1>0. /\ file \in FileType /\ i \in Nat /\ step = "panels" /\ Past(i)
      /\ Len(file.panels) \in Nat /\ i < Len(file.panels)
  <2>1. file.panels \in Seq(PanelType)
    BY DEF IInv, FileType
  <2> QED BY <2>1 DEF IInv, CheckPanel
<1>1. /\ PanelGood(p) /\ i' = i + 1 /\ file' = file
      /\ seenIDs' = seenIDs \cup {p.id} /\ tokens' = tokens \cup {p.id}
      /\ seenGUIDs' = seenGUIDs \cup {p.guid}
      /\ seenMasterNodeGUIDs' = IF p.role = "node" THEN seenMasterNodeGUIDs \cup {p.nodeGUID}
                                ELSE seenMasterNodeGUIDs
      /\ masterCount' = masterCount + (IF p.role = "master" THEN 1 ELSE 0)
  BY <1>0 DEF CheckPanel, Refuse
<1>2. /\ 1..(i + 1) = (1..i) \cup {i + 1} /\ i + 1 \in Nat /\ i + 1 <= Len(file.panels)
      /\ i + 1 \notin 1..i
  BY <1>0
<1>3. MapsExact(i)'
  BY <1>0, <1>1, <1>2 DEF Past, MapsExact, Role
<1>4. PastDistinct(i)'
  <2>1. \A k \in 1..i : file.panels[k].id # p.id /\ file.panels[k].guid # p.guid
    BY <1>0, <1>1 DEF Past, MapsExact, PanelGood, IdentityGood
  <2>2. \A k \in 1..i : Role(k) = "node" /\ p.role = "node" => file.panels[k].nodeGUID # p.nodeGUID
    BY <1>0, <1>1 DEF Past, MapsExact, PanelGood, RoleGood, Role
  <2> QED BY <1>0, <1>1, <1>2, <2>1, <2>2 DEF Past, PastDistinct, Role
<1>5. RolesKnown(i)'
  BY <1>0, <1>1, <1>2 DEF Past, RolesKnown, Role, PanelGood, RoleGood
<1>6. CountRight(i)'
  <2>0. masterCount \in Nat /\ Role(i + 1) = p.role
    BY <1>0 DEF Past, CountRight, Role
  <2>1. CASE p.role = "master"
    <3>1. masterCount' = masterCount + 1
      BY <1>1, <2>1
    <3>2. masterCount' = 1 => \A k \in 1..i : Role(k) # "master"
      BY <1>0, <2>0, <3>1 DEF Past, CountRight
    <3>3. masterCount' = 1 => \A j \in 1..(i + 1) : Role(j) = "master" <=> j = i + 1
      BY <1>2, <2>0, <2>1, <3>2
    <3>4. masterCount' = 1 => \E k \in 1..(i + 1) : \A j \in 1..(i + 1) : Role(j) = "master" <=> j = k
      BY <1>2, <3>3
    <3>5. masterCount' \in Nat /\ masterCount' # 0
      BY <2>0, <3>1
    <3>6. ASSUME masterCount' > 1
          PROVE  \E j, k \in 1..(i + 1) : j # k /\ Role(j) = "master" /\ Role(k) = "master"
      <4>1. masterCount = 1 \/ masterCount > 1
        BY <2>0, <3>1, <3>6
      <4>2. \E j \in 1..i : Role(j) = "master"
        BY <1>0, <4>1 DEF Past, CountRight
      <4> QED BY <1>2, <2>0, <2>1, <4>2
    <3> QED BY <1>1, <3>4, <3>5, <3>6 DEF CountRight, Role
  <2>2. CASE p.role # "master"
    <3>1. masterCount' = masterCount
      BY <1>1, <2>0, <2>2
    <3>2. masterCount' = 0 => \A k \in 1..(i + 1) : Role(k) # "master"
      BY <1>0, <1>2, <2>0, <2>2, <3>1 DEF Past, CountRight
    <3>3. ASSUME masterCount' = 1
          PROVE  \E k \in 1..(i + 1) : \A j \in 1..(i + 1) : Role(j) = "master" <=> j = k
      <4>1. PICK k \in 1..i : \A j \in 1..i : Role(j) = "master" <=> j = k
        BY <1>0, <3>1, <3>3 DEF Past, CountRight
      <4>2. \A j \in 1..(i + 1) : Role(j) = "master" <=> j = k
        BY <1>2, <2>0, <2>2, <4>1
      <4> QED BY <1>2, <4>1, <4>2
    <3>4. masterCount' > 1 =>
            \E j, k \in 1..(i + 1) : j # k /\ Role(j) = "master" /\ Role(k) = "master"
      BY <1>0, <1>2, <3>1 DEF Past, CountRight
    <3> QED BY <1>1, <2>0, <3>1, <3>2, <3>3, <3>4 DEF CountRight, Role
  <2> QED BY <2>1, <2>2
<1> QED BY <1>1, <1>2, <1>3, <1>4, <1>5, <1>6 DEF Past

LEMMA InitHolds == Init => IInv
  BY FilesAssumption DEF Init, IInv, Steps, Before, Beyond

LEMMA StepHolds == IInv /\ [Next]_vars => IInv'
<1> SUFFICES ASSUME IInv, [Next]_vars PROVE IInv'
  OBVIOUS
<1> USE DEF Steps, Before, Beyond
<1>0. /\ file \in FileType /\ i \in Nat /\ step \in Steps
      /\ Len(file.panels) \in Nat /\ Len(file.hosts) \in Nat
  <2>1. file.panels \in Seq(PanelType) /\ file.hosts \in Seq(STRING)
    BY DEF IInv, FileType
  <2> QED BY <2>1 DEF IInv
<1>1. CASE Refuse
  BY <1>1, <1>0 DEF IInv, Refuse, seen
<1>2. CASE UNCHANGED vars
  <2>1. Past(i)' <=> Past(i)
    BY <1>2 DEF vars, Past, MapsExact, PastDistinct, RolesKnown, CountRight, Role
  <2>2. Past(Len(file.panels))' <=> Past(Len(file.panels))
    BY <1>2 DEF vars, Past, MapsExact, PastDistinct, RolesKnown, CountRight, Role
  <2> QED BY <1>2, <2>1, <2>2 DEF IInv, vars
<1>3. CASE Decode
  BY <1>1, <1>3 DEF Decode, IInv, seen
<1>4. CASE ApplyDefaults
  BY <1>4, DefaultedType DEF ApplyDefaults, IInv, seen
<1>5. CASE Globals
  <2>1. CASE GlobalsGood(file) /\ step' = "panels" /\ UNCHANGED <<given, file, i, seen, allowed>>
    <3>1. /\ step = "globals" /\ Past(0)
      BY <1>5, NonePast DEF Globals, IInv
    <3>2. i = 0 /\ i' = 0
      BY <1>5, <2>1 DEF Globals, IInv
    <3>3. Past(i)'
      BY <2>1, <3>1, <3>2 DEF seen, Past, MapsExact, PastDistinct, RolesKnown, CountRight, Role
    <3>4. i' <= Len(file'.panels) /\ allowed' = {} /\ masterCount' \in Nat
      BY <1>0, <2>1, <3>1, <3>2 DEF IInv, seen
    <3> QED BY <1>0, <2>1, <3>2, <3>3, <3>4 DEF IInv, GlobalsGood
  <2> QED BY <1>1, <1>5, <2>1 DEF Globals
<1>6. CASE CheckPanel
  <2>1. CASE step' = "panels"
    BY <1>6, <2>1, OnePast DEF IInv, CheckPanel, Refuse
  <2> QED BY <1>1, <1>6, <2>1 DEF CheckPanel
<1>7. CASE CountMasters
  <2>1. CASE masterCount = 1 /\ step' = "hosts" /\ i' = 0 /\ UNCHANGED <<given, file, seen, allowed>>
    <3>1. Past(Len(file.panels))
      BY <1>7 DEF CountMasters, IInv
    <3>2. Past(Len(file.panels))'
      <4>1. Past(Len(file.panels))' <=> Past(Len(file.panels))
        BY <2>1 DEF seen, Past, MapsExact, PastDistinct, RolesKnown, CountRight, Role
      <4> QED BY <3>1, <4>1
    <3>3. /\ file'.concurrency \in 1..32 /\ file'.cap \in 1..1000
          /\ file' \in FileType /\ masterCount' = 1
      BY <1>0, <1>7, <2>1 DEF CountMasters, IInv, seen
    <3>4. i' <= Len(file'.hosts) /\ allowed' = {Lower(file'.hosts[k]) : k \in 1..i'}
      BY <1>0, <1>7, <2>1 DEF CountMasters, IInv
    <3> QED BY <2>1, <3>2, <3>3, <3>4 DEF IInv
  <2> QED BY <1>1, <1>7, <2>1 DEF CountMasters
<1>8. CASE CheckHost \/ LastHost \/ Proxy
  <2>1. CASE /\ step' \in Beyond /\ i' \in Nat /\ UNCHANGED <<given, file, seen>> /\ step \in Beyond
             /\ i' <= Len(file.hosts)
             /\ step' = "hosts" => allowed' = {Lower(file.hosts[k]) : k \in 1..i'}
    <3>1. Past(Len(file.panels))'
      <4>1. Past(Len(file.panels))' <=> Past(Len(file.panels))
        BY <2>1 DEF seen, Past, MapsExact, PastDistinct, RolesKnown, CountRight, Role
      <4> QED BY <2>1, <4>1 DEF IInv
    <3>2. /\ file'.concurrency \in 1..32 /\ file'.cap \in 1..1000
          /\ file' \in FileType /\ masterCount' = 1
      BY <1>0, <2>1 DEF IInv, seen
    <3> QED BY <2>1, <3>1, <3>2 DEF IInv
  <2>2. CASE CheckHost /\ step' # "refused"
    <3>1. /\ i' = i + 1 /\ UNCHANGED <<given, file, step, seen>> /\ step = "hosts" /\ i < Len(file.hosts)
          /\ allowed' = allowed \cup {Lower(file.hosts[i + 1])}
      BY <2>2 DEF CheckHost, Refuse
    <3>2. 1..(i + 1) = (1..i) \cup {i + 1} /\ i + 1 \in Nat /\ i + 1 <= Len(file.hosts)
      BY <1>0, <3>1
    <3>3. allowed' = {Lower(file.hosts[k]) : k \in 1..i'}
      BY <3>1, <3>2 DEF IInv
    <3> QED BY <2>1, <3>1, <3>2, <3>3
  <2>3. CASE LastHost \/ Proxy
    <3>1. i <= Len(file.hosts)
      BY <2>3 DEF LastHost, Proxy, IInv
    <3> QED BY <1>0, <1>1, <2>1, <2>3, <3>1 DEF LastHost, Proxy
  <2>4. CASE CheckHost /\ step' = "refused"
    BY <1>1, <2>4 DEF CheckHost
  <2> QED BY <1>8, <2>2, <2>3, <2>4
<1>9. CASE Finished
  BY <1>2, <1>9 DEF Finished
<1> QED BY <1>2, <1>3, <1>4, <1>5, <1>6, <1>7, <1>8, <1>9 DEF Next

\* What has been established when the file is accepted.
LEMMA AcceptedHolds == IInv => AcceptedIsSound
<1> SUFFICES ASSUME IInv, step = "accepted"
             PROVE  /\ OneMasterHere /\ DistinctIDsHere /\ DistinctGUIDsHere
                    /\ BoundsHere /\ tokens = IDs
  BY DEF AcceptedIsSound
<1> DEFINE n == Len(file.panels)
<1>0. n \in Nat /\ DOMAIN file.panels = 1..n
  <2>1. file.panels \in Seq(PanelType)
    BY DEF IInv, FileType
  <2> QED BY <2>1
<1>1. Past(n) /\ masterCount = 1
  BY DEF IInv, Beyond
<1>2. \A k \in 1..n : PanelOf(file.panels[k].id) = file.panels[k]
  <2> SUFFICES ASSUME NEW k \in 1..n PROVE PanelOf(file.panels[k].id) = file.panels[k]
    OBVIOUS
  <2>1. \A j \in 1..n : file.panels[j].id = file.panels[k].id => j = k
    BY <1>1 DEF Past, PastDistinct
  <2>2. (CHOOSE j \in 1..n : file.panels[j].id = file.panels[k].id) = k
    BY <2>1
  <2> QED BY <1>0, <2>2 DEF PanelOf
<1>3. IDs = {file.panels[k].id : k \in 1..n}
  BY <1>0 DEF IDs
<1>4. PICK k \in 1..n : \A j \in 1..n : Role(j) = "master" <=> j = k
  BY <1>1 DEF Past, CountRight
<1>5. Masters = {file.panels[k].id}
  BY <1>2, <1>3, <1>4 DEF Masters, Role
<1>6. OneMasterHere
  BY <1>3, <1>5 DEF OneMasterHere
<1>7. DistinctIDsHere
  BY <1>0, <1>1 DEF DistinctIDsHere, Past, PastDistinct
<1>8. DistinctGUIDsHere
  <2>1. ASSUME NEW p \in IDs, NEW q \in IDs, PanelOf(p).guid = PanelOf(q).guid PROVE p = q
    BY <1>1, <1>2, <1>3, <2>1 DEF Past, PastDistinct
  <2>2. \A p \in IDs \ Masters : \E j \in 1..n : p = file.panels[j].id /\ Role(j) = "node"
    BY <1>1, <1>3, <1>4, <1>5 DEF Past, RolesKnown
  <2>3. ASSUME NEW p \in IDs \ Masters, NEW q \in IDs \ Masters,
               PanelOf(p).nodeGUID = PanelOf(q).nodeGUID
        PROVE  p = q
    BY <1>1, <1>2, <2>2, <2>3 DEF Past, PastDistinct
  <2>4. ASSUME NEW p \in IDs \ Masters PROVE PanelOf(p).nodeGUID # ""
    <3>1. PICK j \in 1..n : p = file.panels[j].id /\ Role(j) = "node"
      BY <2>2
    <3>2. file.panels[j].nodeGUID # ""
      BY <1>1, <3>1 DEF Past, RolesKnown
    <3> QED BY <1>2, <3>1, <3>2
  <2> QED BY <2>1, <2>3, <2>4 DEF DistinctGUIDsHere
<1>9. BoundsHere
  <2>1. file.concurrency \in 1..32 /\ file.cap \in 1..1000
    BY DEF IInv, Beyond
  <2>2. \A b \in 1..1000 : b \in Nat \ {0}
    OBVIOUS
  <2>3. file.concurrency \in 1..1000
    BY <2>1
  <2> QED BY <2>1, <2>2, <2>3, Zenon DEF BoundsHere
<1> QED BY <1>1, <1>3, <1>6, <1>7, <1>8, <1>9 DEF Past, MapsExact

\* Every configuration that Load accepts is one the collector is right to rely on.
THEOREM ConfigSound == Spec => []AcceptedIsSound
<1>1. Spec => []IInv
  BY InitHolds, StepHolds, PTL DEF Spec
<1> QED BY <1>1, AcceptedHolds, PTL

\* Every state of a loading is of its type.
THEOREM ConfigTyped == Spec => []TypeOK
<1>1. Spec => []IInv
  BY InitHolds, StepHolds, PTL DEF Spec
<1>2. IInv => TypeOK
  <2> SUFFICES ASSUME IInv PROVE TypeOK
    OBVIOUS
  <2>1. Len(file.panels) \in Nat /\ Len(file.hosts) \in Nat
    <3>1. file.panels \in Seq(PanelType) /\ file.hosts \in Seq(STRING)
      BY DEF IInv, FileType
    <3> QED BY <3>1
  <2> QED BY <2>1 DEF IInv, TypeOK, Before, Beyond, Steps
<1> QED BY <1>1, <1>2, PTL

-----------------------------------------------------------------------------
(* What a file is refused for *)

\* The file as Load sees it, with the defaults: the settings in their ranges and the
\* rest as it was meant.
Served(f) ==
  LET places == DOMAIN f.panels
      nodes == {k \in places : f.panels[k].role # "master"}
      Distinct(at, field) ==
        \A j, k \in at : f.panels[j][field] = f.panels[k][field] => j = k
  IN /\ f.known /\ GlobalsGood(f) /\ f.proxy \in {"none", "url"}
     /\ \E master \in places : places \ nodes = {master}
     /\ Distinct(places, "id") /\ Distinct(places, "guid") /\ Distinct(nodes, "nodeGUID")
     /\ \A k \in places : PanelMeant(f.panels[k])
     /\ \A k \in DOMAIN f.hosts : f.hosts[k] \in Hosts
     /\ \A j, k \in DOMAIN f.hosts : Lower(f.hosts[j]) = Lower(f.hosts[k]) => j = k

\* The defaults bring every setting that is left out into its range, and leave alone
\* what is within it.
LEMMA DefaultsServe ==
  ASSUME NEW f \in FileType, WellFormed(f)
  PROVE  Served(Defaulted(f))
<1> DEFINE d == Defaulted(f)
<1>1. /\ d.known = f.known /\ d.schema = f.schema /\ d.keyNamed = f.keyNamed /\ d.key = f.key
      /\ d.proxy = f.proxy /\ d.hosts = f.hosts /\ d.panels = f.panels
      /\ d.cap = Or(f.cap, 0, 50) /\ d.relative = Or(f.relative, 0, 50)
      /\ d.absolute = Or(f.absolute, 0, 64 * 1024 * 1024)
      /\ d.grace = Or(f.grace, Unset, 30) /\ d.timeout = Or(f.timeout, Unset, 10)
      /\ d.concurrency = Or(f.concurrency, 0, 4) /\ d.perPanel = Or(f.perPanel, 0, 2)
  BY DEF Defaulted
<1> HIDE DEF d
<1>2. SettingsMeant(f)
  BY DEF WellFormed
<1>3. d.cap \in 1..1000 /\ d.concurrency \in 1..32 /\ d.perPanel \in 1..8 /\ d.absolute >= 1
  BY <1>1, <1>2 DEF SettingsMeant, Or
<1>4. d.grace \in Nat /\ d.timeout \in Nat \ {0}
  BY <1>1, <1>2 DEF SettingsMeant, Or
<1>5. ~RelativeRefused(d.relative)
  <2>1. d.relative \in 1..1000
    BY <1>1, <1>2 DEF SettingsMeant, Or
  <2>2. ~(d.relative <= 0) /\ ~(d.relative > 1000)
    BY <2>1
  <2> QED BY <2>2, Zenon DEF RelativeRefused
<1>6. f.panels # << >>
  <2>1. PICK master \in DOMAIN f.panels : TRUE
    BY DEF WellFormed
  <2>2. DOMAIN << >> = {}
    OBVIOUS
  <2> QED BY <2>1, <2>2, Zenon
<1>7. GlobalsGood(d)
  <2>1. d.timeout > 0 /\ d.grace >= 0
    BY <1>4
  <2>2. d.schema = 1 /\ d.key >= 32 /\ d.panels # << >>
    BY <1>1, <1>2, <1>6 DEF SettingsMeant
  <2>3. d.keyNamed = TRUE
    BY <1>1, <1>2 DEF SettingsMeant, FileType
  <2> QED BY <1>3, <1>5, <2>1, <2>2, <2>3, Zenon DEF GlobalsGood
<1>8. d.known = TRUE /\ d.proxy \in {"none", "url"}
  BY <1>1, <1>2 DEF SettingsMeant, FileType
<1> DEFINE places == DOMAIN f.panels
           nodes == {k \in places : f.panels[k].role # "master"}
<1>9. /\ \E master \in places : places \ nodes = {master}
      /\ \A j, k \in places : f.panels[j]["id"] = f.panels[k]["id"] => j = k
      /\ \A j, k \in places : f.panels[j]["guid"] = f.panels[k]["guid"] => j = k
      /\ \A j, k \in nodes : f.panels[j]["nodeGUID"] = f.panels[k]["nodeGUID"] => j = k
      /\ \A k \in places : PanelMeant(f.panels[k])
      /\ \A k \in DOMAIN f.hosts : f.hosts[k] \in Hosts
      /\ \A j, k \in DOMAIN f.hosts : Lower(f.hosts[j]) = Lower(f.hosts[k]) => j = k
  BY DEF WellFormed
<1>10. d.panels = f.panels /\ d.hosts = f.hosts
  BY <1>1
<1>11. Served(d)
  BY <1>7, <1>8, <1>9, <1>10 DEF Served
<1> QED BY <1>11 DEF d

LEMMA ServedIs ==
  ASSUME NEW f, Served(f)
  PROVE  /\ f.known /\ GlobalsGood(f) /\ f.proxy \in {"none", "url"}
         /\ \E k \in DOMAIN f.panels : \A j \in DOMAIN f.panels :
              f.panels[j].role = "master" <=> j = k
         /\ \A j, k \in DOMAIN f.panels : j # k =>
              /\ f.panels[j].id # f.panels[k].id /\ f.panels[j].guid # f.panels[k].guid
              /\ f.panels[j].role # "master" /\ f.panels[k].role # "master" =>
                   f.panels[j].nodeGUID # f.panels[k].nodeGUID
         /\ \A k \in DOMAIN f.panels :
              /\ f.panels[k].id \in SafeIDs /\ f.panels[k].guid # "" /\ AccessGood(f.panels[k])
              /\ \/ f.panels[k].role = "master"
                 \/ f.panels[k].role = "node" /\ f.panels[k].nodeGUID # ""
         /\ \A k \in DOMAIN f.hosts : f.hosts[k] \in Hosts
         /\ \A j, k \in DOMAIN f.hosts : Lower(f.hosts[j]) = Lower(f.hosts[k]) => j = k
<1> DEFINE places == DOMAIN f.panels
           nodes == {k \in places : f.panels[k].role # "master"}
<1>1. /\ f.known /\ GlobalsGood(f) /\ f.proxy \in {"none", "url"}
      /\ \E master \in places : places \ nodes = {master}
      /\ \A j, k \in places : f.panels[j].id = f.panels[k].id => j = k
      /\ \A j, k \in places : f.panels[j].guid = f.panels[k].guid => j = k
      /\ \A j, k \in nodes : f.panels[j].nodeGUID = f.panels[k].nodeGUID => j = k
  BY DEF Served, PanelMeant, AccessGood
<1>2. /\ \A k \in places :
           /\ f.panels[k].id \in SafeIDs /\ f.panels[k].guid # "" /\ AccessGood(f.panels[k])
           /\ \/ f.panels[k].role = "master"
              \/ f.panels[k].role = "node" /\ f.panels[k].nodeGUID # ""
      /\ \A k \in DOMAIN f.hosts : f.hosts[k] \in Hosts
      /\ \A j, k \in DOMAIN f.hosts : Lower(f.hosts[j]) = Lower(f.hosts[k]) => j = k
  BY DEF Served, PanelMeant, AccessGood
<1>3. \A j, k \in places : j # k =>
        /\ f.panels[j].id # f.panels[k].id /\ f.panels[j].guid # f.panels[k].guid
        /\ f.panels[j].role # "master" /\ f.panels[k].role # "master" =>
             f.panels[j].nodeGUID # f.panels[k].nodeGUID
  BY <1>1
<1>4. \E k \in places : \A j \in places : f.panels[j].role = "master" <=> j = k
  <2>1. PICK master \in places : places \ nodes = {master}
    BY <1>1
  <2>2. \A j \in places : f.panels[j].role = "master" <=> j = master
    BY <2>1
  <2> QED BY <2>2
<1> QED BY <1>1, <1>2, <1>3, <1>4

\* A panel or a host that is refused has something wrong with it, or repeats one that
\* came before it; a count of masters that is not one is wrong.
FileCause == step = "refused" => ~Served(file)

LEMMA CauseHolds == IInv /\ FileCause /\ [Next]_vars => FileCause'
<1> SUFFICES ASSUME IInv, [Next]_vars, FileCause, step' = "refused", Served(file)'
             PROVE  FALSE
  BY DEF FileCause
<1> USE DEF Steps, Before, Beyond
<1>0. /\ file \in FileType /\ i \in Nat
      /\ Len(file.panels) \in Nat /\ DOMAIN file.panels = 1..Len(file.panels)
      /\ Len(file.hosts) \in Nat /\ DOMAIN file.hosts = 1..Len(file.hosts)
  <2>1. file.panels \in Seq(PanelType) /\ file.hosts \in Seq(STRING)
    BY DEF IInv, FileType
  <2> QED BY <2>1 DEF IInv
<1>1. CASE UNCHANGED vars
  <2>1. step = "refused" /\ file' = file
    BY <1>1 DEF vars
  <2>2. Served(file)
    BY <2>1
  <2> QED BY <2>1, <2>2 DEF FileCause
<1>2. ASSUME Refuse PROVE Served(file)
  <2>1. file' = file
    BY <1>2 DEF Refuse
  <2> QED BY <2>1
<1>3. CASE Decode
  BY <1>2, <1>3, ServedIs DEF Decode
<1>4. CASE Globals
  BY <1>2, <1>4, ServedIs DEF Globals
<1>5. CASE CheckPanel
  <2> DEFINE p == file.panels[i + 1]
  <2>1. Refuse /\ ~PanelGood(p) /\ i + 1 \in 1..Len(file.panels) /\ Past(i) /\ 1..i \subseteq 1..Len(file.panels)
        /\ i + 1 \notin 1..i
    BY <1>0, <1>5 DEF CheckPanel, IInv
  <2>2. Served(file)
    BY <1>2, <2>1
  <2>3. AccessGood(p) /\ p.id \in SafeIDs /\ p.guid # ""
        /\ (p.role = "master" \/ (p.role = "node" /\ p.nodeGUID # ""))
    BY <1>0, <2>1, <2>2, ServedIs
  <2>4. ASSUME NEW k \in 1..i
        PROVE  /\ file.panels[k].id # p.id /\ file.panels[k].guid # p.guid
               /\ Role(k) = "node" /\ p.role = "node" => file.panels[k].nodeGUID # p.nodeGUID
    BY <1>0, <2>1, <2>2, ServedIs DEF Role
  <2>5. IdentityGood(p)
    BY <2>1, <2>3, <2>4 DEF IdentityGood, Past, MapsExact
  <2>6. RoleGood(p)
    BY <2>1, <2>3, <2>4 DEF RoleGood, Past, MapsExact
  <2> QED BY <2>1, <2>3, <2>5, <2>6 DEF PanelGood
<1>6. CASE CountMasters
  <2>1. Refuse /\ masterCount # 1 /\ i = Len(file.panels) /\ CountRight(i)
    BY <1>6 DEF CountMasters, IInv, Past
  <2>2. PICK k \in 1..i : \A j \in 1..i : Role(j) = "master" <=> j = k
    <3>1. Served(file) /\ DOMAIN file.panels = 1..i
      BY <1>0, <1>2, <2>1
    <3>2. \E k \in DOMAIN file.panels : \A j \in DOMAIN file.panels :
            file.panels[j].role = "master" <=> j = k
      BY <3>1, ServedIs
    <3> QED BY <3>1, <3>2 DEF Role
  <2>3. masterCount = 0 \/ masterCount > 1
    BY <2>1 DEF CountRight
  <2> QED BY <2>1, <2>2, <2>3 DEF CountRight
<1>7. CASE CheckHost
  <2> DEFINE h == file.hosts[i + 1]
  <2>1. Refuse /\ ~HostGood(h) /\ i + 1 \in 1..Len(file.hosts)
        /\ allowed = {Lower(file.hosts[k]) : k \in 1..i} /\ 1..i \subseteq 1..Len(file.hosts)
        /\ i + 1 \notin 1..i
    BY <1>0, <1>7 DEF CheckHost, IInv
  <2>2. h \in Hosts /\ \A k \in 1..i : Lower(file.hosts[k]) # Lower(h)
    BY <1>0, <1>2, <2>1, ServedIs
  <2> QED BY <2>1, <2>2 DEF HostGood
<1>8. CASE Proxy
  BY <1>2, <1>8, ServedIs DEF Proxy
<1>9. CASE ApplyDefaults \/ LastHost
  BY <1>9 DEF ApplyDefaults, LastHost
<1>10. CASE Finished
  BY <1>1, <1>10 DEF Finished
<1> QED BY <1>1, <1>3, <1>4, <1>5, <1>6, <1>7, <1>8, <1>9, <1>10 DEF Next

\* What Load looks at is the file as it was read until the defaults are applied, and
\* that file with the defaults from then on.
SameFile ==
  /\ step \in {"decode", "defaults"} => file = given
  /\ step \notin {"decode", "defaults", "refused"} => file = Defaulted(given)
  /\ step = "refused" => file = Defaulted(given) \/ (file = given /\ ~given.known)

LEMMA SameFileHolds == SameFile /\ [Next]_vars => SameFile'
<1> SUFFICES ASSUME SameFile, [Next]_vars PROVE SameFile'
  OBVIOUS
<1>1. CASE UNCHANGED vars
  BY <1>1 DEF vars, SameFile
<1>2. CASE Decode
  BY <1>2 DEF SameFile, Decode, Refuse
<1>3. CASE ApplyDefaults
  BY <1>3 DEF SameFile, ApplyDefaults
<1>4. CASE Globals
  BY <1>4 DEF SameFile, Globals, Refuse
<1>5. CASE CheckPanel
  BY <1>5 DEF SameFile, CheckPanel, Refuse
<1>6. CASE CountMasters
  BY <1>6 DEF SameFile, CountMasters, Refuse
<1>7. CASE CheckHost
  BY <1>7 DEF SameFile, CheckHost, Refuse
<1>8. CASE LastHost \/ Proxy
  BY <1>8 DEF SameFile, LastHost, Proxy, Refuse
<1>9. CASE Finished
  BY <1>1, <1>9 DEF Finished
<1> QED BY <1>1, <1>2, <1>3, <1>4, <1>5, <1>6, <1>7, <1>8, <1>9 DEF Next

\* A file as it was read that means something is never refused: not for the order of
\* its panels or hosts, and not for any of the settings it leaves out.
THEOREM RefusalIsForCause == Spec => []RefusedForCause
<1>1. Init => FileCause /\ SameFile
  BY DEF Init, FileCause, SameFile
<1>2. IInv /\ FileCause /\ SameFile => RefusedForCause
  <2> SUFFICES ASSUME IInv, FileCause, SameFile, step = "refused", WellFormed(given) PROVE FALSE
    BY DEF RefusedForCause
  <2>1. Served(Defaulted(given))
    BY DefaultsServe DEF IInv
  <2>2. given.known
    BY DEF WellFormed, SettingsMeant
  <2> QED BY <2>1, <2>2 DEF FileCause, SameFile
<1> QED BY <1>1, <1>2, InitHolds, StepHolds, CauseHolds, SameFileHolds, PTL DEF Spec
=============================================================================
