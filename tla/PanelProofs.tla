---------------------------- MODULE PanelProofs -----------------------------
(***************************************************************************)
(* The properties of LinkSets and of Rows are theorems of PanelSpec: for   *)
(* any clients, inbounds, links and lists, and any number of edits.        *)
(***************************************************************************)
EXTENDS PanelViews, SamplingProofs

-----------------------------------------------------------------------------
(* Links *)

\* What the Shadowsocks links of the panel have as their parameters.
Plugin ==
  CHOOSE P : \A c \in Clients : \A in \in Accounts[c].inbounds :
               LinkOf(c, in).proto = "ss" => Range(LinkOf(c, in).params) = P

\* A query with every key once.
GoodParams(p) == p \in Seq(Range(p)) /\ \A i, j \in DOMAIN p : p[i][1] = p[j][1] => i = j

\* A link of these users, however it is edited.
GoodLink(l, users) ==
  /\ DOMAIN l = LinkFields
  /\ l.proto \in Protocols \cup {"unknown"}
  /\ l.user \in users \cup {"other", ""}
  /\ l.host # "" /\ l.port \in Nat \ {0}
  /\ GoodParams(l.params)
  /\ l.proto = "ss" => Range(l.params) = Plugin

GoodLinks(s, users) == s \in Seq(Range(s)) /\ \A i \in DOMAIN s : GoodLink(s[i], users)

SoundLink(l) ==
  /\ l.port <= MaxPort /\ l.proto # "unknown"
  /\ l.proto \notin Hysteria => l.user # ""
  /\ l.proto = "vmess" => ~l.caps

LEMMA MaxPortType == MaxPort \in Nat
BY DEF MaxPort

\* Doctor takes the links that lead somewhere.
LEMMA ValidIsSound ==
  ASSUME NEW l, NEW users, GoodLink(l, users)
  PROVE  Valid(l) <=> SoundLink(l)
<1>1. ValidPort(l.port) <=> l.port <= MaxPort
  <2>1. l.port \in Nat \ {0}
    BY DEF GoodLink
  <2> QED BY <2>1, MaxPortType DEF ValidPort
<1>3. l.host # ""
  BY DEF GoodLink
<1>2. l.proto \in Protocols <=> l.proto # "unknown"
  BY DEF GoodLink, Protocols, Hysteria
<1> QED BY <1>1, <1>2, <1>3 DEF Valid, SoundLink

LEMMA ParsesIsSound ==
  ASSUME NEW s, NEW users, GoodLinks(s, users)
  PROVE  Parses(s) <=> Sound(s)
<1>1. \A i \in DOMAIN s : Valid(s[i]) <=> SoundLink(s[i])
  BY ValidIsSound DEF GoodLinks
<1> QED BY <1>1 DEF Parses, Sound, SoundLink

-----------------------------------------------------------------------------
(* Canonical links *)

\* With every key once, an encoded query says what the query says, in any order.
LEMMA EncodedIsRange ==
  ASSUME NEW p, NEW q, GoodParams(p), GoodParams(q)
  PROVE  Encoded(p) = Encoded(q) <=> Range(p) = Range(q)
<1> DEFINE K(s) == {s[i][1] : i \in DOMAIN s}
           E(s, key) == Those(s, {kv \in Range(s) : kv[1] = key})
<1>1. ASSUME NEW s
      PROVE  DOMAIN Encoded(s) = K(s) /\ \A key \in K(s) : Encoded(s)[key] = E(s, key)
  BY DEF Encoded
<1>2. ASSUME NEW s, GoodParams(s)
      PROVE  \A kv : kv \in Range(s) <=>
                       \E key \in K(s) : \E k \in DOMAIN E(s, key) : kv = E(s, key)[k]
  <2>1. ASSUME NEW key
        PROVE  /\ \A k \in DOMAIN E(s, key) : E(s, key)[k] \in Range(s)
               /\ \A i \in DOMAIN s : s[i] \in {kv \in Range(s) : kv[1] = key} =>
                    \E k \in DOMAIN E(s, key) : E(s, key)[k] = s[i]
    <3> DEFINE T == {kv \in Range(s) : kv[1] = key}
    <3>1. s \in Seq(Range(s))
      BY <1>2 DEF GoodParams
    <3>2. E(s, key) = Those(s, T)
      OBVIOUS
    <3> HIDE DEF T, E
    <3>3. /\ \A k \in DOMAIN E(s, key) : E(s, key)[k] \in Range(s)
          /\ \A i \in DOMAIN s : s[i] \in T => \E k \in DOMAIN E(s, key) : E(s, key)[k] = s[i]
      BY <3>1, <3>2, ThoseMembers
    <3> QED BY <3>3 DEF T
  <2> HIDE DEF E
  <2>2. \A i \in DOMAIN s : s[i] \in {kv \in Range(s) : kv[1] = s[i][1]} /\ s[i][1] \in K(s)
    BY DEF Range
  <2> HIDE DEF K
  <2>3. \A i \in DOMAIN s : \E key \in K(s) : \E k \in DOMAIN E(s, key) : s[i] = E(s, key)[k]
    BY <2>1, <2>2
  <2> QED BY <2>1, <2>3 DEF Range
<1>3. ASSUME Encoded(p) = Encoded(q)
      PROVE  Range(p) = Range(q)
  <2> HIDE DEF K, E
  <2>1. K(p) = K(q) /\ \A key \in K(p) : E(p, key) = E(q, key)
    BY <1>1, <1>3
  <2>2. \A kv : kv \in Range(p) <=> kv \in Range(q)
    BY <1>2, <2>1
  <2> QED BY <2>2, Zenon
<1>4. ASSUME NEW s, GoodParams(s), NEW kv \in Range(s)
      PROVE  E(s, kv[1]) = <<kv>>
  <2> DEFINE T == {x \in Range(s) : x[1] = kv[1]}
             e == E(s, kv[1])
  <2>1. \A x \in T : x = kv
    BY <1>4 DEF GoodParams, Range
  <2>2. \A i, j \in DOMAIN s : s[i] = s[j] => i = j
    BY <1>4 DEF GoodParams
  <2>3. s \in Seq(Range(s))
    BY <1>4 DEF GoodParams
  <2>4. \A k, l \in DOMAIN Those(s, T) : Those(s, T)[k] = Those(s, T)[l] => k = l
    <3> HIDE DEF T
    <3> QED BY <2>2, <2>3, ThoseDistinct
  <2>5. /\ Those(s, T) \in Seq(Range(s))
        /\ \A k \in DOMAIN Those(s, T) : Those(s, T)[k] \in T
        /\ \A i \in DOMAIN s : s[i] \in T => \E k \in DOMAIN Those(s, T) : Those(s, T)[k] = s[i]
    <3> HIDE DEF T
    <3> QED BY <2>3, ThoseMembers
  <2>6. PICK i \in DOMAIN s : s[i] = kv
    BY <1>4 DEF Range
  <2>7. kv \in T
    BY <1>4
  <2>8. e = Those(s, T)
    OBVIOUS
  <2> HIDE DEF T, E, e
  <2>9. PICK k \in DOMAIN e : e[k] = kv
    BY <2>5, <2>6, <2>7, <2>8
  <2>10. e \in Seq(Range(s)) /\ \A m, n \in DOMAIN e : m = n /\ e[m] = kv
    BY <2>1, <2>4, <2>5, <2>8
  <2>11. DOMAIN e = 1..Len(e) /\ Len(e) \in Nat
    BY <2>10
  <2>12. Len(e) = 1
    <3>1. 1 \in DOMAIN e
      BY <2>9, <2>11
    <3>2. ~(2 \in DOMAIN e)
      BY <2>10, <3>1
    <3> QED BY <2>11, <3>1, <3>2
  <2>13. e[1] = kv
    BY <2>10, <2>11, <2>12
  <2> QED BY <2>10, <2>12, <2>13 DEF e
<1>5. ASSUME Range(p) = Range(q)
      PROVE  Encoded(p) = Encoded(q)
  <2>1. ASSUME NEW s PROVE K(s) = {kv[1] : kv \in Range(s)}
    BY DEF Range
  <2>2. K(p) = K(q)
    BY <1>5, <2>1
  <2>3. ASSUME NEW key \in K(p) PROVE E(p, key) = E(q, key)
    <3>0. K(p) = {kv[1] : kv \in Range(p)}
      BY <2>1
    <3> HIDE DEF K
    <3>1. PICK kv \in Range(p) : key = kv[1]
      BY <3>0
    <3>2. E(p, kv[1]) = <<kv>> /\ E(q, kv[1]) = <<kv>>
      BY <1>4, <1>5, <3>1
    <3> HIDE DEF E
    <3> QED BY <3>1, <3>2
  <2>4. Encoded(p) = [key \in K(p) |-> E(p, key)] /\ Encoded(q) = [key \in K(q) |-> E(q, key)]
    BY DEF Encoded
  <2> HIDE DEF K, E
  <2> QED BY <2>2, <2>3, <2>4
<1> QED BY <1>3, <1>5

\* Two links are compared as equal if and only if they connect alike.
LEMMA CanonicalIsConnection ==
  ASSUME NEW l, NEW m, NEW users, NEW others, GoodLink(l, users), GoodLink(m, others)
  PROVE  Canonical(l) = Canonical(m) <=> Connection(l) = Connection(m)
<1> DEFINE C(x) == x.proto = "vmess" /\ x.capital
           E(x) == Encoded(IF x.proto = "ss" THEN << >> ELSE x.params)
           Q(x) == Range(x.params)
           Same == /\ l.proto = m.proto /\ l.user = m.user /\ l.host = m.host
                   /\ C(l) = C(m) /\ l.port = m.port
<1>1. Canonical(l) = Canonical(m) <=> Same /\ E(l) = E(m)
  <2>1. ASSUME NEW x
        PROVE  Canonical(x) = [proto |-> x.proto, user |-> x.user, host |-> x.host,
                               capital |-> C(x), port |-> x.port, params |-> E(x)]
    BY DEF Canonical
  <2> HIDE DEF C, E
  <2> QED BY <2>1
<1>2. Connection(l) = Connection(m) <=> Same /\ Q(l) = Q(m)
  <2>1. ASSUME NEW x
        PROVE  Connection(x) = <<x.proto, x.user, x.host, C(x), x.port, Q(x)>>
    BY DEF Connection
  <2> HIDE DEF C, Q
  <2> QED BY <2>1
<1>3. ASSUME l.proto = m.proto PROVE E(l) = E(m) <=> Q(l) = Q(m)
  <2>1. CASE l.proto = "ss"
    <3>1. Q(l) = Q(m)
      BY <1>3, <2>1 DEF GoodLink
    <3> QED BY <1>3, <2>1, <3>1
  <2>2. CASE l.proto # "ss"
    <3>1. GoodParams(l.params) /\ GoodParams(m.params)
      BY DEF GoodLink
    <3>2. Encoded(l.params) = Encoded(m.params) <=> Range(l.params) = Range(m.params)
      BY <3>1, EncodedIsRange
    <3> QED BY <1>3, <2>2, <3>2
  <2> QED BY <2>1, <2>2
<1> HIDE DEF C, E, Q
<1> QED BY <1>1, <1>2, <1>3

\* Two outputs are said to agree if and only if their links connect alike.
LEMMA ParsedIsConnections ==
  ASSUME NEW s, NEW t, NEW users, NEW others, GoodLinks(s, users), GoodLinks(t, others)
  PROVE  Parsed(s) = Parsed(t) <=> Connections(s) = Connections(t)
<1>1. \A i \in DOMAIN s, j \in DOMAIN t :
        Canonical(s[i]) = Canonical(t[j]) <=> Connection(s[i]) = Connection(t[j])
  BY CanonicalIsConnection DEF GoodLinks
<1>2. Parsed(s) = Parsed(t) <=>
        /\ \A i \in DOMAIN s : \E j \in DOMAIN t : Canonical(s[i]) = Canonical(t[j])
        /\ \A j \in DOMAIN t : \E i \in DOMAIN s : Canonical(s[i]) = Canonical(t[j])
  BY DEF Parsed
<1>3. Connections(s) = Connections(t) <=>
        /\ \A i \in DOMAIN s : \E j \in DOMAIN t : Connection(s[i]) = Connection(t[j])
        /\ \A j \in DOMAIN t : \E i \in DOMAIN s : Connection(s[i]) = Connection(t[j])
  BY DEF Connections
<1> QED BY <1>1, <1>2, <1>3

-----------------------------------------------------------------------------
(* Edits *)

LEMMA OwnRange ==
  ASSUME NEW V, NEW s \in Seq(V)
  PROVE  s \in Seq(Range(s))
<1>1. Len(s) \in Nat /\ s \in [1..Len(s) -> Range(s)]
  BY DEF Range
<1> QED BY <1>1, SeqIs

LEMMA SwappedIs ==
  ASSUME NEW V, NEW s \in Seq(V)
  PROVE  /\ Swapped(s) \in Seq(V) /\ Len(Swapped(s)) = Len(s)
         /\ Len(s) < 2 => Swapped(s) = s
         /\ Len(s) >= 2 => \A i \in 1..Len(s) :
              Swapped(s)[i] = s[IF i = 1 THEN 2 ELSE IF i = 2 THEN 1 ELSE i]
<1>1. DOMAIN s = 1..Len(s) /\ Len(s) \in Nat /\ \A i \in 1..Len(s) : s[i] \in V
  OBVIOUS
<1>2. CASE Len(s) < 2
  BY <1>2 DEF Swapped
<1>3. CASE Len(s) >= 2
  <2> DEFINE x == [s EXCEPT ![1] = s[2]]
  <2>0. x = [i \in 1..Len(s) |-> IF i = 1 THEN s[2] ELSE s[i]]
    BY <1>1
  <2>4. Swapped(s) = [x EXCEPT ![2] = s[1]]
    BY <1>1, <1>3 DEF Swapped
  <2> HIDE DEF x
  <2>5. Swapped(s) = [i \in 1..Len(s) |-> IF i = 2 THEN s[1] ELSE IF i = 1 THEN s[2] ELSE s[i]]
    BY <2>0, <2>4
  <2>1. Swapped(s) = [i \in 1..Len(s) |-> s[IF i = 1 THEN 2 ELSE IF i = 2 THEN 1 ELSE i]]
    BY <2>5
  <2>2. Swapped(s) \in [1..Len(s) -> V]
    BY <1>1, <1>3, <2>1
  <2>3. Swapped(s) \in Seq(V) /\ Len(Swapped(s)) = Len(s)
    BY <1>1, <2>2, SeqIs
  <2> QED BY <1>3, <2>1, <2>3
<1> QED BY <1>1, <1>2, <1>3

\* The same values, each at one place.
LEMMA SwappedSame ==
  ASSUME NEW V, NEW s \in Seq(V)
  PROVE  /\ \A i \in DOMAIN Swapped(s) : \E j \in DOMAIN s : Swapped(s)[i] = s[j]
         /\ Range(Swapped(s)) = Range(s)
         /\ GoodParams(s) => GoodParams(Swapped(s))
<1> DEFINE t == Swapped(s)
           at(i) == IF i = 1 THEN 2 ELSE IF i = 2 THEN 1 ELSE i
<1>0. CASE Len(s) < 2
  BY <1>0, SwappedIs, OwnRange DEF Range
<1>1. CASE Len(s) >= 2
  <2>1. t \in Seq(V) /\ DOMAIN t = 1..Len(s) /\ DOMAIN s = 1..Len(s) /\ Len(s) \in Nat
    BY SwappedIs
  <2>2. \A i \in 1..Len(s) : t[i] = s[at(i)]
    BY <1>1, SwappedIs
  <2>3. \A i \in 1..Len(s) : at(i) \in 1..Len(s) /\ at(at(i)) = i
    BY <1>1, <2>1
  <2> HIDE DEF t, at
  <2>4. Range(t) = Range(s)
    BY <2>1, <2>2, <2>3 DEF Range
  <2>5. t \in Seq(Range(t))
    BY <2>1, OwnRange
  <2>6. ASSUME GoodParams(s), NEW i \in DOMAIN t, NEW j \in DOMAIN t, t[i][1] = t[j][1]
        PROVE  i = j
    <3>1. t[i] = s[at(i)] /\ t[j] = s[at(j)] /\ at(i) \in DOMAIN s /\ at(j) \in DOMAIN s
      BY <2>1, <2>2, <2>3
    <3>2. at(i) = at(j)
      BY <2>6, <3>1 DEF GoodParams
    <3>3. at(at(i)) = i /\ at(at(j)) = j
      BY <2>1, <2>3
    <3> QED BY <3>2, <3>3
  <2>7. GoodParams(s) => GoodParams(t)
    BY <2>5, <2>6 DEF GoodParams
  <2>8. \A i \in DOMAIN t : \E j \in DOMAIN s : t[i] = s[j]
    BY <2>1, <2>2, <2>3
  <2> QED BY <2>4, <2>7, <2>8 DEF t
<1>2. Len(s) \in Nat
  OBVIOUS
<1> QED BY <1>0, <1>1, <1>2

LEMMA FieldEdited ==
  ASSUME NEW l, DOMAIN l = LinkFields, NEW f \in LinkFields, NEW v
  PROVE  /\ DOMAIN [l EXCEPT ![f] = v] = LinkFields
         /\ [l EXCEPT ![f] = v][f] = v
         /\ \A g \in LinkFields : g # f => [l EXCEPT ![f] = v][g] = l[g]
OBVIOUS

\* A good link stays one if a field is edited, to what a good link can have there.
LEMMA LinkEdited ==
  ASSUME NEW l, NEW users, GoodLink(l, users)
  PROVE  /\ \A f \in {"name", "caps", "capital", "form"} : \A v : GoodLink([l EXCEPT ![f] = v], users)
         /\ \A v \in users \cup {"other", ""} : GoodLink([l EXCEPT !["user"] = v], users)
         /\ \A v \in Nat \ {0} : GoodLink([l EXCEPT !["port"] = v], users)
         /\ GoodLink([l EXCEPT !["proto"] = "unknown"], users)
         /\ \A v : GoodParams(v) /\ (l.proto = "ss" => Range(v) = Plugin)
                   => GoodLink([l EXCEPT !["params"] = v], users)
<1>0. DOMAIN l = LinkFields
  BY DEF GoodLink
<1>1. /\ l["proto"] \in Protocols \cup {"unknown"} /\ l["user"] \in users \cup {"other", ""}
      /\ l["host"] # "" /\ l["port"] \in Nat \ {0} /\ GoodParams(l["params"])
      /\ l["proto"] = "ss" => Range(l["params"]) = Plugin
  BY DEF GoodLink
<1> DEFINE Good(x) ==
             /\ x["proto"] \in Protocols \cup {"unknown"} /\ x["user"] \in users \cup {"other", ""}
             /\ x["host"] # "" /\ x["port"] \in Nat \ {0} /\ GoodParams(x["params"])
             /\ x["proto"] = "ss" => Range(x["params"]) = Plugin
<1>2. ASSUME NEW x, DOMAIN x = LinkFields, Good(x)
      PROVE  GoodLink(x, users)
  BY <1>2 DEF GoodLink
<1>3. ASSUME NEW f \in {"name", "caps", "capital", "form"}, NEW v
      PROVE  GoodLink([l EXCEPT ![f] = v], users)
  <2> DEFINE x == [l EXCEPT ![f] = v]
  <2>1. /\ DOMAIN x = LinkFields
        /\ \A g \in LinkFields : g # f => x[g] = l[g]
    BY <1>0, FieldEdited DEF LinkFields
  <2> HIDE DEF x
  <2>2. \A g \in {"proto", "user", "host", "port", "params"} : x[g] = l[g]
    BY <2>1 DEF LinkFields
  <2>3. Good(x)
    BY <1>1, <2>2
  <2> QED BY <1>2, <2>1, <2>3 DEF x
<1>4. ASSUME NEW v \in users \cup {"other", ""}
      PROVE  GoodLink([l EXCEPT !["user"] = v], users)
  <2> DEFINE x == [l EXCEPT !["user"] = v]
  <2>1. /\ DOMAIN x = LinkFields /\ x["user"] = v
        /\ \A g \in LinkFields : g # "user" => x[g] = l[g]
    BY <1>0, FieldEdited DEF LinkFields
  <2> HIDE DEF x
  <2>2. \A g \in {"proto", "host", "port", "params"} : x[g] = l[g]
    BY <2>1 DEF LinkFields
  <2>3. Good(x)
    BY <1>1, <2>1, <2>2
  <2> QED BY <1>2, <2>1, <2>3 DEF x
<1>5. ASSUME NEW v \in Nat \ {0}
      PROVE  GoodLink([l EXCEPT !["port"] = v], users)
  <2> DEFINE x == [l EXCEPT !["port"] = v]
  <2>1. /\ DOMAIN x = LinkFields /\ x["port"] = v
        /\ \A g \in LinkFields : g # "port" => x[g] = l[g]
    BY <1>0, FieldEdited DEF LinkFields
  <2> HIDE DEF x
  <2>2. \A g \in {"proto", "host", "user", "params"} : x[g] = l[g]
    BY <2>1 DEF LinkFields
  <2>3. Good(x)
    BY <1>1, <2>1, <2>2
  <2> QED BY <1>2, <2>1, <2>3 DEF x
<1>6. GoodLink([l EXCEPT !["proto"] = "unknown"], users)
  <2> DEFINE x == [l EXCEPT !["proto"] = "unknown"]
  <2>1. /\ DOMAIN x = LinkFields /\ x["proto"] = "unknown"
        /\ \A g \in LinkFields : g # "proto" => x[g] = l[g]
    BY <1>0, FieldEdited DEF LinkFields
  <2> HIDE DEF x
  <2>2. \A g \in {"port", "host", "user", "params"} : x[g] = l[g]
    BY <2>1 DEF LinkFields
  <2>3. Good(x)
    BY <1>1, <2>1, <2>2
  <2> QED BY <1>2, <2>1, <2>3 DEF x
<1>7. ASSUME NEW v, GoodParams(v), l.proto = "ss" => Range(v) = Plugin
      PROVE  GoodLink([l EXCEPT !["params"] = v], users)
  <2> DEFINE x == [l EXCEPT !["params"] = v]
  <2>1. /\ DOMAIN x = LinkFields /\ x["params"] = v
        /\ \A g \in LinkFields : g # "params" => x[g] = l[g]
    BY <1>0, FieldEdited DEF LinkFields
  <2> HIDE DEF x
  <2>2. \A g \in {"port", "host", "user", "proto"} : x[g] = l[g]
    BY <2>1 DEF LinkFields
  <2>3. Good(x)
    BY <1>1, <1>7, <2>1, <2>2
  <2> QED BY <1>2, <2>1, <2>3 DEF x
<1> QED BY <1>3, <1>4, <1>5, <1>6, <1>7

LEMMA Replaced ==
  ASSUME NEW s, NEW users, GoodLinks(s, users), s # << >>, NEW x, GoodLink(x, users)
  PROVE  GoodLinks([s EXCEPT ![1] = x], users)
<1> DEFINE t == [s EXCEPT ![1] = x]
<1>1. s \in Seq(Range(s)) /\ \A i \in DOMAIN s : GoodLink(s[i], users)
  BY DEF GoodLinks
<1>2. DOMAIN s = 1..Len(s) /\ Len(s) \in Nat
  BY <1>1
<1>3. t \in [1..Len(s) -> Range(s) \cup {x}]
  BY <1>1, <1>2
<1>4. t \in Seq(Range(s) \cup {x})
  BY <1>2, <1>3, SeqIs
<1>5. \A i \in DOMAIN t : t[i] = x \/ (i \in DOMAIN s /\ t[i] = s[i])
  OBVIOUS
<1> HIDE DEF t
<1>6. \A i \in DOMAIN t : GoodLink(t[i], users)
  BY <1>1, <1>5
<1>7. t \in Seq(Range(t))
  BY <1>4, OwnRange
<1> QED BY <1>6, <1>7 DEF t, GoodLinks

\* Links of a good list, in any order and number.
LEMMA SomeOf ==
  ASSUME NEW s, NEW users, GoodLinks(s, users), NEW V, NEW t \in Seq(V),
         \A i \in DOMAIN t : \E j \in DOMAIN s : t[i] = s[j]
  PROVE  GoodLinks(t, users)
<1>1. t \in Seq(Range(t))
  BY OwnRange
<1>2. \A j \in DOMAIN s : GoodLink(s[j], users)
  BY DEF GoodLinks
<1> QED BY <1>1, <1>2 DEF GoodLinks

LEMMA RestyledCases ==
  ASSUME NEW s
  PROVE  /\ Restyled(s, "rename") = [s EXCEPT ![1].name = "renamed"]
         /\ Restyled(s, "repeat") = Append(s, s[1])
         /\ Restyled(s, "swap") = Swapped(s)
         /\ Restyled(s, "shuffle") = [s EXCEPT ![1].params = Swapped(@)]
         /\ Restyled(s, "capitals") = [s EXCEPT ![1].caps = TRUE]
         /\ Restyled(s, "host") = [s EXCEPT ![1].capital = TRUE]
         /\ Restyled(s, "legacy") = [s EXCEPT ![1].form = "legacy"]
BY Zenon DEF Restyled

LEMMA AlteredCases ==
  ASSUME NEW s
  PROVE  /\ Altered(s, "user") = [s EXCEPT ![1].user = "other"]
         /\ Altered(s, "port") = [s EXCEPT ![1].port = 81]
         /\ Altered(s, "param") = [s EXCEPT ![1].params[1] =
                                     IF s[1].proto = "ss" THEN @ ELSE <<@[1], "other">>]
         /\ Altered(s, "fewer") = IF Len(s) < 2 THEN s ELSE Tail(s)
BY Zenon DEF Altered

LEMMA SpoiledCases ==
  ASSUME NEW s
  PROVE  /\ Spoiled(s, "port") = [s EXCEPT ![1].port = MaxPort + 1]
         /\ Spoiled(s, "user") = [s EXCEPT ![1].user = ""]
         /\ Spoiled(s, "scheme") = [s EXCEPT ![1].proto = "unknown"]
         /\ Spoiled(s, "empty") = << >>
BY Zenon DEF Spoiled

\* Whatever is edited, the links stay good ones.
LEMMA RestyledGood ==
  ASSUME NEW s, NEW users, GoodLinks(s, users), s # << >>, NEW how \in Styles
  PROVE  GoodLinks(Restyled(s, how), users)
<1> USE EditsAssumption
<1>1. 1 \in DOMAIN s /\ GoodLink(s[1], users) /\ s \in Seq(Range(s)) /\ s[1] \in Range(s)
  BY DEF GoodLinks, Range
<1>2. \A f \in {"name", "caps", "capital", "form"} : \A v :
        GoodLinks([s EXCEPT ![1] = [s[1] EXCEPT ![f] = v]], users)
  <2> TAKE f \in {"name", "caps", "capital", "form"}
  <2> TAKE v
  <2>1. GoodLink([s[1] EXCEPT ![f] = v], users)
    BY <1>1, LinkEdited
  <2> QED BY <2>1, Replaced
<1>3. CASE how = "rename"
  <2>1. GoodLinks([s EXCEPT ![1] = [s[1] EXCEPT !["name"] = "renamed"]], users)
    BY <1>2
  <2>2. Restyled(s, "rename") = [s EXCEPT ![1] = [s[1] EXCEPT !["name"] = "renamed"]]
    BY <1>1, RestyledCases
  <2> QED BY <1>3, <2>1, <2>2
<1>4. CASE how = "capitals"
  <2>1. GoodLinks([s EXCEPT ![1] = [s[1] EXCEPT !["caps"] = TRUE]], users)
    BY <1>2
  <2>2. Restyled(s, "capitals") = [s EXCEPT ![1] = [s[1] EXCEPT !["caps"] = TRUE]]
    BY <1>1, RestyledCases
  <2> QED BY <1>4, <2>1, <2>2
<1>5. CASE how = "host"
  <2>1. GoodLinks([s EXCEPT ![1] = [s[1] EXCEPT !["capital"] = TRUE]], users)
    BY <1>2
  <2>2. Restyled(s, "host") = [s EXCEPT ![1] = [s[1] EXCEPT !["capital"] = TRUE]]
    BY <1>1, RestyledCases
  <2> QED BY <1>5, <2>1, <2>2
<1>6. CASE how = "legacy"
  <2>1. GoodLinks([s EXCEPT ![1] = [s[1] EXCEPT !["form"] = "legacy"]], users)
    BY <1>2
  <2>2. Restyled(s, "legacy") = [s EXCEPT ![1] = [s[1] EXCEPT !["form"] = "legacy"]]
    BY <1>1, RestyledCases
  <2> QED BY <1>6, <2>1, <2>2
<1>7. CASE how = "shuffle"
  <2> DEFINE p == s[1]["params"]
  <2>1. GoodParams(p) /\ p \in Seq(Range(p)) /\ (s[1].proto = "ss" => Range(p) = Plugin)
    BY <1>1 DEF GoodLink, GoodParams
  <2>2. Range(Swapped(p)) = Range(p) /\ GoodParams(Swapped(p))
    BY <2>1, SwappedSame
  <2> HIDE DEF p
  <2>3. GoodLink([s[1] EXCEPT !["params"] = Swapped(p)], users)
    BY <1>1, <2>1, <2>2, LinkEdited
  <2>4. GoodLinks([s EXCEPT ![1] = [s[1] EXCEPT !["params"] = Swapped(p)]], users)
    BY <2>3, Replaced
  <2>5. [s EXCEPT ![1].params = Swapped(@)] = [s EXCEPT ![1] = [s[1] EXCEPT !["params"] = Swapped(p)]]
    BY <1>1 DEF p
  <2> QED BY <1>7, <2>4, <2>5, RestyledCases
<1>8. CASE how = "swap"
  <2>1. Swapped(s) \in Seq(Range(s)) /\ \A i \in DOMAIN Swapped(s) : \E j \in DOMAIN s : Swapped(s)[i] = s[j]
    BY <1>1, SwappedIs, SwappedSame
  <2>2. GoodLinks(Swapped(s), users)
    BY <2>1, SomeOf
  <2> QED BY <1>8, <2>2, RestyledCases
<1>9. CASE how = "repeat"
  <2>1. /\ Append(s, s[1]) \in Seq(Range(s))
        /\ \A i \in DOMAIN Append(s, s[1]) : \E j \in DOMAIN s : Append(s, s[1])[i] = s[j]
    BY <1>1
  <2>2. GoodLinks(Append(s, s[1]), users)
    <3> DEFINE t == Append(s, s[1])
    <3> HIDE DEF t
    <3>1. t \in Seq(Range(s)) /\ \A i \in DOMAIN t : \E j \in DOMAIN s : t[i] = s[j]
      BY <2>1 DEF t
    <3>2. GoodLinks(t, users)
      BY <3>1, SomeOf
    <3> QED BY <3>2 DEF t
  <2> QED BY <1>9, <2>2, RestyledCases
<1> QED BY <1>3, <1>4, <1>5, <1>6, <1>7, <1>8, <1>9

LEMMA AlteredGood ==
  ASSUME NEW s, NEW users, GoodLinks(s, users), s # << >>, NEW how \in Alterations
  PROVE  GoodLinks(Altered(s, how), users)
<1> USE EditsAssumption
<1>1. 1 \in DOMAIN s /\ GoodLink(s[1], users) /\ s \in Seq(Range(s)) /\ s[1] \in Range(s)
  BY DEF GoodLinks, Range
<1>2. CASE how = "user"
  <2>1. GoodLink([s[1] EXCEPT !["user"] = "other"], users)
    BY <1>1, LinkEdited
  <2>2. GoodLinks([s EXCEPT ![1] = [s[1] EXCEPT !["user"] = "other"]], users)
    BY <2>1, Replaced
  <2>3. Altered(s, "user") = [s EXCEPT ![1] = [s[1] EXCEPT !["user"] = "other"]]
    BY <1>1, AlteredCases
  <2> QED BY <1>2, <2>2, <2>3
<1>3. CASE how = "port"
  <2>0. 81 \in Nat \ {0}
    OBVIOUS
  <2>1. GoodLink([s[1] EXCEPT !["port"] = 81], users)
    BY <1>1, <2>0, LinkEdited
  <2>2. GoodLinks([s EXCEPT ![1] = [s[1] EXCEPT !["port"] = 81]], users)
    BY <2>1, Replaced
  <2>3. Altered(s, "port") = [s EXCEPT ![1] = [s[1] EXCEPT !["port"] = 81]]
    BY <1>1, AlteredCases
  <2> QED BY <1>3, <2>2, <2>3
<1>4. CASE how = "param"
  <2> DEFINE p == s[1]["params"]
             kv == IF s[1].proto = "ss" THEN p[1] ELSE <<p[1][1], "other">>
             q == [p EXCEPT ![1] = kv]
  <2>1. GoodParams(p) /\ p \in Seq(Range(p)) /\ (s[1].proto = "ss" => Range(p) = Plugin)
    BY <1>1 DEF GoodLink, GoodParams
  <2>2. kv[1] = p[1][1]
    OBVIOUS
  <2>3. s[1].proto = "ss" => kv = p[1]
    OBVIOUS
  <2>8. [s EXCEPT ![1].params[1] = IF s[1].proto = "ss" THEN @ ELSE <<@[1], "other">>]
        = [s EXCEPT ![1] = [s[1] EXCEPT !["params"] = q]]
    BY <1>1
  <2> HIDE DEF p, kv
  <2>4. GoodParams(q)
    <3>0. DOMAIN p = 1..Len(p) /\ Len(p) \in Nat /\ p = [i \in 1..Len(p) |-> p[i]]
      BY <2>1
    <3>5. \A i \in 1..Len(p) : p[i] \in Range(p)
      BY <3>0 DEF Range
    <3>1. q \in [1..Len(p) -> Range(p) \cup {kv}] /\ Len(p) \in Nat
      BY <3>0, <3>5
    <3> HIDE DEF q
    <3>2. q \in Seq(Range(p) \cup {kv})
      BY <3>1, SeqIs
    <3>3. q \in Seq(Range(q))
      BY <3>2, OwnRange
    <3>4. DOMAIN q = DOMAIN p /\ \A i \in DOMAIN p : q[i][1] = p[i][1]
      BY <2>1, <2>2 DEF q
    <3> QED BY <2>1, <3>3, <3>4 DEF GoodParams
  <2>5. s[1].proto = "ss" => q = p
    BY <2>1, <2>3
  <2> HIDE DEF q
  <2>6. GoodLink([s[1] EXCEPT !["params"] = q], users)
    BY <1>1, <2>1, <2>4, <2>5, LinkEdited
  <2>7. GoodLinks([s EXCEPT ![1] = [s[1] EXCEPT !["params"] = q]], users)
    BY <2>6, Replaced
  <2> QED BY <1>4, <2>7, <2>8, AlteredCases
<1>5. CASE how = "fewer"
  <2>1. CASE Len(s) < 2
    BY <1>5, <2>1, AlteredCases
  <2>2. CASE Len(s) >= 2
    <3>1. Tail(s) \in Seq(Range(s)) /\ \A i \in DOMAIN Tail(s) : i + 1 \in DOMAIN s /\ Tail(s)[i] = s[i + 1]
      BY <1>1, <2>2
    <3>2. GoodLinks(Tail(s), users)
      BY <3>1, SomeOf
    <3>3. Altered(s, "fewer") = Tail(s)
      <4>1. ~(Len(s) < 2)
        BY <1>1, <2>2
      <4> QED BY <4>1, AlteredCases
    <3> QED BY <1>5, <3>2, <3>3
  <2>3. Len(s) \in Nat
    BY <1>1
  <2> QED BY <2>1, <2>2, <2>3
<1> QED BY <1>2, <1>3, <1>4, <1>5

LEMMA SpoiledGood ==
  ASSUME NEW s, NEW users, GoodLinks(s, users), s # << >>, NEW how \in Defects
  PROVE  GoodLinks(Spoiled(s, how), users)
<1> USE EditsAssumption
<1>1. 1 \in DOMAIN s /\ GoodLink(s[1], users) /\ s \in Seq(Range(s)) /\ s[1] \in Range(s)
  BY DEF GoodLinks, Range
<1>2. CASE how = "user"
  <2>1. GoodLink([s[1] EXCEPT !["user"] = ""], users)
    BY <1>1, LinkEdited
  <2>2. GoodLinks([s EXCEPT ![1] = [s[1] EXCEPT !["user"] = ""]], users)
    BY <2>1, Replaced
  <2>3. Spoiled(s, "user") = [s EXCEPT ![1] = [s[1] EXCEPT !["user"] = ""]]
    BY <1>1, SpoiledCases
  <2> QED BY <1>2, <2>2, <2>3
<1>3. CASE how = "port"
  <2>0. MaxPort + 1 \in Nat \ {0}
    BY MaxPortType
  <2>1. GoodLink([s[1] EXCEPT !["port"] = MaxPort + 1], users)
    BY <1>1, <2>0, LinkEdited
  <2>2. GoodLinks([s EXCEPT ![1] = [s[1] EXCEPT !["port"] = MaxPort + 1]], users)
    BY <2>1, Replaced
  <2>3. Spoiled(s, "port") = [s EXCEPT ![1] = [s[1] EXCEPT !["port"] = MaxPort + 1]]
    BY <1>1, SpoiledCases
  <2> QED BY <1>3, <2>2, <2>3
<1>4. CASE how = "scheme"
  <2>1. GoodLink([s[1] EXCEPT !["proto"] = "unknown"], users)
    BY <1>1, LinkEdited
  <2>2. GoodLinks([s EXCEPT ![1] = [s[1] EXCEPT !["proto"] = "unknown"]], users)
    BY <2>1, Replaced
  <2>3. Spoiled(s, "scheme") = [s EXCEPT ![1] = [s[1] EXCEPT !["proto"] = "unknown"]]
    BY <1>1, SpoiledCases
  <2> QED BY <1>4, <2>2, <2>3
<1>5. CASE how = "empty"
  <2>1. << >> \in Seq({}) /\ DOMAIN << >> = {}
    OBVIOUS
  <2>2. GoodLinks(<< >>, users)
    BY <2>1, OwnRange DEF GoodLinks
  <2> QED BY <1>5, <2>2, SpoiledCases
<1> QED BY <1>2, <1>3, <1>4, <1>5

-----------------------------------------------------------------------------
(* The panel before it is edited *)

\* What clients are attached to: all of it, in the order of the digests.
LEMMA PairsAre ==
  ASSUME NEW S \in SUBSET Clients
  PROVE  /\ Pairs(S) \in Seq(Range(DrawOrder))
         /\ \A i \in DOMAIN Pairs(S) : Pairs(S)[i][2] \in S
                                       /\ Pairs(S)[i][1] \in Accounts[Pairs(S)[i][2]].inbounds
         /\ \A c \in S : \A in \in Accounts[c].inbounds :
              \E i \in DOMAIN Pairs(S) : Pairs(S)[i] = <<in, c>>
<1>1. DrawOrder \in Seq(Range(DrawOrder)) /\ Attached(Clients) \subseteq Range(DrawOrder)
  BY OrderAssumption
<1>2. /\ Pairs(S) \in Seq(Range(DrawOrder))
      /\ \A k \in DOMAIN Pairs(S) : Pairs(S)[k] \in Attached(S)
      /\ \A i \in DOMAIN DrawOrder : DrawOrder[i] \in Attached(S) =>
           \E k \in DOMAIN Pairs(S) : Pairs(S)[k] = DrawOrder[i]
  BY <1>1, ThoseMembers DEF Pairs
<1>3. \A x \in Attached(S) : x[2] \in S /\ x[1] \in Accounts[x[2]].inbounds
  BY DEF Attached
<1>4. ASSUME NEW c \in S, NEW in \in Accounts[c].inbounds
      PROVE  \E i \in DOMAIN Pairs(S) : Pairs(S)[i] = <<in, c>>
  <2>1. <<in, c>> \in Attached(S) /\ <<in, c>> \in Attached(Clients)
    BY DEF Attached
  <2>2. PICK i \in DOMAIN DrawOrder : DrawOrder[i] = <<in, c>>
    BY <1>1, <2>1 DEF Range
  <2> QED BY <1>2, <2>1, <2>2
<1> QED BY <1>2, <1>3, <1>4

LEMMA LinkGood ==
  ASSUME NEW c \in Clients, NEW in \in Accounts[c].inbounds
  PROVE  /\ \A users : c \in users => GoodLink(LinkOf(c, in), users)
         /\ SoundLink(LinkOf(c, in))
<1> DEFINE l == LinkOf(c, in)
<1>1. /\ DOMAIN l = LinkFields /\ l.user = c /\ ~l.caps
      /\ l.proto \in Protocols /\ l.host # "" /\ l.port \in 1..MaxPort
      /\ l.params \in Seq(Range(l.params))
      /\ \A i, j \in DOMAIN l.params : l.params[i][1] = l.params[j][1] => i = j
  BY LinksAssumption, Zenon DEF Proper
<1>2. c # ""
  BY LinksAssumption
<1>3. l.proto = "ss" => Range(l.params) = Plugin
  <2> SUFFICES ASSUME l.proto = "ss" PROVE Range(l.params) = Plugin
    OBVIOUS
  <2> DEFINE Has(P) == \A d \in Clients : \A jn \in Accounts[d].inbounds :
                         LinkOf(d, jn).proto = "ss" => Range(LinkOf(d, jn).params) = P
  <2>0. \A d \in Clients : \A jn \in Accounts[d].inbounds :
          l.proto = "ss" /\ LinkOf(d, jn).proto = "ss" => Range(l.params) = Range(LinkOf(d, jn).params)
    BY LinksAssumption
  <2>1. Has(Range(l.params))
    <3> HIDE DEF l
    <3> QED BY <2>0
  <2>2. Plugin = CHOOSE P : Has(P)
    BY DEF Plugin
  <2> HIDE DEF Has
  <2>3. Has(Plugin)
    BY <2>1, <2>2
  <2> QED BY <2>3 DEF Has
<1> HIDE DEF l
<1>5. l.port \in Nat \ {0} /\ l.port <= MaxPort
  <2>1. l.port \in 1..MaxPort
    BY <1>1
  <2> QED BY <2>1, MaxPortType
<1>6. ASSUME NEW users, c \in users
      PROVE  GoodLink(l, users)
  <2>1. GoodParams(l.params)
    BY <1>1 DEF GoodParams
  <2>2. l.port \in Nat \ {0}
    BY <1>5
  <2>3. l.user \in users \cup {"other", ""}
    BY <1>1, <1>6
  <2>4. l.proto \in Protocols /\ l.host # ""
    BY <1>1
  <2> QED BY <1>1, <1>3, <2>1, <2>2, <2>3, <2>4, Zenon DEF GoodLink
<1>7. SoundLink(l)
  <2>1. l.port <= MaxPort
    BY <1>5
  <2>2. l.proto # "unknown"
    BY <1>1 DEF Protocols, Hysteria
  <2> QED BY <1>1, <1>2, <2>1, <2>2, Zenon DEF SoundLink
<1> QED BY <1>6, <1>7 DEF l

LEMMA OwnersAre ==
  /\ \A o \in Outputs : Owners(o) \in SUBSET Clients
  /\ \A c \in Clients : /\ <<"share", c>> \in Outputs /\ <<"sub", Accounts[c].sub>> \in Outputs
                        /\ <<"raw", Accounts[c].sub>> \in Outputs
                        /\ Owners(<<"share", c>>) = {c}
                        /\ Owners(<<"sub", Accounts[c].sub>>) = SharesOf(Accounts[c].sub)
                        /\ Owners(<<"raw", Accounts[c].sub>>) = SharesOf(Accounts[c].sub)
                        /\ c \in SharesOf(Accounts[c].sub)
<1>1. ASSUME NEW o \in Outputs PROVE Owners(o) \in SUBSET Clients
  <2>1. CASE o[1] = "share"
    <3>1. o[2] \in Clients
      BY <2>1 DEF Outputs
    <3> QED BY <2>1, <3>1 DEF Owners
  <2>2. CASE o[1] # "share"
    BY <2>2 DEF Owners, SharesOf
  <2> QED BY <2>1, <2>2
<1>2. \A c \in Clients : /\ <<"share", c>> \in Outputs /\ <<"sub", Accounts[c].sub>> \in Outputs
                         /\ <<"raw", Accounts[c].sub>> \in Outputs
                         /\ c \in SharesOf(Accounts[c].sub)
  BY DEF Outputs, SharesOf
<1>3. \A x : /\ <<"share", x>>[1] = "share" /\ <<"share", x>>[2] = x
             /\ <<"sub", x>>[1] # "share" /\ <<"sub", x>>[2] = x
             /\ <<"raw", x>>[1] # "share" /\ <<"raw", x>>[2] = x
  OBVIOUS
<1>4. \A x : Owners(<<"share", x>>) = {x} /\ Owners(<<"sub", x>>) = SharesOf(x)
             /\ Owners(<<"raw", x>>) = SharesOf(x)
  BY <1>3 DEF Owners
<1> QED BY <1>1, <1>2, <1>4

LEMMA GenuineGood ==
  ASSUME NEW o \in Outputs
  PROVE  /\ GoodLinks(Genuine(o), Owners(o))
         /\ \A i \in DOMAIN Genuine(o) : SoundLink(Genuine(o)[i])
<1> DEFINE S == Owners(o)
           P == Pairs(S)
<1>1. S \in SUBSET Clients
  BY OwnersAre
<1> HIDE DEF S
<1>2. /\ P \in Seq(Range(DrawOrder))
      /\ \A i \in DOMAIN P : P[i][2] \in S /\ P[i][1] \in Accounts[P[i][2]].inbounds
  BY <1>1, PairsAre
<1>3. Genuine(o) = [i \in DOMAIN P |-> LinkOf(P[i][2], P[i][1])]
  BY DEF Genuine, LinksOf, S
<1> HIDE DEF P
<1>4. DOMAIN P = 1..Len(P) /\ Len(P) \in Nat
  BY <1>2
<1> DEFINE t == Genuine(o)
<1>5. ASSUME NEW i \in DOMAIN P
      PROVE  GoodLink(t[i], S) /\ SoundLink(t[i])
  <2>1. P[i][2] \in Clients /\ P[i][1] \in Accounts[P[i][2]].inbounds /\ P[i][2] \in S
    BY <1>1, <1>2
  <2>2. t[i] = LinkOf(P[i][2], P[i][1])
    BY <1>3
  <2>3. GoodLink(LinkOf(P[i][2], P[i][1]), S) /\ SoundLink(LinkOf(P[i][2], P[i][1]))
    BY <2>1, LinkGood
  <2> QED BY <2>2, <2>3
<1>6. DOMAIN t = DOMAIN P
  BY <1>3
<1> HIDE DEF t
<1>7. t \in Seq(Range(t))
  <2>1. t = [i \in 1..Len(P) |-> t[i]]
    BY <1>3, <1>4 DEF t
  <2>2. t \in [1..Len(P) -> Range(t)]
    BY <2>1 DEF Range
  <2> QED BY <1>4, <2>2, SeqIs
<1> QED BY <1>5, <1>6, <1>7 DEF GoodLinks, S, t

-----------------------------------------------------------------------------
(* Samples and requests *)

LEMMA CandidatesAre ==
  /\ Candidates \in Seq(Range(Candidates))
  /\ \A i \in DOMAIN Candidates :
       /\ Candidates[i].client \in Clients
       /\ Candidates[i].stratum \in Accounts[Candidates[i].client].inbounds
       /\ Candidates[i].rank = <<Candidates[i].stratum, Accounts[Candidates[i].client].sub>>
  /\ \A c \in Clients : \A in \in Accounts[c].inbounds :
       \E i \in DOMAIN Candidates : Candidates[i].client = c /\ Candidates[i].stratum = in
<1> DEFINE P == Pairs(Clients)
           C == Candidates
<1>1. /\ P \in Seq(Range(DrawOrder))
      /\ \A i \in DOMAIN P : P[i][2] \in Clients /\ P[i][1] \in Accounts[P[i][2]].inbounds
      /\ \A c \in Clients : \A in \in Accounts[c].inbounds : \E i \in DOMAIN P : P[i] = <<in, c>>
  BY PairsAre
<1>2. /\ DOMAIN C = DOMAIN P
      /\ \A i \in DOMAIN P : C[i] = [stratum |-> P[i][1], rank |-> <<P[i][1], Accounts[P[i][2]].sub>>,
                                     client |-> P[i][2]]
      /\ C = [i \in DOMAIN P |-> C[i]]
  BY DEF Candidates
<1> HIDE DEF P, C
<1>3. \A i \in DOMAIN P : /\ C[i].stratum = P[i][1] /\ C[i].client = P[i][2]
                          /\ C[i].rank = <<C[i].stratum, Accounts[C[i].client].sub>>
  BY <1>2
<1>4. C \in Seq(Range(C))
  <2>1. DOMAIN P = 1..Len(P) /\ Len(P) \in Nat
    BY <1>1
  <2>2. C \in [1..Len(P) -> Range(C)]
    BY <1>2, <2>1 DEF Range
  <2> QED BY <2>1, <2>2, SeqIs
<1>5. ASSUME NEW c \in Clients, NEW in \in Accounts[c].inbounds
      PROVE  \E i \in DOMAIN C : C[i].client = c /\ C[i].stratum = in
  <2>1. PICK i \in DOMAIN P : P[i] = <<in, c>>
    BY <1>1
  <2>2. P[i][1] = in /\ P[i][2] = c
    BY <2>1
  <2> QED BY <1>2, <1>3, <2>2
<1> QED BY <1>1, <1>2, <1>3, <1>4, <1>5 DEF C

\* What was drawn, whatever was dealt.
Drawn(s) == s = << >> \/ s = Select(Candidates, SampleCap)

LEMMA DrawnAre ==
  ASSUME NEW s, Drawn(s)
  PROVE  /\ s \in Seq(Range(Candidates)) /\ Len(s) <= SampleCap
         /\ \A i \in DOMAIN s : /\ s[i].client \in Clients
                                /\ s[i].stratum \in Accounts[s[i].client].inbounds
<1>1. SampleCap \in Nat
  BY OrderAssumption
<1>2. Candidates \in Seq(Range(Candidates))
  BY CandidatesAre
<1>3. CASE s = << >>
  BY <1>1, <1>3
<1>4. CASE s = Select(Candidates, SampleCap)
  <2>1. s \in Seq(Range(Candidates)) /\ Len(s) <= SampleCap /\ \A i \in DOMAIN s : s[i] \in Range(Candidates)
    BY <1>1, <1>2, <1>4, SelectGood
  <2>2. \A x \in Range(Candidates) : x.client \in Clients /\ x.stratum \in Accounts[x.client].inbounds
    BY CandidatesAre DEF Range
  <2> QED BY <2>1, <2>2
<1> QED BY <1>3, <1>4 DEF Drawn

\* What a run asks for: for every sample a share, a subscription, and the raw one.
LEMMA RequestsAre ==
  ASSUME Drawn(samples)
  PROVE  LET n == Len(samples)
         IN /\ n \in Nat /\ DOMAIN samples = 1..n
            /\ Requests \in Seq(Outputs)
            /\ Len(Requests) = IF External THEN 3 * n ELSE 2 * n
            /\ \A k \in DOMAIN samples :
                 /\ 2 * k - 1 \in DOMAIN Requests
                 /\ Requests[2 * k - 1] = <<"share", samples[k].client>>
                 /\ 2 * k \in DOMAIN Requests
                 /\ Requests[2 * k] = <<"sub", Accounts[samples[k].client].sub>>
                 /\ External => /\ 2 * n + k \in DOMAIN Requests
                                /\ Requests[2 * n + k] = <<"raw", Accounts[samples[k].client].sub>>
<1> DEFINE n == Len(samples)
           m == (IF External THEN 3 ELSE 2) * n
           share(c) == <<"share", c>>
           sub(c) == <<"sub", Accounts[c].sub>>
           raw(c) == <<"raw", Accounts[c].sub>>
           at(k) == samples[k].client
<1>1. n \in Nat /\ DOMAIN samples = 1..n
  BY DrawnAre
<1>2. \A k \in DOMAIN samples : at(k) \in Clients
  BY DrawnAre
<1>3. m \in Nat /\ m = IF External THEN 3 * n ELSE 2 * n
  BY <1>1
<1>4. /\ DOMAIN Requests = 1..m
      /\ \A k \in 1..m : Requests[k] = IF k > 2 * n THEN raw(at(k - 2 * n))
                                       ELSE IF k % 2 = 1 THEN share(at((k + 1) \div 2))
                                       ELSE sub(at(k \div 2))
      /\ Requests = [k \in 1..m |-> Requests[k]]
  BY DEF Requests
<1>5. \A c \in Clients : share(c) \in Outputs /\ sub(c) \in Outputs /\ raw(c) \in Outputs
  BY OwnersAre
<1> HIDE DEF n, m, share, sub, raw, at
<1>6. \A k \in 1..m :
        /\ k > 2 * n => k - 2 * n \in 1..n
        /\ k <= 2 * n /\ k % 2 = 1 => (k + 1) \div 2 \in 1..n
        /\ k <= 2 * n /\ k % 2 # 1 => k \div 2 \in 1..n
  <2> TAKE k \in 1..m
  <2>1. k \in Nat /\ k >= 1 /\ k <= 3 * n
    BY <1>1, <1>3
  <2>2. k > 2 * n => k - 2 * n \in 1..n
    BY <1>1, <2>1
  <2>3. k <= 2 * n /\ k % 2 = 1 => (k + 1) \div 2 \in 1..n
    BY <1>1, <2>1, Z3
  <2>4. k <= 2 * n /\ k % 2 # 1 => k \div 2 \in 1..n
    BY <1>1, <2>1, Z3
  <2> QED BY <2>2, <2>3, <2>4
<1>7. \A k \in 1..m : Requests[k] \in Outputs
  <2> TAKE k \in 1..m
  <2>1. CASE k > 2 * n
    BY <1>1, <1>2, <1>4, <1>5, <1>6, <2>1
  <2>2. CASE ~(k > 2 * n) /\ k % 2 = 1
    <3>1. k <= 2 * n
      BY <1>1, <1>3, <2>2
    <3> QED BY <1>1, <1>2, <1>4, <1>5, <1>6, <2>2, <3>1
  <2>3. CASE ~(k > 2 * n) /\ k % 2 # 1
    <3>1. k <= 2 * n
      BY <1>1, <1>3, <2>3
    <3> QED BY <1>1, <1>2, <1>4, <1>5, <1>6, <2>3, <3>1
  <2> QED BY <2>1, <2>2, <2>3
<1>8. Requests \in Seq(Outputs) /\ Len(Requests) = m
  <2>1. Requests \in [1..m -> Outputs]
    BY <1>4, <1>7
  <2> QED BY <1>3, <2>1, SeqIs
<1>9. ASSUME NEW k \in 1..n
      PROVE  /\ 2 * k - 1 \in 1..m /\ ~(2 * k - 1 > 2 * n) /\ (2 * k - 1) % 2 = 1
             /\ ((2 * k - 1) + 1) \div 2 = k
             /\ 2 * k \in 1..m /\ ~(2 * k > 2 * n) /\ (2 * k) % 2 # 1 /\ (2 * k) \div 2 = k
             /\ External => 2 * n + k \in 1..m /\ 2 * n + k > 2 * n /\ 2 * n + k - 2 * n = k
  <2>1. k \in Nat /\ k >= 1 /\ k <= n
    BY <1>1
  <2>2. m >= 2 * n /\ m \in Nat /\ (External => m = 3 * n)
    BY <1>1, <1>3
  <2>3. (2 * k - 1) % 2 = 1 /\ ((2 * k - 1) + 1) \div 2 = k /\ (2 * k) % 2 # 1 /\ (2 * k) \div 2 = k
    BY <2>1, Z3
  <2> QED BY <1>1, <2>1, <2>2, <2>3
<1>10. \A k \in 1..n : /\ Requests[2 * k - 1] = share(at(k)) /\ Requests[2 * k] = sub(at(k))
                       /\ External => Requests[2 * n + k] = raw(at(k))
  <2> TAKE k \in 1..n
  <2>1. Requests[2 * k - 1] = share(at(k))
    BY <1>4, <1>9
  <2>2. Requests[2 * k] = sub(at(k))
    BY <1>4, <1>9
  <2>3. ASSUME External PROVE Requests[2 * n + k] = raw(at(k))
    <3> DEFINE j == 2 * n + k
    <3>0. m = 3 * n
      BY <1>3, <2>3
    <3>1. j \in 1..m /\ j > 2 * n /\ j - 2 * n = k
      BY <1>1, <3>0
    <3> HIDE DEF j
    <3>2. Requests[j] = raw(at(j - 2 * n))
      BY <1>4, <3>1
    <3> QED BY <3>1, <3>2 DEF j
  <2> QED BY <2>1, <2>2, <2>3
<1>11. \A k \in DOMAIN samples :
         /\ 2 * k - 1 \in DOMAIN Requests /\ 2 * k \in DOMAIN Requests
         /\ External => 2 * n + k \in DOMAIN Requests
  BY <1>1, <1>4, <1>9
<1> QED BY <1>1, <1>3, <1>8, <1>10, <1>11 DEF n, share, sub, raw, at

-----------------------------------------------------------------------------
(* The inductive invariant *)

LinksTyped ==
  /\ DOMAIN served = Outputs /\ \A o \in Outputs : GoodLinks(served[o], Owners(o))
  /\ coding \in [Outputs -> {"plain", "base64", "cut"}]
  /\ Drawn(samples)
  /\ heard \in Seq(Range(heard)) /\ Len(heard) <= Len(Requests)
  /\ edits \in 0..MaxEdits /\ lost \in 0..MaxLost /\ meanwhile \in SUBSET Clients

\* What nobody edited is as it was.
Untouched ==
  edits = 0 => meanwhile = {} /\ \A o \in Outputs : served[o] = Genuine(o) /\ coding[o] = "plain"

NotYet == samples = << >> => heard = << >> /\ meanwhile = {}

\* What was read is what is served, if none of its clients is edited meanwhile.
Told(h, o) == h.links = served[o] /\ h.coding = coding[o]
Answered ==
  \A k \in DOMAIN heard :
    /\ heard[k].read \in BOOLEAN
    /\ lost = 0 => heard[k].read
    /\ heard[k].read /\ Owners(Requests[k]) \cap meanwhile = {} => Told(heard[k], Requests[k])

LinkInv == LinksTyped /\ Untouched /\ NotYet /\ Answered

LEMMA LinkInit == Init => LinkInv
<1> SUFFICES ASSUME Init PROVE LinkInv
  OBVIOUS
<1>1. /\ served = [o \in Outputs |-> Genuine(o)] /\ coding = [o \in Outputs |-> "plain"]
      /\ samples = << >> /\ heard = << >> /\ edits = 0 /\ lost = 0 /\ meanwhile = {}
  BY DEF Init
<1>2. LinksTyped
  <2>1. DOMAIN served = Outputs /\ \A o \in Outputs : GoodLinks(served[o], Owners(o))
    BY <1>1, GenuineGood
  <2>2. coding \in [Outputs -> {"plain", "base64", "cut"}] /\ meanwhile \in SUBSET Clients
    BY <1>1
  <2>3. Drawn(samples)
    BY <1>1 DEF Drawn
  <2>4. heard \in Seq(Range(heard)) /\ Len(heard) <= Len(Requests)
    <3>1. heard \in Seq({}) /\ Len(heard) = 0
      BY <1>1
    <3>2. Len(Requests) \in Nat
      BY <2>3, RequestsAre
    <3> QED BY <3>1, <3>2, OwnRange
  <2>5. edits \in 0..MaxEdits /\ lost \in 0..MaxLost
    BY <1>1, OrderAssumption
  <2> QED BY <2>1, <2>2, <2>3, <2>4, <2>5 DEF LinksTyped
<1>3. Untouched
  BY <1>1 DEF Untouched
<1>4. NotYet
  BY <1>1 DEF NotYet
<1>5. Answered
  <2>1. DOMAIN heard = {}
    BY <1>1
  <2> QED BY <2>1 DEF Answered
<1> QED BY <1>2, <1>3, <1>4, <1>5 DEF LinkInv

\* Before the run begins, the links of one output become other good ones.
LEMMA EditStep ==
  ASSUME LinkInv, NEW o \in Outputs, NEW links, Edit(o, links),
         served[o] # << >> => GoodLinks(links, Owners(o))
  PROVE  LinkInv'
<1> USE DEF LinkInv
<1>1. /\ samples = << >> /\ served[o] # << >> /\ served' = [served EXCEPT ![o] = links]
      /\ edits < MaxEdits /\ edits' = edits + 1
      /\ coding' = coding /\ samples' = samples /\ heard' = heard /\ lost' = lost
      /\ meanwhile' = meanwhile
  BY DEF Edit
<1>2. Requests' = Requests
  BY <1>1 DEF Requests
<1>3. edits' \in 0..MaxEdits /\ edits' # 0
  <2>1. edits \in 0..MaxEdits /\ MaxEdits \in Nat
    BY OrderAssumption DEF LinksTyped
  <2> QED BY <1>1, <2>1
<1>4. DOMAIN heard = {}
  <2>1. heard = << >>
    BY <1>1 DEF NotYet
  <2> QED BY <2>1
<1>5. LinksTyped'
  <2>1. DOMAIN served' = Outputs /\ \A p \in Outputs : GoodLinks(served'[p], Owners(p))
    BY <1>1 DEF LinksTyped
  <2>2. Drawn(samples)'
    BY <1>1 DEF LinksTyped, Drawn
  <2> QED BY <1>1, <1>2, <1>3, <2>1, <2>2 DEF LinksTyped
<1>6. Untouched'
  BY <1>3 DEF Untouched
<1>7. NotYet'
  BY <1>1 DEF NotYet
<1>8. Answered'
  BY <1>1, <1>4 DEF Answered
<1> QED BY <1>5, <1>6, <1>7, <1>8

LEMMA EncodeStep ==
  ASSUME LinkInv, NEW s, Encode(s)
  PROVE  LinkInv'
<1> USE DEF LinkInv
<1>1. /\ samples = << >> /\ edits < MaxEdits /\ edits' = edits + 1
      /\ \E how \in {"base64", "cut"} : coding' = [coding EXCEPT ![<<"raw", s>>] = how]
      /\ served' = served /\ samples' = samples /\ heard' = heard /\ lost' = lost
      /\ meanwhile' = meanwhile
  BY DEF Encode
<1>2. Requests' = Requests
  BY <1>1 DEF Requests
<1>3. edits' \in 0..MaxEdits /\ edits' # 0
  <2>1. edits \in 0..MaxEdits /\ MaxEdits \in Nat
    BY OrderAssumption DEF LinksTyped
  <2> QED BY <1>1, <2>1
<1>4. DOMAIN heard = {}
  <2>1. heard = << >>
    BY <1>1 DEF NotYet
  <2> QED BY <2>1
<1>5. LinksTyped'
  <2>1. coding' \in [Outputs -> {"plain", "base64", "cut"}]
    BY <1>1 DEF LinksTyped
  <2>2. Drawn(samples)'
    BY <1>1 DEF LinksTyped, Drawn
  <2> QED BY <1>1, <1>2, <1>3, <2>1, <2>2 DEF LinksTyped
<1>6. Untouched'
  BY <1>3 DEF Untouched
<1>7. NotYet'
  BY <1>1 DEF NotYet
<1>8. Answered'
  BY <1>1, <1>4 DEF Answered
<1> QED BY <1>5, <1>6, <1>7, <1>8

\* What the operator does to the links of others: nothing.
LEMMA OperateStep ==
  ASSUME LinkInv, NEW c \in Clients, Operate(c)
  PROVE  LinkInv'
<1> USE DEF LinkInv
<1> DEFINE new(l) == IF l.user = c THEN [l EXCEPT !.port = 82] ELSE l
<1>1. /\ samples # << >> /\ edits < MaxEdits /\ edits' = edits + 1
      /\ served' = [o \in Outputs |-> [i \in DOMAIN served[o] |-> new(served[o][i])]]
      /\ coding' = coding /\ samples' = samples /\ heard' = heard /\ lost' = lost
      /\ meanwhile' = meanwhile \cup {c}
  BY DEF Operate
<1>2. Requests' = Requests
  BY <1>1 DEF Requests
<1>3. edits' \in 0..MaxEdits /\ edits' # 0
  <2>1. edits \in 0..MaxEdits /\ MaxEdits \in Nat
    BY OrderAssumption DEF LinksTyped
  <2> QED BY <1>1, <2>1
<1>4. ASSUME NEW l, NEW users, GoodLink(l, users)
      PROVE  GoodLink(new(l), users) /\ (c \notin users => new(l) = l)
  <2>1. 82 \in Nat \ {0}
    OBVIOUS
  <2>2. GoodLink([l EXCEPT !["port"] = 82], users)
    BY <1>4, <2>1, LinkEdited
  <2>3. GoodLink(new(l), users)
    BY <1>4, <2>2
  <2>4. l.user \in users \cup {"other", ""}
    BY <1>4 DEF GoodLink
  <2>5. c # "other" /\ c # ""
    BY LinksAssumption
  <2>6. c \notin users => l.user # c
    BY <2>4, <2>5
  <2> QED BY <2>3, <2>6
<1> HIDE DEF new
<1>5. ASSUME NEW o \in Outputs
      PROVE  GoodLinks(served'[o], Owners(o)) /\ (c \notin Owners(o) => served'[o] = served[o])
  <2> DEFINE s == served[o]
             t == [i \in DOMAIN s |-> new(s[i])]
  <2>1. s \in Seq(Range(s)) /\ \A i \in DOMAIN s : GoodLink(s[i], Owners(o))
    BY DEF LinksTyped, GoodLinks
  <2>2. served'[o] = t
    BY <1>1
  <2> HIDE DEF s
  <2>3. \A i \in DOMAIN s : GoodLink(t[i], Owners(o)) /\ (c \notin Owners(o) => t[i] = s[i])
    BY <1>4, <2>1
  <2>4. DOMAIN s = 1..Len(s) /\ Len(s) \in Nat /\ s = [i \in DOMAIN s |-> s[i]]
    BY <2>1
  <2>5. t \in [1..Len(s) -> Range(t)] /\ DOMAIN t = DOMAIN s /\ t = [i \in DOMAIN s |-> t[i]]
    BY <2>4 DEF Range
  <2> HIDE DEF t
  <2>6. GoodLinks(t, Owners(o))
    BY <2>3, <2>4, <2>5, SeqIs DEF GoodLinks
  <2>7. c \notin Owners(o) => t = s
    BY <2>3, <2>4, <2>5
  <2> QED BY <2>2, <2>6, <2>7 DEF s
<1>6. LinksTyped'
  <2>1. DOMAIN served' = Outputs
    BY <1>1
  <2>2. Drawn(samples)'
    BY <1>1 DEF LinksTyped, Drawn
  <2>3. meanwhile' \in SUBSET Clients
    BY <1>1 DEF LinksTyped
  <2> QED BY <1>1, <1>2, <1>3, <1>5, <2>1, <2>2, <2>3 DEF LinksTyped
<1>7. Untouched'
  BY <1>3 DEF Untouched
<1>8. NotYet'
  BY <1>1 DEF NotYet
<1>9. Answered'
  <2>1. Drawn(samples)
    BY DEF LinksTyped
  <2>2. ASSUME NEW k \in DOMAIN heard, heard[k].read, Owners(Requests[k]) \cap meanwhile' = {}
        PROVE  Told(heard[k], Requests[k])'
    <3>1. k \in 1..Len(Requests) /\ DOMAIN Requests = 1..Len(Requests) /\ Requests \in Seq(Outputs)
      BY <2>1, RequestsAre DEF LinksTyped
    <3>2. Requests[k] \in Outputs
      BY <3>1
    <3>3. c \notin Owners(Requests[k]) /\ Owners(Requests[k]) \cap meanwhile = {}
      BY <1>1, <2>2
    <3>4. Told(heard[k], Requests[k])
      BY <2>2, <3>3 DEF Answered
    <3>5. served'[Requests[k]] = served[Requests[k]]
      BY <1>5, <3>2, <3>3
    <3> QED BY <1>1, <1>2, <3>4, <3>5 DEF Told
  <2> QED BY <1>1, <1>2, <2>2 DEF Answered
<1> QED BY <1>6, <1>7, <1>8, <1>9

LEMMA RequestsLength == Drawn(samples) => Len(Requests) \in Nat
BY RequestsAre

LEMMA BeginStep ==
  ASSUME LinkInv, Begin
  PROVE  LinkInv'
<1> USE DEF LinkInv
<1>1. /\ samples = << >> /\ samples' = Select(Candidates, SampleCap)
      /\ served' = served /\ coding' = coding /\ heard' = heard /\ edits' = edits /\ lost' = lost
      /\ meanwhile' = meanwhile
  BY DEF Begin
<1>2. heard = << >> /\ meanwhile = {}
  BY <1>1 DEF NotYet
<1>3. Drawn(samples')
  BY <1>1 DEF Drawn
<1>4. Len(heard') <= Len(Requests')
  <2>2. (Drawn(samples) => Len(Requests) \in Nat)'
    BY RequestsLength, PTL
  <2>3. Drawn(samples)'
    BY <1>3 DEF Drawn
  <2>4. Len(Requests') \in Nat
    BY <2>2, <2>3
  <2>5. Len(heard') = 0
    BY <1>1, <1>2
  <2> QED BY <2>4, <2>5
<1>5. LinksTyped'
  BY <1>1, <1>3, <1>4 DEF LinksTyped, Drawn
<1>6. Untouched'
  BY <1>1 DEF Untouched
<1>7. NotYet'
  BY <1>1, <1>2 DEF NotYet
<1>8. Answered'
  <2>1. DOMAIN heard' = {}
    BY <1>1, <1>2
  <2> QED BY <2>1 DEF Answered
<1> QED BY <1>5, <1>6, <1>7, <1>8

\* An answer is the last one.
LEMMA HearStep ==
  ASSUME LinkInv, NEW answer, Hear(answer), lost' \in 0..MaxLost, lost <= lost',
         answer.read \in BOOLEAN,
         lost' = 0 => answer.read,
         answer.read => Told(answer, Requests[Len(heard) + 1])
  PROVE  LinkInv'
<1> USE DEF LinkInv
<1>1. /\ samples # << >> /\ Len(heard) < Len(Requests) /\ heard' = Append(heard, answer)
      /\ served' = served /\ coding' = coding /\ samples' = samples /\ edits' = edits
      /\ meanwhile' = meanwhile
  BY DEF Hear
<1>2. Requests' = Requests
  BY <1>1 DEF Requests
<1>3. /\ heard' \in Seq(Range(heard) \cup {answer}) /\ Len(heard') = Len(heard) + 1
      /\ DOMAIN heard' = 1..(Len(heard) + 1) /\ Len(heard) \in Nat
      /\ \A k \in DOMAIN heard : k \in DOMAIN heard' /\ heard'[k] = heard[k]
      /\ heard'[Len(heard) + 1] = answer
      /\ \A k \in DOMAIN heard' : k \in DOMAIN heard \/ k = Len(heard) + 1
  <2>1. heard \in Seq(Range(heard) \cup {answer}) /\ answer \in Range(heard) \cup {answer}
    <3>1. heard \in Seq(Range(heard))
      BY DEF LinksTyped
    <3> QED BY <3>1
  <2> HIDE DEF LinkInv
  <2> QED BY <1>1, <2>1
<1>4. heard' \in Seq(Range(heard')) /\ Len(heard') <= Len(Requests')
  <2>1. Len(Requests) \in Nat
    BY RequestsAre DEF LinksTyped
  <2>2. heard' \in Seq(Range(heard'))
    BY <1>3, OwnRange
  <2> QED BY <1>1, <1>2, <1>3, <2>1, <2>2
<1>5. LinksTyped'
  <2>1. Drawn(samples)'
    BY <1>1 DEF LinksTyped, Drawn
  <2> QED BY <1>1, <1>4, <2>1 DEF LinksTyped
<1>6. Untouched'
  BY <1>1 DEF Untouched
<1>7. NotYet'
  BY <1>1 DEF NotYet
<1>8. lost' = 0 => lost = 0
  BY DEF LinksTyped
<1>9. Answered'
  <2> SUFFICES ASSUME NEW k \in DOMAIN heard'
               PROVE  /\ heard'[k].read \in BOOLEAN
                      /\ lost' = 0 => heard'[k].read
                      /\ heard'[k].read /\ Owners(Requests'[k]) \cap meanwhile' = {}
                           => Told(heard[k], Requests[k])'
    BY DEF Answered
  <2>1. ASSUME NEW h, NEW o, Told(h, o), h = heard'[k], o = Requests'[k]
        PROVE  Told(heard[k], Requests[k])'
    <3>1. h.links = served'[o] /\ h.coding = coding'[o]
      BY <1>1, <2>1 DEF Told
    <3> QED BY <2>1, <3>1 DEF Told
  <2>2. CASE k \in DOMAIN heard
    <3>1. heard'[k] = heard[k]
      BY <1>3, <2>2
    <3>2. /\ heard[k].read \in BOOLEAN
          /\ lost = 0 => heard[k].read
          /\ heard[k].read /\ Owners(Requests[k]) \cap meanwhile = {} => Told(heard[k], Requests[k])
      BY <2>2 DEF Answered
    <3> QED BY <1>1, <1>2, <1>8, <2>1, <3>1, <3>2
  <2>3. CASE k = Len(heard) + 1
    <3>1. heard'[k] = answer
      BY <1>3, <2>3
    <3>2. answer.read => Told(answer, Requests[k])
      BY <2>3
    <3> QED BY <1>2, <2>1, <3>1, <3>2
  <2> QED BY <1>3, <2>2, <2>3
<1> QED BY <1>5, <1>6, <1>7, <1>9

LEMMA ReadStep ==
  ASSUME LinkInv, Read
  PROVE  LinkInv'
<1> DEFINE o == Requests[Len(heard) + 1]
           a == [read |-> TRUE, links |-> served[o], coding |-> coding[o]]
<1>1. Hear(a) /\ lost' = lost
  BY DEF Read
<1>2. a.read = TRUE /\ Told(a, o)
  <2>1. a.read = TRUE /\ a.links = served[o] /\ a.coding = coding[o]
    OBVIOUS
  <2> HIDE DEF a
  <2> QED BY <2>1 DEF Told
<1> HIDE DEF a
<1>3. lost \in 0..MaxLost
  BY DEF LinkInv, LinksTyped
<1>4. lost' \in 0..MaxLost /\ lost <= lost'
  BY <1>1, <1>3, OrderAssumption
<1>5. lost' = 0 => a.read
  BY <1>2
<1>6. a.read \in BOOLEAN
  BY <1>2
<1> QED BY <1>1, <1>2, <1>4, <1>5, <1>6, HearStep DEF o

LEMMA MissStep ==
  ASSUME LinkInv, Miss
  PROVE  LinkInv'
<1> DEFINE a == [read |-> FALSE, links |-> << >>, coding |-> "plain"]
<1>1. Hear(a) /\ lost < MaxLost /\ lost' = lost + 1
  BY DEF Miss
<1>2. a.read = FALSE
  OBVIOUS
<1> HIDE DEF a
<1>3. lost \in 0..MaxLost /\ MaxLost \in Nat
  BY OrderAssumption DEF LinkInv, LinksTyped
<1>4. lost' \in 0..MaxLost /\ lost <= lost' /\ lost' # 0
  BY <1>1, <1>3
<1> QED BY <1>1, <1>2, <1>4, HearStep

LEMMA SameStep ==
  ASSUME LinkInv, UNCHANGED vars
  PROVE  LinkInv'
<1>1. /\ served' = served /\ coding' = coding /\ samples' = samples /\ heard' = heard
      /\ edits' = edits /\ lost' = lost /\ meanwhile' = meanwhile
  BY DEF vars
<1>2. Requests' = Requests
  BY <1>1 DEF Requests
<1>3. Drawn(samples)' <=> Drawn(samples)
  BY <1>1 DEF Drawn
<1>4. LinksTyped'
  BY <1>1, <1>2, <1>3 DEF LinkInv, LinksTyped
<1>5. Untouched' /\ NotYet'
  BY <1>1 DEF LinkInv, Untouched, NotYet
<1>6. Answered'
  BY <1>1, <1>2 DEF LinkInv, Answered, Told
<1> QED BY <1>4, <1>5, <1>6 DEF LinkInv

LEMMA LinkStep ==
  ASSUME LinkInv, [Next]_vars
  PROVE  LinkInv'
<1>1. \A o \in Outputs : GoodLinks(served[o], Owners(o))
  BY DEF LinkInv, LinksTyped
<1>2. ASSUME NEW o \in Outputs, Restyle(o) \/ Alter(o) \/ Spoil(o)
      PROVE  LinkInv'
  <2>1. ASSUME NEW how \in Styles, Edit(o, Restyled(served[o], how))
        PROVE  LinkInv'
    <3>1. served[o] # << >> => GoodLinks(Restyled(served[o], how), Owners(o))
      BY <1>1, RestyledGood
    <3> QED BY <2>1, <3>1, EditStep
  <2>2. ASSUME NEW how \in Alterations, Edit(o, Altered(served[o], how))
        PROVE  LinkInv'
    <3>1. served[o] # << >> => GoodLinks(Altered(served[o], how), Owners(o))
      BY <1>1, AlteredGood
    <3> QED BY <2>2, <3>1, EditStep
  <2>3. ASSUME NEW how \in Defects, Edit(o, Spoiled(served[o], how))
        PROVE  LinkInv'
    <3>1. served[o] # << >> => GoodLinks(Spoiled(served[o], how), Owners(o))
      BY <1>1, SpoiledGood
    <3> QED BY <2>3, <3>1, EditStep
  <2> QED BY <1>2, <2>1, <2>2, <2>3 DEF Restyle, Alter, Spoil
<1>3. ASSUME NEW c \in Clients, Operate(c) \/ Encode(Accounts[c].sub)
      PROVE  LinkInv'
  BY <1>3, OperateStep, EncodeStep
<1>4. CASE Begin \/ Read \/ Miss
  BY <1>4, BeginStep, ReadStep, MissStep
<1>5. CASE Finished \/ UNCHANGED vars
  BY <1>5, SameStep DEF Finished
<1> QED BY <1>2, <1>3, <1>4, <1>5 DEF Next

\* The links keep their invariant whatever happens to the lists.
LEMMA LinkInvariant == PanelSpec => []LinkInv
<1>1. PanelInit => LinkInv
  BY LinkInit DEF PanelInit
<1>2. ASSUME LinkInv, [PanelNext]_<<vars, lists>> PROVE LinkInv'
  <2>1. [Next]_vars
    BY <1>2 DEF PanelNext
  <2> QED BY <1>2, <2>1, LinkStep
<1> QED BY <1>1, <1>2, PTL DEF PanelSpec

-----------------------------------------------------------------------------
(* What is said of the links *)

\* Which observations of a client are failures.
Unparsed(o) == o.code # "" /\ o.code \notin LostCodes
Different(o) == o.code = "" /\ ~o.agree

LEMMA FindingsSaid ==
  ASSUME NEW o, NEW c
  PROVE  /\ Finding("SUB-001", "FAIL", c) \in SubscriptionFindings(o) <=> o.client = c /\ Unparsed(o)
         /\ Finding("SUB-003", "FAIL", c) \in SubscriptionFindings(o) <=> o.client = c /\ Different(o)
<1>0. \A r, s, x, t, u, y : Finding(r, s, x) = Finding(t, u, y) <=> r = t /\ s = u /\ x = y
  BY DEF Finding
<1>1. CASE o.code = ""
  <2>1. SubscriptionFindings(o) = IF ~o.agree THEN {Finding("SUB-003", "FAIL", o.client)} ELSE {}
    BY <1>1 DEF SubscriptionFindings, When
  <2>2. ~Unparsed(o) /\ (Different(o) <=> ~o.agree)
    BY <1>1 DEF Unparsed, Different
  <2>3. CASE o.agree
    BY <2>1, <2>2, <2>3
  <2>4. CASE ~o.agree
    <3>1. SubscriptionFindings(o) = {Finding("SUB-003", "FAIL", o.client)}
      BY <2>1, <2>4
    <3>2. "SUB-001" # "SUB-003"
      OBVIOUS
    <3> QED BY <1>0, <2>2, <2>4, <3>1, <3>2
  <2> QED BY <2>3, <2>4
<1>2. CASE o.code # "" /\ o.code \in LostCodes
  <2>1. SubscriptionFindings(o) = {Finding("SUB-001", "UNKNOWN", o.client)}
    BY <1>2 DEF SubscriptionFindings
  <2>2. ~Unparsed(o) /\ ~Different(o)
    BY <1>2 DEF Unparsed, Different
  <2>3. "SUB-001" # "SUB-003" /\ "FAIL" # "UNKNOWN"
    OBVIOUS
  <2> QED BY <1>0, <2>1, <2>2, <2>3
<1>3. CASE o.code # "" /\ o.code \notin LostCodes
  <2>1. SubscriptionFindings(o) = {Finding("SUB-001", "FAIL", o.client)}
    BY <1>3 DEF SubscriptionFindings
  <2>2. Unparsed(o) /\ ~Different(o)
    BY <1>3 DEF Unparsed, Different
  <2>3. "SUB-001" # "SUB-003"
    OBVIOUS
  <2> QED BY <1>0, <2>1, <2>2, <2>3
<1> QED BY <1>1, <1>2, <1>3

LEMMA SaysIs ==
  ASSUME NEW c
  PROVE  /\ Says("SUB-001", "FAIL", c) <=> \E o \in Observed : o.client = c /\ Unparsed(o)
         /\ Says("SUB-003", "FAIL", c) <=> \E o \in Observed : o.client = c /\ Different(o)
<1>1. \A rule : Says(rule, "FAIL", c) <=>
                  \E o \in Observed : Finding(rule, "FAIL", c) \in SubscriptionFindings(o)
  BY DEF Says
<1> QED BY <1>1, FindingsSaid

\* What is observed of a sample.
LEMMA ComparedIs ==
  ASSUME NEW c, NEW s, NEW t
  PROVE  LET o == Compared(c, s, t)
         IN /\ o.client = c
            /\ Unparsed(o) <=> s.read /\ t.read /\ (~Parses(s.links) \/ ~Parses(t.links))
            /\ Different(o) <=> /\ s.read /\ t.read /\ Parses(s.links) /\ Parses(t.links)
                                /\ Parsed(s.links) # Parsed(t.links)
<1> DEFINE o == Compared(c, s, t)
           code == IF ~s.read \/ ~t.read THEN "api_evidence_missing"
                   ELSE IF ~Parses(s.links) \/ ~Parses(t.links) THEN "parse_error" ELSE ""
           agree == Parsed(s.links) = Parsed(t.links)
<1>1. o = [client |-> c, code |-> code, agree |-> agree]
  BY DEF Compared
<1> HIDE DEF o, code, agree
<1>2. o.client = c /\ o.code = code /\ (o.agree <=> agree)
  <2>1. o.client = c
    BY <1>1
  <2>2. o.code = code
    BY <1>1
  <2>3. o.agree = agree
    BY <1>1
  <2> QED BY <2>1, <2>2, <2>3
<1>3. CASE ~s.read \/ ~t.read
  <2>1. code = "api_evidence_missing"
    BY <1>3 DEF code
  <2> QED BY <1>2, <1>3, <2>1 DEF Unparsed, Different, LostCodes, o
<1>4. CASE s.read /\ t.read /\ (~Parses(s.links) \/ ~Parses(t.links))
  <2>1. code = "parse_error"
    BY <1>4 DEF code
  <2> QED BY <1>2, <1>4, <2>1 DEF Unparsed, Different, LostCodes, o
<1>5. CASE s.read /\ t.read /\ Parses(s.links) /\ Parses(t.links)
  <2>1. code = ""
    BY <1>5 DEF code
  <2>2. ~Unparsed(o) /\ (Different(o) <=> ~agree)
    BY <1>2, <2>1 DEF Unparsed, Different
  <2> QED BY <1>2, <1>5, <2>2 DEF o, agree
<1> QED BY <1>3, <1>4, <1>5

LEMMA FetchedIs ==
  ASSUME NEW c, NEW r
  PROVE  LET o == Fetched(c, r)
         IN /\ o.client = c /\ ~Different(o)
            /\ Unparsed(o) <=> r.read /\ (r.coding = "cut" \/ ~Parses(r.links))
<1> DEFINE o == Fetched(c, r)
           code == IF ~r.read THEN "request_error" ELSE IF ~Parses(Decoded(r)) THEN "parse_error" ELSE ""
<1>1. o = [client |-> c, code |-> code, agree |-> TRUE]
  BY DEF Fetched
<1> HIDE DEF o, code
<1>2. o.client = c /\ o.code = code /\ o.agree
  <2>1. o.client = c
    BY <1>1
  <2>2. o.code = code
    BY <1>1
  <2>3. o.agree
    BY <1>1
  <2> QED BY <2>1, <2>2, <2>3
<1>6. Parses(Decoded(r)) <=> r.coding # "cut" /\ Parses(r.links)
  <2>1. CASE r.coding = "cut"
    <3>1. Decoded(r) = << >>
      BY <2>1 DEF Decoded
    <3> QED BY <2>1, <3>1 DEF Parses
  <2>2. CASE r.coding # "cut"
    <3>1. Decoded(r) = r.links
      BY <2>2 DEF Decoded
    <3> QED BY <2>2, <3>1
  <2> QED BY <2>1, <2>2
<1>3. CASE ~r.read
  <2>1. code = "request_error"
    BY <1>3 DEF code
  <2> QED BY <1>2, <1>3, <2>1 DEF Unparsed, Different, LostCodes, o
<1>4. CASE r.read /\ ~Parses(Decoded(r))
  <2>1. code = "parse_error"
    BY <1>4 DEF code
  <2>2. Unparsed(o) /\ ~Different(o)
    BY <1>2, <2>1 DEF Unparsed, Different, LostCodes
  <2> QED BY <1>2, <1>4, <1>6, <2>2 DEF o
<1>5. CASE r.read /\ Parses(Decoded(r))
  <2>1. code = ""
    BY <1>5 DEF code
  <2>2. ~Unparsed(o) /\ ~Different(o)
    BY <1>2, <2>1 DEF Unparsed, Different
  <2> QED BY <1>2, <1>5, <1>6, <2>2 DEF o
<1> QED BY <1>3, <1>4, <1>5

\* What the answers for an undisturbed sample say.
ShareAnswer(k) == heard[2 * k - 1]
SubAnswer(k) == heard[2 * k]
RawAnswer(k) == heard[2 * Len(samples) + k]
RawOf(c) == <<"raw", Accounts[c].sub>>

LEMMA AnswersAre ==
  ASSUME LinkInv, Done, NEW k \in DOMAIN samples, NEW c, c = samples[k].client
  PROVE  /\ c \in Clients
         /\ lost = 0 => /\ ShareAnswer(k).read /\ SubAnswer(k).read
                        /\ External => RawAnswer(k).read
         /\ Undisturbed(c) =>
              /\ ShareAnswer(k).read => ShareAnswer(k).links = ShareOf(c)
              /\ SubAnswer(k).read => SubAnswer(k).links = SubOf(c)
              /\ External /\ RawAnswer(k).read => Told(RawAnswer(k), RawOf(c))
<1> DEFINE n == Len(samples)
<1>0. Drawn(samples)
  BY DEF LinkInv, LinksTyped
<1>1. c \in Clients
  BY <1>0, DrawnAre
<1>2. DOMAIN heard = DOMAIN Requests
  <2>1. Len(heard) = Len(Requests)
    BY DEF Done
  <2>2. DOMAIN heard = 1..Len(heard)
    BY DEF LinkInv, LinksTyped
  <2>3. DOMAIN Requests = 1..Len(Requests)
    BY <1>0, RequestsAre
  <2> QED BY <2>1, <2>2, <2>3
<1>3. /\ 2 * k - 1 \in DOMAIN Requests
      /\ Requests[2 * k - 1] = <<"share", samples[k].client>>
      /\ 2 * k \in DOMAIN Requests
      /\ Requests[2 * k] = <<"sub", Accounts[samples[k].client].sub>>
      /\ External => /\ 2 * n + k \in DOMAIN Requests
                     /\ Requests[2 * n + k] = <<"raw", Accounts[samples[k].client].sub>>
  BY <1>0, RequestsAre
<1>4. \A j \in DOMAIN heard :
        /\ lost = 0 => heard[j].read
        /\ heard[j].read /\ Owners(Requests[j]) \cap meanwhile = {} => Told(heard[j], Requests[j])
  BY DEF LinkInv, Answered
<1>5. Undisturbed(c) => /\ Owners(<<"share", c>>) \cap meanwhile = {}
                        /\ Owners(<<"sub", Accounts[c].sub>>) \cap meanwhile = {}
                        /\ Owners(<<"raw", Accounts[c].sub>>) \cap meanwhile = {}
  BY <1>1, OwnersAre DEF Undisturbed
<1>6. /\ lost = 0 => heard[2 * k - 1].read
      /\ Undisturbed(c) /\ heard[2 * k - 1].read => Told(heard[2 * k - 1], <<"share", c>>)
  BY <1>2, <1>3, <1>4, <1>5
<1>7. /\ lost = 0 => heard[2 * k].read
      /\ Undisturbed(c) /\ heard[2 * k].read => Told(heard[2 * k], <<"sub", Accounts[c].sub>>)
  BY <1>2, <1>3, <1>4, <1>5
<1>8. ASSUME External
      PROVE  /\ lost = 0 => heard[2 * n + k].read
             /\ Undisturbed(c) /\ heard[2 * n + k].read
                  => Told(heard[2 * n + k], <<"raw", Accounts[c].sub>>)
  <2>1. 2 * n + k \in DOMAIN heard /\ Requests[2 * n + k] = <<"raw", Accounts[c].sub>>
    BY <1>2, <1>3, <1>8
  <2> HIDE DEF n
  <2> QED BY <1>4, <1>5, <2>1
<1>9. /\ Told(heard[2 * k - 1], <<"share", c>>) => ShareAnswer(k).links = ShareOf(c)
      /\ Told(heard[2 * k], <<"sub", Accounts[c].sub>>) => SubAnswer(k).links = SubOf(c)
  BY DEF Told, ShareAnswer, SubAnswer, ShareOf, SubOf
<1> QED BY <1>1, <1>6, <1>7, <1>8, <1>9, Zenon DEF ShareAnswer, SubAnswer, RawAnswer, RawOf

LEMMA ObservedAre ==
  ASSUME NEW o
  PROVE  o \in Observed <=>
           \E k \in DOMAIN samples :
             \/ o = Compared(samples[k].client, ShareAnswer(k), SubAnswer(k))
             \/ External /\ o = Fetched(samples[k].client, RawAnswer(k))
BY DEF Observed, ShareAnswer, SubAnswer, RawAnswer

\* What the panel serves, Doctor reads as it is.
LEMMA ServedRead ==
  ASSUME LinkInv, NEW c \in Clients
  PROVE  /\ Parses(ShareOf(c)) <=> Sound(ShareOf(c))
         /\ Parses(SubOf(c)) <=> Sound(SubOf(c))
         /\ Parses(served[RawOf(c)]) <=> Sound(served[RawOf(c)])
         /\ Parsed(ShareOf(c)) = Parsed(SubOf(c)) <=> ~Differ(c)
<1>1. \A o \in Outputs : GoodLinks(served[o], Owners(o))
  BY DEF LinkInv, LinksTyped
<1>2. <<"share", c>> \in Outputs /\ <<"sub", Accounts[c].sub>> \in Outputs
      /\ <<"raw", Accounts[c].sub>> \in Outputs
  BY OwnersAre
<1>3. \E users : GoodLinks(ShareOf(c), users)
  BY <1>1, <1>2 DEF ShareOf
<1>4. \E users : GoodLinks(SubOf(c), users)
  BY <1>1, <1>2 DEF SubOf
<1>5. \E users : GoodLinks(served[RawOf(c)], users)
  BY <1>1, <1>2 DEF RawOf
<1>6. Parsed(ShareOf(c)) = Parsed(SubOf(c)) <=> Connections(ShareOf(c)) = Connections(SubOf(c))
  BY <1>3, <1>4, ParsedIsConnections
<1> QED BY <1>3, <1>4, <1>5, <1>6, ParsesIsSound DEF Differ

LEMMA DifferenceHolds ==
  ASSUME LinkInv
  PROVE  DifferenceExactly
<1> SUFFICES ASSUME Done, lost = 0, NEW c \in Sampled, Undisturbed(c), BothSound(c)
             PROVE  Says("SUB-003", "FAIL", c) <=> Differ(c)
  BY DEF DifferenceExactly
<1>1. PICK k \in DOMAIN samples : c = samples[k].client
  BY DEF Sampled
<1>2. c \in Clients
  BY <1>1, AnswersAre
<1>3. Parses(ShareOf(c)) /\ Parses(SubOf(c)) /\ (Parsed(ShareOf(c)) = Parsed(SubOf(c)) <=> ~Differ(c))
  BY <1>2, ServedRead DEF BothSound
<1>4. ASSUME NEW j \in DOMAIN samples, samples[j].client = c
      PROVE  Different(Compared(c, ShareAnswer(j), SubAnswer(j))) <=> Differ(c)
  <2>1. /\ ShareAnswer(j).read /\ SubAnswer(j).read
        /\ ShareAnswer(j).links = ShareOf(c) /\ SubAnswer(j).links = SubOf(c)
    BY <1>4, AnswersAre
  <2>2. Different(Compared(c, ShareAnswer(j), SubAnswer(j))) <=>
          /\ ShareAnswer(j).read /\ SubAnswer(j).read
          /\ Parses(ShareAnswer(j).links) /\ Parses(SubAnswer(j).links)
          /\ Parsed(ShareAnswer(j).links) # Parsed(SubAnswer(j).links)
    BY ComparedIs
  <2> QED BY <1>3, <2>1, <2>2
<1>5. ASSUME Says("SUB-003", "FAIL", c)
      PROVE  Differ(c)
  <2>1. PICK o \in Observed : o.client = c /\ Different(o)
    BY <1>5, SaysIs
  <2>2. PICK j \in DOMAIN samples :
          \/ o = Compared(samples[j].client, ShareAnswer(j), SubAnswer(j))
          \/ External /\ o = Fetched(samples[j].client, RawAnswer(j))
    BY <2>1, ObservedAre
  <2>3. o = Compared(samples[j].client, ShareAnswer(j), SubAnswer(j))
    BY <2>1, <2>2, FetchedIs
  <2>4. samples[j].client = c
    BY <2>1, <2>3, ComparedIs
  <2> QED BY <1>4, <2>1, <2>3, <2>4
<1>6. ASSUME Differ(c)
      PROVE  Says("SUB-003", "FAIL", c)
  <2> DEFINE o == Compared(c, ShareAnswer(k), SubAnswer(k))
  <2>1. o \in Observed
    BY <1>1, ObservedAre
  <2>2. o.client = c /\ Different(o)
    BY <1>1, <1>4, <1>6, ComparedIs
  <2> QED BY <2>1, <2>2, SaysIs
<1> QED BY <1>5, <1>6

LEMMA SpoiledHolds ==
  ASSUME LinkInv
  PROVE  SpoiledIsSaid
<1> SUFFICES ASSUME Done, lost = 0, NEW c \in Sampled, Undisturbed(c)
             PROVE  Says("SUB-001", "FAIL", c) <=> (~BothSound(c) \/ RawBroken(c))
  BY DEF SpoiledIsSaid
<1>1. PICK k \in DOMAIN samples : c = samples[k].client
  BY DEF Sampled
<1>2. c \in Clients
  BY <1>1, AnswersAre
<1>3. /\ Parses(ShareOf(c)) <=> Sound(ShareOf(c))
      /\ Parses(SubOf(c)) <=> Sound(SubOf(c))
      /\ Parses(served[RawOf(c)]) <=> Sound(served[RawOf(c)])
  BY <1>2, ServedRead
<1>4. ASSUME NEW j \in DOMAIN samples, samples[j].client = c
      PROVE  Unparsed(Compared(c, ShareAnswer(j), SubAnswer(j))) <=> ~BothSound(c)
  <2>1. /\ ShareAnswer(j).read /\ SubAnswer(j).read
        /\ ShareAnswer(j).links = ShareOf(c) /\ SubAnswer(j).links = SubOf(c)
    BY <1>4, AnswersAre
  <2>2. Unparsed(Compared(c, ShareAnswer(j), SubAnswer(j))) <=>
          /\ ShareAnswer(j).read /\ SubAnswer(j).read
          /\ ~Parses(ShareAnswer(j).links) \/ ~Parses(SubAnswer(j).links)
    BY ComparedIs
  <2> QED BY <1>3, <2>1, <2>2 DEF BothSound
<1>5. ASSUME NEW j \in DOMAIN samples, samples[j].client = c, External
      PROVE  Unparsed(Fetched(c, RawAnswer(j))) <=> RawBroken(c)
  <2>1. RawAnswer(j).read /\ RawAnswer(j).links = served[RawOf(c)] /\ RawAnswer(j).coding = coding[RawOf(c)]
    <3>1. RawAnswer(j).read /\ Told(RawAnswer(j), RawOf(c))
      BY <1>5, AnswersAre
    <3> QED BY <3>1 DEF Told
  <2>2. Unparsed(Fetched(c, RawAnswer(j))) <=>
          RawAnswer(j).read /\ (RawAnswer(j).coding = "cut" \/ ~Parses(RawAnswer(j).links))
    BY FetchedIs
  <2>3. RawBroken(c) <=> coding[RawOf(c)] = "cut" \/ ~Sound(served[RawOf(c)])
    BY <1>5 DEF RawBroken, RawOf
  <2> QED BY <1>3, <2>1, <2>2, <2>3
<1>6. ASSUME Says("SUB-001", "FAIL", c)
      PROVE  ~BothSound(c) \/ RawBroken(c)
  <2>1. PICK o \in Observed : o.client = c /\ Unparsed(o)
    BY <1>6, SaysIs
  <2>2. PICK j \in DOMAIN samples :
          \/ o = Compared(samples[j].client, ShareAnswer(j), SubAnswer(j))
          \/ External /\ o = Fetched(samples[j].client, RawAnswer(j))
    BY <2>1, ObservedAre
  <2>3. CASE o = Compared(samples[j].client, ShareAnswer(j), SubAnswer(j))
    <3>1. samples[j].client = c
      BY <2>1, <2>3, ComparedIs
    <3> QED BY <1>4, <2>1, <2>3, <3>1
  <2>4. CASE External /\ o = Fetched(samples[j].client, RawAnswer(j))
    <3>1. samples[j].client = c
      BY <2>1, <2>4, FetchedIs
    <3> QED BY <1>5, <2>1, <2>4, <3>1
  <2> QED BY <2>2, <2>3, <2>4
<1>7. ASSUME ~BothSound(c)
      PROVE  Says("SUB-001", "FAIL", c)
  <2> DEFINE o == Compared(c, ShareAnswer(k), SubAnswer(k))
  <2>1. o \in Observed
    BY <1>1, ObservedAre
  <2>2. o.client = c /\ Unparsed(o)
    BY <1>1, <1>4, <1>7, ComparedIs
  <2> QED BY <2>1, <2>2, SaysIs
<1>8. ASSUME RawBroken(c)
      PROVE  Says("SUB-001", "FAIL", c)
  <2> DEFINE o == Fetched(c, RawAnswer(k))
  <2>0. External
    BY <1>8 DEF RawBroken
  <2>1. o \in Observed
    BY <1>1, <2>0, ObservedAre
  <2>2. o.client = c /\ Unparsed(o)
    BY <1>1, <1>5, <1>8, <2>0, FetchedIs
  <2> QED BY <2>1, <2>2, SaysIs
<1> QED BY <1>6, <1>7, <1>8

LEMMA LossHolds ==
  ASSUME LinkInv
  PROVE  LossIsUnknown
<1> SUFFICES ASSUME Done, edits = 0, NEW c \in Sampled, SharesOf(Accounts[c].sub) = {c}
             PROVE  ~Says("SUB-001", "FAIL", c) /\ ~Says("SUB-003", "FAIL", c)
  BY DEF LossIsUnknown
<1>1. PICK k \in DOMAIN samples : c = samples[k].client
  BY DEF Sampled
<1>2. c \in Clients
  BY <1>1, AnswersAre
<1>3. \E in : in \in Accounts[c].inbounds
  BY <1>1, DrawnAre DEF LinkInv, LinksTyped
<1>4. meanwhile = {} /\ \A o \in Outputs : served[o] = Genuine(o) /\ coding[o] = "plain"
  BY DEF LinkInv, Untouched
<1>5. Undisturbed(c)
  BY <1>4 DEF Undisturbed
<1> DEFINE own == LinksOf({c})
<1>6. ShareOf(c) = own /\ SubOf(c) = own /\ served[RawOf(c)] = own /\ coding[RawOf(c)] = "plain"
  <2>1. /\ Owners(<<"share", c>>) = {c} /\ <<"share", c>> \in Outputs
        /\ Owners(<<"sub", Accounts[c].sub>>) = {c} /\ <<"sub", Accounts[c].sub>> \in Outputs
        /\ Owners(RawOf(c)) = {c} /\ RawOf(c) \in Outputs
    BY <1>2, OwnersAre DEF RawOf
  <2> QED BY <1>4, <2>1 DEF ShareOf, SubOf, Genuine
<1>7. Sound(own)
  <2>1. own = [i \in DOMAIN Pairs({c}) |-> LinkOf(Pairs({c})[i][2], Pairs({c})[i][1])]
    BY DEF LinksOf
  <2>2. \E i : i \in DOMAIN Pairs({c})
    BY <1>2, <1>3, PairsAre
  <2>3. own # << >>
    <3>1. DOMAIN own = DOMAIN Pairs({c})
      BY <2>1
    <3> HIDE DEF own
    <3>2. DOMAIN own # {}
      BY <2>2, <3>1
    <3>3. \A s : DOMAIN s # {} => s # << >>
      OBVIOUS
    <3> QED BY <3>2, <3>3
  <2>4. \A i \in DOMAIN own : SoundLink(own[i])
    <3>1. <<"share", c>> \in Outputs /\ Genuine(<<"share", c>>) = own
      BY <1>2, OwnersAre DEF Genuine
    <3> QED BY <3>1, GenuineGood
  <2> HIDE DEF own
  <2> QED BY <2>3, <2>4 DEF Sound, SoundLink
<1> HIDE DEF own
<1>8. Parses(own)
  BY <1>2, <1>6, <1>7, ServedRead
<1>9. ASSUME NEW j \in DOMAIN samples, samples[j].client = c
      PROVE  LET o == Compared(c, ShareAnswer(j), SubAnswer(j))
             IN ~Unparsed(o) /\ ~Different(o)
  <2>1. /\ ShareAnswer(j).read => ShareAnswer(j).links = own
        /\ SubAnswer(j).read => SubAnswer(j).links = own
    BY <1>5, <1>6, <1>9, AnswersAre
  <2> QED BY <1>8, <2>1, ComparedIs
<1>10. ASSUME NEW j \in DOMAIN samples, samples[j].client = c, External
       PROVE  LET o == Fetched(c, RawAnswer(j))
              IN ~Unparsed(o) /\ ~Different(o)
  <2>1. RawAnswer(j).read => RawAnswer(j).links = own /\ RawAnswer(j).coding = "plain"
    <3>1. RawAnswer(j).read => Told(RawAnswer(j), RawOf(c))
      BY <1>5, <1>10, AnswersAre
    <3> QED BY <1>6, <3>1 DEF Told
  <2> QED BY <1>8, <2>1, FetchedIs
<1>11. ASSUME NEW o \in Observed, o.client = c
       PROVE  ~Unparsed(o) /\ ~Different(o)
  <2>2. PICK j \in DOMAIN samples :
          \/ o = Compared(samples[j].client, ShareAnswer(j), SubAnswer(j))
          \/ External /\ o = Fetched(samples[j].client, RawAnswer(j))
    BY ObservedAre
  <2>3. CASE o = Compared(samples[j].client, ShareAnswer(j), SubAnswer(j))
    <3>1. samples[j].client = c
      BY <1>11, <2>3, ComparedIs
    <3> QED BY <1>9, <2>3, <3>1
  <2>4. CASE External /\ o = Fetched(samples[j].client, RawAnswer(j))
    <3>1. samples[j].client = c
      BY <1>11, <2>4, FetchedIs
    <3> QED BY <1>10, <2>4, <3>1
  <2> QED BY <2>2, <2>3, <2>4
<1> QED BY <1>11, SaysIs

LEMMA StrataHold ==
  ASSUME LinkInv
  PROVE  StrataCovered
<1> DEFINE strata == UNION {Accounts[c].inbounds : c \in Clients}
           C == Candidates
<1>0. SampleCap \in Nat
  BY OrderAssumption
<1>1. /\ C \in Seq(Range(C))
      /\ \A i \in DOMAIN C : /\ C[i].client \in Clients
                             /\ C[i].stratum \in Accounts[C[i].client].inbounds
                             /\ C[i].rank = <<C[i].stratum, Accounts[C[i].client].sub>>
      /\ \A c \in Clients : \A in \in Accounts[c].inbounds :
           \E i \in DOMAIN C : C[i].client = c /\ C[i].stratum = in
  BY CandidatesAre
<1> SUFFICES ASSUME samples # << >>
             PROVE  /\ Cardinality(strata) <= SampleCap =>
                         strata = {samples[i].stratum : i \in DOMAIN samples}
                    /\ \A i, j \in DOMAIN samples : i # j => samples[i].rank # samples[j].rank
  BY DEF StrataCovered
<1>2. samples = Select(C, SampleCap)
  BY DEF LinkInv, LinksTyped, Drawn
<1>3. \A i \in DOMAIN samples : samples[i].stratum \in strata
  <2>1. \A i \in DOMAIN samples : samples[i].client \in Clients
                                  /\ samples[i].stratum \in Accounts[samples[i].client].inbounds
    BY DrawnAre DEF LinkInv, LinksTyped
  <2> QED BY <2>1
<1>4. Values(C, "stratum") = strata
  <2>1. \A x : x \in Values(C, "stratum") <=> \E i \in DOMAIN C : x = C[i].stratum
    BY DEF Values
  <2>2. \A x : x \in strata <=> \E c \in Clients : x \in Accounts[c].inbounds
    OBVIOUS
  <2> HIDE DEF C, strata
  <2>3. \A x : x \in Values(C, "stratum") <=> x \in strata
    BY <1>1, <2>1, <2>2
  <2> QED BY <2>3
<1> HIDE DEF C, strata
<1>5. IsFiniteSet(strata)
  <2> DEFINE f == [i \in DOMAIN C |-> C[i]["stratum"]]
  <2>1. IsFiniteSet(DOMAIN C)
    <3>1. DOMAIN C = 1..Len(C) /\ Len(C) \in Nat
      BY <1>1
    <3> QED BY <3>1, FS_Interval
  <2>2. Values(C, "stratum") = {f[i] : i \in DOMAIN C}
    BY DEF Values
  <2>3. f \in Surjection(DOMAIN C, Values(C, "stratum"))
    <3>1. f \in [DOMAIN C -> Values(C, "stratum")]
      BY <2>2
    <3>2. \A x \in Values(C, "stratum") : \E i \in DOMAIN C : f[i] = x
      BY <2>2
    <3> HIDE DEF f
    <3> QED BY <3>1, <3>2 DEF Surjection
  <2>4. IsFiniteSet(Values(C, "stratum"))
    <3> HIDE DEF f
    <3> QED BY <2>1, <2>3, FS_Surjection
  <2> QED BY <1>4, <2>4
<1>6. \A i, j \in DOMAIN C : C[i].rank = C[j].rank => C[i].stratum = C[j].stratum
  BY <1>1
<1>7. /\ \A i, j \in DOMAIN samples : samples[i].rank = samples[j].rank => i = j
      /\ Cardinality(strata) <= SampleCap
           => \A i \in DOMAIN C : \E k \in DOMAIN samples : samples[k].stratum = C[i].stratum
  BY <1>0, <1>1, <1>2, <1>4, <1>5, <1>6, SelectGood
<1>8. ASSUME Cardinality(strata) <= SampleCap
      PROVE  strata = {samples[i].stratum : i \in DOMAIN samples}
  <2>1. ASSUME NEW x \in strata PROVE \E k \in DOMAIN samples : samples[k].stratum = x
    <3>1. \E i \in DOMAIN C : x = C[i]["stratum"]
      BY <1>4 DEF Values
    <3> QED BY <1>7, <1>8, <3>1
  <2> QED BY <1>3, <2>1
<1> QED BY <1>7, <1>8

-----------------------------------------------------------------------------
(* The theorems about links *)

\* Whatever the panel serves and the operator does, the two passes never draw more
\* than the panel was dealt, and no more is heard than was asked for.
THEOREM PanelTyped == PanelSpec => []TypeOK
<1>1. LinkInv => TypeOK
  <2> SUFFICES ASSUME LinkInv PROVE TypeOK
    OBVIOUS
  <2>1. Len(samples) <= SampleCap /\ \A i \in DOMAIN samples : samples[i].client \in Clients
    BY DrawnAre DEF LinkInv, LinksTyped
  <2> QED BY <2>1 DEF TypeOK, LinkInv, LinksTyped
<1> QED BY <1>1, LinkInvariant, PTL

\* SUB-003 is reported of exactly the sampled clients whose two outputs connect
\* differently, among those nobody edits meanwhile and whose outputs are all read.
THEOREM DifferenceIsExact == PanelSpec => []DifferenceExactly
BY LinkInvariant, DifferenceHolds, PTL

\* SUB-001 is reported of exactly those with an output of no use.
THEOREM SpoiledIsExact == PanelSpec => []SpoiledIsSaid
BY LinkInvariant, SpoiledHolds, PTL

\* A read that fails accuses no client that has its subscription to itself.
THEOREM LossAccusesNobody == PanelSpec => []LossIsUnknown
BY LinkInvariant, LossHolds, PTL

\* Every inbound is sampled if the cap allows it, and none twice for a subscription.
THEOREM StrataAreCovered == PanelSpec => []StrataCovered
BY LinkInvariant, StrataHold, PTL

-----------------------------------------------------------------------------
(* Rows: one value *)

LEMMA ValueIs ==
  ASSUME NEW t, NEW v
  PROVE  R!Value(t, v).t = t /\ R!Value(t, v).v = v /\ R!Value(t, v).as = ""
BY DEF R!Value

LEMMA NullIs == R!Null.t = "null" /\ R!Null.v = ""
BY DEF R!Null, R!Value

\* A value says the same however it is written.
LEMMA ScalarRead ==
  ASSUME NEW n
  PROVE  /\ R!ScalarString(R!Scalar(n)) = n /\ R!Int64Value(R!Scalar(n)) = n
         /\ R!Scalar(n) # R!Null /\ R!Scalar(n).v = n
<1> DEFINE x == R!Scalar(n)
<1>1. x.t \in {"digits", "number"} /\ x.v = n
  <2>1. CASE "digits" \in style
    <3>1. x = R!Value("digits", n)
      BY <2>1 DEF R!Scalar
    <3> HIDE DEF x
    <3> QED BY <3>1, ValueIs
  <2>2. CASE "digits" \notin style
    <3>1. x = R!Value("number", n)
      BY <2>2 DEF R!Scalar
    <3> HIDE DEF x
    <3> QED BY <3>1, ValueIs
  <2> QED BY <2>1, <2>2
<1> HIDE DEF x
<1>2. R!ScalarString(x) = n
  BY <1>1 DEF R!ScalarString
<1>3. R!Int64Value(x) = n
  BY <1>1 DEF R!Int64Value
<1>4. x # R!Null
  BY <1>1, NullIs
<1> QED BY <1>1, <1>2, <1>3, <1>4 DEF x

LEMMA WordRead ==
  ASSUME NEW s
  PROVE  /\ R!StringValue(R!Word(s)) = s /\ R!Word(s) # R!Null
         /\ R!Lower(R!Word(s)) = s
<1> DEFINE x == R!Word(s)
<1>1. x.t = "string" /\ x.v = s /\ x.as = ""
  BY ValueIs DEF R!Word
<1> HIDE DEF x
<1>2. R!Written(x) = s
  BY <1>1 DEF R!Written
<1>3. R!StringValue(x) = s /\ R!Lower(x) = s
  BY <1>1, <1>2 DEF R!StringValue, R!Lower
<1> QED BY <1>1, <1>3, NullIs DEF x

LEMMA TokenRead ==
  ASSUME NEW s, NEW how
  PROVE  /\ R!Lower(R!Token(s, how)) = s /\ R!SafeConfigToken(R!Token(s, how)) = s
         /\ R!Token(s, how).v = s
<1> DEFINE w == R!Word(s)
           a == IF how \in style THEN "capitals" ELSE ""
           x == [w EXCEPT !.as = a]
<1>1. w.t = "string" /\ w.v = s
  BY ValueIs DEF R!Word
<1>2. R!Token(s, how) = x
  BY DEF R!Token
<1>3. DOMAIN w = {"t", "v", "as"}
  BY DEF R!Word, R!Value
<1> HIDE DEF w, a
<1>4. x.t = w.t /\ x.v = w.v
  BY <1>3
<1> HIDE DEF x
<1> QED BY <1>1, <1>2, <1>4 DEF R!Lower, R!SafeConfigToken

LEMMA VersionRead ==
  ASSUME NEW s, s # "", "^" \o s # ""
  PROVE  /\ R!StringValue(R!Version(s)) # ""
         /\ ~({"digits", "capitals"} \subseteq style) => R!NormalizeVersion(R!Version(s)) = "v" \o s
<1> DEFINE w == R!Word(s)
           a == CASE "digits" \in style /\ "capitals" \in style -> "bare capitals"
                  [] "digits" \in style /\ "capitals" \notin style -> "bare"
                  [] "digits" \notin style /\ "capitals" \in style -> "capitals"
                  [] OTHER -> ""
           x == [w EXCEPT !.as = a]
<1>1. w.t = "string" /\ w.v = s
  BY ValueIs DEF R!Word
<1>2. R!Version(s) = x
  BY DEF R!Version
<1>3. DOMAIN w = {"t", "v", "as"}
  BY DEF R!Word, R!Value
<1>5. /\ a \in {"", "bare", "capitals", "bare capitals"}
      /\ a = "bare capitals" => {"digits", "capitals"} \subseteq style
  OBVIOUS
<1> HIDE DEF w, a
<1>4. x.t = w.t /\ x.v = w.v /\ x.as = a
  BY <1>3
<1> HIDE DEF x
<1>6. R!Written(x) = IF a \in {"capitals", "bare capitals"} THEN "^" \o s ELSE s
  BY <1>1, <1>4 DEF R!Written
<1>7. R!StringValue(x) = R!Written(x) /\ R!Lower(x) = s
  BY <1>1, <1>4 DEF R!StringValue, R!Lower
<1>8. R!StringValue(x) # ""
  BY <1>6, <1>7
<1>9. ASSUME ~({"digits", "capitals"} \subseteq style)
      PROVE  R!NormalizeVersion(x) = "v" \o s
  <2>1. CASE a = "bare"
    <3>1. R!StringValue(x) = s
      BY <1>6, <1>7, <2>1
    <3> QED BY <1>4, <1>8, <2>1, <3>1 DEF R!NormalizeVersion
  <2>2. CASE a \in {"", "capitals"}
    <3>1. x.as \notin {"bare", "bare capitals"}
      BY <1>4, <2>2
    <3> QED BY <1>7, <1>8, <3>1 DEF R!NormalizeVersion
  <2> QED BY <1>5, <1>9, <2>1, <2>2
<1> QED BY <1>2, <1>8, <1>9

\* An object is read, and compared, without the text around it.
LEMMA ObjectRead ==
  ASSUME NEW x, NEW o, NEW none, x = R!Value("object", o) \/ x = R!Value("text", o)
  PROVE  R!Object(x, none) = o /\ R!Unfolded(x) = R!Value("object", o)
<1>1. CASE x = R!Value("text", o)
  <2>1. x.t = "text" /\ x.v = o
    BY <1>1, ValueIs
  <2>2. R!Object(x, none) = o
    BY <2>1 DEF R!Object
  <2>3. R!Unfolded(x) = R!Value("object", x.v)
    BY <2>1 DEF R!Unfolded
  <2> QED BY <2>1, <2>2, <2>3
<1>2. CASE x = R!Value("object", o)
  <2>1. x.t = "object" /\ x.v = o
    BY <1>2, ValueIs
  <2>2. R!Object(x, none) = o
    BY <2>1 DEF R!Object
  <2>3. R!Unfolded(x) = x
    BY <2>1 DEF R!Unfolded
  <2> QED BY <1>2, <2>2, <2>3
<1> QED BY <1>1, <1>2

LEMMA NestedRead ==
  ASSUME NEW o, NEW none
  PROVE  R!Object(R!Nested(o), none) = o /\ R!Unfolded(R!Nested(o)) = R!Value("object", o)
<1>1. CASE "text" \in style
  <2>1. R!Nested(o) = R!Value("text", o)
    BY <1>1 DEF R!Nested
  <2> QED BY <2>1, ObjectRead
<1>2. CASE "text" \notin style
  <2>1. R!Nested(o) = R!Value("object", o)
    BY <1>2 DEF R!Nested
  <2> QED BY <2>1, ObjectRead
<1> QED BY <1>1, <1>2

LEMMA DeeperRead ==
  ASSUME NEW o, NEW none
  PROVE  R!Object(R!Deeper(o), none) = o
<1>1. CASE "nested" \in style
  <2>1. R!Deeper(o) = R!Value("text", o)
    BY <1>1 DEF R!Deeper
  <2> QED BY <2>1, ObjectRead
<1>2. CASE "nested" \notin style
  <2>1. R!Deeper(o) = R!Value("object", o)
    BY <1>2 DEF R!Deeper
  <2> QED BY <2>1, ObjectRead
<1> QED BY <1>1, <1>2

LEMMA NullRead ==
  ASSUME NEW none
  PROVE  /\ R!StringValue(R!Null) = "" /\ R!Lower(R!Null) = "" /\ R!SafeConfigToken(R!Null) = ""
         /\ R!Object(R!Null, none) = none /\ R!BoolValue(R!Null, none) = none
<1> HIDE DEF R!Null
<1> QED BY NullIs DEF R!StringValue, R!Lower, R!SafeConfigToken, R!Object, R!BoolValue

\* A default that is left out is understood.
LEMMA DefaultRead ==
  ASSUME NEW s, s # "", NEW default
  PROVE  R!FirstNonEmpty(R!Lower(R!Unless(default, R!Token(s, "capitals"))), default) = s
<1>1. CASE "terse" \in style /\ s = default
  <2>1. R!Unless(default, R!Token(s, "capitals")) = R!Null
    BY <1>1, TokenRead DEF R!Unless
  <2> QED BY <1>1, <2>1, NullRead DEF R!FirstNonEmpty
<1>2. CASE ~("terse" \in style /\ s = default)
  <2>1. R!Unless(default, R!Token(s, "capitals")) = R!Token(s, "capitals")
    BY <1>2, TokenRead DEF R!Unless
  <2> QED BY <2>1, TokenRead DEF R!FirstNonEmpty
<1> QED BY <1>1, <1>2

-----------------------------------------------------------------------------
(* Rows: the parsers *)

LEMMA NonEmpty ==
  ASSUME NEW a, NEW b
  PROVE  /\ R!FirstNonEmpty(R!FirstNonEmpty(a, ""), b) = R!FirstNonEmpty(a, b)
         /\ R!FirstNonEmpty(R!FirstNonEmpty("", a), b) = R!FirstNonEmpty(a, b)
BY DEF R!FirstNonEmpty

LEMMA TokenLower == \A x : R!SafeConfigToken(x) = R!Lower(x)
BY DEF R!SafeConfigToken

\* The network and the security of a stream are read wherever they are.
LEMMA StreamRead ==
  ASSUME NEW in, in.network # "", in.security # ""
  PROVE  LET row == R!StreamRow(in)
         IN /\ R!FirstNonEmpty(R!FirstNonEmpty(R!SafeConfigToken(row.network),
                                               R!SafeConfigToken(row.type)), "tcp") = in.network
            /\ R!FirstNonEmpty(R!SafeConfigToken(row.security), "none") = in.security
            /\ R!FirstNonEmpty(R!Lower(row.security), "none") = in.security
            /\ "typed" \notin style => R!FirstNonEmpty(R!Lower(row.network), "tcp") = in.network
            /\ in.stream => R!Object(row.settings, "") = "settings"
            /\ ~in.stream => R!Object(row.settings, "") = ""
<1> DEFINE row == R!StreamRow(in)
           network == R!Unless("tcp", R!Token(in.network, "capitals"))
           first == IF "typed" \in style THEN R!Null ELSE network
           second == IF "typed" \in style THEN network ELSE R!Null
           security == R!Unless("none", R!Token(in.security, "capitals"))
           settings == IF in.stream THEN R!Deeper("settings") ELSE R!Null
<1>1. row = [network |-> first, type |-> second, security |-> security, settings |-> settings]
  BY DEF R!StreamRow
<1> HIDE DEF row, first, second, security, settings
<1>2. row.network = first /\ row.type = second /\ row.security = security /\ row.settings = settings
  BY <1>1
<1>3. R!FirstNonEmpty(R!Lower(network), "tcp") = in.network
  BY DefaultRead
<1>4. R!FirstNonEmpty(R!Lower(security), "none") = in.security
  BY DefaultRead DEF security
<1> HIDE DEF network
<1>5. R!FirstNonEmpty(R!FirstNonEmpty(R!Lower(first), R!Lower(second)), "tcp") = in.network
  <2>1. CASE "typed" \in style
    <3>1. R!Lower(first) = "" /\ second = network
      BY <2>1, NullRead DEF first, second
    <3> QED BY <1>3, <3>1, NonEmpty
  <2>2. CASE "typed" \notin style
    <3>1. R!Lower(second) = "" /\ first = network
      BY <2>2, NullRead DEF first, second
    <3> QED BY <1>3, <3>1, NonEmpty
  <2> QED BY <2>1, <2>2
<1>6. "typed" \notin style => R!FirstNonEmpty(R!Lower(first), "tcp") = in.network
  BY <1>3 DEF first
<1>7. /\ in.stream => R!Object(settings, "") = "settings"
      /\ ~in.stream => R!Object(settings, "") = ""
  BY DeeperRead, NullRead DEF settings
<1> QED BY <1>2, <1>4, <1>5, <1>6, <1>7, TokenLower DEF row

\* An inbound as the assumption has it, field by field.
InboundFields ==
  {"id", "tag", "origin", "enabled", "listen", "clients", "port", "proto", "network", "security",
   "transport", "stream", "flow", "fallbacks"}

LEMMA InboundIs ==
  ASSUME NEW in \in Panel.inbounds
  PROVE  /\ in.network # "" /\ in.security # "" /\ in.stream \in BOOLEAN
         /\ in.enabled \in BOOLEAN /\ "" \notin in.clients
         /\ in.transport = R!Transport(in.network, in.security)
         /\ in.security = "none" => in.stream
         /\ in = [f \in InboundFields |-> in[f]]
<1>1. in \in [id : STRING, tag : STRING, origin : STRING, enabled : BOOLEAN, listen : STRING,
              clients : SUBSET (STRING \ {""}), port : Int,
              proto : STRING, network : STRING \ {""}, security : STRING \ {""}, transport : STRING,
              stream : BOOLEAN, flow : BOOLEAN, fallbacks : SUBSET STRING]
  BY PanelAssumption
<1>2. /\ in.network # "" /\ in.security # "" /\ in.stream \in BOOLEAN
      /\ in.enabled \in BOOLEAN /\ "" \notin in.clients
  BY <1>1
<1>3. in = [f \in InboundFields |-> in[f]]
  BY <1>1 DEF InboundFields
<1>4. in.transport = R!Transport(in.network, in.security) /\ (in.security = "none" => in.stream)
  BY PanelAssumption
<1> QED BY <1>2, <1>3, <1>4

LEMMA BoolRead ==
  ASSUME NEW b, NEW fallback
  PROVE  R!BoolValue(R!Value("bool", b), fallback) = b
<1> DEFINE x == R!Value("bool", b)
<1>1. x.t = "bool" /\ x.v = b
  BY ValueIs
<1> HIDE DEF x
<1>2. R!BoolValue(x, fallback) = b
  BY <1>1 DEF R!BoolValue
<1> QED BY <1>2 DEF x

LEMMA EnableRead ==
  ASSUME NEW b \in BOOLEAN
  PROVE  R!BoolValue(R!Enable(b), TRUE) = b
<1>1. CASE "implied" \in style /\ b
  <2>1. R!Enable(b) = R!Null /\ b = TRUE
    BY <1>1 DEF R!Enable
  <2> QED BY <2>1, NullRead
<1>2. CASE ~("implied" \in style /\ b)
  <2>1. R!Enable(b) = R!Value("bool", b)
    BY <1>2 DEF R!Enable
  <2> QED BY <2>1, BoolRead
<1> QED BY <1>1, <1>2

LEMMA ListenRead ==
  ASSUME NEW s
  PROVE  R!StringValue(R!Unless("", R!Word(s))) = s
<1>1. R!Word(s).v = s
  BY ValueIs DEF R!Word
<1>2. R!Unless("", R!Word(s)) = IF "terse" \in style /\ s = "" THEN R!Null ELSE R!Word(s)
  BY <1>1 DEF R!Unless
<1> QED BY <1>2, WordRead, NullRead

\* A client of an inbound is known by the same, and a fallback has the same child.
LEMMA UserRead ==
  ASSUME NEW id
  PROVE  R!UserID(R!UserRow(id)) = id
<1> DEFINE row == R!UserRow(id)
<1>1. /\ row.email = IF "rekeyed" \in style THEN R!Null ELSE R!Word(id)
      /\ row.password = IF "rekeyed" \in style THEN R!Word(id) ELSE R!Null
      /\ row.id = R!Null /\ row.auth = R!Null
  BY DEF R!UserRow
<1> HIDE DEF row
<1>2. /\ R!StringValue(row.email) = IF "rekeyed" \in style THEN "" ELSE id
      /\ R!StringValue(row.password) = IF "rekeyed" \in style THEN id ELSE ""
      /\ R!StringValue(row.id) = "" /\ R!StringValue(row.auth) = ""
  BY <1>1, WordRead, NullRead
<1>3. R!UserID(row) = id
  BY <1>2 DEF R!UserID, R!FirstNonEmpty
<1> QED BY <1>3 DEF row

LEMMA FallbackRead ==
  ASSUME NEW child
  PROVE  R!ParseFallback(R!FallbackRow(child)) = child
<1> DEFINE row == R!FallbackRow(child)
           own == "rekeyed" \in style
<1>1. /\ row.dest = IF child = R!Explicit THEN R!Word("dest") ELSE R!Null
      /\ row.childId = IF child = R!Explicit \/ own THEN R!Null ELSE R!Scalar(child)
      /\ row.inboundId = IF child # R!Explicit /\ own THEN R!Scalar(child) ELSE R!Null
  BY DEF R!FallbackRow
<1> HIDE DEF row, own
<1>2. CASE child = R!Explicit
  <2>1. R!StringValue(row.dest) = "dest"
    BY <1>1, <1>2, WordRead
  <2> QED BY <1>2, <2>1 DEF R!ParseFallback, row
<1>3. CASE child # R!Explicit
  <2>1. R!StringValue(row.dest) = ""
    BY <1>1, <1>3, NullRead
  <2>2. R!FirstValue(row.childId, row.inboundId) = R!Scalar(child)
    BY <1>1, <1>3, ScalarRead DEF R!FirstValue
  <2> QED BY <2>1, <2>2, ScalarRead DEF R!ParseFallback, row
<1> QED BY <1>2, <1>3

\* What a row says without its settings.
InSettings == {"clients", "flow", "fallbacks"}

LEMMA ParsedInbound ==
  ASSUME NEW in \in Panel.inbounds
  PROVE  LET p == R!ParseInbound(R!InboundRow(in))
         IN /\ p = [f \in InboundFields |-> p[f]]
            /\ \A f \in InboundFields \ InSettings : p[f] = in[f]
            /\ "settings" \notin damage => \A f \in InSettings : p[f] = in[f]
<1> DEFINE row == R!InboundRow(in)
           p == R!ParseInbound(row)
           settings == R!Object(row.settings, R!NoSettings)
           stream == R!Object(row.streamSettings, R!NoStream)
           network == R!FirstNonEmpty(R!FirstNonEmpty(R!SafeConfigToken(stream.network),
                                                      R!SafeConfigToken(stream.type)), "tcp")
           security == R!FirstNonEmpty(R!SafeConfigToken(stream.security), "none")
           sound == security = "none" \/ R!Object(stream.settings, "") # ""
           users == {R!UserID(user) : user \in settings.clients} \ {""}
           children == {R!ParseFallback(f) : f \in settings.fallbacks}
<1>1. p = [id |-> R!ScalarString(row.id), tag |-> R!StringValue(row.tag),
           origin |-> R!StringValue(row.originNodeGuid),
           enabled |-> R!BoolValue(row.enable, TRUE), listen |-> R!StringValue(row.listen),
           clients |-> users, port |-> R!Int64Value(row.port), proto |-> R!SafeConfigToken(row.protocol),
           network |-> network, security |-> security,
           transport |-> R!Transport(network, security),
           stream |-> sound,
           flow |-> settings.flow, fallbacks |-> children]
  BY DEF R!ParseInbound
<1>2. /\ row.id = R!Scalar(in.id) /\ row.tag = R!Word(in.tag) /\ row.originNodeGuid = R!Word(in.origin)
      /\ row.enable = R!Enable(in.enabled) /\ row.listen = R!Unless("", R!Word(in.listen))
      /\ row.port = R!Scalar(in.port) /\ row.protocol = R!Token(in.proto, "shouted")
      /\ row.settings = R!Broken("settings", R!Nested(R!SettingsRow(in)))
      /\ row.streamSettings = R!Nested(R!StreamRow(in))
  BY DEF R!InboundRow
<1> HIDE DEF row
<1>3. stream = R!StreamRow(in)
  BY <1>2, NestedRead
<1> HIDE DEF p, settings, stream
<1>4. /\ network = in.network /\ security = in.security
      /\ in.stream => R!Object(stream.settings, "") = "settings"
      /\ ~in.stream => R!Object(stream.settings, "") = ""
  BY <1>3, InboundIs, StreamRead
<1>5. sound = in.stream
  <2>1. in.stream \in BOOLEAN /\ (in.security = "none" => in.stream)
    BY InboundIs
  <2>2. "settings" # ""
    OBVIOUS
  <2>3. sound <=> in.stream
    BY <1>4, <2>1, <2>2
  <2>4. sound \in BOOLEAN
    OBVIOUS
  <2> HIDE DEF sound
  <2> QED BY <2>1, <2>3, <2>4
<1> HIDE DEF network, security, sound, users, children
<1>6. /\ R!ScalarString(row.id) = in.id /\ R!StringValue(row.tag) = in.tag
      /\ R!StringValue(row.originNodeGuid) = in.origin
      /\ R!StringValue(row.listen) = in.listen
      /\ R!SafeConfigToken(row.protocol) = in.proto
  <2>1. R!ScalarString(row.id) = in.id /\ R!StringValue(row.tag) = in.tag
    BY <1>2, ScalarRead, WordRead
  <2>2. R!StringValue(row.originNodeGuid) = in.origin
    BY <1>2, WordRead
  <2>3. R!StringValue(row.listen) = in.listen
    BY <1>2, ListenRead, Zenon
  <2>4. R!SafeConfigToken(row.protocol) = in.proto
    <3>1. row.protocol = R!Token(in.proto, "shouted")
      BY <1>2
    <3>2. R!SafeConfigToken(R!Token(in.proto, "shouted")) = in.proto
      BY TokenRead
    <3> QED BY <3>1, <3>2, Zenon
  <2> QED BY <2>1, <2>2, <2>3, <2>4
<1>7. R!Int64Value(row.port) = in.port
  BY <1>2, ScalarRead
<1>16. R!BoolValue(row.enable, TRUE) = in.enabled
  <2>1. in.enabled \in BOOLEAN
    BY InboundIs
  <2> DEFINE b == in.enabled
  <2> HIDE DEF b
  <2>2. R!BoolValue(R!Enable(b), TRUE) = b
    BY <2>1, EnableRead DEF b
  <2> QED BY <1>2, <2>2, Zenon DEF b
<1>8. p = [f \in InboundFields |-> p[f]]
  BY <1>1 DEF InboundFields
<1>9. R!Transport(network, security) = in.transport
  BY <1>4, InboundIs
<1>10. /\ p["id"] = in["id"] /\ p["tag"] = in["tag"] /\ p["origin"] = in["origin"]
       /\ p["listen"] = in["listen"]
       /\ p["proto"] = in["proto"] /\ p["network"] = in["network"]
       /\ p["security"] = in["security"] /\ p["transport"] = in["transport"]
  BY <1>1, <1>4, <1>6, <1>9, Zenon
<1>11. p["port"] = in["port"]
  BY <1>1, <1>7
<1>12. p["stream"] = in["stream"]
  BY <1>1, <1>5
<1>13. p["enabled"] = in["enabled"]
  BY <1>1, <1>16
<1>14. ASSUME "settings" \notin damage PROVE \A f \in InSettings : p[f] = in[f]
  <2> DEFINE o == R!SettingsRow(in)
  <2>1. row.settings = R!Nested(o)
    BY <1>2, <1>14 DEF R!Broken
  <2>2. settings = o
    <3> HIDE DEF o
    <3> QED BY <2>1, NestedRead DEF settings
  <2>3. p.clients = users /\ p.flow = settings.flow /\ p.fallbacks = children
    BY <1>1
  <2>4. /\ o.clients = {R!UserRow(id) : id \in in.clients} /\ o.flow = in.flow
        /\ o.fallbacks = {R!FallbackRow(child) : child \in in.fallbacks}
    BY DEF R!SettingsRow
  <2> HIDE DEF o
  <2>5. users = in.clients
    <3>1. \A id : R!UserID(R!UserRow(id)) = id
      BY UserRead
    <3>2. "" \notin in.clients
      BY InboundIs
    <3>3. {R!UserID(user) : user \in settings.clients} = in.clients
      BY <2>2, <2>4, <3>1
    <3> QED BY <3>2, <3>3 DEF users
  <2>6. children = in.fallbacks
    <3>1. \A child : R!ParseFallback(R!FallbackRow(child)) = child
      BY FallbackRead
    <3> QED BY <2>2, <2>4, <3>1 DEF children
  <2>7. p["clients"] = in["clients"] /\ p["flow"] = in["flow"] /\ p["fallbacks"] = in["fallbacks"]
    BY <2>2, <2>3, <2>4, <2>5, <2>6
  <2> QED BY <2>7 DEF InSettings
<1>15. \A f \in InboundFields \ InSettings : p[f] = in[f]
  BY <1>10, <1>11, <1>12, <1>13 DEF InboundFields, InSettings
<1> QED BY <1>8, <1>14, <1>15 DEF p, row

LEMMA InboundRead ==
  ASSUME NEW in \in Panel.inbounds, "settings" \notin damage
  PROVE  R!ParseInbound(R!InboundRow(in)) = in
<1> DEFINE p == R!ParseInbound(R!InboundRow(in))
<1>1. /\ p = [f \in InboundFields |-> p[f]]
      /\ \A f \in InboundFields \ InSettings : p[f] = in[f]
      /\ \A f \in InSettings : p[f] = in[f]
  BY ParsedInbound
<1>2. in = [f \in InboundFields |-> in[f]]
  BY InboundIs
<1> HIDE DEF p
<1>3. \A f \in InboundFields : p[f] = in[f]
  BY <1>1
<1>4. p = in
  BY <1>1, <1>2, <1>3
<1> QED BY <1>4 DEF p

\* A key is read under either of its names.
LEMMA KeyRead ==
  ASSUME NEW x
  PROVE  /\ x # R!Null => R!FirstValue(R!Key(TRUE, x), R!Key(FALSE, x)) = x
         /\ R!FirstNonEmpty(R!StringValue(R!Key(TRUE, x)), R!StringValue(R!Key(FALSE, x)))
              = R!StringValue(x)
<1>1. CASE "renamed" \notin style
  <2>1. R!Key(TRUE, x) = x /\ R!Key(FALSE, x) = R!Null
    BY <1>1 DEF R!Key
  <2> QED BY <2>1, NullRead DEF R!FirstValue, R!FirstNonEmpty
<1>2. CASE "renamed" \in style
  <2>1. R!Key(TRUE, x) = R!Null /\ R!Key(FALSE, x) = x
    BY <1>2 DEF R!Key
  <2> QED BY <2>1, NullRead DEF R!FirstValue, R!FirstNonEmpty
<1> QED BY <1>1, <1>2

ClientFields == {"id", "sub", "total", "expiry", "enabled", "inbounds"}

LEMMA ClientIs ==
  ASSUME NEW c \in Panel.clients
  PROVE  c.enabled \in BOOLEAN /\ c = [f \in ClientFields |-> c[f]]
<1>1. c \in [id : STRING, sub : STRING, total : Int, expiry : Int, enabled : BOOLEAN,
             inbounds : SUBSET STRING]
  BY PanelAssumption
<1>2. c.enabled \in BOOLEAN
  BY <1>1
<1> QED BY <1>1, <1>2 DEF ClientFields

LEMMA ClientRead ==
  ASSUME NEW c \in Panel.clients
  PROVE  R!ParseClient(R!ClientRow(c)) = c
<1> DEFINE row == R!ClientRow(c)
           p == R!ParseClient(row)
           none == [enable |-> R!Null]
           tracked == [enable |-> R!Value("bool", c.enabled)]
           traffic == R!Object(row.traffic, none)
           total == R!Int64Value(R!FirstValue(row.totalGB, row.total))
           own == R!Enable(c.enabled \/ "untracked" \notin style)
           enabled == R!BoolValue(traffic.enable, R!BoolValue(row.enable, TRUE))
<1>1. p = [id |-> R!StringValue(row.email),
           sub |-> R!FirstNonEmpty(R!StringValue(row.subId), R!StringValue(row.subID)),
           total |-> total, expiry |-> R!Int64Value(row.expiryTime),
           enabled |-> enabled, inbounds |-> {R!ScalarString(id) : id \in row.inboundIds}]
  BY DEF R!ParseClient
<1>2. /\ row.email = R!Word(c.id)
      /\ row.subId = R!Key(TRUE, R!Word(c.sub)) /\ row.subID = R!Key(FALSE, R!Word(c.sub))
      /\ row.totalGB = R!Key(TRUE, R!Scalar(c.total)) /\ row.total = R!Key(FALSE, R!Scalar(c.total))
      /\ row.expiryTime = R!Scalar(c.expiry)
      /\ row.enable = own
      /\ row.traffic = IF "untracked" \in style THEN R!Null ELSE R!Nested(tracked)
      /\ row.inboundIds = {R!Scalar(id) : id \in c.inbounds}
  BY DEF R!ClientRow
<1> HIDE DEF row, p, traffic, total, own, enabled
<1>3. c.enabled \in BOOLEAN /\ c = [f \in ClientFields |-> c[f]]
  BY ClientIs
<1>4. R!StringValue(row.email) = c.id
  BY <1>2, WordRead
<1>5. R!FirstNonEmpty(R!StringValue(row.subId), R!StringValue(row.subID)) = c.sub
  BY <1>2, KeyRead, WordRead
<1>6. total = c.total
  <2>1. R!FirstValue(row.totalGB, row.total) = R!Scalar(c.total)
    BY <1>2, KeyRead, ScalarRead
  <2> QED BY <2>1, ScalarRead DEF total
<1>7. R!Int64Value(row.expiryTime) = c.expiry
  BY <1>2, ScalarRead
<1>8. enabled = c.enabled
  <2>1. CASE "untracked" \notin style
    <3>1. traffic = tracked
      BY <1>2, <2>1, NestedRead DEF traffic
    <3>2. traffic.enable = R!Value("bool", c.enabled)
      BY <3>1
    <3> QED BY <3>2, BoolRead DEF enabled
  <2>2. CASE "untracked" \in style
    <3>1. traffic = none
      BY <1>2, <2>2, NullRead DEF traffic
    <3>2. traffic.enable = R!Null
      BY <3>1
    <3>3. enabled = R!BoolValue(own, TRUE)
      BY <1>2, <3>2, NullRead DEF enabled
    <3> DEFINE b == c.enabled \/ "untracked" \notin style
    <3>4. b = c.enabled
      BY <1>3, <2>2
    <3>5. own = R!Enable(b)
      BY DEF own
    <3> HIDE DEF b
    <3>6. R!BoolValue(own, TRUE) = c.enabled
      BY <1>3, <3>4, <3>5, EnableRead
    <3> QED BY <3>3, <3>6
  <2> QED BY <2>1, <2>2
<1>9. {R!ScalarString(id) : id \in row.inboundIds} = c.inbounds
  <2>1. \A id : R!ScalarString(R!Scalar(id)) = id
    BY ScalarRead
  <2> QED BY <1>2, <2>1
<1>10. p = [id |-> c.id, sub |-> c.sub, total |-> c.total, expiry |-> c.expiry,
            enabled |-> c.enabled, inbounds |-> c.inbounds]
  BY <1>1, <1>4, <1>5, <1>6, <1>7, <1>8, <1>9
<1>11. c = [id |-> c.id, sub |-> c.sub, total |-> c.total, expiry |-> c.expiry,
            enabled |-> c.enabled, inbounds |-> c.inbounds]
  <2>1. DOMAIN c = ClientFields
    BY <1>3
  <2> QED BY <1>3 DEF ClientFields
<1>12. p = c
  BY <1>10, <1>11
<1> QED BY <1>12 DEF p, row

LEMMA Reversioned ==
  ASSUME NEW n \in [guid : STRING, version : STRING, xray : STRING], NEW a, NEW b
  PROVE  [n EXCEPT !.version = a, !.xray = b] = [guid |-> n.guid, version |-> a, xray |-> b]
<1> DEFINE m == [n EXCEPT !.version = a]
<1>1. m = [guid |-> n.guid, version |-> a, xray |-> n.xray]
  OBVIOUS
<1> HIDE DEF m
<1>2. [m EXCEPT !.xray = b] = [guid |-> n.guid, version |-> a, xray |-> b]
  BY <1>1
<1> QED BY <1>2 DEF m

LEMMA NodeRead ==
  ASSUME NEW n \in Panel.nodes, ~({"digits", "capitals"} \subseteq style)
  PROVE  R!ParseNode(R!NodeRow(n)) = [n EXCEPT !.version = "v" \o @, !.xray = "v" \o @]
<1> DEFINE row == R!NodeRow(n)
           heartbeat == [guid |-> R!Word(n.guid), panelVersion |-> R!Version(n.version),
                         xrayVersion |-> R!Version(n.xray)]
           nothing == [guid |-> R!Null, panelVersion |-> R!Null, xrayVersion |-> R!Null]
           last == R!Object(row.last, nothing)
           first(field) == IF R!StringValue(row.own[field]) # "" THEN row.own[field] ELSE last[field]
<1>1. R!ParseNode(row) = [guid |-> R!StringValue(first("guid")),
                          version |-> R!NormalizeVersion(first("panelVersion")),
                          xray |-> R!NormalizeVersion(first("xrayVersion"))]
  BY DEF R!ParseNode
<1>2. /\ row.own = IF "renamed" \in style THEN nothing ELSE heartbeat
      /\ row.last = R!Nested(IF "renamed" \in style THEN heartbeat ELSE nothing)
  BY DEF R!NodeRow
<1> HIDE DEF row
<1>3. last = IF "renamed" \in style THEN heartbeat ELSE nothing
  BY <1>2, NestedRead
<1>4. /\ heartbeat["guid"] = R!Word(n.guid) /\ heartbeat["panelVersion"] = R!Version(n.version)
      /\ heartbeat["xrayVersion"] = R!Version(n.xray)
      /\ nothing["guid"] = R!Null /\ nothing["panelVersion"] = R!Null /\ nothing["xrayVersion"] = R!Null
  OBVIOUS
<1> HIDE DEF heartbeat, nothing, last
<1>5. n \in [guid : STRING, version : STRING \ {""}, xray : STRING \ {""}]
  BY PanelAssumption
<1>6. n.version # "" /\ n.xray # ""
  BY <1>5
<1>7. /\ R!StringValue(R!Null) = "" /\ R!StringValue(R!Word(n.guid)) = n.guid
      /\ R!StringValue(R!Version(n.version)) # "" /\ R!StringValue(R!Version(n.xray)) # ""
      /\ R!NormalizeVersion(R!Version(n.version)) = "v" \o n.version
      /\ R!NormalizeVersion(R!Version(n.xray)) = "v" \o n.xray
  BY <1>6, NullRead, WordRead, VersionRead, PanelAssumption
<1>8. /\ R!StringValue(first("guid")) = n.guid
      /\ first("panelVersion") = R!Version(n.version)
      /\ first("xrayVersion") = R!Version(n.xray)
  <2>1. CASE "renamed" \in style
    <3>1. row.own = nothing /\ last = heartbeat
      BY <1>2, <1>3, <2>1
    <3> QED BY <1>4, <1>7, <3>1
  <2>2. CASE "renamed" \notin style
    <3>1. row.own = heartbeat /\ last = nothing
      BY <1>2, <1>3, <2>2
    <3> QED BY <1>4, <1>7, <3>1
  <2> QED BY <2>1, <2>2
<1> HIDE DEF first
<1>9. /\ R!NormalizeVersion(first("panelVersion")) = "v" \o n.version
      /\ R!NormalizeVersion(first("xrayVersion")) = "v" \o n.xray
  BY <1>7, <1>8
<1>10. R!ParseNode(row) = [guid |-> n.guid, version |-> "v" \o n.version, xray |-> "v" \o n.xray]
  BY <1>1, <1>8, <1>9
<1>11. [n EXCEPT !.version = "v" \o @, !.xray = "v" \o @]
         = [guid |-> n.guid, version |-> "v" \o n.version, xray |-> "v" \o n.xray]
  <2>1. n \in [guid : STRING, version : STRING, xray : STRING]
    BY <1>5
  <2> QED BY <2>1, Reversioned, Zenon
<1> QED BY <1>10, <1>11 DEF row

LEMMA EncodingHolds == R!EncodingIsIrrelevant
<1> SUFFICES ASSUME damage = {}
             PROVE  /\ R!Inbounds = Panel.inbounds
                    /\ R!Clients = Panel.clients
                    /\ ~({"digits", "capitals"} \subseteq style) =>
                         R!Nodes = {[n EXCEPT !.version = "v" \o @, !.xray = "v" \o @] : n \in Panel.nodes}
  BY DEF R!EncodingIsIrrelevant
<1>1. \A in \in Panel.inbounds : R!ParseInbound(R!InboundRow(in)) = in
  BY InboundRead
<1>2. \A c \in Panel.clients : R!ParseClient(R!ClientRow(c)) = c
  BY ClientRead
<1>3. ASSUME ~({"digits", "capitals"} \subseteq style), NEW n \in Panel.nodes
      PROVE  R!ParseNode(R!NodeRow(n)) = [n EXCEPT !.version = "v" \o @, !.xray = "v" \o @]
  BY <1>3, NodeRead
<1>4. R!Inbounds = Panel.inbounds
  BY <1>1 DEF R!Inbounds, R!InboundRows
<1>5. R!Clients = Panel.clients
  BY <1>2 DEF R!Clients
<1>6. ~({"digits", "capitals"} \subseteq style) =>
        R!Nodes = {[n EXCEPT !.version = "v" \o @, !.xray = "v" \o @] : n \in Panel.nodes}
  BY <1>3 DEF R!Nodes
<1> QED BY <1>4, <1>5, <1>6

-----------------------------------------------------------------------------
(* Rows: what two runs compare *)

\* An inbound's connection state, which two of the styles are no part of.
Said(in) ==
  [enable |-> in.enabled, protocol |-> in.proto, tag |-> in.tag, originNodeGuid |-> in.origin,
   listen |-> R!Unless("", R!Word(in.listen)), port |-> R!Scalar(in.port),
   settings |-> R!Value("object", R!SettingsRow(in)),
   streamSettings |-> R!Value("object", R!StreamRow(in)),
   sniffing |-> R!Value("object", "sniffing")]

LEMMA StateRead ==
  ASSUME NEW in \in Panel.inbounds, damage = {}
  PROVE  R!ConnectionState(R!InboundRow(in)) = Said(in)
<1> DEFINE row == R!InboundRow(in)
           p == R!ParseInbound(row)
<1>1. R!ConnectionState(row) =
        [enable |-> p.enabled, protocol |-> p.proto, tag |-> p.tag, originNodeGuid |-> p.origin,
         listen |-> row.listen, port |-> row.port,
         settings |-> R!Unfolded(row.settings),
         streamSettings |-> R!Unfolded(row.streamSettings), sniffing |-> R!Unfolded(row.sniffing)]
  BY DEF R!ConnectionState
<1>2. /\ row.port = R!Scalar(in.port) /\ row.listen = R!Unless("", R!Word(in.listen))
      /\ row.settings = R!Broken("settings", R!Nested(R!SettingsRow(in)))
      /\ row.streamSettings = R!Nested(R!StreamRow(in)) /\ row.sniffing = R!Nested("sniffing")
  BY DEF R!InboundRow
<1>3. p = in
  BY InboundRead
<1> HIDE DEF row, p
<1>4. row.settings = R!Nested(R!SettingsRow(in))
  BY <1>2 DEF R!Broken
<1>5. /\ R!Unfolded(row.settings) = R!Value("object", R!SettingsRow(in))
      /\ R!Unfolded(row.streamSettings) = R!Value("object", R!StreamRow(in))
      /\ R!Unfolded(row.sniffing) = R!Value("object", "sniffing")
  BY <1>2, <1>4, NestedRead
<1>6. R!ConnectionState(row) = Said(in)
  BY <1>1, <1>2, <1>3, <1>5, Zenon DEF Said
<1> QED BY <1>6 DEF row

LEMMA StatesAre == damage = {} => R!ConnectionStates = {Said(in) : in \in Panel.inbounds}
<1> SUFFICES ASSUME damage = {}
             PROVE  R!ConnectionStates = {Said(in) : in \in Panel.inbounds}
  OBVIOUS
<1>1. \A in \in Panel.inbounds : R!ConnectionState(R!InboundRow(in)) = Said(in)
  BY StateRead
<1> HIDE DEF Said
<1> QED BY <1>1 DEF R!ConnectionStates, R!InboundRows

\* What is compared is written as it was, if the styles that are part of it are the same.
LEMMA SaidAgain ==
  ASSUME style' \cap R!Compared = style \cap R!Compared, NEW in
  PROVE  Said(in)' = Said(in)
<1>1. /\ ("digits" \in style') = ("digits" \in style) /\ ("nested" \in style') = ("nested" \in style)
      /\ ("capitals" \in style') = ("capitals" \in style) /\ ("terse" \in style') = ("terse" \in style)
      /\ ("typed" \in style') = ("typed" \in style) /\ ("rekeyed" \in style') = ("rekeyed" \in style)
  BY DEF R!Compared
<1>2. \A n : R!Scalar(n)' = R!Scalar(n)
  BY <1>1 DEF R!Scalar, R!Value
<1>3. \A default, x : R!Unless(default, x)' = R!Unless(default, x)
  BY <1>1 DEF R!Unless, R!Null, R!Value
<1>4. R!SettingsRow(in)' = R!SettingsRow(in)
  <2>1. \A id : R!UserRow(id)' = R!UserRow(id)
    BY <1>1 DEF R!UserRow, R!Word, R!Value, R!Null
  <2>2. \A child : R!FallbackRow(child)' = R!FallbackRow(child)
    <3>1. R!Explicit' = R!Explicit
      BY DEF R!Explicit
    <3> QED BY <1>1, <1>2, <3>1 DEF R!FallbackRow, R!Word, R!Value, R!Null
  <2> HIDE DEF R!UserRow, R!FallbackRow
  <2> QED BY <2>1, <2>2, Zenon DEF R!SettingsRow
<1>5. R!StreamRow(in)' = R!StreamRow(in)
  <2>1. \A s : R!Token(s, "capitals")' = R!Token(s, "capitals")
    BY <1>1 DEF R!Token, R!Word, R!Value
  <2>2. R!Deeper("settings")' = R!Deeper("settings")
    BY <1>1 DEF R!Deeper, R!Value
  <2>3. R!Null' = R!Null
    BY DEF R!Null, R!Value
  <2> QED BY <1>1, <1>3, <2>1, <2>2, <2>3, Zenon DEF R!StreamRow
<1>6. \A t, v : R!Value(t, v)' = R!Value(t, v)
  BY DEF R!Value
<1>7. R!Unless("", R!Word(in.listen))' = R!Unless("", R!Word(in.listen))
  BY <1>3, <1>6 DEF R!Unless, R!Word, R!Null
<1> QED BY <1>2, <1>4, <1>5, <1>6, <1>7, Zenon DEF Said

-----------------------------------------------------------------------------
(* Rows: the generated configuration *)

\* An inbound as it is generated.
DriftedNetwork(in) == IF "network" \in drift THEN "grpc" ELSE in.network
DriftedSecurity(in) == IF "security" \in drift THEN "reality" ELSE in.security
DriftedProto(in) == IF "protocol" \in drift THEN "trojan" ELSE in.proto

Drifted(in) ==
  [in EXCEPT !.network = DriftedNetwork(in), !.security = DriftedSecurity(in),
             !.proto = DriftedProto(in)]

LEMMA Redrifted ==
  ASSUME NEW in \in Panel.inbounds
  PROVE  /\ Drifted(in).network = DriftedNetwork(in)
         /\ Drifted(in).security = DriftedSecurity(in)
         /\ Drifted(in).proto = DriftedProto(in)
<1> DEFINE a == DriftedNetwork(in)
           b == DriftedSecurity(in)
           c == DriftedProto(in)
           x1 == [in EXCEPT !.network = a]
           x2 == [x1 EXCEPT !.security = b]
           x3 == [x2 EXCEPT !.proto = c]
<1>0. Drifted(in) = x3
  BY Zenon DEF Drifted
<1> HIDE DEF a, b, c
<1>1. DOMAIN in = InboundFields
  BY InboundIs
<1>2. DOMAIN x1 = InboundFields /\ x1.network = a
  BY <1>1 DEF InboundFields
<1> HIDE DEF x1
<1>3. DOMAIN x2 = InboundFields /\ x2.network = a /\ x2.security = b
  BY <1>2 DEF InboundFields
<1> HIDE DEF x2
<1>4. x3.network = a /\ x3.security = b /\ x3.proto = c
  BY <1>3 DEF InboundFields
<1> HIDE DEF x3
<1> QED BY <1>0, <1>4 DEF a, b, c

LEMMA GeneratedRead ==
  ASSUME NEW in \in Panel.inbounds, "typed" \notin style
  PROVE  LET g == R!Generate(in)
         IN /\ R!StringValue(g.tag) = in.tag
            /\ R!Lower(g.protocol) = DriftedProto(in)
            /\ R!GeneratedTransport(R!Object(g.streamSettings, R!NoStream))
                 = R!Transport(DriftedNetwork(in), DriftedSecurity(in))
<1> DEFINE g == R!Generate(in)
           x == Drifted(in)
           stream == R!StreamRow(x)
<1>1. g = [tag |-> R!Word(in.tag), protocol |-> R!Token(x.proto, "shouted"),
           streamSettings |-> R!Value("object", stream)]
  BY Zenon DEF R!Generate, Drifted, DriftedNetwork, DriftedSecurity, DriftedProto
<1>2. x.network = DriftedNetwork(in) /\ x.security = DriftedSecurity(in) /\ x.proto = DriftedProto(in)
  BY Redrifted
<1> HIDE DEF g, x
<1>3. /\ g.tag = R!Word(in.tag) /\ g.protocol = R!Token(x.proto, "shouted")
      /\ g.streamSettings = R!Value("object", stream)
  BY <1>1
<1> HIDE DEF stream
<1>4. R!StringValue(g.tag) = in.tag
  BY <1>3, WordRead
<1>5. R!Lower(g.protocol) = DriftedProto(in)
  BY <1>2, <1>3, TokenRead
<1>6. R!Object(g.streamSettings, R!NoStream) = stream
  <2> DEFINE y == R!Value("object", stream)
  <2>1. y.t = "object" /\ y.v = stream
    BY ValueIs
  <2> HIDE DEF y
  <2>2. R!Object(y, R!NoStream) = stream
    BY <2>1 DEF R!Object
  <2> QED BY <1>3, <2>2 DEF y
<1>7. x.network # "" /\ x.security # ""
  BY <1>2, InboundIs DEF DriftedNetwork, DriftedSecurity
<1>8. /\ R!FirstNonEmpty(R!Lower(stream.network), "tcp") = x.network
      /\ R!FirstNonEmpty(R!Lower(stream.security), "none") = x.security
  BY <1>7, StreamRead DEF stream
<1>9. R!GeneratedTransport(stream) = R!Transport(x.network, x.security)
  BY <1>8 DEF R!GeneratedTransport
<1>10. R!GeneratedTransport(R!Object(g.streamSettings, R!NoStream))
         = R!Transport(DriftedNetwork(in), DriftedSecurity(in))
  BY <1>2, <1>6, <1>9
<1> QED BY <1>4, <1>5, <1>10 DEF g

\* What the generated configuration is read as.
LEMMA GeneratedAre ==
  ASSUME "typed" \notin style
  PROVE  LET generated == R!GeneratedByTag(R!GeneratedRows)
         IN /\ "absent" \in drift => DOMAIN generated = {}
            /\ "absent" \notin drift =>
                 \A in \in Panel.inbounds :
                   /\ in.tag \in DOMAIN generated
                   /\ generated[in.tag]
                        = <<DriftedProto(in), R!Transport(DriftedNetwork(in), DriftedSecurity(in))>>
<1> DEFINE rows == R!GeneratedRows
           tags == {R!StringValue(g.tag) : g \in rows}
           the(tag) == CHOOSE g \in rows : R!StringValue(g.tag) = tag
           read(g) == <<R!Lower(g.protocol),
                        R!GeneratedTransport(R!Object(g.streamSettings, R!NoStream))>>
           generated == R!GeneratedByTag(rows)
<1>1. generated = [tag \in tags |-> read(the(tag))]
  BY DEF R!GeneratedByTag
<1>2. CASE "absent" \in drift
  <2>1. rows = {}
    BY <1>2 DEF R!GeneratedRows
  <2>2. DOMAIN generated = {}
    BY <1>1, <2>1
  <2> QED BY <1>2, <2>2
<1>3. CASE "absent" \notin drift
  <2>1. rows = {R!Generate(in) : in \in Panel.inbounds}
    BY <1>3 DEF R!GeneratedRows
  <2> SUFFICES ASSUME NEW in \in Panel.inbounds
               PROVE  /\ in.tag \in DOMAIN generated
                      /\ generated[in.tag] = <<DriftedProto(in),
                           R!Transport(DriftedNetwork(in), DriftedSecurity(in))>>
    BY <1>3
  <2> DEFINE g == R!Generate(in)
  <2>2. \A jn \in Panel.inbounds : R!StringValue(R!Generate(jn).tag) = jn.tag
    BY GeneratedRead
  <2>3. g \in rows /\ R!StringValue(g.tag) = in.tag
    BY <2>1, <2>2
  <2>4. \A h \in rows : R!StringValue(h.tag) = in.tag => h = g
    <3> SUFFICES ASSUME NEW h \in rows, R!StringValue(h.tag) = in.tag PROVE h = g
      OBVIOUS
    <3>1. PICK jn \in Panel.inbounds : h = R!Generate(jn)
      BY <2>1
    <3>2. jn.tag = in.tag
      BY <2>2, <3>1
    <3>3. jn = in
      BY <3>2, DriftsAssumption
    <3> QED BY <3>1, <3>3
  <2>5. read(g) = <<DriftedProto(in), R!Transport(DriftedNetwork(in), DriftedSecurity(in))>>
    BY GeneratedRead
  <2> HIDE DEF g, rows
  <2>6. the(in.tag) = g
    BY <2>3, <2>4
  <2>7. in.tag \in tags
    BY <2>3
  <2> HIDE DEF tags, the, read, generated
  <2>8. in.tag \in DOMAIN generated /\ generated[in.tag] = read(the(in.tag))
    BY <1>1, <2>7
  <2> QED BY <2>5, <2>6, <2>8
<1> QED BY <1>2, <1>3

-----------------------------------------------------------------------------
(* Rows: CFG-003 *)

\* What is said of an inbound by itself is not of that rule.
LEMMA OwnRules ==
  ASSUME NEW p, NEW all, NEW o \in R!InboundObservations(p, all)
  PROVE  o.rule # "CFG-003"
<1>1. \E kind, sev : \/ o = R!Obs("CFG-001", kind, sev, p.id)
                     \/ o = R!Obs("CFG-002", kind, sev, p.id)
  BY Zenon DEF R!InboundObservations, R!When
<1>2. \A kind, sev, s : /\ R!Obs("CFG-001", kind, sev, s).rule = "CFG-001"
                        /\ R!Obs("CFG-002", kind, sev, s).rule = "CFG-002"
  BY DEF R!Obs
<1>3. o.rule = "CFG-001" \/ o.rule = "CFG-002"
  BY <1>1, <1>2
<1> QED BY <1>3

LEMMA DriftSaid ==
  ASSUME NEW p, NEW generated
  PROVE  (\E o \in R!GeneratedObservations(p, generated) : o.rule = "CFG-003")
           <=> \/ p.tag = R!NoTag \/ p.tag \notin DOMAIN generated
               \/ generated[p.tag] # <<p.proto, p.transport>>
<1> DEFINE missing == R!Obs("CFG-003", "missing_generated_inbound", "blocking", p.id)
           drifted == R!Obs("CFG-003", "generated_transport_drift", "blocking", p.id)
           lacks == p.tag = R!NoTag \/ p.tag \notin DOMAIN generated
           differs == generated[p.tag] # <<p.proto, p.transport>>
<1>1. missing.rule = "CFG-003" /\ drifted.rule = "CFG-003"
  BY DEF R!Obs
<1>2. R!GeneratedObservations(p, generated)
        = IF lacks THEN {missing} ELSE IF differs THEN {drifted} ELSE {}
  BY Zenon DEF R!GeneratedObservations, R!When
<1> HIDE DEF missing, drifted, lacks, differs
<1>3. (\E o \in R!GeneratedObservations(p, generated) : o.rule = "CFG-003") <=> lacks \/ differs
  BY <1>1, <1>2
<1> QED BY <1>3, Zenon DEF lacks, differs

\* The drifts there are.
DriftTyped == drift \subseteq RowDrifts

LEMMA DriftInvariant == PanelSpec => []DriftTyped
<1>1. PanelInit => DriftTyped
  BY DEF PanelInit, R!Init, DriftTyped
<1>2. ASSUME DriftTyped, [PanelNext]_<<vars, lists>> PROVE DriftTyped'
  <2>1. CASE UNCHANGED drift
    BY <1>2, <2>1 DEF DriftTyped
  <2>2. ASSUME NEW d \in RowDrifts, drift' = R!Toggled(drift, d)
        PROVE  DriftTyped'
    BY <1>2, <2>2 DEF DriftTyped, R!Toggled
  <2> QED BY <1>2, <2>1, <2>2 DEF PanelNext, R!Next, R!Restyle, R!Damage, R!Drift, lists
<1> QED BY <1>1, <1>2, PTL DEF PanelSpec

\* An inbound is the one that was generated if and only if nothing drifts.
LEMMA Undrifted ==
  ASSUME DriftTyped, NEW in \in Panel.inbounds
  PROVE  <<DriftedProto(in), R!Transport(DriftedNetwork(in), DriftedSecurity(in))>>
           = <<in.proto, in.transport>>
         <=> drift \subseteq {"absent"}
<1> DEFINE network == DriftedNetwork(in)
           security == DriftedSecurity(in)
           proto == DriftedProto(in)
<1>1. network \in {in.network, "grpc"} /\ security \in {in.security, "reality"}
  BY DEF DriftedNetwork, DriftedSecurity
<1>2. in.proto # "trojan" /\ in.network # "grpc" /\ in.security # "reality"
  BY DriftsAssumption
<1>3. /\ network = in.network <=> "network" \notin drift
      /\ security = in.security <=> "security" \notin drift
      /\ proto = in.proto <=> "protocol" \notin drift
  BY <1>2 DEF DriftedNetwork, DriftedSecurity, DriftedProto
<1>4. in.transport = R!Transport(in.network, in.security)
  BY InboundIs
<1>5. R!Transport(network, security) = in.transport =>
        network = in.network /\ security = in.security
  BY <1>1, DriftsAssumption
<1> HIDE DEF network, security, proto
<1>6. R!Transport(network, security) = in.transport <=> network = in.network /\ security = in.security
  BY <1>4, <1>5
<1>7. drift \subseteq {"network", "security", "protocol", "absent"}
  BY DriftsAssumption DEF DriftTyped
<1>8. drift \subseteq {"absent"}
        <=> "network" \notin drift /\ "security" \notin drift /\ "protocol" \notin drift
  BY <1>7
<1>9. <<proto, R!Transport(network, security)>> = <<in.proto, in.transport>>
        <=> proto = in.proto /\ R!Transport(network, security) = in.transport
  OBVIOUS
<1>10. <<proto, R!Transport(network, security)>> = <<in.proto, in.transport>>
         <=> drift \subseteq {"absent"}
  BY <1>3, <1>6, <1>8, <1>9
<1> QED BY <1>10 DEF network, security, proto

\* CFG-003 of one inbound.
LEMMA InboundDrifts ==
  ASSUME DriftTyped, "typed" \notin style, NEW in \in Panel.inbounds
  PROVE  LET p == R!ParseInbound(R!InboundRow(in))
             generated == R!GeneratedByTag(R!GeneratedRows)
         IN (\E o \in R!GeneratedObservations(p, generated) : o.rule = "CFG-003") <=> drift # {}
<1> DEFINE p == R!ParseInbound(R!InboundRow(in))
           generated == R!GeneratedByTag(R!GeneratedRows)
<1> SUFFICES (\E o \in R!GeneratedObservations(p, generated) : o.rule = "CFG-003") <=> drift # {}
  OBVIOUS
<1>1. \A f \in InboundFields \ InSettings : p[f] = in[f]
  BY ParsedInbound
<1> HIDE DEF p
<1>2. p.tag = in.tag /\ p.proto = in.proto /\ p.transport = in.transport
  BY <1>1 DEF InboundFields, InSettings
<1>3. in.tag # R!NoTag
  BY DriftsAssumption
<1>4. /\ "absent" \in drift => DOMAIN generated = {}
      /\ "absent" \notin drift =>
           /\ in.tag \in DOMAIN generated
           /\ generated[in.tag]
                = <<DriftedProto(in), R!Transport(DriftedNetwork(in), DriftedSecurity(in))>>
  BY GeneratedAre
<1>5. <<DriftedProto(in), R!Transport(DriftedNetwork(in), DriftedSecurity(in))>>
           = <<in.proto, in.transport>>
         <=> drift \subseteq {"absent"}
  BY Undrifted
<1>6. (\E o \in R!GeneratedObservations(p, generated) : o.rule = "CFG-003")
           <=> \/ p.tag = R!NoTag \/ p.tag \notin DOMAIN generated
               \/ generated[p.tag] # <<p.proto, p.transport>>
  BY DriftSaid
<1> HIDE DEF generated
<1>7. CASE "absent" \in drift
  BY <1>2, <1>4, <1>6, <1>7
<1>8. CASE "absent" \notin drift
  <2>1. (\E o \in R!GeneratedObservations(p, generated) : o.rule = "CFG-003")
          <=> ~(drift \subseteq {"absent"})
    BY <1>2, <1>3, <1>4, <1>5, <1>6, <1>8
  <2>2. ~(drift \subseteq {"absent"}) <=> drift # {}
    BY <1>8
  <2> QED BY <2>1, <2>2
<1> QED BY <1>7, <1>8

LEMMA DriftHolds == DriftTyped => R!DriftExactly
<1> SUFFICES ASSUME DriftTyped, "typed" \notin style
             PROVE  (\E o \in R!Observations : o.rule = "CFG-003") <=> drift # {}
  BY DEF R!DriftExactly
<1> DEFINE p(in) == R!ParseInbound(R!InboundRow(in))
           generated == R!GeneratedByTag(R!GeneratedRows)
           own(in) == R!InboundObservations(p(in), R!Inbounds)
           other(in) == R!GeneratedObservations(p(in), generated)
           part(q) == R!InboundObservations(q, R!Inbounds) \cup R!GeneratedObservations(q, generated)
<1>1. R!Inbounds = {p(in) : in \in Panel.inbounds}
  BY DEF R!Inbounds, R!InboundRows
<1>2. R!Observations = UNION {part(q) : q \in R!Inbounds}
  BY Zenon DEF R!Observations, R!ConfigObservations
<1>3. \A in \in Panel.inbounds : (\E o \in other(in) : o.rule = "CFG-003") <=> drift # {}
  BY InboundDrifts
<1>4. \A in \in Panel.inbounds : \A o \in own(in) : o.rule # "CFG-003"
  BY OwnRules
<1>5. PICK in \in Panel.inbounds : TRUE
  BY DriftsAssumption
<1> HIDE DEF p, generated
<1>6. \A o : o \in R!Observations <=>
        \E jn \in Panel.inbounds : o \in own(jn) \/ o \in other(jn)
  <2>1. \A q, o : o \in part(q) <=> \/ o \in R!InboundObservations(q, R!Inbounds)
                                    \/ o \in R!GeneratedObservations(q, generated)
    OBVIOUS
  <2> HIDE DEF part
  <2>2. \A o : o \in R!Observations <=> \E q \in R!Inbounds : o \in part(q)
    BY <1>2
  <2>3. \A q : q \in R!Inbounds <=> \E jn \in Panel.inbounds : q = p(jn)
    BY <1>1
  <2> QED BY <2>1, <2>2, <2>3
<1> HIDE DEF own, other
<1> QED BY <1>3, <1>4, <1>5, <1>6

-----------------------------------------------------------------------------
(* The theorems of Rows *)

\* However a panel writes its lists down, the rules see what it says: numbers or their
\* digits, objects or their text, capitals, defaults left out, other names.
THEOREM EncodingNeverMatters == PanelSpec => []EncodingIsIrrelevant
<1>1. EncodingIsIrrelevant
  BY EncodingHolds DEF EncodingIsIrrelevant
<1> QED BY <1>1, PTL

\* CFG-003 fails exactly if the generated configuration lacks an inbound or transports
\* it differently, however the two are written.
THEOREM DriftIsExact == PanelSpec => []DriftExactly
<1>1. DriftTyped => DriftExactly
  BY DriftHolds DEF DriftExactly
<1> QED BY <1>1, DriftInvariant, PTL

\* An upgrade that writes objects as their text, the protocol in other letters or no more
\* that an inbound is enabled is no change of an inbound.
THEOREM RewritingChangesNothing == PanelSpec => RewritingIsNoChange
<1>1. (damage = {} => R!ConnectionStates = {Said(in) : in \in Panel.inbounds})'
  BY StatesAre, PTL
<1>2. R!SeenAlike
  <2> SUFFICES ASSUME damage = {}, damage' = {}, style' \cap R!Compared = style \cap R!Compared
               PROVE  R!ConnectionStates' = R!ConnectionStates
    BY DEF R!SeenAlike
  <2>1. R!ConnectionStates = {Said(in) : in \in Panel.inbounds}
    BY StatesAre
  <2>2. R!ConnectionStates' = {Said(in)' : in \in Panel.inbounds}
    BY <1>1
  <2>3. \A in \in Panel.inbounds : Said(in)' = Said(in)
    BY SaidAgain
  <2> QED BY <2>1, <2>2, <2>3
<1> QED BY <1>2, PTL DEF RewritingIsNoChange
=============================================================================
