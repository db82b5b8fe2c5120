------------------------------ MODULE LinkSets ------------------------------
(***************************************************************************)
(* internal/subscription and the second half of collectSubscriptions: the  *)
(* share links of a client and the links of its subscription are read one  *)
(* after the other from a panel that goes on working, reduced to sets of   *)
(* canonical links and compared.  What the panel serves may be written     *)
(* differently, altered or spoiled on one of its outputs.                  *)
(*                                                                         *)
(* A link is [proto, caps (is its scheme in capitals), user, host, capital *)
(* (is its host), port, params (a sequence of <<key, value>>), name, form];*)
(* `form` is one of the two ways to write a Shadowsocks link.  The fields  *)
(* of a VMess payload are the params of its link.                          *)
(***************************************************************************)
EXTENDS Rules, Sampling

CONSTANTS Accounts,   \* client -> [sub, inbounds], the subscription it belongs to
                      \* and the set of its inbounds
          LinkOf(_, _),  \* the link of a client on an inbound
          DrawOrder,  \* <<inbound, client>> in the order of the keyed digests
          SampleCap,  \* what the panel was dealt
          External,   \* is the raw subscription served at an allowed origin
          Styles, Alterations, Defects,  \* kinds of edits, see Restyled, Altered, Spoiled
          Busy,       \* may the operator edit a client while the run reads
          MaxEdits, MaxLost  \* bounds: edits of the panel, answers that are lost

VARIABLES served,   \* output -> the links the panel answers with
          coding,   \* output -> "plain", "base64" or "cut", Base64 that breaks off
          samples,  \* the selected candidates, << >> before the run
          heard,    \* what the run has read, in order
          edits, lost,
          meanwhile \* ghost: the clients edited while the run was reading

vars == <<served, coding, samples, heard, edits, lost, meanwhile>>

Clients == DOMAIN Accounts
LinkFields == {"proto", "caps", "user", "host", "capital", "port", "params", "name", "form"}
Hysteria == {"hysteria", "hysteria2", "hy2"}
MaxPort == 65535
Protocols == {"vmess", "vless", "trojan", "ss"} \cup Hysteria

\* An output is <<"share", client>>, or <<"sub" or "raw", subscription>>.
Outputs == ({"share"} \X Clients) \cup ({"sub", "raw"} \X {Accounts[c].sub : c \in Clients})
SharesOf(s) == {c \in Clients : Accounts[c].sub = s}

\* What the clients are attached to, in the order of the digests.
Attached(S) == UNION {Accounts[c].inbounds \X {c} : c \in S}
Pairs(S) == Those(DrawOrder, Attached(S))
LinksOf(S) == [i \in DOMAIN Pairs(S) |-> LinkOf(Pairs(S)[i][2], Pairs(S)[i][1])]

\* Whose links an output has: a subscription has those of all its clients.
Owners(o) == IF o[1] = "share" THEN {o[2]} ELSE SharesOf(o[2])
Genuine(o) == LinksOf(Owners(o))

\* The digests order all there is to draw.
ASSUME OrderAssumption ==
  /\ DrawOrder \in Seq(Range(DrawOrder)) /\ Attached(Clients) \subseteq Range(DrawOrder)
  /\ SampleCap \in Nat /\ MaxEdits \in Nat /\ MaxLost \in Nat

\* A link that connects its client, with every key once in its query.
Proper(l, c) ==
  /\ DOMAIN l = LinkFields
  /\ l.proto \in Protocols /\ ~l.caps /\ l.user = c /\ l.host # "" /\ l.port \in 1..MaxPort
  /\ l.params \in Seq(Range(l.params))
  /\ \A i, j \in DOMAIN l.params : l.params[i][1] = l.params[j][1] => i = j

\* The panel's own links connect; all Shadowsocks links have the same plugin, if any.
ASSUME LinksAssumption ==
  /\ Clients \cap {"", "other"} = {}
  /\ \A c \in Clients : \A in \in Accounts[c].inbounds : Proper(LinkOf(c, in), c)
  /\ \A c, d \in Clients : \A in \in Accounts[c].inbounds, jn \in Accounts[d].inbounds :
       LinkOf(c, in).proto = "ss" /\ LinkOf(d, jn).proto = "ss" =>
         Range(LinkOf(c, in).params) = Range(LinkOf(d, jn).params)

-----------------------------------------------------------------------------
(* Parsing *)

ValidPort(port) == port \in 1..MaxPort

\* Mutant: a link without a port is taken.
Valid_NoPort(l) ==
  l.proto \in Protocols /\ l.user # "" /\ l.host # ""

\* canonicalLink and canonicalShadowsocks: what a link is refused for.  The prefix
\* of a VMess link is recognised in capitals, and then not removed.
Valid(l) ==
  /\ l.proto \in Protocols /\ l.host # "" /\ ValidPort(l.port)
  /\ l.proto \notin Hysteria => l.user # ""
  /\ l.proto = "vmess" => ~l.caps

\* url.Values.Encode: by key, the values of a key in their order.
Encoded(params) ==
  [key \in {params[i][1] : i \in DOMAIN params} |->
     Those(params, {kv \in Range(params) : kv[1] = key})]

\* Mutant: the fragment is not dropped.
Canonical_KeepsName(l) ==
  [proto |-> l.proto, user |-> l.user, host |-> l.host, capital |-> FALSE, port |-> l.port,
   params |-> Encoded(l.params), name |-> l.name]

\* The form of a link that is compared: without its name, the host in small letters
\* but in VMess, the query sorted but in Shadowsocks, where it is dropped.
Canonical(l) ==
  [proto |-> l.proto, user |-> l.user, host |-> l.host,
   capital |-> l.proto = "vmess" /\ l.capital, port |-> l.port,
   params |-> Encoded(IF l.proto = "ss" THEN << >> ELSE l.params)]

\* decodeLinks: what contains no link is Base64, in one of four alphabets, or nothing.
Decoded(answer) == IF answer.coding = "cut" THEN << >> ELSE answer.links

Parses(links) == links # << >> /\ \A i \in DOMAIN links : Valid(links[i])
Parsed(links) == {Canonical(links[i]) : i \in DOMAIN links}

-----------------------------------------------------------------------------
(* The panel *)

Swapped(s) == IF Len(s) < 2 THEN s ELSE [s EXCEPT ![1] = s[2], ![2] = s[1]]

\* Another way to write the same: display names, ordering, and format.
Restyled(links, how) ==
  CASE how = "rename" -> [links EXCEPT ![1].name = "renamed"]
    [] how = "repeat" -> Append(links, links[1])
    [] how = "swap"   -> Swapped(links)
    [] how = "shuffle" -> [links EXCEPT ![1].params = Swapped(@)]
    [] how = "capitals" -> [links EXCEPT ![1].caps = TRUE]
    [] how = "host"   -> [links EXCEPT ![1].capital = TRUE]
    [] how = "legacy" -> [links EXCEPT ![1].form = "legacy"]

\* Another connection.
Altered(links, how) ==
  CASE how = "user" -> [links EXCEPT ![1].user = "other"]
    [] how = "port" -> [links EXCEPT ![1].port = 81]
    [] how = "param" -> [links EXCEPT ![1].params[1] =
                           IF links[1].proto = "ss" THEN @ ELSE <<@[1], "other">>]
    [] how = "fewer" -> IF Len(links) < 2 THEN links ELSE Tail(links)

\* No connection.
Spoiled(links, how) ==
  CASE how = "port" -> [links EXCEPT ![1].port = MaxPort + 1]
    [] how = "user" -> [links EXCEPT ![1].user = ""]
    [] how = "scheme" -> [links EXCEPT ![1].proto = "unknown"]
    [] how = "empty" -> << >>

ASSUME EditsAssumption ==
  /\ Styles \subseteq {"rename", "repeat", "swap", "shuffle", "capitals", "host", "legacy"}
  /\ Alterations \subseteq {"user", "port", "param", "fewer"}
  /\ Defects \subseteq {"port", "user", "scheme", "empty"}

Edit(o, links) ==
  /\ samples = << >> /\ edits < MaxEdits
  /\ served[o] # << >>
  /\ served' = [served EXCEPT ![o] = links]
  /\ edits' = edits + 1
  /\ UNCHANGED <<coding, samples, heard, lost, meanwhile>>

\* A subscription is served as Base64, or as what is left of it.
Encode(s) ==
  /\ samples = << >> /\ edits < MaxEdits
  /\ \E how \in {"base64", "cut"} \ {coding[<<"raw", s>>]} :
       coding' = [coding EXCEPT ![<<"raw", s>>] = how]
  /\ edits' = edits + 1
  /\ UNCHANGED <<served, samples, heard, lost, meanwhile>>

Restyle(o) == \E how \in Styles : Edit(o, Restyled(served[o], how))
Alter(o) == \E how \in Alterations : Edit(o, Altered(served[o], how))
Spoil(o) == \E how \in Defects : Edit(o, Spoiled(served[o], how))

\* The operator gives a client another port: in all its outputs at once.
Operate(c) ==
  /\ Busy /\ samples # << >> /\ edits < MaxEdits
  /\ LET new(l) == IF l.user = c THEN [l EXCEPT !.port = 82] ELSE l
     IN served' = [o \in Outputs |-> [i \in DOMAIN served[o] |-> new(served[o][i])]]
  /\ edits' = edits + 1
  /\ meanwhile' = meanwhile \cup {c}
  /\ UNCHANGED <<coding, samples, heard, lost>>

-----------------------------------------------------------------------------
(* The run *)

Candidates ==
  [i \in DOMAIN Pairs(Clients) |->
     LET d == Pairs(Clients)[i]
     IN [stratum |-> d[1], rank |-> <<d[1], Accounts[d[2]].sub>>, client |-> d[2]]]

Begin == /\ samples = << >>
         /\ samples' = Select(Candidates, SampleCap)
         /\ UNCHANGED <<served, coding, heard, edits, lost, meanwhile>>

\* What a run asks for, in order: the links of every sample, twice, and then
\* the subscriptions at their external origin.
Requests ==
  LET n == Len(samples)
  IN [k \in 1..((IF External THEN 3 ELSE 2) * n) |->
        IF k > 2 * n THEN <<"raw", Accounts[samples[k - 2 * n].client].sub>>
        ELSE IF k % 2 = 1 THEN <<"share", samples[(k + 1) \div 2].client>>
        ELSE <<"sub", Accounts[samples[k \div 2].client].sub>>]

Hear(answer) ==
  /\ samples # << >> /\ Len(heard) < Len(Requests)
  /\ heard' = Append(heard, answer)
  /\ UNCHANGED <<served, coding, samples, edits, meanwhile>>

Read == /\ LET o == Requests[Len(heard) + 1]
           IN Hear([read |-> TRUE, links |-> served[o], coding |-> coding[o]])
        /\ UNCHANGED lost
Miss == /\ lost < MaxLost
        /\ Hear([read |-> FALSE, links |-> << >>, coding |-> "plain"])
        /\ lost' = lost + 1

Done == samples # << >> /\ Len(heard) = Len(Requests)
Finished == Done /\ UNCHANGED vars

\* Mutant: what was not read is parsed, too.
Compared_Unread(c, share, sub) ==
  [client |-> c,
   code |-> IF ~Parses(share.links) \/ ~Parses(sub.links) THEN "parse_error" ELSE "",
   agree |-> Parsed(share.links) = Parsed(sub.links)]

\* The observation of a sample, and that of its external subscription, which has no
\* share links to be compared with.
Compared(c, share, sub) ==
  [client |-> c,
   code |-> IF ~share.read \/ ~sub.read THEN "api_evidence_missing"
            ELSE IF ~Parses(share.links) \/ ~Parses(sub.links) THEN "parse_error" ELSE "",
   agree |-> Parsed(share.links) = Parsed(sub.links)]

Fetched(c, raw) ==
  [client |-> c,
   code |-> IF ~raw.read THEN "request_error" ELSE IF ~Parses(Decoded(raw)) THEN "parse_error" ELSE "",
   agree |-> TRUE]

Observed ==
  {Compared(samples[k].client, heard[2 * k - 1], heard[2 * k]) : k \in DOMAIN samples}
  \cup {Fetched(samples[k].client, heard[2 * Len(samples) + k]) :
          k \in {j \in DOMAIN samples : External}}

Says(rule, status, c) == Finding(rule, status, c) \in UNION {SubscriptionFindings(o) : o \in Observed}

Init == /\ served = [o \in Outputs |-> Genuine(o)]
        /\ coding = [o \in Outputs |-> "plain"]
        /\ samples = << >> /\ heard = << >>
        /\ edits = 0 /\ lost = 0 /\ meanwhile = {}

Next == \/ \E o \in Outputs : Restyle(o) \/ Alter(o) \/ Spoil(o)
        \/ \E c \in Clients : Operate(c) \/ Encode(Accounts[c].sub)
        \/ Begin \/ Read \/ Miss \/ Finished

Spec == Init /\ [][Next]_vars

-----------------------------------------------------------------------------
(* What is expected of it *)

\* Types, and bounds: the two passes never draw more than the panel was dealt.
TypeOK ==
  /\ DOMAIN served = Outputs /\ coding \in [Outputs -> {"plain", "base64", "cut"}]
  /\ Len(samples) <= SampleCap
  /\ \A i \in DOMAIN samples : samples[i].client \in Clients
  /\ Len(heard) <= Len(Requests)
  /\ edits \in 0..MaxEdits /\ lost \in 0..MaxLost /\ meanwhile \subseteq Clients

\* What a link connects to, all of its parameters included.  That of a VMess link is
\* taken with the host as it is written.
Connection(l) == <<l.proto, l.user, l.host, l.proto = "vmess" /\ l.capital, l.port, Range(l.params)>>
Connections(links) == {Connection(links[i]) : i \in DOMAIN links}

ShareOf(c) == served[<<"share", c>>]
SubOf(c) == served[<<"sub", Accounts[c].sub>>]
Differ(c) == Connections(ShareOf(c)) # Connections(SubOf(c))
Sampled == {samples[i].client : i \in DOMAIN samples}

\* Nobody whose links it shares is edited meanwhile.
Undisturbed(c) == SharesOf(Accounts[c].sub) \cap meanwhile = {}

\* A VMess scheme in capitals is no link to Doctor.
Sound(links) ==
  links # << >> /\ \A i \in DOMAIN links :
    /\ links[i].port <= MaxPort /\ links[i].proto # "unknown"
    /\ links[i].proto \notin Hysteria => links[i].user # ""
    /\ links[i].proto = "vmess" => ~links[i].caps
BothSound(c) == Sound(ShareOf(c)) /\ Sound(SubOf(c))

\* SUB-003 says exactly which sampled clients have two outputs that connect
\* differently, however the links are written and ordered: of the clients nobody
\* edits meanwhile, when everything was read.
DifferenceExactly ==
  Done /\ lost = 0 =>
    \A c \in Sampled : Undisturbed(c) /\ BothSound(c) => (Says("SUB-003", "FAIL", c) <=> Differ(c))

RawBroken(c) ==
  LET o == <<"raw", Accounts[c].sub>>
  IN External /\ (coding[o] = "cut" \/ ~Sound(served[o]))

\* SUB-001 says exactly which sampled clients have an output with a link that leads
\* nowhere, or one that breaks off: it never passes because the other output has the
\* same link, and it takes every way of writing a good one.
SpoiledIsSaid ==
  Done /\ lost = 0 =>
    \A c \in Sampled : Undisturbed(c) =>
      (Says("SUB-001", "FAIL", c) <=> (~BothSound(c) \/ RawBroken(c)))

\* What was lost is not held against the panel: not if a client has its subscription to
\* itself.  Clients that share one are reported to differ from it (README).
LossIsUnknown ==
  Done /\ edits = 0 =>
    \A c \in Sampled : SharesOf(Accounts[c].sub) = {c} =>
      ~Says("SUB-001", "FAIL", c) /\ ~Says("SUB-003", "FAIL", c)

\* Every inbound with a client is looked at, if the cap allows it, and no subscription
\* is looked at twice on one inbound.
StrataCovered ==
  samples # << >> =>
    LET strata == UNION {Accounts[c].inbounds : c \in Clients}
    IN /\ Cardinality(strata) <= SampleCap => strata = {samples[i].stratum : i \in DOMAIN samples}
       /\ \A i, j \in DOMAIN samples :
            i # j => samples[i].rank # samples[j].rank
=============================================================================
