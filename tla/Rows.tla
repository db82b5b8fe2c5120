-------------------------------- MODULE Rows --------------------------------
(***************************************************************************)
(* The parsers of internal/adapter: from the JSON rows of a panel to what  *)
(* the rules see.  Releases encode the same state differently (numbers or  *)
(* their digits, objects or their JSON text, defaults left out, other key  *)
(* names): between two reads the panel here changes its encoding, or the   *)
(* configuration it generates; a field can hold what no parser expects.    *)
(*                                                                         *)
(* A JSON value is [t, v, as]: its type, what it says and how it is        *)
(* written.  Null is an absent key, or null where a parser cannot tell.    *)
(***************************************************************************)
EXTENDS PanelConfig, Rules

CONSTANTS Panel,     \* [inbounds, clients, nodes]: sets of records, as ParseInbound,
                     \* ParseClient and ParseNode return them
          Styles,    \* the ways to encode that may come and go
          Damages,   \* the fields that may become unreadable
          Drifts     \* how the generated configuration may come to differ

VARIABLES style, damage, drift
vars == <<style, damage, drift>>

Value(t, v) == [t |-> t, v |-> v, as |-> ""]
Null == Value("null", "")
Word(s) == Value("string", s)
Broken(field, value) == IF field \in damage THEN Value("other", "") ELSE value

-----------------------------------------------------------------------------
(* The panel's side: rows *)

Scalar(n) == Value(IF "digits" \in style THEN "digits" ELSE "number", n)
Nested(o) == Value(IF "text" \in style THEN "text" ELSE "object", o)
Deeper(o) == Value(IF "nested" \in style THEN "text" ELSE "object", o)
Token(s, how) == [Word(s) EXCEPT !.as = IF how \in style THEN "capitals" ELSE ""]

\* Versions have their v and small letters, or they do not.
Version(s) ==
  [Word(s) EXCEPT !.as = CASE "digits" \in style /\ "capitals" \in style -> "bare capitals"
                           [] "digits" \in style /\ "capitals" \notin style -> "bare"
                           [] "digits" \notin style /\ "capitals" \in style -> "capitals"
                           [] OTHER -> ""]

\* A default can be left out, a key have its other name.
Unless(default, x) == IF "terse" \in style /\ x.v = default THEN Null ELSE x
Enable(b) == IF "implied" \in style /\ b THEN Null ELSE Value("bool", b)
Key(first, x) == IF first = ("renamed" \notin style) THEN x ELSE Null

StreamRow(in) ==
  LET network == Unless("tcp", Token(in.network, "capitals"))
  IN [network |-> IF "typed" \in style THEN Null ELSE network,
      type |-> IF "typed" \in style THEN network ELSE Null,
      security |-> Unless("none", Token(in.security, "capitals")),
      settings |-> IF in.stream THEN Deeper("settings") ELSE Null]

\* A client without an e-mail address is known by a credential; a fallback has a
\* destination or names its child, under one of several keys.
UserRow(id) ==
  [email |-> IF "rekeyed" \in style THEN Null ELSE Word(id), id |-> Null,
   password |-> IF "rekeyed" \in style THEN Word(id) ELSE Null, auth |-> Null]

FallbackRow(child) ==
  [dest |-> IF child = Explicit THEN Word("dest") ELSE Null,
   childId |-> IF child = Explicit \/ "rekeyed" \in style THEN Null ELSE Scalar(child),
   inboundId |-> IF child # Explicit /\ "rekeyed" \in style THEN Scalar(child) ELSE Null]

SettingsRow(in) ==
  [clients |-> {UserRow(id) : id \in in.clients}, flow |-> in.flow,
   fallbacks |-> {FallbackRow(child) : child \in in.fallbacks}]

InboundRow(in) ==
  [id |-> Scalar(in.id), tag |-> Word(in.tag), originNodeGuid |-> Word(in.origin),
   enable |-> Enable(in.enabled), listen |-> Unless("", Word(in.listen)),
   port |-> Scalar(in.port), protocol |-> Token(in.proto, "shouted"),
   settings |-> Broken("settings", Nested(SettingsRow(in))),
   streamSettings |-> Nested(StreamRow(in)), sniffing |-> Nested("sniffing")]

\* A client that was cut off is disabled in its traffic row, if there is one.
ClientRow(c) ==
  [email |-> Word(c.id), subId |-> Key(TRUE, Word(c.sub)), subID |-> Key(FALSE, Word(c.sub)),
   totalGB |-> Key(TRUE, Scalar(c.total)), total |-> Key(FALSE, Scalar(c.total)),
   expiryTime |-> Scalar(c.expiry),
   enable |-> Enable(c.enabled \/ "untracked" \notin style),
   traffic |-> IF "untracked" \in style THEN Null
               ELSE Nested([enable |-> Value("bool", c.enabled)]),
   inboundIds |-> {Scalar(id) : id \in c.inbounds}]

NodeRow(n) ==
  LET heartbeat == [guid |-> Word(n.guid), panelVersion |-> Version(n.version),
                    xrayVersion |-> Version(n.xray)]
      nothing == [guid |-> Null, panelVersion |-> Null, xrayVersion |-> Null]
  IN [own |-> IF "renamed" \in style THEN nothing ELSE heartbeat,
      last |-> Nested(IF "renamed" \in style THEN heartbeat ELSE nothing)]

\* The generated configuration is written from the saved rows, unless it drifts.
Generate(in) ==
  LET drifted == [in EXCEPT !.network = IF "network" \in drift THEN "grpc" ELSE @,
                            !.security = IF "security" \in drift THEN "reality" ELSE @,
                            !.proto = IF "protocol" \in drift THEN "trojan" ELSE @]
  IN [tag |-> Word(in.tag), protocol |-> Token(drifted.proto, "shouted"),
      streamSettings |-> Value("object", StreamRow(drifted))]

GeneratedRows == {Generate(in) : in \in {i \in Panel.inbounds : "absent" \notin drift}}

-----------------------------------------------------------------------------
(* The conversions *)

Written(x) == IF x.as \in {"capitals", "bare capitals"} THEN "^" \o x.v ELSE x.v
StringValue(x) == IF x.t \in {"string", "digits"} THEN Written(x) ELSE ""
ScalarString(x) == IF x.t \in {"string", "digits", "number"} THEN x.v ELSE ""
Int64Value(x) == IF x.t \in {"digits", "number"} THEN x.v ELSE 0
BoolValue(x, fallback) == IF x.t = "bool" THEN x.v ELSE fallback

\* An object, or a string that contains one.
Object(x, none) == IF x.t \in {"object", "text"} THEN x.v ELSE none

FirstNonEmpty(a, b) == IF a # "" THEN a ELSE b
FirstValue(a, b) == IF a # Null THEN a ELSE b

\* strings.ToLower, and safeConfigToken, which also hides what is no token: the
\* protocols and networks here are tokens.
Lower(x) == IF x.t \in {"string", "digits"} THEN x.v ELSE ""
SafeConfigToken(x) == Lower(x)

\* With a leading v.  In small letters, if it had one: what lacks it is kept as it is
\* written.  The versions here are no development builds, and well formed.
NormalizeVersion(x) ==
  CASE StringValue(x) = "" -> ""
    [] StringValue(x) # "" /\ x.as \in {"bare", "bare capitals"} -> "v" \o StringValue(x)
    [] OTHER -> "v" \o Lower(x)

\* The transport of PanelConfig: the network, and the security if there is one.
Transport(network, security) == IF security = "none" THEN network ELSE network \o "+" \o security

-----------------------------------------------------------------------------
(* The parsers *)

NoSettings == [clients |-> {}, flow |-> FALSE, fallbacks |-> {}]
NoStream == [network |-> Null, type |-> Null, security |-> Null, settings |-> Null]

\* What a client of an inbound is known by.
UserID(user) ==
  FirstNonEmpty(FirstNonEmpty(StringValue(user.email), StringValue(user.id)),
                FirstNonEmpty(StringValue(user.password), StringValue(user.auth)))

\* A fallback as PanelConfig has it.
ParseFallback(row) ==
  IF StringValue(row.dest) # "" THEN Explicit
  ELSE ScalarString(FirstValue(row.childId, row.inboundId))

ParseInbound(row) ==
  LET settings == Object(row.settings, NoSettings)
      stream == Object(row.streamSettings, NoStream)
      network == FirstNonEmpty(FirstNonEmpty(SafeConfigToken(stream.network),
                                             SafeConfigToken(stream.type)), "tcp")
      security == FirstNonEmpty(SafeConfigToken(stream.security), "none")
  IN [id |-> ScalarString(row.id), tag |-> StringValue(row.tag),
      origin |-> StringValue(row.originNodeGuid),
      enabled |-> BoolValue(row.enable, TRUE), listen |-> StringValue(row.listen),
      clients |-> {UserID(user) : user \in settings.clients} \ {""},
      port |-> Int64Value(row.port), proto |-> SafeConfigToken(row.protocol),
      network |-> network, security |-> security,
      transport |-> Transport(network, security),
      stream |-> security = "none" \/ Object(stream.settings, "") # "",
      flow |-> settings.flow,
      fallbacks |-> {ParseFallback(f) : f \in settings.fallbacks}]

\* Mutant: the switch of the client's own row is not overruled by that of its traffic.
ParseClient_OwnSwitch(row) ==
  [id |-> StringValue(row.email), sub |-> FirstNonEmpty(StringValue(row.subId), StringValue(row.subID)),
   total |-> Int64Value(FirstValue(row.totalGB, row.total)), expiry |-> Int64Value(row.expiryTime),
   enabled |-> BoolValue(row.enable, TRUE), inbounds |-> {ScalarString(id) : id \in row.inboundIds}]

ParseClient(row) ==
  LET traffic == Object(row.traffic, [enable |-> Null])
  IN [id |-> StringValue(row.email), sub |-> FirstNonEmpty(StringValue(row.subId), StringValue(row.subID)),
      total |-> Int64Value(FirstValue(row.totalGB, row.total)), expiry |-> Int64Value(row.expiryTime),
      enabled |-> BoolValue(traffic.enable, BoolValue(row.enable, TRUE)),
      inbounds |-> {ScalarString(id) : id \in row.inboundIds}]

ParseNode(row) ==
  LET last == Object(row.last, [guid |-> Null, panelVersion |-> Null, xrayVersion |-> Null])
      first(field) == IF StringValue(row.own[field]) # "" THEN row.own[field] ELSE last[field]
  IN [guid |-> StringValue(first("guid")), version |-> NormalizeVersion(first("panelVersion")),
      xray |-> NormalizeVersion(first("xrayVersion"))]

\* Mutant: a network that is left out is no network.
GeneratedTransport_NoDefault(stream) ==
  Transport(Lower(stream.network), FirstNonEmpty(Lower(stream.security), "none"))

GeneratedTransport(stream) ==
  Transport(FirstNonEmpty(Lower(stream.network), "tcp"), FirstNonEmpty(Lower(stream.security), "none"))

\* generatedByTag of ConfigObservations.
GeneratedByTag(rows) ==
  [tag \in {StringValue(g.tag) : g \in rows} |->
     LET g == CHOOSE g \in rows : StringValue(g.tag) = tag
     IN <<Lower(g.protocol), GeneratedTransport(Object(g.streamSettings, NoStream))>>]

\* Mutant: the objects are compared as they are written.
Unfolded_Never(x) == x

\* InboundConnectionState: what two runs compare of an inbound.  Four fields as they
\* are parsed, two as they are written, and three objects without the text around them:
\* what is in an object is as it is written.
Unfolded(x) == IF x.t = "text" THEN Value("object", x.v) ELSE x

ConnectionState(row) ==
  LET in == ParseInbound(row)
  IN [enable |-> in.enabled, protocol |-> in.proto, tag |-> in.tag, originNodeGuid |-> in.origin,
      listen |-> row.listen, port |-> row.port,
      settings |-> Unfolded(row.settings), streamSettings |-> Unfolded(row.streamSettings),
      sniffing |-> Unfolded(row.sniffing)]

InboundRows == {InboundRow(in) : in \in Panel.inbounds}
Inbounds == {ParseInbound(row) : row \in InboundRows}
Clients == {ParseClient(ClientRow(c)) : c \in Panel.clients}
ConnectionStates == {ConnectionState(row) : row \in InboundRows}
Nodes == {ParseNode(NodeRow(n)) : n \in Panel.nodes}

Observations == ConfigObservations(Inbounds, GeneratedByTag(GeneratedRows))

-----------------------------------------------------------------------------
Toggled(S, x) == (S \ {x}) \cup ({x} \ S)

Restyle == \E s \in Styles : style' = Toggled(style, s) /\ UNCHANGED <<damage, drift>>
Damage == \E d \in Damages : damage' = Toggled(damage, d) /\ UNCHANGED <<style, drift>>
Drift == \E d \in Drifts : drift' = Toggled(drift, d) /\ UNCHANGED <<style, damage>>

Init == style = {} /\ damage = {} /\ drift = {}
Next == Restyle \/ Damage \/ Drift
Spec == Init /\ [][Next]_vars

-----------------------------------------------------------------------------
(* What is expected *)

\* However a panel writes its lists down, the rules see the same; but a version with
\* capitals is in small letters only if it has its v.
EncodingIsIrrelevant ==
  damage = {} =>
    /\ Inbounds = Panel.inbounds
    /\ Clients = Panel.clients
    /\ ~({"digits", "capitals"} \subseteq style) =>
         Nodes = {[n EXCEPT !.version = "v" \o @, !.xray = "v" \o @] : n \in Panel.nodes}

\* An upgrade that writes objects as their text, the protocol in other letters or no
\* more that an inbound is enabled is no change of an inbound: verify compares equal
\* states.  It does take other ways to write the same for a change: a port as its
\* digits, another name of a key or a default left out in the settings or the stream
\* settings, text inside of them.
Compared == {"digits", "nested", "capitals", "terse", "typed", "rekeyed"}
SeenAlike ==
  style' # style /\ style' \cap Compared = style \cap Compared /\ damage = {} /\ damage' = {}
    => ConnectionStates' = ConnectionStates
RewritingIsNoChange == [][SeenAlike]_vars

\* CFG-003 fails exactly if the generated configuration lacks an inbound or
\* transports it differently, however the two are written: except where the network
\* is under its other name, which only one of the two sides reads.
DriftExactly ==
  "typed" \notin style => ((\E o \in Observations : o.rule = "CFG-003") <=> drift # {})
=============================================================================
