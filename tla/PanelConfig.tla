---------------------------- MODULE PanelConfig ----------------------------
(***************************************************************************)
(* internal/adapter: what one panel says of its inbounds, and the          *)
(* configuration rules CFG-001..003 evaluated while it is collected.       *)
(*                                                                         *)
(* An inbound is [id, tag, origin, clients, port, proto, transport,        *)
(* stream, flow, fallbacks]: `transport` is its network with its security, *)
(* `stream` says whether the settings that security needs are there, and a *)
(* fallback is the ID of its child inbound or Explicit.  `generated` maps  *)
(* the tags of the generated configuration to the <<proto, transport>>     *)
(* found there.                                                            *)
(***************************************************************************)
EXTENDS Findings

NoGUID   == ""            \* originNodeGuid of an inbound the panel owns
NoTag    == ""
Explicit == "explicit"    \* a fallback with a non-empty dest

\* One token of each class of knownProtocol, knownNetwork and knownSecurity;
\* anything else is unknown, and "" an absent protocol.
KnownProtocols  == {"vless", "vmess"}
KnownTransports == {"tcp", "ws+tls"}

InboundKey(in) == IF in.tag = NoTag THEN in.id ELSE in.tag

\* Mutant: an inbound of the panel's own is not qualified by its GUID.
InboundIdentity_Unqualified(in, panelGUID) == <<in.origin, InboundKey(in)>>

InboundIdentity(in, panelGUID) ==
  <<IF in.origin = NoGUID THEN panelGUID ELSE in.origin, InboundKey(in)>>

Port == 1..65535

FallbackResolves(fallback, inbounds) ==
  \/ fallback = Explicit
  \/ \E child \in inbounds : child.id = fallback /\ child.port \in Port

InboundObservations(in, inbounds) ==
  When(in.proto = "", {Obs("CFG-002", "missing_protocol", "blocking", in.id)})
  \cup When(in.proto \notin KnownProtocols \cup {""},
            {Obs("CFG-002", "unknown_protocol", "inconclusive", in.id)})
  \cup When(in.transport \notin KnownTransports,
            {Obs("CFG-002", "unknown_transport", "inconclusive", in.id)})
  \cup When(\E f \in in.fallbacks : ~FallbackResolves(f, inbounds),
            {Obs("CFG-001", "unresolved_fallback", "blocking", in.id)})
  \cup When(~in.stream, {Obs("CFG-002", "incomplete_security", "blocking", in.id)})
  \cup When(in.flow /\ in.proto # "vless", {Obs("CFG-002", "invalid_flow", "blocking", in.id)})

GeneratedObservations(in, generated) ==
  IF in.tag = NoTag \/ in.tag \notin DOMAIN generated
  THEN {Obs("CFG-003", "missing_generated_inbound", "blocking", in.id)}
  ELSE When(generated[in.tag] # <<in.proto, in.transport>>,
            {Obs("CFG-003", "generated_transport_drift", "blocking", in.id)})

ConfigObservations(inbounds, generated) ==
  UNION {InboundObservations(in, inbounds) \cup GeneratedObservations(in, generated) :
           in \in inbounds}
=============================================================================
