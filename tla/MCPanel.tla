------------------------------- MODULE MCPanel -------------------------------
(***************************************************************************)
(* An instance of PanelViews for TLC.                                      *)
(***************************************************************************)
EXTENDS PanelViews

-----------------------------------------------------------------------------
(* Links: two clients on two inbounds, with links of three protocols *)

Link(proto, c, port) ==
  [proto |-> proto, caps |-> FALSE, user |-> c, host |-> "h", capital |-> FALSE, port |-> port,
   params |-> <<<<"security", "tls">>, <<"type", "ws">>>>, name |-> c, form |-> "sip002"]

ThreeProtocols(c, in) ==
  IF in = "b" THEN Link("ss", c, 444) ELSE Link(IF c = "c1" THEN "vless" ELSE "vmess", c, 443)

Own == [c1 |-> [sub |-> "s1", inbounds |-> {"a", "b"}], c2 |-> [sub |-> "s2", inbounds |-> {"a"}]]
Order == <<<<"a", "c2">>, <<"a", "c1">>, <<"b", "c1">>>>

LinkStyles == {"rename", "repeat", "swap", "shuffle", "capitals", "host", "legacy"}

-----------------------------------------------------------------------------
(* Lists: two inbounds, two clients and a node *)

Inbound(id, tag, origin, network, security, proto, flow, fallbacks) ==
  [id |-> id, tag |-> tag, origin |-> origin, enabled |-> flow, listen |-> "", clients |-> {"c1"}, port |-> 443, proto |-> proto,
   network |-> network, security |-> security,
   transport |-> IF security = "none" THEN network ELSE network \o "+" \o security,
   stream |-> TRUE, flow |-> flow, fallbacks |-> fallbacks]

Client(id, enabled, total) ==
  [id |-> id, sub |-> "s", total |-> total, expiry |-> 7, enabled |-> enabled, inbounds |-> {"1"}]

Panel1 ==
  [inbounds |-> {Inbound("1", "in-1", "g1", "ws", "tls", "vless", TRUE, {"2", "explicit"}),
                 Inbound("2", "in-2", "", "tcp", "none", "vmess", FALSE, {"1"})},
   clients |-> {Client("c1", TRUE, 100), Client("c2", FALSE, 0)},
   nodes |-> {[guid |-> "g1", version |-> "3.6.0", xray |-> "25.1"]}]
=============================================================================
