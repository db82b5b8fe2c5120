----------------------------- MODULE MCExchange -----------------------------
(* The panel's origin, a host that subscriptions are served at, its plain http origin, *)
(* and a host on a port of its own.                                                    *)
EXTENDS Exchange

FourOrigins == {Panel, "sub", "sub_http", "cdn"}
PlainOrigins == {"sub_http"}
HostNames == [o \in FourOrigins |-> CASE o = Panel -> {"panel.example"}
                                       [] o = "cdn" -> {"cdn.example", "cdn.example:8443"}
                                       [] OTHER -> {"sub.example"}]
HostLists == {{}, {"sub.example"}, {"sub.example", "cdn.example:8443"},
              {"panel.example", "cdn.example"}}
=============================================================================
