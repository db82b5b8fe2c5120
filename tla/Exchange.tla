------------------------------ MODULE Exchange ------------------------------
(***************************************************************************)
(* internal/api and fetchWith: one read, from the request to what is said  *)
(* of it.  A panel API read carries the token and expects JSON in an       *)
(* envelope; the OpenAPI document has no envelope; an external read of a   *)
(* subscription starts at the panel's origin or at an allowed one.  The    *)
(* server answers, redirects, stops in the middle or says nothing.         *)
(*                                                                         *)
(* An origin stands for scheme, host and port; the list of allowed hosts   *)
(* knows it by its names only, the host and the host with the port.        *)
(***************************************************************************)
EXTENDS Rules, Sequences

CONSTANTS Origins,       \* among them Panel
          Plain,         \* those whose scheme is http: no certificate is shown
          Names,         \* origin -> what the list of allowed hosts may call it
          AllowedSets,   \* what transport.allowed_redirect_hosts may be
          Certificates   \* the kinds a server may show: "trusted" by the system,
                         \* "pinned" (the one of the panel's pin), "unknown"

Panel == "panel"

ASSUME PanelAssumption == Panel \in Origins \ Plain

VARIABLES kind,     \* "api", "document", "external" or "external_json"
          allowed, pinned,  \* the configuration
          cert,     \* origin -> the certificate it shows, "none" over plain http
          pc, origin,       \* where the exchange is
          trail,    \* the requests sent: [origin, token, cert]
          answer,   \* the last response, [status, type, body]
          code      \* the error code, "" if there is none

vars == <<kind, allowed, pinned, cert, pc, origin, trail, answer, code>>
setting == <<kind, allowed, pinned, cert>>

Kinds == {"api", "document", "external", "external_json"}
Authenticated == kind \in {"api", "document"}

NoAnswer == [status |-> "none", type |-> "", body |-> ""]
Bodies == {"empty", "foreign", "failure", "null", "malformed", "ok", "oversized"}

\* The client of the exchange, chosen by where it starts: panelHTTP for the panel's
\* origin, externalHTTP for any other.
First == IF trail = << >> THEN origin ELSE trail[1].origin
PanelClient == First = Panel

\* A pin replaces the system's trust, in panelHTTP only.
Verified(c) == IF pinned /\ PanelClient THEN c = "pinned" ELSE c = "trusted"

\* Mutant: one more.
WithinLimit_OffByOne == Len(trail) <= 4

\* len(via) > 3, where via are the requests made so far.
WithinLimit == Len(trail) <= 3

\* The scheme of an origin is not looked at, nor its port when the list has the host.
Listed(o) == Names[o] \cap allowed # {}

\* Mutant: the two clients redirect alike.
MayRedirect_Alike(to) == to = First \/ Listed(to)

\* CheckRedirect of the two clients.
MayRedirect(to) == to = First \/ (~PanelClient /\ Listed(to))

\* What a connection takes: over plain http there is nothing to verify.
Connects(o) == o \in Plain \/ Verified(cert[o])

\* SanitizedErrorCode looks for words in the text of the error.  That of a transport
\* error names the URL, and the one of the JSON format contains the word of a parser.
TransportCode == IF kind = "external_json" THEN "parse_error" ELSE "request_error"

-----------------------------------------------------------------------------
EndWith(c) == /\ pc' = "done"
              /\ code' = c
              /\ UNCHANGED <<setting, trail, answer>>

Fail(c) == EndWith(c) /\ UNCHANGED origin

\* GetExternal: the panel's origin, or an HTTPS one that is listed.
MayStart(o) == o \notin Plain /\ (o = Panel \/ Listed(o))

Refuse == /\ pc = "connect" /\ trail = << >>
          /\ ~Authenticated /\ ~MayStart(origin)
          /\ Fail("request_error")

Reaches == pc = "connect" /\ (Authenticated \/ trail # << >> \/ MayStart(origin))

Unreachable == Reaches /\ Fail(TransportCode)

Distrust == Reaches /\ ~Connects(origin) /\ Fail("tls_error")

\* The token is set on the first request, and net/http keeps it on a redirect to the
\* same host.
Send == /\ Reaches /\ Connects(origin)
        /\ trail' = Append(trail, [origin |-> origin, cert |-> cert[origin],
                                   token |-> Authenticated /\ origin = First])
        /\ pc' = "wait"
        /\ UNCHANGED <<setting, origin, answer, code>>

Redirected ==
  /\ pc = "wait"
  /\ \E to \in Origins :
       /\ origin' = to
       /\ IF WithinLimit /\ MayRedirect(to)
          THEN pc' = "connect" /\ UNCHANGED <<setting, trail, answer, code>>
          ELSE EndWith("redirect_rejected")

\* The headers are there; the body is yet to come.
Headers ==
  /\ pc = "wait"
  /\ \E status \in {"2xx", "other"}, type \in {"json", "other"} :
       answer' = [NoAnswer EXCEPT !.status = status, !.type = type]
  /\ pc' = "body"
  /\ UNCHANGED <<setting, origin, trail, code>>

\* Mutant: the status is not looked at.
Body_AnyStatus ==
  /\ pc = "body"
  /\ \E body \in Bodies :
       /\ answer' = [answer EXCEPT !.body = body]
       /\ code' = IF body = "oversized" THEN "request_error" ELSE ""
  /\ pc' = "done"
  /\ UNCHANGED <<setting, origin, trail>>

\* The whole body, or what is over the limit.
Body ==
  /\ pc = "body"
  /\ \E body \in Bodies :
       /\ answer' = [answer EXCEPT !.body = body]
       /\ code' = IF body = "oversized" \/ answer.status # "2xx" THEN "request_error" ELSE ""
  /\ pc' = "done"
  /\ UNCHANGED <<setting, origin, trail>>

\* The connection breaks.
Cut == \/ pc = "wait" /\ Fail(TransportCode)
       \/ pc = "body" /\ Fail("request_error")

\* Mutant: a body may take its time.
Expire_NotBody == pc \in {"connect", "wait"} /\ Fail("timeout")

\* transport.request_timeout is one for the whole exchange.  It is told apart from
\* other errors unless it expires while the body is read.
Expire == \/ pc \in {"connect", "wait"} /\ Fail("timeout")
          \/ pc = "body" /\ Fail("request_error")

Init == /\ kind \in Kinds
        /\ allowed \in AllowedSets
        /\ pinned \in BOOLEAN
        /\ \E shown \in [Origins \ Plain -> Certificates] :
             cert = [o \in Origins |-> IF o \in Plain THEN "none" ELSE shown[o]]
        /\ origin \in IF kind \in {"api", "document"} THEN {Panel} ELSE Origins
        /\ pc = "connect" /\ trail = << >>
        /\ answer = NoAnswer /\ code = ""

Finished == pc = "done" /\ UNCHANGED vars

Next == \/ Refuse \/ Unreachable \/ Distrust \/ Send \/ Redirected \/ Headers \/ Body \/ Cut
        \/ Expire \/ Finished

\* A server may say nothing for ever; the timer runs.
Spec == Init /\ [][Next]_vars /\ WF_vars(Expire)

-----------------------------------------------------------------------------
(* What is said of it *)

\* fetchWith and then the parser, for an authenticated read: what is recorded, if
\* anything.  A status snapshot that is null is retried, any other object must be
\* there.  The OpenAPI document has no envelope: a body that is none, or lacks an
\* operation, is an observation of its own, blocking for a supported panel.
Recorded(e, a) ==
  CASE e # "" -> {Obs("API-001", "request_failed", "inconclusive", e)}
    [] e = "" /\ a.body = "empty" -> {Obs("API-001", "empty_success", "blocking", "")}
    [] e = "" /\ a.body # "empty" /\ a.type # "json" ->
         {Obs("API-001", "media_type_mismatch", "blocking", "")}
    [] e = "" /\ a.type = "json" /\ a.body \notin {"empty", "ok"} /\ kind = "document" ->
         {Obs("API-003", "required_openapi_operation_missing", "blocking", "")}
    [] e = "" /\ a.type = "json" /\ a.body = "foreign" /\ kind = "api" ->
         {Obs("API-001", "envelope_mismatch", "blocking", "")}
    [] e = "" /\ a.type = "json" /\ a.body = "failure" /\ kind = "api" ->
         {Obs("API-001", "parse", "inconclusive", "api reported failure")}
    [] e = "" /\ a.type = "json" /\ a.body \in {"null", "malformed"} /\ kind = "api" ->
         {Obs("API-001", "parse", "blocking", "")}
    [] e = "" /\ a.type = "json" /\ a.body = "ok" -> {}

\* An external read: the body is parsed whatever its type is.
Subscription(e, a) ==
  [client |-> "c", agree |-> TRUE,
   code |-> IF e # "" THEN e ELSE IF a.body = "ok" THEN "" ELSE "parse_error"]

Findings(e, a) == IF Authenticated THEN {FromObservation(o) : o \in Recorded(e, a)}
                  ELSE SubscriptionFindings(Subscription(e, a))

Verdicts == {f.status : f \in Findings(code, answer)}

-----------------------------------------------------------------------------
(* What is expected of it *)

\* Every state of a read is of its type; with three redirects, at most four requests
\* are sent.
TypeOK == /\ kind \in Kinds /\ pinned \in BOOLEAN
          /\ pc \in {"connect", "wait", "body", "done"} /\ origin \in Origins
          /\ Len(trail) <= 4
          /\ answer.status \in {"none", "2xx", "other"}
          /\ code \in {"", "timeout", "tls_error", "redirect_rejected", "parse_error", "request_error"}

\* The panel is accused only of what it said: a blocking API-001 or API-003 finding follows a
\* complete successful answer, of the configured origin, through the connection its
\* certificate was checked on.  Errors of the way there are inconclusive.
AccusedOfItsAnswer ==
  pc = "done" /\ Authenticated /\ "FAIL" \in Verdicts =>
    /\ answer.status = "2xx" /\ answer.body \in Bodies \ {"oversized"}
    /\ trail[Len(trail)].origin = Panel
    /\ trail[Len(trail)].cert = (IF pinned THEN "pinned" ELSE "trusted")

\* An authenticated read never leaves the panel's origin and its pin or trusted
\* certificate, and only it carries the token; an external one starts over HTTPS, and
\* goes to the panel's origin or to a listed host, over a certificate the system trusts
\* wherever there is TLS.  What is not said is that there is TLS after a redirect: the
\* code follows one to http on a listed host.
RequestsAreDirected ==
  \A i \in DOMAIN trail :
    LET r == trail[i]
    IN /\ Authenticated => r.origin = Panel /\ r.cert = (IF pinned THEN "pinned" ELSE "trusted")
       /\ r.token => Authenticated
       /\ i = 1 => r.origin \notin Plain
       /\ r.origin = Panel \/ Listed(r.origin)
       /\ r.origin \in Plain \/ r.cert = "trusted"
            \/ (pinned /\ r.origin = Panel /\ r.cert = "pinned")

\* Every read ends, whatever the server does.
Ends == <>(pc = "done")
=============================================================================
