--------------------------- MODULE ExchangeProofs ---------------------------
(***************************************************************************)
(* What Exchange promises of one read, for any origins, any list of        *)
(* allowed hosts and any certificates.  The argument is that the origin an *)
(* exchange starts at (First) never changes, because nothing is redirected *)
(* before a request was sent: so the client, its trust and what it follows *)
(* are the same for every request of the trail.                            *)
(***************************************************************************)
EXTENDS Exchange, TLAPS, SequenceTheorems

Requests == [origin : Origins, cert : Certificates \cup {"none"}, token : BOOLEAN]

\* A request of the client that was chosen at the start.
Directed(r) ==
  /\ r.token => Authenticated /\ r.origin = First
  /\ r.origin \in Plain \/ Verified(r.cert)
  /\ r.origin = First \/ (First # Panel /\ Listed(r.origin))

SettingInv ==
  /\ kind \in Kinds /\ pinned \in BOOLEAN
  /\ cert \in [Origins -> Certificates \cup {"none"}]
  /\ origin \in Origins

TrailInv ==
  /\ trail \in Seq(Requests) /\ Len(trail) <= 4
  /\ \A i \in 1..Len(trail) : Directed(trail[i])
  /\ Authenticated => First = Panel
  /\ trail # << >> => First \notin Plain /\ (First # Panel => Listed(First))

PlaceInv ==
  /\ pc \in {"connect", "wait", "body", "done"}
  /\ trail = << >> => pc \in {"connect", "done"}
  /\ pc = "connect" => Len(trail) <= 3
  /\ pc = "connect" /\ trail # << >> => \/ origin = First
                                        \/ First # Panel /\ Listed(origin)

AnswerInv ==
  /\ answer \in [status : {"none", "2xx", "other"}, type : {"", "json", "other"},
                 body : Bodies \cup {""}]
  /\ code \in {"", "timeout", "tls_error", "redirect_rejected", "parse_error", "request_error"}
  /\ pc = "done" /\ code = "" => /\ answer.status = "2xx" /\ answer.body \in Bodies \ {"oversized"}
                                 /\ trail # << >>

IInv == SettingInv /\ TrailInv /\ PlaceInv /\ AnswerInv

-----------------------------------------------------------------------------
(* The start never changes *)

LEMMA FirstAppended ==
  ASSUME NEW s \in Seq(Requests), NEW r \in Requests
  PROVE  /\ Append(s, r) \in Seq(Requests) /\ Len(Append(s, r)) = Len(s) + 1
         /\ Append(s, r) # << >>
         /\ \A i \in 1..Len(s) : Append(s, r)[i] = s[i]
         /\ Append(s, r)[Len(s) + 1] = r
         /\ s # << >> => Len(s) \in Nat \ {0} /\ Append(s, r)[1] = s[1]
         /\ s = << >> => Len(s) = 0 /\ Append(s, r)[1] = r
<1>1. Len(s) \in Nat
  OBVIOUS
<1>2. s # << >> => Len(s) \in Nat \ {0}
  BY EmptySeq, <1>1
<1> QED
  BY <1>1, <1>2

LEMMA TrailKept ==
  ASSUME IInv, UNCHANGED <<setting, trail>>, trail # << >> \/ UNCHANGED origin, origin' \in Origins
  PROVE  SettingInv' /\ TrailInv' /\ First' = First
<1>1. First' = First
  BY DEF First, setting
<1>2. \A i \in 1..Len(trail) : Directed(trail[i])' <=> Directed(trail[i])
  BY <1>1 DEF Directed, Verified, PanelClient, Authenticated, Listed, setting
<1> QED
  BY <1>1, <1>2 DEF IInv, SettingInv, TrailInv, setting, Authenticated, Listed

-----------------------------------------------------------------------------
LEMMA InitHolds == Init => IInv
<1> SUFFICES ASSUME Init PROVE IInv
  OBVIOUS
<1>1. SettingInv /\ pc = "connect"
  BY PanelAssumption DEF Init, SettingInv, Kinds
<1>2. trail = << >> /\ Len(trail) = 0 /\ trail \in Seq(Requests)
  <2>1. trail = << >>
    BY DEF Init
  <2>2. << >> \in Seq(Requests) /\ Len(<< >>) = 0
    BY EmptySeq
  <2> QED
    BY <2>1, <2>2
<1>3. Authenticated => First = Panel
  BY DEF Init, Authenticated, First
<1>4. TrailInv
  <2>1. Len(trail) <= 4 /\ 1..Len(trail) = {}
    BY <1>2
  <2> QED
    BY <1>2, <1>3, <2>1 DEF TrailInv
<1>5. PlaceInv
  <2>1. Len(trail) <= 3
    BY <1>2
  <2> QED
    BY <1>1, <1>2, <2>1 DEF PlaceInv
<1>6. AnswerInv
  BY DEF Init, AnswerInv, NoAnswer
<1> QED
  BY <1>1, <1>4, <1>5, <1>6 DEF IInv

\* The ends that give an error.
LEMMA FailHolds ==
  ASSUME IInv, NEW c, EndWith(c), origin' \in Origins, trail # << >> \/ UNCHANGED origin,
         c \in {"timeout", "tls_error", "redirect_rejected", "parse_error", "request_error"}
  PROVE  IInv'
<1>1. SettingInv' /\ TrailInv'
  BY TrailKept DEF EndWith
<1>2. PlaceInv' /\ AnswerInv'
  BY DEF IInv, PlaceInv, AnswerInv, EndWith
<1> QED
  BY <1>1, <1>2 DEF IInv

LEMMA StepHolds == IInv /\ [Next]_vars => IInv'
<1> SUFFICES ASSUME IInv, [Next]_vars PROVE IInv'
  OBVIOUS
<1>0. origin \in Origins /\ pc \in {"connect", "wait", "body", "done"}
  BY DEF IInv, SettingInv, PlaceInv
<1>1. CASE \E c \in {"timeout", "tls_error", "parse_error", "request_error"} : Fail(c)
  BY <1>0, <1>1, FailHolds DEF Fail
<1>2. CASE Send
  <2> DEFINE r == [origin |-> origin, cert |-> cert[origin], token |-> Authenticated /\ origin = First]
  <2>1. r \in Requests /\ trail \in Seq(Requests) /\ trail' = Append(trail, r)
    BY <1>2, <1>0 DEF Send, Requests, IInv, SettingInv, TrailInv
  <2>2. First' = First
    BY <1>2, <2>1, FirstAppended DEF Send, First, setting
  <2>3. Directed(r)
    BY <1>2, <2>1 DEF Send, Directed, IInv, PlaceInv, TrailInv, Reaches, MayStart, Connects, First
  <2>4. \A i \in 1..Len(trail') : Directed(trail'[i])
    BY <2>1, <2>3, FirstAppended DEF IInv, TrailInv
  <2>5. \A i \in 1..Len(trail') : Directed(trail[i])'
    BY <2>4, <2>2, <1>2 DEF Send, Directed, Verified, PanelClient, Authenticated, Listed, setting
  <2>6. First \notin Plain /\ (First # Panel => Listed(First))
    BY <1>2, PanelAssumption DEF Send, Reaches, MayStart, First, IInv, TrailInv
  <2>7. Len(trail) \in Nat /\ Len(trail) <= 3
    BY <1>2, <2>1 DEF Send, Reaches, IInv, PlaceInv
  <2>8. TrailInv'
    BY <2>1, <2>2, <2>5, <2>6, <2>7, <1>2, FirstAppended
       DEF TrailInv, IInv, Send, setting, Authenticated, Listed
  <2>9. trail' # << >>
    BY <2>1, FirstAppended
  <2>10. SettingInv' /\ PlaceInv' /\ AnswerInv'
    BY <1>2, <2>9 DEF Send, IInv, SettingInv, PlaceInv, AnswerInv, setting
  <2> QED
    BY <2>8, <2>10 DEF IInv
<1>3. CASE Redirected
  <2>1. trail # << >>
    BY <1>3 DEF Redirected, IInv, PlaceInv
  <2>2. PICK to \in Origins :
          /\ origin' = to
          /\ IF WithinLimit /\ MayRedirect(to)
             THEN pc' = "connect" /\ UNCHANGED <<setting, trail, answer, code>>
             ELSE EndWith("redirect_rejected")
    BY <1>3 DEF Redirected
  <2>3. CASE WithinLimit /\ MayRedirect(to)
    <3>1. SettingInv' /\ TrailInv' /\ First' = First
      BY <2>1, <2>2, <2>3, TrailKept
    <3>2. PlaceInv'
      BY <2>1, <2>2, <2>3, <3>1 DEF PlaceInv, WithinLimit, MayRedirect, PanelClient, Listed, setting
    <3>3. AnswerInv'
      BY <2>2, <2>3 DEF IInv, AnswerInv
    <3> QED
      BY <3>1, <3>2, <3>3 DEF IInv
  <2>4. CASE ~(WithinLimit /\ MayRedirect(to))
    BY <2>1, <2>2, <2>4, FailHolds
  <2> QED
    BY <2>3, <2>4
<1>4. CASE Headers \/ Body
  <2>1. trail # << >> /\ UNCHANGED <<setting, trail, origin>>
    BY <1>4 DEF Headers, Body, IInv, PlaceInv
  <2>2. SettingInv' /\ TrailInv'
    BY <1>0, <2>1, TrailKept
  <2>3. PlaceInv'
    BY <1>4, <2>1 DEF Headers, Body, PlaceInv
  <2>4. AnswerInv'
    BY <1>4, <2>1 DEF Headers, Body, IInv, AnswerInv, NoAnswer, Bodies
  <2> QED
    BY <2>2, <2>3, <2>4 DEF IInv
<1>5. CASE UNCHANGED vars
  <2>1. SettingInv' /\ TrailInv' /\ First' = First
    BY <1>0, <1>5, TrailKept DEF vars, setting
  <2>2. PlaceInv' /\ AnswerInv'
    BY <2>1, <1>5 DEF IInv, PlaceInv, AnswerInv, Listed, vars
  <2> QED
    BY <2>1, <2>2 DEF IInv
<1> QED
  BY <1>1, <1>2, <1>3, <1>4, <1>5
     DEF Next, Refuse, Unreachable, Distrust, Cut, Expire, Finished, TransportCode

THEOREM Invariance == Spec => []IInv
  BY InitHolds, StepHolds, PTL DEF Spec

\* Every state of a read is of its type; at most four requests are sent.
THEOREM ExchangeTyped == Spec => []TypeOK
<1>1. IInv => TypeOK
  BY DEF IInv, SettingInv, TrailInv, PlaceInv, AnswerInv, TypeOK
<1> QED
  BY <1>1, Invariance, PTL

\* Wherever it is redirected, an authenticated read stays with the panel's origin and
\* its verified certificate, and only it carries the token; an external one starts over
\* TLS and goes to listed hosts, over a trusted certificate wherever there is TLS.
THEOREM ReadsAreDirected == Spec => []RequestsAreDirected
<1>1. IInv => RequestsAreDirected
  <2> SUFFICES ASSUME IInv, NEW i \in DOMAIN trail
               PROVE  LET r == trail[i]
                      IN /\ Authenticated => /\ r.origin = Panel
                                             /\ r.cert = (IF pinned THEN "pinned" ELSE "trusted")
                         /\ r.token => Authenticated
                         /\ i = 1 => r.origin \notin Plain
                         /\ r.origin = Panel \/ Listed(r.origin)
                         /\ r.origin \in Plain \/ r.cert = "trusted"
                              \/ (pinned /\ r.origin = Panel /\ r.cert = "pinned")
    BY DEF RequestsAreDirected
  <2>1. i \in 1..Len(trail) /\ trail # << >>
    BY DEF IInv, TrailInv
  <2>2. Directed(trail[i]) /\ First \notin Plain /\ (First # Panel => Listed(First))
        /\ (Authenticated => First = Panel)
    BY <2>1 DEF IInv, TrailInv
  <2>3. i = 1 => trail[i].origin = First
    BY <2>1 DEF First
  <2>4. trail[i].origin = Panel => trail[i].origin \notin Plain
    BY PanelAssumption
  <2>5. trail[i].origin = Panel \/ Listed(trail[i].origin)
    BY <2>2 DEF Directed
  <2>6. trail[i].origin \in Plain \/ trail[i].cert = "trusted"
          \/ (pinned /\ trail[i].origin = Panel /\ trail[i].cert = "pinned")
    BY <2>2 DEF Directed, Verified, PanelClient
  <2> QED
    BY <2>2, <2>3, <2>4, <2>5, <2>6 DEF Directed, Verified, PanelClient
<1> QED
  BY <1>1, Invariance, PTL

\* A blocking finding about a panel's API follows a complete answer of the panel.
THEOREM OnlyAnswersAccuse == Spec => []AccusedOfItsAnswer
<1>1. IInv => AccusedOfItsAnswer
  <2> SUFFICES ASSUME IInv, pc = "done", Authenticated, "FAIL" \in Verdicts
               PROVE  /\ answer.status = "2xx" /\ answer.body \in Bodies \ {"oversized"}
                      /\ trail[Len(trail)].origin = Panel
                      /\ trail[Len(trail)].cert = (IF pinned THEN "pinned" ELSE "trusted")
    BY DEF AccusedOfItsAnswer
  <2>1. PICK o \in Recorded(code, answer) : StatusOf(o) = "FAIL"
    BY DEF Verdicts, Findings, FromObservation, Finding
  <2>2. code = ""
    <3>1. SUFFICES ASSUME code # "" PROVE FALSE
      OBVIOUS
    <3>2. Recorded(code, answer) = {Obs("API-001", "request_failed", "inconclusive", code)}
      BY <3>1 DEF Recorded
    <3> QED
      BY <2>1, <3>2 DEF StatusOf, Obs
  <2>3. answer.status = "2xx" /\ answer.body \in Bodies \ {"oversized"} /\ trail # << >>
    BY <2>2 DEF IInv, AnswerInv
  <2>4. Len(trail) \in 1..Len(trail)
    BY <2>3, EmptySeq, LenProperties DEF IInv, TrailInv
  <2>5. Directed(trail[Len(trail)]) /\ First = Panel
    BY <2>4 DEF IInv, TrailInv
  <2> QED
    BY <2>3, <2>5, PanelAssumption DEF Directed, Verified, PanelClient
<1> QED
  BY <1>1, Invariance, PTL
=============================================================================
