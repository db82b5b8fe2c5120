------------------------------ MODULE Findings ------------------------------
(***************************************************************************)
(* Observations, findings and the aggregate readiness (internal/model,     *)
(* internal/rules).  An observation is what the collector records about a  *)
(* panel, a finding is what the rule pack says of it.                      *)
(* Wording, impact and remediation texts are left out: rule, severity,     *)
(* kind and subject are what readiness and the properties tell apart.      *)
(***************************************************************************)
EXTENDS Integers

\* The Blocking and Inconclusive flags of an Observation: the code never
\* sets both, and an observation with neither is a warning.
Severities == {"blocking", "inconclusive", "plain"}

Obs(rule, kind, sev, subject) ==
  [rule |-> rule, kind |-> kind, sev |-> sev, subject |-> subject]

\* The guarded append: what an `if cond { append }` adds to a set.
When(cond, S) == IF cond THEN S ELSE {}

RuleOrder == {"API-001", "API-003", "CFG-001", "CFG-002", "CFG-003", "SUB-001",
              "SUB-003", "NODE-001", "NODE-003", "TRAFFIC-001", "TRAFFIC-002",
              "LIMIT-001"}

Finding(rule, status, subject) ==
  [rule |-> rule, status |-> status, subject |-> subject]

StatusOf(o) == CASE o.sev = "blocking" -> "FAIL"
                 [] o.sev = "inconclusive" -> "UNKNOWN"
                 [] OTHER -> "WARN"

FromObservation(o) == Finding(o.rule, StatusOf(o), o.subject)

Readiness(findings) ==
  IF \E f \in findings : f.status = "FAIL" THEN "BLOCKED"
  ELSE IF \E f \in findings : f.status = "UNKNOWN" THEN "INCONCLUSIVE"
  ELSE "READY"
=============================================================================
