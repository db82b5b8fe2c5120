---------------------------- MODULE SnapshotDiff ----------------------------
(***************************************************************************)
(* internal/diff: Compare, what changed between the snapshot of a          *)
(* preflight and that of the verification.  A snapshot is a function from  *)
(* the panels of its run to                                                *)
(*   [alias, fields, inbound, client, subscription]                        *)
(* where the last three are functions from aliases to the state that is    *)
(* compared (inboundMap, clientMap and the maps of compareSubscriptions).  *)
(***************************************************************************)
EXTENDS Findings

\* The scalars of a panel.  No change of theirs is an error.
Fields == {"panel_version", "xray_version", "openapi_hash", "generated_config_hash"}

\* Mutant: the subscriptions are not compared.
Kinds_NoSubscriptions == {"inbound", "client"}

Kinds == {"inbound", "client", "subscription"}

FieldSeverity(f) == IF f \in {"panel_version", "xray_version"} THEN "info" ELSE "warning"

RuleOfKind(kind) == CASE kind = "inbound" -> "CFG-003"
                      [] kind \in {"client", "panel"} -> "NODE-003"
                      [] kind = "subscription" -> "SUB-003"

Change(panel, kind, subject, severity) ==
  [panel |-> panel, kind |-> kind, subject |-> subject, severity |-> severity]

\* A field is {} or the set of its value.  A generated configuration that one of
\* the runs could not read is not compared, the other fields are.
FieldChanges(id, old, new) ==
  {Change(id, f, {}, FieldSeverity(f)) :
     f \in {g \in Fields :
              /\ old[g] # new[g]
              /\ g = "generated_config_hash" => old[g] # {} /\ new[g] # {}}}

\* compareObjectSets: what vanished, what changed, what appeared.
Differing(old, new) ==
  {a \in (DOMAIN old) \cup (DOMAIN new) :
     a \in (DOMAIN old) \cap (DOMAIN new) => old[a] # new[a]}

ObjectChanges(id, old, new) ==
  UNION {{Change(id, kind, {a}, "error") : a \in Differing(old[kind], new[kind])} : kind \in Kinds}

\* Mutant: panels that appear are not looked for.
Changes_Known(before, after) ==
  UNION {FieldChanges(id, before[id].fields, after[id].fields)
           \cup ObjectChanges(id, before[id], after[id]) :
             id \in (DOMAIN before) \cap (DOMAIN after)}

Changes(before, after) ==
  (UNION {FieldChanges(id, before[id].fields, after[id].fields)
           \cup ObjectChanges(id, before[id], after[id]) :
             id \in (DOMAIN before) \cap (DOMAIN after)})
  \cup {Change(id, "panel", {before[id].alias}, "error") : id \in (DOMAIN before) \ (DOMAIN after)}
  \cup {Change(id, "panel", {after[id].alias}, "error") : id \in (DOMAIN after) \ (DOMAIN before)}

\* The findings that block: every change that is an error is one.  Their subject
\* is left to the change, the panel stands for it.
Regressions(before, after) ==
  {Finding(RuleOfKind(c.kind), "FAIL", c.panel) :
     c \in {d \in Changes(before, after) : d.severity = "error"}}
=============================================================================
