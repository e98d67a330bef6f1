----------------------------- MODULE MCTelemetry -----------------------------
(***************************************************************************)
(* Small instances of Telemetry.                                           *)
(***************************************************************************)
EXTENDS Telemetry

CONSTANTS d1, m1

OneGuarded == {<<d1, m1>>}

(* "An escalation of severity is not suppressed" (README:93, test_pipeline.py:
   170): a critical alert after a warning about the same series gets through.
   False when it escalates for the second time within a cooldown.             *)
EscalationGetsThrough ==
  [][\A a \in raised' \ raised, b \in raised :
       /\ a.kind = "threshold" /\ a.severity = "critical"
       /\ b.kind = "threshold" /\ b.severity = "warning"
       /\ <<a.device, a.metric>> = <<b.device, b.metric>>
       => a \in todo' \/ heard'[Identity(a)] = a.at]_vars
=============================================================================
