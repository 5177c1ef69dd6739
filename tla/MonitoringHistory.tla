-------------------------- MODULE MonitoringHistory --------------------------
(* Monitoring observed: when the process last sent an alert of each key. *)
EXTENDS Monitoring

VARIABLE sentAt

vars == <<monitorVars, sentAt>>

Sent == {task'[i].key : i \in {j \in Slot : task[j].at = "rule" /\ task'[j].at = "sending"}}

Observe ==
  sentAt' = IF Restart THEN [k \in {} |-> 0]
            ELSE [k \in DOMAIN sentAt \cup Sent |-> IF k \in Sent THEN now ELSE sentAt[k]]

Init == MonitoringInit /\ sentAt = [k \in {} |-> 0]
Next == MonitoringNext /\ Observe
Spec == Init /\ [][Next]_vars

-----------------------------------------------------------------------------
\* "alerts once per cooldown window rather than once per operation" (anomaly-detection.md:150):
\* between two alerts of a key is the cooldown, whatever invocations are under way at once and
\* in whatever order they get to the rule; a restart forgets.
AlertsSpaced ==
  [][\A k \in Sent : k \in DOMAIN sentAt => now - sentAt[k] >= ALERT_COOLDOWN]_vars
=============================================================================
