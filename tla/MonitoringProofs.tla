--------------------------- MODULE MonitoringProofs ---------------------------
(***************************************************************************)
(* Proof, for any rules, operations and invocations under way at once,     *)
(* that alerts of one key are a cooldown apart (MonitoringHistory).        *)
(***************************************************************************)
EXTENDS MonitoringHistory, TLAPS

\* A task is a record of these fields; what is in them but its progress is of no matter here.
Shaped(t) ==
  /\ t = [at |-> t.at, op |-> t.op, time |-> t.time, rule |-> t.rule, key |-> t.key]
  /\ t.at \in {"free", "rule", "sending"}

TasksOK == task = [i \in Slot |-> task[i]] /\ \A i \in Slot : Shaped(task[i])

\* The process knows when it last alerted each key.
IInv ==
  /\ TasksOK
  /\ sentAt = [k \in DOMAIN sentAt |-> sentAt[k]]
  /\ lastAlert = sentAt

-----------------------------------------------------------------------------
\* After a rule a task is not sending.
LEMMA AfterRuleShape ==
  ASSUME NEW t, Shaped(t)
  PROVE  Shaped(AfterRule(t)) /\ AfterRule(t).at \in {"free", "rule"}
<1>1. CASE t.rule = 4
  BY <1>1 DEF AfterRule, Shaped, Free
<1>2. CASE t.rule # 4
  <2>1. PICK n : n = t.rule + 1
    OBVIOUS
  <2>2. AfterRule(t) = [at |-> "rule", op |-> t.op, time |-> t.time, rule |-> n, key |-> None]
    BY <1>2, <2>1 DEF AfterRule, Shaped
  <2> QED
    BY <2>2 DEF Shaped
<1> QED
  BY <1>1, <1>2

\* A step of one task that sends no alert leaves the times of the alerts alone.
LEMMA NothingSent ==
  ASSUME IInv, NEW i \in Slot, NEW t, Shaped(t), t.at # "sending",
         task' = [task EXCEPT ![i] = t]
  PROVE  TasksOK' /\ Sent = {}
<1>1. task'[i] = t /\ \A j \in Slot : j # i => task'[j] = task[j]
  BY DEF IInv, TasksOK
<1>2. TasksOK'
  BY <1>1 DEF IInv, TasksOK
<1> QED
  BY <1>1, <1>2 DEF Sent

\* A turn of the loop sends the alert of one key, if the cooldown of that key is over, or none.
LEMMA DispatchRecords ==
  ASSUME IInv, NEW i \in Slot, task[i].at = "rule", NEW keys, Dispatches(i, keys)
  PROVE  /\ TasksOK'
         /\ \/ \E k \in keys : Sent = {k} /\ ShouldAlert(k) /\ lastAlert' = Recorded(k)
            \/ Sent = {} /\ lastAlert' = lastAlert
<1>1. ASSUME NEW k \in keys, ShouldAlert(k), lastAlert' = Recorded(k),
             task' = [task EXCEPT ![i].at = "sending", ![i].key = k]
      PROVE  TasksOK' /\ Sent = {k}
  <2>1. PICK t : t = [task[i] EXCEPT !.at = "sending", !.key = k]
    OBVIOUS
  <2>2. Shaped(t) /\ t.at = "sending" /\ t.key = k
    <3>1. Shaped(task[i])
      BY DEF IInv, TasksOK
    <3>2. t = [at |-> "sending", op |-> task[i].op, time |-> task[i].time,
               rule |-> task[i].rule, key |-> k]
      BY <2>1, <3>1 DEF Shaped
    <3> QED
      BY <3>2 DEF Shaped
  <2>3. task' = [task EXCEPT ![i] = t]
    BY <1>1, <2>1 DEF IInv, TasksOK
  <2>4. task'[i] = t /\ \A j \in Slot : j # i => task'[j] = task[j]
    BY <2>3 DEF IInv, TasksOK
  <2>5. TasksOK'
    BY <2>2, <2>3, <2>4 DEF IInv, TasksOK
  <2>6. Sent = {k}
    BY <2>2, <2>4 DEF Sent
  <2> QED
    BY <2>5, <2>6
<1>2. ASSUME lastAlert' = lastAlert, task' = [task EXCEPT ![i] = AfterRule(@)]
      PROVE  TasksOK' /\ Sent = {}
  <2>1. Shaped(AfterRule(task[i])) /\ AfterRule(task[i]).at # "sending"
    BY AfterRuleShape DEF IInv, TasksOK
  <2>2. task' = [task EXCEPT ![i] = AfterRule(task[i])]
    BY <1>2
  <2> QED
    BY <2>1, <2>2, NothingSent
<1> QED
  BY <1>1, <1>2 DEF Dispatches

\* What a step does to the alerts: it forgets them all, sends one that is due, or sends none.
LEMMA StepAlerts ==
  ASSUME IInv, MonitoringNext
  PROVE  /\ TasksOK'
         /\ \/ Restart /\ Sent = {}
            \/ \E k : Sent = {k} /\ ShouldAlert(k) /\ lastAlert' = Recorded(k)
            \/ Sent = {} /\ lastAlert' = lastAlert
<1> DEFINE Goal == /\ TasksOK'
                   /\ \/ Restart /\ Sent = {}
                      \/ \E k : Sent = {k} /\ ShouldAlert(k) /\ lastAlert' = Recorded(k)
                      \/ Sent = {} /\ lastAlert' = lastAlert
<1>1. ASSUME Restart PROVE Goal
  <2>1. task' = [i \in Slot |-> Free]
    BY <1>1 DEF Restart, Started
  <2>2. TasksOK' /\ Sent = {}
    BY <2>1 DEF TasksOK, Shaped, Free, Sent
  <2> QED
    BY <1>1, <2>2
<1>2. CASE UNCHANGED <<lastAlert, task>>
  BY <1>2 DEF IInv, TasksOK, Sent
<1>3. ASSUME NEW i \in Slot, NEW op \in Operation, NEW lag \in 0 .. MaxLag, OnMessage(i, op, lag)
      PROVE  Goal
  <2>1. CASE Normalizes(op)
    <3>1. PICK t : t = [at |-> "rule", op |-> op, time |-> now - lag, rule |-> 1, key |-> None]
      OBVIOUS
    <3>2. Shaped(t) /\ t.at # "sending"
      BY <3>1 DEF Shaped
    <3>3. task' = [task EXCEPT ![i] = t] /\ lastAlert' = lastAlert
      BY <1>3, <2>1, <3>1 DEF OnMessage
    <3> QED
      BY <3>2, <3>3, NothingSent
  <2>2. CASE ~Normalizes(op)
    <3>1. UNCHANGED <<lastAlert, task>>
      BY <1>3, <2>2 DEF OnMessage
    <3> QED
      BY <1>2, <3>1
  <2> QED
    BY <2>1, <2>2
<1>4. ASSUME NEW i \in Slot, Evaluates(i) PROVE Goal
  <2>1. PICK keys : task[i].at = "rule" /\ Dispatches(i, keys)
    BY <1>4 DEF Evaluates, EvaluatesLargeValue, EvaluatesOracleDeviation,
                EvaluatesUnauthorizedEntryPoint, EvaluatesVolumeSpike
  <2> QED
    BY <2>1, DispatchRecords
<1>5. ASSUME NEW i \in Slot, SendAlertReturns(i) PROVE Goal
  <2>1. /\ task' = [task EXCEPT ![i] = AfterRule(task[i])] /\ lastAlert' = lastAlert
    BY <1>5 DEF SendAlertReturns
  <2>2. Shaped(AfterRule(task[i])) /\ AfterRule(task[i]).at # "sending"
    BY AfterRuleShape DEF IInv, TasksOK
  <2> QED
    BY <2>1, <2>2, NothingSent
<1> HIDE DEF Goal
<1>6. ASSUME Tick \/ OnError PROVE Goal
  <2>1. UNCHANGED <<lastAlert, task>>
    BY <1>6 DEF Tick, OnError
  <2> QED
    BY <1>2, <2>1 DEF Goal
<1>7. ASSUME NEW i \in Slot,
             \/ \E op \in Operation, lag \in 0 .. MaxLag : OnMessage(i, op, lag)
             \/ Evaluates(i) \/ SendAlertReturns(i)
      PROVE  Goal
  BY <1>3, <1>4, <1>5, <1>7
<1>8. Goal
  BY <1>1, <1>6, <1>7 DEF MonitoringNext
<1> QED
  BY <1>8 DEF Goal

\* The inductive invariant holds from the start, and every step keeps it.
LEMMA AlertsInvariant == Spec => []IInv
<1>1. Init => IInv
  BY DEF Init, MonitoringInit, Started, IInv, TasksOK, Shaped, Free
<1>2. IInv /\ [Next]_vars => IInv'
  <2> SUFFICES ASSUME IInv, [Next]_vars PROVE IInv'
    OBVIOUS
  <2>1. CASE Next
    <3>1. MonitoringNext /\ Observe
      BY <2>1 DEF Next
    <3>2. CASE Restart
      <4>1. lastAlert' = [k \in {} |-> 0] /\ sentAt' = [k \in {} |-> 0]
        BY <3>1, <3>2 DEF Restart, Started, Observe
      <4> QED
        BY <3>1, <4>1, StepAlerts DEF IInv
    <3>3. CASE ~Restart
      <4>1. sentAt' = [k \in DOMAIN sentAt \cup Sent |-> IF k \in Sent THEN now ELSE sentAt[k]]
        BY <3>1, <3>3 DEF Observe
      <4>2. ASSUME NEW k, Sent = {k}, lastAlert' = Recorded(k)
            PROVE  lastAlert' = sentAt'
        BY <4>1, <4>2 DEF Recorded, IInv
      <4>3. ASSUME Sent = {}, lastAlert' = lastAlert
            PROVE  lastAlert' = sentAt'
        BY <4>1, <4>3 DEF IInv
      <4>4. sentAt' = [k \in DOMAIN sentAt' |-> sentAt'[k]]
        BY <4>1
      <4> QED
        BY <3>1, <3>3, <4>2, <4>3, <4>4, StepAlerts DEF IInv
    <3> QED
      BY <3>2, <3>3
  <2>2. CASE UNCHANGED vars
    BY <2>2 DEF vars, monitorVars, IInv, TasksOK
  <2> QED
    BY <2>1, <2>2
<1> QED
  BY <1>1, <1>2, PTL DEF Spec

\* Between two alerts of a key is the cooldown, however many invocations are in the rules or
\* waiting for the webhook, and whatever the rules find; only a restart forgets.
THEOREM AlertsAreSpaced == Spec => AlertsSpaced
<1> DEFINE Due == \A k \in Sent : k \in DOMAIN sentAt => now - sentAt[k] >= ALERT_COOLDOWN
<1>1. ASSUME IInv, [Next]_vars PROVE Due \/ UNCHANGED vars
  <2> SUFFICES ASSUME Next, NEW k \in Sent, k \in DOMAIN sentAt
               PROVE  now - sentAt[k] >= ALERT_COOLDOWN
    BY <1>1
  <2>1. MonitoringNext
    BY DEF Next
  <2>2. ShouldAlert(k)
    BY <1>1, <2>1, StepAlerts
  <2> QED
    BY <1>1, <2>2 DEF ShouldAlert, Alerted, IInv
<1>2. IInv /\ [Next]_vars => [Due]_vars
  BY <1>1
<1> QED
  BY <1>2, AlertsInvariant, PTL DEF Spec, AlertsSpaced
=============================================================================
