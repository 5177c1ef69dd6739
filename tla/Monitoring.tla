------------------------------ MODULE Monitoring ------------------------------
(***************************************************************************)
(* The anomaly detection service (src/src/monitoring): the stream of       *)
(* operations of the contract, the four rules, the cooldown of alerts and  *)
(* the webhook.                                                            *)
(*                                                                         *)
(* An invocation is handled without waiting for the ones before it, and    *)
(* runs through the rules until an alert has to be sent; while that is     *)
(* awaited, others run.  Values are integers, the one monitored contract   *)
(* and the texts of alerts are left out, and time passes in ticks.         *)
(***************************************************************************)
EXTENDS Integers, Sequences, FiniteSets, SequencesExt

CONSTANTS
  Operation,        \* records of the stream: [invoke, fn, args, account, successful]
  Slot,             \* bound on the invocations under way
  None,             \* undecoded, absent
  MaxTime,          \* bound on the clock
  MaxLag,           \* bound on the ticks from an operation to its message
  MaxCount,         \* bound on the operations counted in a window when another one arrives
  MAX_EVENT_LAG, ALERT_COOLDOWN,
  LARGE_VALUE_FUNCTIONS, LARGE_VALUE_THRESHOLD,
  ORACLE_PRICE_FUNCTIONS, ORACLE_DEVIATION_THRESHOLD_PCT, ORACLE_DEVIATION_MIN_SAMPLES,
  HISTORY_LIMIT,
  PRIVILEGED_FUNCTIONS, ALLOWED_INVOKER_ACCOUNTS,
  VOLUME_WINDOW, VOLUME_BASELINE_WINDOWS, VOLUME_SPIKE_MULTIPLIER, VOLUME_SPIKE_MIN_COUNT

ASSUME MonitoringAssumption ==
  /\ {MaxTime, MaxLag, MaxCount, MAX_EVENT_LAG, ALERT_COOLDOWN, LARGE_VALUE_THRESHOLD} \subseteq Nat
  /\ {ORACLE_DEVIATION_THRESHOLD_PCT, ORACLE_DEVIATION_MIN_SAMPLES, HISTORY_LIMIT} \subseteq Nat
  /\ VOLUME_WINDOW \in Nat \ {0}
  /\ {VOLUME_BASELINE_WINDOWS, VOLUME_SPIKE_MULTIPLIER, VOLUME_SPIKE_MIN_COUNT} \subseteq Nat

VARIABLES
  now,        \* the clock
  stats,      \* StreamStats: connected, and the lag of the last invocation
  samples,    \* the rolling values of each watched function
  window,     \* the current window: its start, its count and the counts before it
  lastAlert,  \* when each key was last alerted
  task        \* the invocations under way: their operation, their rule, their progress and
              \* the alert that is being sent

monitorVars == <<now, stats, samples, window, lastAlert, task>>

Free == [at |-> "free", op |-> None, time |-> 0, rule |-> 0, key |-> None]

\* A process starts: rules, cooldowns and the stream, which begins at 'now'.
Started(s, m, w, l, t) ==
  /\ s = [connected |-> TRUE, lag |-> None]
  /\ m = [f \in ORACLE_PRICE_FUNCTIONS |-> <<>>]
  /\ w = [start |-> None, count |-> 0, history |-> <<>>]
  /\ l = [k \in {} |-> 0] /\ t = [i \in Slot |-> Free]

MonitoringInit == now = 0 /\ Started(stats, samples, window, lastAlert, task)

Restart == Started(stats', samples', window', lastAlert', task') /\ UNCHANGED now

-----------------------------------------------------------------------------
(* The rules: the keys of the anomalies an operation gives, at most one each. *)

Abs(x) == IF x < 0 THEN -x ELSE x
Sum(s) == FoldLeft(LAMBDA a, b : a + b, 0, s)

\* extractLargestNumericArg: the first of those with the largest magnitude, None without one.
ExtractLargestNumericArg(args) ==
  IF args = <<>> THEN None
  ELSE args[CHOOSE i \in DOMAIN args :
              /\ \A j \in DOMAIN args : Abs(args[j]) <= Abs(args[i])
              /\ \A j \in 1 .. i - 1 : Abs(args[j]) < Abs(args[i])]

LargeValue(op) ==
  LET observed == ExtractLargestNumericArg(op.args)
  IN  IF /\ op.successful /\ op.fn \in LARGE_VALUE_FUNCTIONS
         /\ observed # None /\ Abs(observed) > LARGE_VALUE_THRESHOLD
      THEN {<<"large-value", op.fn, op.account>>} ELSE {}

Sampled(op) == /\ op.successful /\ op.fn \in ORACLE_PRICE_FUNCTIONS
               /\ ExtractLargestNumericArg(op.args) # None

\* Whether a value is further from the mean of the samples than the threshold allows.
Deviates(observed, seen) ==
  IF Sum(seen) = 0 THEN observed # 0 /\ 100 > ORACLE_DEVIATION_THRESHOLD_PCT
  ELSE Abs(observed * Len(seen) - Sum(seen)) * 100
         > ORACLE_DEVIATION_THRESHOLD_PCT * Abs(Sum(seen))

OracleDeviation(op) ==
  IF /\ Sampled(op) /\ Len(samples[op.fn]) >= ORACLE_DEVIATION_MIN_SAMPLES
     /\ Deviates(ExtractLargestNumericArg(op.args), samples[op.fn])
  THEN {<<"oracle-price-deviation", op.fn, None>>} ELSE {}

LastOf(s, n) == SubSeq(s, IF Len(s) > n THEN Len(s) - n + 1 ELSE 1, Len(s))

\* The value joins the samples, deviating or not.
SamplesAfter(op) ==
  IF ~Sampled(op) THEN samples
  ELSE [samples EXCEPT ![op.fn] =
          LastOf(Append(@, ExtractLargestNumericArg(op.args)), HISTORY_LIMIT)]

UnauthorizedEntryPoint(op) ==
  IF ~op.successful THEN {<<"failed", op.fn, op.account>>}
  ELSE IF /\ op.fn \in PRIVILEGED_FUNCTIONS /\ ALLOWED_INVOKER_ACCOUNTS # {}
          /\ op.account \notin ALLOWED_INVOKER_ACCOUNTS
  THEN {<<"unauthorized", op.fn, op.account>>} ELSE {}

\* The window an operation of time t falls in, the elapsed ones before it, empty ones included;
\* an operation older than the window counts in it.
Rolled(t) ==
  LET start   == IF window.start = None THEN t ELSE window.start
      elapsed == IF t < start THEN 0 ELSE (t - start) \div VOLUME_WINDOW
      counts  == [i \in 1 .. elapsed |-> IF i = 1 THEN window.count ELSE 0]
  IN  [start   |-> start + elapsed * VOLUME_WINDOW,
       count   |-> (IF elapsed = 0 THEN window.count ELSE 0) + 1,
       history |-> LastOf(window.history \o counts, VOLUME_BASELINE_WINDOWS)]

VolumeSpike(t) ==
  LET w == Rolled(t)
  IN  IF /\ Len(w.history) >= 1 /\ w.count >= VOLUME_SPIKE_MIN_COUNT
         /\ Sum(w.history) > 0
         /\ w.count * Len(w.history) > Sum(w.history) * VOLUME_SPIKE_MULTIPLIER
      THEN {<<"volume-spike", None, None>>} ELSE {}

-----------------------------------------------------------------------------
(* The stream, the dispatcher and the webhook. *)

\* normalizeOperation: only calls of contracts that can be decoded.
Normalizes(op) == op.invoke

Busy == \E i \in Slot : task[i].at = "rule"

\* onmessage: the invocation goes to its first rule.
OnMessage(i, op, lag) ==
  /\ ~Busy /\ task[i].at = "free" /\ lag <= now /\ window.count <= MaxCount
  /\ IF Normalizes(op)
     THEN /\ stats' = [connected |-> TRUE, lag |-> lag]
          /\ task' = [task EXCEPT ![i] = [at |-> "rule", op |-> op, time |-> now - lag,
                                            rule |-> 1, key |-> None]]
     ELSE stats' = [stats EXCEPT !.connected = TRUE] /\ task' = task
  /\ UNCHANGED <<now, samples, window, lastAlert>>

\* onerror: the SDK reconnects.
OnError ==
  /\ ~Busy /\ stats' = [stats EXCEPT !.connected = FALSE]
  /\ UNCHANGED <<now, samples, window, lastAlert, task>>

\* What /health answers: a stream that is silent stays healthy.
Healthy == stats.connected /\ (stats.lag = None \/ stats.lag <= MAX_EVENT_LAG)

\* shouldAlert: checked and recorded at once, whether or not the alert gets through.
Alerted(k) == k \in DOMAIN lastAlert
ShouldAlert(k) == IF Alerted(k) THEN now - lastAlert[k] >= ALERT_COOLDOWN ELSE TRUE

\* Mutant of Recorded: only the first alert of a key is recorded.
RecordedOnce(k) ==
  [x \in DOMAIN lastAlert \cup {k} |-> IF Alerted(x) THEN lastAlert[x] ELSE now]

Recorded(k) == [x \in DOMAIN lastAlert \cup {k} |-> IF x = k THEN now ELSE lastAlert[x]]

\* After a rule: the next one, or the end.
AfterRule(t) == IF t.rule = 4 THEN Free ELSE [t EXCEPT !.at = "rule", !.rule = @ + 1, !.key = None]

\* One turn of handleInvocation's loop: its anomaly is sent, or there is none, or it is suppressed.
Dispatches(i, keys) ==
  \/ \E k \in keys : /\ ShouldAlert(k) /\ lastAlert' = Recorded(k)
                     /\ task' = [task EXCEPT ![i].at = "sending", ![i].key = k]
  \/ /\ \A k \in keys : ~ShouldAlert(k)
     /\ lastAlert' = lastAlert /\ task' = [task EXCEPT ![i] = AfterRule(@)]

EvaluatesLargeValue(i) ==
  /\ task[i].at = "rule" /\ task[i].rule = 1 /\ Dispatches(i, LargeValue(task[i].op))
  /\ UNCHANGED <<now, stats, samples, window>>

EvaluatesOracleDeviation(i) ==
  /\ task[i].at = "rule" /\ task[i].rule = 2 /\ Dispatches(i, OracleDeviation(task[i].op))
  /\ samples' = SamplesAfter(task[i].op) /\ UNCHANGED <<now, stats, window>>

EvaluatesUnauthorizedEntryPoint(i) ==
  /\ task[i].at = "rule" /\ task[i].rule = 3 /\ Dispatches(i, UnauthorizedEntryPoint(task[i].op))
  /\ UNCHANGED <<now, stats, samples, window>>

EvaluatesVolumeSpike(i) ==
  /\ task[i].at = "rule" /\ task[i].rule = 4 /\ Dispatches(i, VolumeSpike(task[i].time))
  /\ window' = Rolled(task[i].time) /\ UNCHANGED <<now, stats, samples>>

\* sendAlert returns, whatever the webhook answered: the loop goes on.
SendAlertReturns(i) ==
  /\ ~Busy /\ task[i].at = "sending" /\ task' = [task EXCEPT ![i] = AfterRule(@)]
  /\ UNCHANGED <<now, stats, samples, window, lastAlert>>

Tick ==
  /\ ~Busy /\ now < MaxTime /\ now' = now + 1
  /\ UNCHANGED <<stats, samples, window, lastAlert, task>>

Evaluates(i) == \/ EvaluatesLargeValue(i) \/ EvaluatesOracleDeviation(i)
                \/ EvaluatesUnauthorizedEntryPoint(i) \/ EvaluatesVolumeSpike(i)

MonitoringNext ==
  \/ Tick \/ Restart \/ OnError
  \/ \E i \in Slot : \/ \E op \in Operation, lag \in 0 .. MaxLag : OnMessage(i, op, lag)
                     \/ Evaluates(i) \/ SendAlertReturns(i)
=============================================================================
