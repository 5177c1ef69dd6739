SPECIFICATION Spec
CONSTANTS
  f = f
  a = a
  b = b
  None = None
  Operation <- MCOperation
  Slot = {i1, i2}
  MaxTime = 2
  MaxLag = 1
  MaxCount = 1
  MAX_EVENT_LAG = 0
  ALERT_COOLDOWN = 2
  LARGE_VALUE_FUNCTIONS = {f}
  LARGE_VALUE_THRESHOLD = 3
  ORACLE_PRICE_FUNCTIONS = {f}
  ORACLE_DEVIATION_THRESHOLD_PCT = 50
  ORACLE_DEVIATION_MIN_SAMPLES = 1
  HISTORY_LIMIT = 1
  PRIVILEGED_FUNCTIONS = {f}
  ALLOWED_INVOKER_ACCOUNTS = {a}
  VOLUME_WINDOW = 1
  VOLUME_BASELINE_WINDOWS = 2
  VOLUME_SPIKE_MULTIPLIER = 1
  VOLUME_SPIKE_MIN_COUNT = 2
PROPERTY AlertsSpaced
