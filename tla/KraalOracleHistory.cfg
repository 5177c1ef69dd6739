\* Three addresses, at most three listed oracles, prices far apart; the clock allows a
\* restart of the average (a gap over the window) after a mean of two samples.
SPECIFICATION FeedSpec
CONSTANTS
  Addr = {a, b, c}
  FirstAdmin = a
  Wasm = {w0}
  FirstWasm = w0
  None = None
  StartTime = 1
  MaxTime = 4
  MAX_PAUSE_DURATION = 1
  DEFAULT_PAUSE_DURATION = 1
  PauseDurations = {}
  Nominees = {}
  Liquidators = {}
  Proposals = {}
  UPGRADE_TIMELOCK_SECS = 2
  FirstOracle = a
  FirstQuorum = 1
  MAX_PRICE = 9
  MAX_ORACLES = 3
  TWAP_WINDOW = 1
  Prices = {1, 4, 7, 9}
  Quorums = {0, 2}
  OracleAddrs = {b, c}
  MaxSamples = 2
INVARIANTS
  OracleTypeOK
  AverageWithinSamples
PROPERTIES
  MinorityCannotMoveMedian
