\* Two addresses and two hashes: an outgoing and an incoming admin, a replaced proposal.
\* The clock runs past a full timelock and past the longest pause from the first call.
SPECIFICATION FairSpec
CONSTANTS
  Addr = {a, b}
  FirstAdmin = a
  Wasm = {w0, w1, w2}
  FirstWasm = w0
  None = None
  StartTime = 1
  MaxTime = 5
  MAX_PAUSE_DURATION = 2
  DEFAULT_PAUSE_DURATION = 1
  PauseDurations = {0, 2, 3}
  Nominees = {a, b}
  Liquidators = {a, b}
  Proposals = {w1, w2}
  UPGRADE_TIMELOCK_SECS = 2
INVARIANTS
  TypeOK
  WhitelistCountAgrees
  NominationIsFromPresentAdmin
  PauseIsBounded
PROPERTIES
  UpgradeWaitedTimelock
  PauseEnds
