\* The constants of KraalLendingShared.cfg: a second loan takes over the collateral.
SPECIFICATION Spec
CONSTANTS
  Addr = {adm, bob}
  FirstAdmin = adm
  Wasm = {w0}
  FirstWasm = w0
  None = None
  StartTime = 1
  MaxTime = 2
  MAX_PAUSE_DURATION = 2
  DEFAULT_PAUSE_DURATION = 2
  PauseDurations = {}
  Nominees = {}
  Liquidators = {}
  Proposals = {}
  UPGRADE_TIMELOCK_SECS = 2
  FirstOracle = adm
  FirstQuorum = 2
  MAX_PRICE = 9
  MAX_ORACLES = 1
  TWAP_WINDOW = 0
  Prices = {1}
  Quorums = {}
  OracleAddrs = {}
  MaxSamples = 1
  Contract = contract
  Treasury = treasury
  Liquidity = 4
  Wealth = 4
  BPS = 4
  YEAR = 1
  DEV_BPS = 1
  MIN_LTV = 1
  MAX_LTV = 4
  MAX_FEE = 2
  FirstLtv = 2
  FirstLiqThr = 3
  FirstOrigFee = 1
  FirstIntFee = 4
  FirstCloseFactor = 2
  AnimalTypes = {cow}
  Farmers = {bob}
  Counts = {1}
  Values = {4}
  Amounts = {1, 2}
  CollateralLists <- IdLists
  Ltvs = {}
  Thresholds = {}
  CloseFactors = {2}
  Fees = {}
  Caps = {}
  Recipients = {}
  MaxCollaterals = 2
  MaxLoans = 2
INVARIANT CollateralLockedToItsLoan
