SPECIFICATION Spec
CONSTANTS
  Freighter = Freighter
  XBull = XBull
  Lobstr = Lobstr
  WalletConnect = WalletConnect
  NoAddress = NoAddress
  None = None
  a1 = a1
  s1 = s1
  s2 = s2
  Account = {a1}
  Topic = {s1, s2}
  AccountOf <- MCAccountOf
  Call = {c1, c2}
  Browsers <- MCBrowsers
  Answering <- MCAnswering
INVARIANTS  SignerIsShown
SYMMETRY CallsAlike
