\* A primary and a standby.  Three submissions and two in flight: a promotion may be overtaken by
\* the primary it makes, twice, and still finish.
SPECIFICATION FairSpec
CONSTANTS
  Instance = {p, s}
  FirstPrimary = p
  None = None
  MaxInFlight = 2
  MaxAccepted = 3
INVARIANTS
  BridgeTypeOK
  
  
  
PROPERTIES
  PrimaryCountsForward
  FlippedRoleIsNoticed
