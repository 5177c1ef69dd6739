\* Two registrations of one animal by two farmers; transactions expire after one pause and two
\* polls are made, the order of 30 and 60 seconds in the code.
SPECIFICATION FairSpec
CONSTANTS
  MAX_DEVIATION_PCT = 15
  Tag = {a}
  Farmer = {f, g}
  Register = {q, r}
  Call = {c}
  None = None
  MarketAnswers <- AnswersMC
  Animals <- AnimalsMC
  Principals <- PrincipalsMC
  Edits = {"VERIFIED", "REJECTED"}
  Limits = {1, 2}
  MaxAttempts = 2
  TX_TIMEOUT = 1
  MaxSequence = 1
INVARIANTS
  
  
  MintsAreSound
PROPERTIES
  VerificationStays
  MintSettles
\* Every animal may be registered and every promise settled.
CHECK_DEADLOCK FALSE
