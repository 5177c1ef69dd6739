SPECIFICATION Spec
CONSTANTS
  Nonce = {m, n}
  Login = {k, l}
  Request = {p, q, r}
  None = None
  Secrets = 3
  EXPIRES_IN = 2
  OVERLAP = 1
SYMMETRY Alike
INVARIANTS
  ChallengeUsedOnce
  RepeatsRunNothing
PROPERTIES
  SessionsSurviveRotation
CHECK_DEADLOCK FALSE
