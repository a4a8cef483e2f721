SPECIFICATION MCSpec
CONSTANTS
  Contacts = {c1}
  Kits <- KitsOfKeys
  Requests = {r1, r2}
  None = none
  CodeTtl = 1
  TokenTtl = 0
  Window = 2
  MaxChallenges = 2
  MaxAttempts = 1
  Binds = {b1, b2}
  MaxKeys = 2
  WebMax = 2
  WebWindow = 2
  ResetTtl = 1
  Parts = {"quota", "codes", "tokens", "kits"}
CHECK_DEADLOCK FALSE
INVARIANT UnbindEndsMail
