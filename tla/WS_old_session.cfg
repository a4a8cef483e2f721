SPECIFICATION Spec
CONSTANTS
  Requests = {q1, q2}
  Tokens = {t1, t2, t3}
  ResetTokens = {z1}
  None = None
  IdleTimeout = 1
  ResetTtl = 1
  MaxAge = 1
SYMMETRY IdSymmetry
INVARIANT SessionsEnd
