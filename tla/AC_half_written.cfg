SPECIFICATION MCSpec
CONSTANTS
  Conns = {c1}
  Ids = {i1}
  Values = {v1, v2}
  Fields = {"login_password", "payment_password"}
  None = none
SYMMETRY AccountSymmetry
INVARIANT WrittenWhole
