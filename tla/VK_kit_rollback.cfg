SPECIFICATION MCSpec
CONSTANTS
  Actors = {a1}
  Passwords = {p1, p2}
  RecoveryKeys = {k1, k2}
  Fdeks = {f1}
  Dek = dek
  Rows = {r1}
  None = none
  MaxUploads = 1
SYMMETRY KeySymmetry
CHECK_DEADLOCK FALSE
INVARIANT RecoveryKeysAgree
