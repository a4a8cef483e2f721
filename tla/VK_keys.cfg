SPECIFICATION MCSpec
CONSTANTS
  Actors = {a1, a2}
  Passwords = {p1, p2}
  RecoveryKeys = {k1, k2, k3}
  Fdeks = {f1, f2}
  Dek = dek
  Rows = {r1}
  None = none
  MaxUploads = 1
SYMMETRY KeySymmetry
CHECK_DEADLOCK FALSE
INVARIANTS TypeOK OneDek NoMixedRows NoDataLost PasswordsAgree RepairPossible RotationRevokesLocally
PROPERTY KeepsKeyring
