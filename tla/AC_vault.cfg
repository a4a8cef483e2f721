SPECIFICATION MCSpec
CONSTANTS
  Conns = {c1, c2}
  Ids = {i1, i2}
  Values = {v1}
  Fields = {"login_password", "payment_password"}
  None = none
  MaxRows = 3
  Documents <- Texts
  Parts = {"writes", "reads", "files", "texts"}
SYMMETRY BackupSymmetry
INVARIANTS TypeOK NoOrphans StoredAsWritten ShownIsAudited
PROPERTIES ImportRestores NotesImported
