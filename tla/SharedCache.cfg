CONSTANTS
  Conn = {c1, c2}
  Table = {master, t1}
  MASTER_ROOT = master
  Value = {v1, v2}
SPECIFICATION ScSpec
SYMMETRY ScSymmetry
CONSTRAINT OneDirtyReader
INVARIANTS ScTypeOK NoDirtyRead CountsAgree FileLockHeld
PROPERTIES StableRead StatementUndone
