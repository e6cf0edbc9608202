CONSTANTS
  Conn = {c1, c2}
  Table = {master, t1}
  MASTER_ROOT = master
  Value = {v1, v2}
SPECIFICATION ScSpec
PROPERTY StmtRollbackAlone
