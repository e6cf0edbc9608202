CONSTANTS
  Conn = {c1}
  Table = {master, t1}
  MASTER_ROOT = master
  Value = {v1, v2}
SPECIFICATION ScSpec
PROPERTY AbortUndone
