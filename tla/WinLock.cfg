\* Three handles in three processes; any of them may write, find a hot journal, or
\* die between two byte-lock calls and come back.
SPECIFICATION LockSpec
CONSTANTS
  Conn = {c1, c2, c3}
  CrashProne = {c1, c2, c3}
  HotConn = {c1, c2, c3}
  Writer = {c1, c2, c3}
  MaxLeaked = 1
SYMMETRY HandleSymmetry
INVARIANTS LockTypeOK LockInv TableAccurate ByteExclusion LevelBacked LevelsExclude
PROPERTIES NoNewReaderUnderPending ImplementsByteLocks
