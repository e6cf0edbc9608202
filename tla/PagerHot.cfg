SPECIFICATION PagerSpec
CONSTANTS
  Conn = {c1, c2}
  CrashProne = {c1, c2}
  HotConn = {c1, c2}
  Writer = {c1, c2}
  MaxLeaked = 0
  Page = {p1, p2}
  Page1 = p1
  MaxVersion = 1
  JournalFails = {}
  Nobody = Nobody
SYMMETRY ConnSymmetry
INVARIANTS NoReadBeforeRecovery
