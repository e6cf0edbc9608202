SPECIFICATION FairLockSpec
CONSTANTS
  Conn = {c1, c2, c3}
  CrashProne = {}
  HotConn = {}
  Writer = {c1}
  MaxLeaked = 0
PROPERTIES PendingWriterServed
