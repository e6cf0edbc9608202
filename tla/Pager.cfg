\* Two processes, each of which reads, writes, recovers, spills, rolls back, fails to
\* open its journal, closes and dies between any two file or byte-lock operations.
SPECIFICATION PagerSpec
CONSTANTS
  Conn = {c1, c2}
  CrashProne = {c1, c2}
  HotConn = {c1, c2}
  Writer = {c1, c2}
  MaxLeaked = 1
  Page = {p1, p2}
  Page1 = p1
  MaxVersion = 2
  JournalFails = {c1, c2}
  Nobody = Nobody
SYMMETRY ConnSymmetry
CONSTRAINT Explored
INVARIANTS PagerTypeOK StoreInv LegalCalls Recoverable Snapshot
PROPERTIES CounterGrows OnlyExclusiveStores ImplementsAtomicFile
