SPECIFICATION MultiSpec
CONSTANTS
  MaxVersion = 2
  File = {1, 2}
  Name = {m1, m2}
  Client = Client
  Nobody = Nobody
  NoName = NoName
SYMMETRY NameSymmetry
CONSTRAINT StillAtomic
INVARIANTS CommitInv AllRecoverable RecoveryExcluded ChildrenListed
PROPERTIES ImplementsAtomicCommit
