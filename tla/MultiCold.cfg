SPECIFICATION MultiSpec
CONSTANTS
  MaxVersion = 1
  File = {1, 2}
  Name = {m1, m2}
  Client = Client
  Nobody = Nobody
  NoName = NoName
SYMMETRY NameSymmetry
INVARIANTS OnlyColdJournals
