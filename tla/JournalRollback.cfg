CONSTANTS
  MaxPage = 3
  Sizes = {2}
  Levels = {"normal", "full"}
  MaxCall = 4
  MaxFail = 1
  Settled = FALSE
SPECIFICATION JournalSpec
INVARIANT AtomicRollback
