CONSTANTS
  MaxPage = 3
  Sizes = {0, 2}
  Levels = {"normal", "full"}
  MaxCall = 5
  MaxFail = 1
  Settled = TRUE
SPECIFICATION JournalSpec
INVARIANTS JournalTypeOK DatabaseRestored StatementRestored JournalFirst AlwaysPlayable
