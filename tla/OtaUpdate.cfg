CONSTANTS
  u1 = u1
  u2 = u2
  Urls = {u1, u2}
  NoUrl = NoUrl
  Factory = Factory
  Blank = Blank
  Chunks = 2
  MaxStarts = 3
  MaxRestarts = 3
  Patient = TRUE
SPECIFICATION FairSpec
INVARIANTS NeverBricked BootsWhatWasAsked NothingKept
PROPERTY UpdateEnds
CHECK_DEADLOCK FALSE
