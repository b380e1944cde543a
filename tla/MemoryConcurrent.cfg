SPECIFICATION FairSpec
CONSTANTS
  t1 = t1
  t2 = t2
  w1 = w1
  w2 = w2
  Turns = {t1, t2}
  Workers = {w1, w2}
  Batch = 2
  Attempts = 2
  MaxClock = 4
  MaxRated = 1
  MaxOutages = 1
INVARIANTS
  NothingForgotten
PROPERTY LongHistoriesAreCompressed
CHECK_DEADLOCK FALSE
