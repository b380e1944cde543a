SPECIFICATION Spec
CONSTANTS
  t1 = t1
  t2 = t2
  c1 = c1
  c2 = c2
  boot = boot
  adopt = adopt
  Tabs = {t1, t2}
  Calls = {c1, c2}
  Bootstrap = boot
  Adopt = adopt
  Watched = {t1}
  Landings = {"login", "app"}
  MaxTokens = 2
  MaxOpen = 2
  MaxAged = 1
  RowsFound = TRUE
INVARIANTS
  WaitersHaveALeader
  DeadTokensAreAccounted
