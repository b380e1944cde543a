SPECIFICATION FairSpec
CONSTANTS
  a = a
  b = b
  a1 = a1
  Orgs = {a, b}
  Rows = {a1}
  Home <- HomeOf
  Pages <- AllPages
  MaxFetches = 2
  MaxActs = 2
  MaxWrites = 2
INVARIANTS
  SettledRowsAreHome
  DeletedStaysDeleted
PROPERTIES
  NeverOlder
  IndexingIsSeenToEnd
