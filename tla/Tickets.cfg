SPECIFICATION FairSpec
CONSTANTS
  r1 = r1
  r2 = r2
  a = a
  Requests = {r1, r2}
  Agents = {a}
  First = "HIGH"
  Asked = {"RESOLVED", "HIGH"}
  MaxAge = 1
INVARIANTS
  ColumnsAreAudited
  StatusIsAnnounced
PROPERTIES
  AtomicTicketSpec
  RequestsEnd
