SPECIFICATION FairSpec
CONSTANTS
  t1 = t1
  t2 = t2
  c1 = c1
  c2 = c2
  k1 = k1
  k2 = k2
  Turns = {t1, t2}
  Convs = {c1, c2}
  Tickets = {k1, k2}
  Modes = {"stream", "manual"}
  Verdicts = {"ANSWER", "URGENT"}
  MaxResponses = 1
  MaxTokens = 1
  MaxCost = 0
  MaxLost = 0
INVARIANTS
  HandoffIsBacked
  OneTicketPerConversation
  TicketsAreAnnounced
PROPERTY TurnsEnd
