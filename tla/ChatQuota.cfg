SPECIFICATION Spec
CONSTANTS
  t1 = t1
  t2 = t2
  t3 = t3
  c1 = c1
  k1 = k1
  Turns = {t1, t2, t3}
  Convs = {c1}
  Tickets = {k1}
  Modes = {"api", "stream"}
  Verdicts = {"ANSWER", "MEDIUM"}
  MaxResponses = 2
  MaxTokens = 1
  MaxCost = 1
  MaxLost = 1
INVARIANTS
  AnswersAreCounted
PROPERTY MeterSpec
SYMMETRY Symmetry
