SPECIFICATION WidgetFairSpec
CONSTANTS
  MaxConvs = 2
  MaxIds = 5
  MaxSyncs = 2
INVARIANTS
  NeverOvercounts
PROPERTIES
  ForgetsOnlyTheGone
  MessagesAreShown
