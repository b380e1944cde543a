SPECIFICATION FairSpec
CONSTANTS
  own = own
  other = other
  none = none
  Orgs = {own, other}
  Owned = {own}
  None = none
  MaxJobs = 2

PROPERTIES
  CheckoutOnlyStarts
