SPECIFICATION Spec
CONSTANTS
  o = o
  p = p
  status = status
  priority = priority
  v1 = v1
  v2 = v2
  none = none
  c = c
  text = text
  choice = choice
  default = default
  w = w
  i1 = i1
  i2 = i2
  x1 = x1
  r1 = r1
  r2 = r2
  Orgs = {o, p}
  Top = 2
  NTickets = 3
  OrgOf <- OrgOfTicket
  PageSize = 1
  MaxPages = 2
  MaxMoves = 1
  Fields = {status, priority}
  Values = {v1, v2}
  None = none
  MaxUps = 2
  MaxDrafts = 3
  MaxPosts = 3
  Convs = {c}
  Nobody = none
  MaxChanges = 3
  MaxCalls = 2
  Owned = {o, p}
  Texts = {text}
  Options = {choice}
  Default = default
  Watched = {w}
  Tabs = {i1, i2}
  Cap = 2
  MaxMarks = 4
  DayLen = 4
  Days = 4
  Horizon = 9
  Offsets <- AroundUTC
  Items = {x1}
  Routes = {r1, r2}
  People = {w}
  Unassigned = none
  Ranks = {0, 1}
  MaxTalks = 2
  QueueLength = 1
  Teams = {o, p}
  Cases = {x1, r1, r2}
  TeamOf <- TeamOfCase
  LogCap = 1
  MaxEvents = 4
  Accounts = {o, p}
  NoAccount = none
  MaxCodes = 2
  MaxCloses = 2
  Hooks = {1, 2}
  Events = {e1, e2}
  e1 = e1
  e2 = e2
  Subscribers <- SubscribersOf
  FailureLimit = 2
  Retries = 1
  NoHook = none
  MaxAsked = 2
CONSTRAINT Telling
CHECK_DEADLOCK FALSE
INVARIANTS
  ListIsSound
  ScreenIsTheTicket
  InboxThreadIsWhole
  OwnChangesStay
  SettingsStayHome
  LatestMarksAreKept
  FiguresAreTrue
  LogsAreTheirOwn
  PasswordsGoToTheAddress
  DeliveriesAreTried
