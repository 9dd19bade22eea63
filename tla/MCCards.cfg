\* People: two users, two card ids of which one may be made during the run, two handlers.
\* Places: three cards in two columns, one more may be made, two requests.
\* Dashboard: two boards and one that may be made, two groups at most, two tabs, two requests.
\* Files: three of which two are accepted, in two tabs, picked one or two at a time.
CONSTANTS
  Cards = {c1, c2}
  Users = {ada, ben}
  Owner = ada
  Calls = {p1, p2}
  NoCard = NoCard
  NoUser = NoUser
  Areas = {todo, done}
  FirstCards = 3
  FirstNumbers = {0, 2}
  MaxCards = 4
  MaxRequests = 2
  Indexes = {0, 1}
  PlaceCalls = {p1, p2}
  DashBoards = {1, 2, 3}
  FirstBoards = {1, 2}
  MaxGroups = 2
  DashTabs = {t1, t2}
  DashCalls = {p1, p2}
  FileTabs = {t1, t2}
  PickedFiles = {f1, f2, f3}
  Accepted = {f1, f2}
  FileBatches = {p1, p2}
  Pending = Pending
  FileBudgets <- SomeBudgets
SYMMETRY Symmetric
SPECIFICATION MCSpec
INVARIANTS
  ClaimInv OneClaimant
  LandsWhereAsked
  FilesAreKept
  LastDropHolds TilesAreRight
PROPERTY ImplementsPromise
\* The bound on requests ends every behaviour of the places and of the dashboard.
CHECK_DEADLOCK FALSE
