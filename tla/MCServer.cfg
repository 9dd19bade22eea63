CONSTANTS
  Words = {"bug", "ux", "css"}
  LabelCards = {c1, c2}
  FirstCard = c1
  LabelCalls = {p1, p2}
  PerBoardMax = 1
  MaxLabels = 3
  MaxLabelCalls = 4
  OrderCalls = {p1, p2}
  MaxColumns = 3
  MaxOrderCalls = 6
  Columns = {a1, a2}
  ArchiveCards = {k1, k2, k3}
  Files = {f1, f2}
  Requests = {p1, p2}
  MaxRequestsMade = 2
  Servers = {p1, p2}
  Upgrades <- ServerUpgrades
  Sweepers = {p1, p2}
  Pages = {v1}
  Edits = {e1}
  Rhythms = {2}
  DueDates = {1}
  NoDate = NoDate
  Absent = Absent
  Turns = 10
  MaxTime = 3
  MaxCards = 7
  MaxActs = 1
  MaxDeaths = 1
  Befores = {0, 1}
  Dues = {1, 2}
  NoDue = none
  People = 2
  Day = 1
  ReminderSweepers = {s1}
  MaxNow = 1
  MaxRows = 2
  MaxEdits = 2
  MaxStops = 1
  MemberPeople = {o, a, x}
  FirstAdmins = {o, a}
  BoardOwner = o
  MemberBoards = {b1}
  MemberCalls = {p1, p2}
  DirectoryRules = TRUE
  MaxLinks = 2
  MaxMemberActs = 4
  SourceCards = {1, 2}
  MaxSourceColumns = 3
  MaxSourceEdits = 2
  MaxListsBrought = 2
  MaxCardsBrought = 2
  MaxFilesBrought = 1
  OwnBoards = {b1, b2}
  PageBoard = b1
  Invitees = {x}
  NoneYet = none
  MaxOpened = 2
  MaxInvites = 2
  MaxElsewhere = 1
  MaxListFailures = 1
  KeyColumns = {a1, a2}
  Keys = {k}
  KeyCalls = {p1, p2, p3}
  NoAnswer = none
  MaxKeyCards = 3
  MaxShifts = 2
  MaxServerStops = 1
  HookPeople = {o, a}
  HookOwner = o
  MaxHooks = 2
  HookEvents = {e1}
  Nobody = none
  MaxBoardActs = 2
SYMMETRY Symmetric
SPECIFICATION MCSpec
INVARIANTS
  LastTakesName
  RowsAndFilesAgree BackIsSeen
  DraggedOrderHolds
  UpgradedOnce
  SeriesUnbroken NextOnGrid
  ToldJustOnce
  AlwaysAnAdmin InvitedAreReal
  ListIsRight
  ExportHoldsEachCard ImportIsWhole
  RetryIsSafe
  ToldWhoMayKnow
\* The bounds on requests end every behaviour.
CHECK_DEADLOCK FALSE
