CONSTANTS
  Screens = {t1, t2}
  BoardColumns = {1, 2, 3}
  FirstColumns <- Two
  BoardCards = {1, 2, 3}
  FirstCards <- Two
  Overlap = FALSE
  Budgets <- BoardBudgets
  Editors = {t1, t2}
  FirstText = "a"
  Texts = {"a", "b"}
  NoText = ""
  Unsaid = unsaid
  OpenFiles = {f1}
  ByKey = TRUE
  EditsCross = FALSE
  MaxEditsOfCard = 3
  MaxAway = 1
  Readers = {t1, t2}
  CommentBudgets <- ThreadBudgets
  Tabs = {t1, t2}
  UserOf <- OnePerson
  Cards = {c1}
  NoCard = NoCard
  MaxConns = 2
  MaxActs = 2
  MaxFaults = 1
  PageSize = 1
  BellCards = {c1}
  TheBoard = none
  BellCalls = {p1, p2}
  MaxNotified = 3
  MaxBellActs = 2
  PageCards = {c1, c2, c3}
  Missing = {c3}
  PageComments = {k}
  Filters = {"all", "late"}
  FilterTexts = {"", "late", "late,junk"}
  ReadText <- Reads
  WriteText <- Writes
  Unnamed = Unnamed
  MaxVisits = 2
  MaxPicks = 1
  MaxFilterings = 1
  MaxFresh = 1
  SetPages = {t1, t2}
  SetTiles = {d1}
  Covers = {"none", "picture"}
SYMMETRY Symmetric
SPECIFICATION MCSpec
INVARIANTS
  InStep
  LastSaidStays
  CommentsInStep
  FacesAreRight
  BellIsRight
  AddressAgrees
  SettingsSettle
\* The bounds end every behaviour.
CHECK_DEADLOCK FALSE
