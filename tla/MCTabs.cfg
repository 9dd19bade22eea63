CONSTANTS
  Screens = {t1, t2}
  BoardColumns = {1}
  FirstColumns <- One
  BoardCards = {1}
  FirstCards <- One
  Overlap = TRUE
  Budgets <- BoardBudgets
  Sweepers = {s1}
  Pages = {v1}
  Edits = {e1}
  Rhythms = {2}
  DueDates = {1}
  NoDate = NoDate
  Absent = Absent
  Turns = 10
  MaxTime = 3
  MaxCards = 3
  MaxActs = 1
  MaxDeaths = 1
  MapTabs = {t1, t2}
  MapAreas = {a}
  MapCards = {c}
  CardArea <- TheArea
  Root = board
  Unset = unset
  MapLimit = 3
  Pulls <- EitherWay
  MaxDrags = 2
  MaxMapFailures = 1
  MaxMapDrops = 1
  Terms <- Words
  ShortTerms = {""}
  NoTerm = ""
  Hits <- WhereFound
  MaxTyped = 3
  MaxShelved = 1
  MaxSearchFailures = 1
  ShelfCards = {1, 2}
  ShelfColumns = {3, 4}
  ShelfColumnOf <- OneEach
  Nil = 0
  MaxOpenings = 2
  MaxShelfActs = 2
  MaxOthersActs = 1
SPECIFICATION MCSpec
INVARIANTS
  MapSettles
  SearchSettles
  ShelfIsListed
PROPERTIES
  DrawnTabsFollowTheEye
  OwedIsServed
\* The bounds end every behaviour.
CHECK_DEADLOCK FALSE
