SPECIFICATION Spec
CONSTANTS
  Sweepers = {s1}
  Pages = {v1}
  Edits = {e1}
  Rhythms = {2}
  DueDates = {1}
  NoDate = NoDate
  Absent = Absent
  Turns = 10
  MaxTime = 3
  MaxCards = 7
  MaxActs = 1
  MaxDeaths = 1
CHECK_DEADLOCK FALSE
INVARIANTS
  SeriesMovesOn
