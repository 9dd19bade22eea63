\* Two changes, one after the other, on two tabs that stay.
CONSTANTS
  Screens = {t1, t2}
  BoardColumns = {1, 2, 3}
  FirstColumns <- Two
  BoardCards = {1, 2, 3}
  FirstCards <- Two
  Overlap = FALSE
  Budgets <- TwoChanges
SPECIFICATION MCSpec
SYMMETRY Symmetric
INVARIANT EveryoneSeesIt
\* The bounds end every behaviour.
CHECK_DEADLOCK FALSE
