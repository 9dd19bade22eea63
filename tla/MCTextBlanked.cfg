\* A card with one attachment, open in two tabs.
CONSTANTS
  Editors = {t1, t2}
  FirstText = "a"
  Texts = {"a", "b"}
  NoText = ""
  Unsaid = unsaid
  OpenFiles = {f1}
  ByKey = FALSE
  EditsCross = FALSE
  MaxEditsOfCard = 1
  MaxAway = 0
SPECIFICATION OpenSpec
INVARIANT TextSurvivesRemoval
\* The bounds end every behaviour.
CHECK_DEADLOCK FALSE
