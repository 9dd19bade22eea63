CONSTANTS
  Users = {ann, bob}
  Refused = {}
  Runs = {r1, r2}
  MaxNotes = 2
  MaxFailures = 1
  MaxTurns = 1
  Befores = {1}
  Dues = {1, 2}
  NoDue = none
  People = 2
  Day = 1
  ReminderSweepers = {s1}
  MaxNow = 3
  MaxRows = 2
  MaxEdits = 2
  MaxStops = 1
  Servers = {s1, s2}
  Upgrades <- LateUpgrades
  Editors = {t1, t2}
  FirstText = "a"
  Texts = {"a", "b"}
  NoText = ""
  Unsaid = unsaid
  OpenFiles = {f1}
  ByKey = FALSE
  EditsCross = FALSE
  MaxEditsOfCard = 2
  MaxAway = 1
  Upgraders = {u1, u2}
  Authors = {ada}
  MaxStored = 4
  PictureBudgets <- Uses
SPECIFICATION MCSpec
INVARIANTS
  MailedOnce
  PicturesAreKept
PROPERTIES
  EveryoneIsMailed
  EveryReminderFires
  ServesAtLast
  EchoesEnd
\* The bounds end every behaviour.
CHECK_DEADLOCK FALSE
