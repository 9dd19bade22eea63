SPECIFICATION MailSpec
CONSTANTS
  Users = {ann, bob}
  Refused = {ann}
  Runs = {r1}
  MaxNotes = 2
  MaxFailures = 0
  MaxTurns = 0
CHECK_DEADLOCK FALSE
PROPERTIES
  EveryoneIsMailed
