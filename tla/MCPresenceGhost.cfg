SPECIFICATION Spec
CONSTANTS
  Tabs = {t1, t2}
  UserOf <- OnePerson
  Cards = {c1}
  NoCard = NoCard
  MaxConns = 2
  MaxActs = 2
  MaxFaults = 1
SYMMETRY Symmetric
CHECK_DEADLOCK FALSE
INVARIANTS
  PresenceClears
