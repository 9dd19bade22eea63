\* One process; it is killed once and started again.
CONSTANTS
  Servers = {s1}
  Upgrades <- BeforeLabels
SPECIFICATION StartSpec
PROPERTY ServesAtLast
\* Nothing happens to a server that is ready.
CHECK_DEADLOCK FALSE
