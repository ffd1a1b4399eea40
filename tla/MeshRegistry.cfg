SPECIFICATION Spec
CONSTANTS
  Nodes = {a, b}
  Ttl = 6
  Interval = 2
  Drift = 1
INVARIANTS TypeOK
PROPERTIES Implements OnlySilentForgotten
