SPECIFICATION Spec
CONSTANTS
  Workers = {w1, w2}
  Inits = {i1, i2}
  UI = UI  Nobody = Nobody
  RX_BAD_LIMIT = 3
  MAX_BAD = 4
INVARIANTS OffIsIdle
