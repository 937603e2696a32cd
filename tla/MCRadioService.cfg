SPECIFICATION LiveSpec
CONSTANTS
  Workers = {w1, w2}
  Inits = {i1, i2}
  UI = UI  Nobody = Nobody
  RX_BAD_LIMIT = 2
  MAX_BAD = 3
INVARIANTS TypeOK OneWorkerInLoop OneInitThread LockExcludes
PROPERTIES SelfHeals
