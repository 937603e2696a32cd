SPECIFICATION LinkSpec
CONSTANTS
  m1 = m1  m2 = m2  p1 = p1
  Msgs = {m1, m2}
  Peers = {p1}
  Routes = {}
  Nonces = {n1}
  To <- ToOne
  Text <- SameText
  Stamp <- OwnSecond
  NoMsg = NoMsg  NoAck = NoAck  NoPath = NoPath  Absent = Absent  NoStamp = NoStamp
  DM_MAX_SENDS = 2
  MAX_PENDING = 4
  MAX_SEEN = 8
  MAX_RECENT = 2
  MAX_SHOWN = 2
  Editable = {}
  Others = {}
INVARIANTS ShownOnce
CHECK_DEADLOCK FALSE
