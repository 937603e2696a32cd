SPECIFICATION ReliableLinkSpec
CONSTANTS
  m1 = m1  m2 = m2  p1 = p1
  Msgs = {m1, m2}
  Peers = {p1}
  Routes = {}
  Nonces = {n1}
  To <- ToOne
  Text <- OwnText
  Stamp <- OneSecond
  NoMsg = NoMsg  NoAck = NoAck  NoPath = NoPath  Absent = Absent  NoStamp = NoStamp
  DM_MAX_SENDS = 2
  MAX_PENDING = 2
  MAX_SEEN = 1
  MAX_RECENT = 1
  MAX_SHOWN = 2
  Editable = {}
  Others = {}
INVARIANTS DeliveredWasShown PendingTracked PendingWasSent EveryAttemptIsExpected
PROPERTIES ShownAgainIfForgotten PromiseKept ReliableLinkDelivers
CHECK_DEADLOCK FALSE
