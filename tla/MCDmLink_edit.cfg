SPECIFICATION LiveLinkSpec
CONSTANTS
  m1 = m1  m2 = m2  p1 = p1
  Msgs = {m1}
  Peers = {p1}
  Routes = {r1}
  Nonces = {n1}
  To <- ToOne
  Text <- OwnText
  Stamp <- OneSecond
  NoMsg = NoMsg  NoAck = NoAck  NoPath = NoPath  Absent = Absent  NoStamp = NoStamp
  DM_MAX_SENDS = 3
  MAX_PENDING = 2
  MAX_SEEN = 8
  MAX_RECENT = 1
  MAX_SHOWN = 2
  Editable = {p1}
  Others = {"other"}
INVARIANTS TypeOK RecentTracked FailedAfterAllSends
PROPERTIES EveryCopyIsAcked ResendAfterDirectFloods EveryMessageSettles
CHECK_DEADLOCK FALSE
