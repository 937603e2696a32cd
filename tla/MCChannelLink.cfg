SPECIFICATION LinkSpec
CONSTANTS
  m1 = m1  m2 = m2
  Msgs = {m1, m2}
  Text <- OwnText
  Stamp <- OneSecond
  NoHash = NoHash  NoStamp = NoStamp  NoPath = NoPath  Absent = Absent
  Routes = {}
  CH_MAX_SENDS = 2
  Foreign = {f1}
  MAX_SEEN = 2
  MAX_RECENT = 1
  Others = {"other"}
  MAX_SHOWN = 2
INVARIANTS ConfirmedWasRelayed FailedAfterAllSends
PROPERTIES ShownAgainIfForgotten
SYMMETRY AnyMessage
CHECK_DEADLOCK FALSE
