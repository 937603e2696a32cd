SPECIFICATION LinkSpec
CONSTANTS
  m1 = m1  m2 = m2
  Msgs = {m1}
  Text <- OwnText
  Stamp <- OneSecond
  NoHash = NoHash  NoStamp = NoStamp  NoPath = NoPath  Absent = Absent
  Routes = {}
  CH_MAX_SENDS = 2
  Foreign = {f1}
  MAX_SEEN = 4
  MAX_RECENT = 1
  Others = {}
  MAX_SHOWN = 2
INVARIANTS EchoedIsNotRetried
CHECK_DEADLOCK FALSE
