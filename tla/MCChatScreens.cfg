SPECIFICATION Spec
CONSTANTS
  Chats = {c, dm}
  Contacts = {dm}
  Home = Home
  MAX_MESSAGES = 2
  EVENTS = 3
  SENDS = 1
  VISITS = 2
INVARIANTS TypeOK NothingIsMissed DividerIsRight BadgesFollow RemovedIsGone OpenChatIsLive
CHECK_DEADLOCK FALSE
