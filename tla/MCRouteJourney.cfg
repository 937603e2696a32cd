SPECIFICATION Spec
CONSTANTS
  Us = 1  Them = 2
  Repeaters = {3, 4, 5}
  Hears <- Links
  Channel = 9
  Nickname <- OneName
  Texts <- TwoTexts
  OurRoutes <- NoneOrLong
  TheirRoutes <- NoneOrKnown
  Foreign <- Damaged
  SENDS = 2
  MAX_PATH_SIZE = 64
  MAX_PACKET_PAYLOAD = 184
  CIPHER_BLOCK_SIZE = 16
  Malformed = Malformed
INVARIANTS TypeOK ParseInvertsToBytes OnCourse UnderstoodAsSent AnsweredOnce
CHECK_DEADLOCK FALSE
