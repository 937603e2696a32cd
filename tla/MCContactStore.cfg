SPECIFICATION Spec
CONSTANTS
  Pubkeys = {alice, bob}
  Entries = {e1, e2}
  Workers = {w1}
  Senders = {s1}
  UI = UI
  NoContact = NoContact  NoList = NoList  Nothing = Nothing
  MAX_MESSAGES = 1
  SENDS = 2
  EVENTS = 4
SYMMETRY Symmetry
INVARIANTS TypeOK HistoryTracked OffIsFlushed ContactsStored
CHECK_DEADLOCK FALSE
