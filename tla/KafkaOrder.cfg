SPECIFICATION Spec
CONSTANTS
  u1 = u1  u2 = u2  n = n  b = b  x = x
  Updates = {u1, u2, b, x}
  Textless = {x}
  Blank = {b}
  Unstorable = {}
  Consumer = Consumer
  Threads = {Consumer}
  NoUpdate = NoUpdate
  NoParcel = NoParcel
  UserOf <- MCUserOf
  Distance <- MCDistance
  MaxDistance = 2
  ExactSearch = FALSE
  Parcels <- MCExchanges
  Senders <- MCSenders
  MaxRetries = 2
  MaxFaults = 1
  MaxCalls = 9
CHECK_DEADLOCK FALSE
INVARIANTS
  RecordedFirst
  RetriesRepeatNoReply
  RepliesInOrder
