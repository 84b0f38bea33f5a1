SPECIFICATION FairSpec
CONSTANTS
  u1 = u1  u2 = u2  n = n  b = b  x = x
  Updates = {u1, n}
  Textless = {}
  Blank = {}
  Unstorable = {n}
  Consumer = Consumer
  Threads = {Consumer}
  NoUpdate = NoUpdate
  NoParcel = NoParcel
  UserOf <- MCUserOf
  Distance <- MCDistance
  MaxDistance = 2
  ExactSearch = FALSE
  Parcels <- MCExchanges
  Senders <- MCSenders
  MaxRetries = 2
  MaxFaults = 1
  MaxCalls = 9
CHECK_DEADLOCK FALSE
INVARIANTS
  CallsAreBounded
PROPERTIES
  TasksPass
  AnsweredDespiteBlips
