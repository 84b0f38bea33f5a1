SPECIFICATION FairSpec
CONSTANTS
  t1 = t1  t2 = t2
  u1 = u1  u2 = u2  v1 = v1  x = x
  Updates = {u1, u2, v1, x}
  Textless = {x}
  Threads = {t1, t2}
  Senders = {t1, t2}
  NoUpdate = NoUpdate
  NoParcel = NoParcel
  UserOf <- MCUserOf
  Distance <- MCDistance
  MaxDistance = 2
  ExactSearch = TRUE
  Parcels <- MCExchanges
  MaxFaults = 1
CHECK_DEADLOCK FALSE
INVARIANTS
  StampedeIsBounded
  RecordedOwnAnswer
  RecordedFirst
  NeverRepeated
  RepliesAreBounded
PROPERTY
  RaisesCostOneAnswerEach
