SPECIFICATION FairSpec
CONSTANTS
  a = a  b = b  m1 = m1  m2 = m2  m3 = m3  m4 = m4  x = x  d = d
  j1 = j1  j2 = j2  j3 = j3  k1 = k1
  NoJob = NoJob
  Msgs = {m1}
  Chats = {a, b}
  Jobs = {j1, j2, j3}
  Callers = {k1}
  ChatOf <- MCChatOf
  Date <- MCDate
  SentAt <- MCSentAt
  Text <- MCText
  Real <- MCReal
  Counted <- MCReal
  Workers = 1
  Batch = 1
  WarmMin = 1
  WarmTop = 1
  MaxFaults = 1
INVARIANT OneJobPerChat
PROPERTIES JobsFinish EventuallyIndexed
