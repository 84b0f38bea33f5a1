SPECIFICATION SearchSpec
CONSTANTS
  a = a
  b = b
  c = c
  c1 = c1
  c2 = c2
  s1 = s1
  s2 = s2
  w1 = w1
  w2 = w2
  k1 = k1
  Guids = {a, b, c}
  NoGuid = NoGuid
  Chats = {c1, c2}
  NoChat = NoChat
  InChats <- MCInChats
  Date <- MCDate
  Servers = {s1, s2}
  NoServer = NoServer
  Workers = {w1, w2}
  NoThread = NoThread
  ServerOf <- MCServerOf
  RowIds = {r1, r2, r3, r4}
  NoRowId = NoRowId
  Batch = 2
  Early = {a, b}
  Deletable = {a}
  MaxJobs = 2
  MaxFaults = 1
  Callers = {k1}
  At <- MCAt
  Questions <- MCQuestions
  AnyQuestion <- Everything
  Distance <- MCDistance
  Score <- MCScore
  Cutoff = 3
  Mine <- MCMine
  TopK = 1
  OverFetch = 2
SYMMETRY Rowids
INVARIANTS TablesAgree NeverOverstated WatermarksCover HitsAreNearest
PROPERTIES OwnRowsAreFetched ImplementsRowStore
CHECK_DEADLOCK FALSE
