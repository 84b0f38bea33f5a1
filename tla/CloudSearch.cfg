SPECIFICATION FairSearchSpec
CONSTANTS
  a = a  b = b
  m1 = m1  m2 = m2  m3 = m3  x = x  d = d
  Msgs = {m1, m2, m3, x, d}
  Chats = {a, b}
  NoChat = NoChat
  ChatOf <- MCChatOf
  Date <- MCDate
  SentAt <- MCSentAt
  Text = {m1, m2, m3, d}
  Real = {m1, m2, m3, x, d}
  MinMessages = 1
  Limit = 0
  Batch = 2
  Broken = {d}
  MaxFaults = 1
  StaleAfter = 1
  MaxNow = 6
INVARIANTS
  NoGap
  PushedIsComplete
  SilenceIsHonest
PROPERTIES
  OthersArePublished
