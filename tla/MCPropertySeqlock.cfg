SPECIFICATION FairSpec
CONSTANTS
  a = a
  b = b
  NUL = NUL
  Unread = Unread
  Props = {p1, p2}
  Readers = {r1}
  Byte <- MCByte
  Values <- MCValues
  MaxLen = 2
  Period = 2
  GPeriod = 2
INVARIANT SeqlockInv
PROPERTY Atomicity
PROPERTY CommitPoint
PROPERTY CrashNeverBlocksReaders
