SPECIFICATION FairSpec
CONSTANTS
  Clients = {c1}
  Conns = {k1, k2}
  Requests <- MCRequests
  ReadOnly = {"ro"}
  WideNames = {"wide"}
  LongValues = {"long"}
  MaxConcurrent = 1
  MaxWaiting = 1
  Absent = Absent
INVARIANT SetInv
INVARIANT RepliesTrue
PROPERTY SetIsAtomic
PROPERTY SetReturns
PROPERTY ConnectionsEnd
