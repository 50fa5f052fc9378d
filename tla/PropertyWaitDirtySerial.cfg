SPECIFICATION FairSpec
CONSTANTS
  Waiters = {w1}
  Local = {}
  NoSerial = NoSerial
  MaxUpdates = 2
  MaxSlices = 2
INVARIANT WaitReportsFinishedChange
