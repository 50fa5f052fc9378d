SPECIFICATION FairSpec
CONSTANTS
  Waiters = {w1, w2}
  Local = {w1}
  NoSerial = NoSerial
  MaxUpdates = 2
  MaxSlices = 2
INVARIANT WaitInv
PROPERTY AnyWaitReturns
PROPERTY WriterGetsLock
PROPERTY PropWaitReturns
PROPERTY SerialReturns
