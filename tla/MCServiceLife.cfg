CONSTANT
  Instances = {1, 2, 3}
  Pid <- MCPid
  Hasty = {2}
  Builds <- MCBuilds
  Requests <- MCRequests
  ReadOnly = {"ro.k"}
  TooLong = {"long"}
  MaxSets = 1
  None = None
SPECIFICATION Spec
INVARIANT ServiceInv
INVARIANT UpMeansServing
INVARIANT BuildValueWins
PROPERTY NoEnoentWindow
PROPERTY RunEnds
CHECK_DEADLOCK FALSE
