SPECIFICATION Spec
CONSTANTS
  Instances = {"i1", "i2", "i3"}
  Readers = {r1}
  Table <- MCTable
  Fold <- MCFold
  Malformed = {"../x"}
  None = None
INVARIANT DirInv
INVARIANT OneGeneration
CHECK_DEADLOCK FALSE
