SPECIFICATION Spec
CONSTANTS
  Threads = {"t1", "t2", "t3"}
  Configs <- MCConfigs
  Unset = "unset"
  DefaultProps = "dp"
  DefaultSock = "ds"
  StoreVersion = "v1"
  EnvVersion = "v2"
INVARIANT InitInv
INVARIANT StoreVersionWins
PROPERTY DirsNeverChange
