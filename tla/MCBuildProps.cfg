CONSTANT
  Roots <- MCRoots
  FileSystems <- MCFileSystems
  Canonical <- MCCanonical
  Keys <- MCKeys
  Values <- MCValues
  Disallowed = {"ctl.k"}
  Filters <- MCFilters
  NoFilter = NoFilter
  NoKey = NoKey
  NoPath = NoPath
  MaxDepth = 2
  MaxLoads = 4
SPECIFICATION LSpec
INVARIANT LoaderInv
INVARIANT LoadCorrect
PROPERTY LoadReturns
CHECK_DEADLOCK FALSE
