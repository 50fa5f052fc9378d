SPECIFICATION FairSpec
CONSTANTS
  Image <- MCImage
  Files <- MCFiles
  Magic = 19
  Base = 16
  ValueMax = 4
  NonUtf8 = {15}
  Names <- MCNames
  Written <- MCWritten
  Trie <- MCTrie
INVARIANT ReadInv
INVARIANT NoFalseAlarm
INVARIANT ValueIsNotMetadata
PROPERTY ReadReturns
CHECK_DEADLOCK FALSE
