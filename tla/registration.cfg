CONSTANTS
  Node = {n1, n2}
  MaxTries = 4
  NoRes = NoRes
  NoStr = NoStr
SPECIFICATION RegFairSpec
INVARIANTS ReadyMeansRegistered
PROPERTIES InsertedOnce 
CHECK_DEADLOCK FALSE
