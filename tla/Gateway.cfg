CONSTANTS
  q1 = q1
  q2 = q2
  q3 = q3
  Request <- Requests
  Client <- Addresses
  Traffic <- Mixes
  MaxConcurrent = 3
  PoolSize = 1
  MaxWaiting = 1
  GlobalLimit = 1
  ClientLimit = 1
  Window = 3
  MaxKeys = 1
  Stall = 1
  MaxTime = 4
SPECIFICATION Spec
INVARIANTS
  Accounted
  WindowHolds
PROPERTY RequestsEnd
