SPECIFICATION Spec
CONSTANTS
  t1 = t1
  t2 = t2
  t3 = t3
  c1 = c1
  c2 = c2
  Threads <- MCThreads
  Connections <- MCConnections
  NoThread = NoThread
  NoConnection = NoConnection
  MaxSpurious = 1
INVARIANTS
  ExclusiveUse
  NoneLost
  WorkConserving
  SomeoneRuns
  IInv
PROPERTIES
  ImplementsConnectionPool
  ServedWhenOthersStop
  StepsRunOut
