SPECIFICATION Spec
CONSTANTS
  c1 = c1
  c2 = c2
  c3 = c3
  r1 = r1
  r2 = r2
  NULL = NULL
  Conns <- MCConns
  Rows <- MCRows
  Ops <- MCOps
  MaxFaults = 3
INVARIANTS
  IdleInPool
  IInv
PROPERTIES
  ImplementsAtomicCalls
  CallsReturn
  CallsRunOut
  FailsForAReason
  SuccessRecurs
