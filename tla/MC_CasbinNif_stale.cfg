SPECIFICATION Spec
CONSTANTS
  t1 = t1
  t2 = t2
  t3 = t3
  e1 = e1
  e2 = e2
  alice = alice
  editor = editor
  admin = admin
  Superuser = admin
  data = data
  NULL = NULL
  Threads <- TwoThreads
  Objects <- OneObject
  Users <- MCUsers
  Roles <- MCRoles
  Resources <- MCResources
  Requests <- MCRequests
  Overlap <- WritersOverlap
  PairedLifecycle = TRUE
INVARIANTS
  DeniedOnceRemoved
SYMMETRY Symmetry
CHECK_DEADLOCK FALSE
