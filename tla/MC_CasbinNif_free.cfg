SPECIFICATION Spec
CONSTANTS
  t1 = t1
  t2 = t2
  t3 = t3
  e1 = e1
  e2 = e2
  alice = alice
  editor = editor
  admin = admin
  Superuser = admin
  data = data
  NULL = NULL
  Threads <- TwoThreads
  Objects <- TwoObjects
  Users <- MCUsers
  Roles <- NoRoles
  Resources <- MCResources
  Requests <- AllRequests
  Overlap <- AllOverlap
  PairedLifecycle = FALSE
INVARIANTS
  PublishedAlive
PROPERTIES
  NoEscalation
SYMMETRY Symmetry
CHECK_DEADLOCK FALSE
