SPECIFICATION Spec
CONSTANTS
  t1 = t1
  t2 = t2
  t3 = t3
  e1 = e1
  e2 = e2
  alice = alice
  editor = editor
  admin = admin
  Superuser = admin
  data = data
  NULL = NULL
  Threads <- MCThreads
  Objects <- TwoObjects
  Users <- MCUsers
  Roles <- MCRoles
  Resources <- MCResources
  Requests <- MCRequests
  Overlap <- ReadersOverlap
  PairedLifecycle = TRUE
INVARIANTS
  NoUndefinedBehaviour
  CacheCoherent
  NoLeak
PROPERTIES
  AnswerCurrent
  ImplementsRuleService
SYMMETRY Symmetry
