SPECIFICATION Spec
CONSTANTS
  alice = alice
  editor = editor
  admin = admin
  Superuser = admin
  data = data
  Users <- MCUsers
  Roles <- MCRoles
  Resources <- MCResources
  MaxFaults = 2
  TableInPolarity = TRUE
INVARIANTS
  RemovedNotEnforced
