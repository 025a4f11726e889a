SPECIFICATION Spec
CONSTANTS
  c = c
  n1 = n1
  n2 = n2
  Nodes <- Three
  Client = c
  Initial <- Two
  CliBuilds <- Two
  MaxGen = 1
  Settles = TRUE
INVARIANTS
  TypeOK
  Understood
PROPERTIES
  RefreshEnds
CHECK_DEADLOCK FALSE
