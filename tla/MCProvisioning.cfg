SPECIFICATION FairSpec
CONSTANTS
  MaxLinks = 2
  MaxFails = 1
  Tries = 1
  MaxLost = 2
  NetKeys = {TRUE, FALSE}
INVARIANTS TypeOK Completes
PROPERTIES Agreement AckMeansHandled LinkEnds
CHECK_DEADLOCK FALSE
