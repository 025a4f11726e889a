\* One node, two seg_tx contexts, neighbours sending arbitrary beacons.
CONSTANTS
  n1 = n1
  n2 = n2
  Nodes <- OneNode
  Beaconing <- NoBeacons
  StartIvs <- AnyIv
  MaxIv = 2
  ForeignBeacons <- AnyBeacon
  Ctxs <- TwoCtxs
  MaxSegs = 2
  SeqSpace = 3
  SeqLimit = 1
  RecoveryRange = 42
  MinStay = 1
  Timeout = 2
  Horizon = 0
SPECIFICATION FairSpec
INVARIANTS TypeOK NonceFresh UpdateHasExit
PROPERTIES DeferredUnderTransfer TimerDecides
CHECK_DEADLOCK TRUE
