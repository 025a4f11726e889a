\* One isolated node with one seg_tx context: does the IV Update end?
CONSTANTS
  n1 = n1
  n2 = n2
  Nodes <- OneNode
  Beaconing <- NoBeacons
  StartIvs <- AnyIv
  MaxIv = 1
  ForeignBeacons <- NoBeacons
  Ctxs <- OneCtx
  MaxSegs = 2
  SeqSpace = 4
  SeqLimit = 1
  RecoveryRange = 42
  MinStay = 1
  Timeout = 2
  Horizon = 0
SPECIFICATION FairSpec
PROPERTIES IvuEnds
