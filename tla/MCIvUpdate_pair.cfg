\* Two nodes that hear only each other.
CONSTANTS
  n1 = n1
  n2 = n2
  Nodes <- TwoNodes
  Beaconing <- TwoNodes
  StartIvs <- ZeroOnly
  MaxIv = 2
  ForeignBeacons <- NoBeacons
  Ctxs <- OneCtx
  MaxSegs = 1
  SeqSpace = 2
  SeqLimit = 0
  RecoveryRange = 42
  MinStay = 2
  Timeout = 3
  Horizon = 4
SPECIFICATION Spec
CONSTRAINT UntilSecondStep
SYMMETRY Perms
VIEW WithoutHistory
PROPERTIES IvIndexPaced
