\* Two SDUs of one device, one of another, two reassembly contexts.
CONSTANTS
  a1 = a1
  a2 = a2
  s1 = s1
  s2 = s2
  s3 = s3
  NoSource = NoSource
  Sources <- TwoSources
  Sdus <- ThreeSdus
  SourceOf <- SharedSource
  FirstSeq <- FromSeven
  SegN = 1
  SeqZeros = 8
  TxCount = 2
  RxCount = 2
  MaxAcks = 1
SPECIFICATION Spec
SYMMETRY Perms
CONSTRAINT FivePdus
INVARIANTS TypeOK SuccessIsDelivery DeliveredOnce
CHECK_DEADLOCK FALSE
