\* One SDU of three segments: does everything end?
CONSTANTS
  a1 = a1
  a2 = a2
  s1 = s1
  s2 = s2
  s3 = s3
  NoSource = NoSource
  Sources <- OneSource
  Sdus <- OneSdu
  SourceOf <- SharedSource
  FirstSeq <- FromSeven
  SegN = 2
  SeqZeros = 8
  TxCount = 1
  RxCount = 1
  MaxAcks = 1
SPECIFICATION FairSpec
PROPERTIES TransferEnds SlotsFreed
CHECK_DEADLOCK FALSE
