CONSTANTS
  b1 = b1
  b2 = b2
  f1 = f1
  Seqs <- MCSeqs
  Frames <- MCFrames
  RxDepth = 1
  TxDepth = 1
SPECIFICATION Spec
PROPERTY FailedAfterDeadline
CHECK_DEADLOCK FALSE
