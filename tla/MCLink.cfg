CONSTANTS
  SeqNumbers = 2
  RxDepth = 1
  TxDepth = 1
  LineSize = 1
  drop_every = 3
  corrupt_every = 2
  DropTypes <- AllTypes
  MaxSent = 3
  MaxSynth = 1
  MaxCommands = 2
SPECIFICATION FairSpec
INVARIANTS
  DiscardExplained
PROPERTIES
  UpIsLossyChannel
  DownIsLossyChannel
  CommandLeaves
CHECK_DEADLOCK FALSE
