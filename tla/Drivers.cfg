SPECIFICATION FairSpec
CONSTANTS
  MaxPackets = 4
  MaxSends = 2
  Room = 2
  FifoSize = 3
  PortSize = 12
  PayloadSize = 3
  MaxFrames = 3
INVARIANTS TypeOK DeliveredOnce ModeMatchesChip
PROPERTIES TxNotCut TxEndSeen
