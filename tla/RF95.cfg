SPECIFICATION FairSpec
CONSTANTS
  Addresses <- MCSketchAddresses
  ThisAddress = 255
  Broadcast = 255
  Promiscuous = FALSE
  PacketLens <- MCPacketLens
  MaxMessageLen = 251
  CallerLen = 4
  SendLens <- MCSendLens
  CadTimeouts = {TRUE, FALSE}
  Prompt = TRUE
  MaxPackets = 2
  MaxSends = 2
INVARIANTS
  TypeOK
  EveryGoodPacketTakenOnce
  DeliveredWhole
  EveryEventHandled
  ModeMatchesRadio
  FifoNotShared
PROPERTIES
  TxNotInterrupted
  Implements
  SendReturns
  ReceivedIsTaken
