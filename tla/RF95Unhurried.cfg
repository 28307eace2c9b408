SPECIFICATION Spec
CONSTANTS
  Addresses <- MCAddresses
  ThisAddress = 10
  Broadcast = 255
  Promiscuous = FALSE
  PacketLens <- MCPacketLens
  MaxMessageLen = 251
  CallerLen = 4
  SendLens <- MCSendLens
  CadTimeouts = {FALSE}
  Prompt = FALSE
  MaxPackets = 2
  MaxSends = 1
INVARIANTS
  OnlyOurMessages
