SPECIFICATION FairSpec
CONSTANTS
  Node <- MCNodes
  Broadcast = 255
  Retries = 255
  NoMessage = NoMessage
  Unstable <- MCNobody
  MaxSent <- MCOneRequest
PROPERTIES
  SendtoWaitReturns
CHECK_DEADLOCK FALSE
