SPECIFICATION FairSpec
CONSTANTS
  Node <- MCNodes
  Broadcast = 255
  Retries = 1
  NoMessage = NoMessage
  Unstable <- MCUnstable
  MaxSent <- MCMaxSent
PROPERTIES
  OnlyDuplicatesDropped
