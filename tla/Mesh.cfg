SPECIFICATION FairSpec
CONSTANTS
  Address <- MCAddresses
  Size = 3
  Node <- MCNodes
  Broadcast = 255
  Worlds <- MCWorlds
  MaxHops = 3
  Residue = {0, 1}
  Nothing = Nothing
INVARIANTS TypeOK TablesSound NoNodePassedTwice HopsLimited NextHopsInRange NoTextTwice
PROPERTIES FailedRouteForgotten FallsSilent
CHECK_DEADLOCK FALSE
