SPECIFICATION Spec
CONSTANTS
  Devices <- MCDevices
  Valve = "10004"
  Commands <- MCCommands
  CommandLen = 84
  MaxMessageLen = 251
  NoMessage = NoMessage
  LineCapacity = 1
  MaxCommands = 3
  MaxOther = 0
  MaxRestarts = 0
INVARIANTS
  TypeOK
PROPERTIES
  CommandsObeyedInOrder
  ValveMovesAsOrdered
