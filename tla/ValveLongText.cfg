SPECIFICATION Spec
CONSTANTS
  Devices <- MCDevices
  Valve = "10004"
  Commands <- MCShutOff
  CommandLen = 84
  MaxMessageLen = 251
  NoMessage = NoMessage
  LineCapacity = 1
  MaxCommands = 4
  MaxOther = 0
  MaxRestarts = 0
PROPERTIES
  LongTextRefused
