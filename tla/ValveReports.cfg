SPECIFICATION FairSpec
CONSTANTS
  Devices <- MCDevices
  Valve = "10004"
  Commands <- MCShutOff
  CommandLen = 84
  MaxMessageLen = 251
  NoMessage = NoMessage
  LineCapacity = 1
  MaxCommands = 1
  MaxOther = 1
  MaxRestarts = 1
PROPERTIES
  ApiNeverGoesBack
  ApiComesToKnow
  GatewayListensAgain
  ValveListensAgain
