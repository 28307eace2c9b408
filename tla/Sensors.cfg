SPECIFICATION Spec
CONSTANTS
  Wrap = 28
  Slowest = 2
  Long = 27
  GpsEvery = 5
  ThermometerEvery = 6
  KeepFor = 2
  NaN = NaN
  ContactEvery = 2
  BeatEvery = 9
  FlowEvery = 2
  LoopDelay = 2
  Second = 1
  PulseVolume = 8
  FullTotal = 2
  ByteSize = 4
  MaxPassed = 5
  Unused = Unused
INVARIANTS TypeOK ReportsInTime ChangesReported FlowReported TotalNotOverstated
PROPERTIES ReportsApart SameMeasurement
