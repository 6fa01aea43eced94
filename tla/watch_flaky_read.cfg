CONSTANTS
  Device = {d1}
  NoDevice = NoDevice
  V2Devices = {d1}
  Caller = {c1}
  Nobody = Nobody
  Sources = 2
  HasCodex = FALSE
  EventBuffer = 2
  MaxFaults = 1
  MaxBindings = 0
  MaxVersion = 1
SPECIFICATION FairSpec
PROPERTY FlakyReadHarmless
