CONSTANTS
  Device = {d1, d2}
  NoDevice = NoDevice
  V2Devices = {d1}
  Caller = {c1, c2}
  Nobody = Nobody
  Sources = 2
  HasCodex = TRUE
  EventBuffer = 2
  MaxFaults = 1
  MaxBindings = 2
  MaxVersion = 2
SPECIFICATION FairSpec
INVARIANTS
  OneCallAtATime
  LinkOfBinding
PROPERTY WatchCatchesUp
