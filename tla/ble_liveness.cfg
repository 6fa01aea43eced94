CONSTANTS
  Device = {d1}
  V2Devices = {d1}
  Connects = {c1}
  Writes = {w1}
  Reads = {r1}
  Disconnects = {x1}
  Scans = {s1, s2}
  NoDevice = NoDevice
  NoCall = NoCall
  MaxScanTimers = 1
SPECIFICATION FairSpec
INVARIANT ContinuationsHeld
PROPERTIES
  CallsReturn
  KeepsContract
