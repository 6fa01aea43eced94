CONSTANTS
  Device = {d1}
  V2Devices = {d1}
  Connects = {c1}
  Writes = {}
  Reads = {}
  Disconnects = {}
  Scans = {s1}
  NoDevice = NoDevice
  NoCall = NoCall
  MaxScanTimers = 1
SPECIFICATION Spec
INVARIANT ConnectingPeripheralRetained
