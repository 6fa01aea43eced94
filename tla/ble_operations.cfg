CONSTANTS
  Device = {d1, d2}
  V2Devices = {d1}
  Connects = {c1, c2}
  Writes = {w1, w2}
  Reads = {}
  Disconnects = {x1, x2}
  Scans = {}
  NoDevice = NoDevice
  NoCall = NoCall
  MaxScanTimers = 1
SYMMETRY Symmetry
SPECIFICATION Spec
INVARIANTS
  ReadyMeansSubscribed
  CancelledByOwnTask
  LiveLinkNotQuarantined
  NoOrphanLink
  SetupHasOwner
  OnlyBoundDevice
PROPERTY WriteAcknowledged
