CONSTANTS
  MaxRequests = 2
  MaxEnables = 2
SPECIFICATION FairSpec
INVARIANTS
  CodecExclusive
  EndsOnce
PROPERTIES
  NoPulseMissed
  ChimeEnds
