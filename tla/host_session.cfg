CONSTANTS
  Conn = {i1, i2}
  NoConn = NoConn
  SetCapacity = 1
  EventCapacity = 2
  ReportCapacity = 2
  QuotaCapacity = 1
  MaxFragments = 2
  SentParts = {"whole", "unsupported"}
  SentProtocols = {1}
  MaxSession = 2
SPECIFICATION MCSpec
INVARIANTS
  LiveNamesHost
  FragmentsOfOneHost
  MembershipRecovers
  SessionStartsClean
PROPERTIES
  WholeRequestHandled
  ConnectionShown
