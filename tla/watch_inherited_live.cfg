CONSTANTS
  Conn = {i1}
  NoConn = NoConn
  SetCapacity = 1
  EventCapacity = 2
  ReportCapacity = 1
  QuotaCapacity = 1
  MaxFragments = 2
  SentParts = {"whole"}
  SentProtocols = {}
  MaxSession = 2
SPECIFICATION Spec
INVARIANT NoInheritedLive
