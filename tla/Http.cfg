SPECIFICATION HttpSpec
CONSTANTS
  Clients = {n1, n2, n3}
  Proxied = {n1, n2}
  Proxy = k1
  Other = k2
  Keys = {k1, k2}
  RemoteAddr <- Addresses
  Callers = {c1, c2}
  Buckets = {b1, b2}
  Rate = 1
  Cost = 2
  Burst = 2
  MaxEarned = 3
  Ids = {i1, i2}
  Tabs = {t1, t2}
  SessionTTL = 2
  Second = 2
  SessionTime = 4
  Lists <- MCLists
  Links <- MCLinks
  Parsable <- MCParsable
  Agents <- MCAgents
  Asked = {"happ", "links", "qr", "config"}
  CacheTTL = 1
  FetchTime = 1
  RequestTime = 2
  LinkA = LinkA
  LinkB = LinkB
  Unknown = Unknown
  None = None
SYMMETRY MCSymmetry
INVARIANTS HttpTypeOK WithinRate RefusedForItsAddress FollowedAsShown
PROPERTIES LetInWhileItLasts FoundAsOnPanel StatusTellsUse
CHECK_DEADLOCK FALSE
