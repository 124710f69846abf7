SPECIFICATION PanelSpec
CONSTANTS
  Users <- MCTwoUsers
  Emails = {n1, n2}
  Inbounds <- MCOneInbound
  Sessions = {s1, s2}
  Kinds = {"update", "switch", "reset", "setInbounds", "delete"}
  PanelAnswers = {"ok"}
  Exclusive = TRUE
  CanOrphan = TRUE
  MaxOps = 5
  MaxDbFaults = 0
  Unborn = Unborn
  Gone = Gone
  NoClient = NoClient
  Rows <- MCRows
  NoRow = NoRow
  BatchSize = 2
  MaxAttempts = 2
  MaxJobs = 3
  MaxRetries = 0
  MaxFaults = 0
SYMMETRY MCSymmetry
INVARIANT RestsInSync
