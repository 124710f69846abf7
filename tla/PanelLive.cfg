SPECIFICATION PanelFairSpec
CONSTANTS
  Users <- MCOneUser
  Emails <- MCOneName
  Inbounds <- MCOneInbound
  Sessions <- MCOneAdmin
  Kinds = {"update", "switch", "regenerate", "setInbounds", "delete"}
  PanelAnswers = {"ok"}
  Exclusive = TRUE
  CanOrphan = FALSE
  MaxOps = 4
  MaxDbFaults = 0
  Unborn = Unborn
  Gone = Gone
  NoClient = NoClient
  Rows <- MCRows
  NoRow = NoRow
  BatchSize = 2
  MaxAttempts = 2
  MaxJobs = 3
  MaxRetries = 0
  MaxFaults = 1
PROPERTY ComesInSync
