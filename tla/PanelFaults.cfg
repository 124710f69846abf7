SPECIFICATION PanelSpec
CONSTANTS
  Users <- MCOneUser
  Emails <- MCOneName
  Inbounds <- MCOneInbound
  Sessions <- MCOneAdmin
  Kinds = {"update", "switch", "regenerate", "reset", "setInbounds", "delete"}
  PanelAnswers = {"ok", "err", "lost"}
  Exclusive = TRUE
  CanOrphan = TRUE
  MaxOps = 3
  MaxDbFaults = 1
  Unborn = Unborn
  Gone = Gone
  NoClient = NoClient
  Rows <- MCRows
  NoRow = NoRow
  BatchSize = 2
  MaxAttempts = 2
  MaxJobs = 3
  MaxRetries = 1
  MaxFaults = 1
INVARIANTS PanelTypeOK RestsInSync
