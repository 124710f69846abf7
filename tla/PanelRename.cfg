SPECIFICATION PanelSpec
CONSTANTS
  Users <- MCOneUser
  Emails <- MCTwoNames
  Inbounds <- MCOneInbound
  Sessions <- MCOneAdmin
  Kinds = {"update", "setInbounds"}
  PanelAnswers = {"ok"}
  Exclusive = TRUE
  CanOrphan = FALSE
  MaxOps = 4
  MaxDbFaults = 0
  Unborn = Unborn
  Gone = Gone
  NoClient = NoClient
  Rows <- MCRows
  NoRow = NoRow
  BatchSize = 2
  MaxAttempts = 2
  MaxJobs = 6
  MaxRetries = 0
  MaxFaults = 0
INVARIANT HealthyNeverFails
