SPECIFICATION FairSpec
CONSTANTS
  Users <- MCUsers
  Rows <- MCTwoInbounds
  NoRow = NoRow
  BatchSize = 2
  MaxAttempts = 2
  MaxJobs = 2
  MaxRetries = 0
  MaxFaults = 1
INVARIANT
  SyncedMeansQuietUnlessRetrying
PROPERTY
  EverySyncSettles
