SPECIFICATION Spec
CONSTANTS
  Users <- MCUsers
  Rows <- MCOneInbound
  NoRow = NoRow
  BatchSize = 2
  MaxAttempts = 2
  MaxJobs = 3
  MaxRetries = 1
  MaxFaults = 1
INVARIANTS
  TypeOK
  WorkerOwnsItsBatch
  NothingLostUnpushed
  RetryBudget
  RepeatsAccountedFor
  NoOvertakingWithoutFailure
