SPECIFICATION ClientSpec
CONSTANTS
  Readers = {r1, r2}
  TTL = 1
  Timeout = 1
  MaxTime = 4
  MaxVersion = 2
  None = None
  MaxAttempts = 3
INVARIANTS TypeOK NeverStalerThanTTL SeesCalmInvalidate ClientTypeOK
PROPERTIES OneFetchPerTTL EveryCallReturns ImplementsPanelCall CallReturns
