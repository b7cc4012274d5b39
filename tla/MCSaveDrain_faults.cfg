\* Two analyses, one to a batch; two calls cut short anywhere, one transient error, time.
CONSTANTS
  a1 = a1
  a2 = a2
  d1 = d1
  d2 = d2
  None = None
  Analyses = {a1, a2}
  Drains = {d1, d2}
  Batch = 1
  JobTimeout = 1
  LockTTL = 2
  MaxTransients = 1
  MaxStops = 2
  MaxSchedFails = 1
  MaxInline = 1
SPECIFICATION FairSpec
INVARIANTS
  SerializedDrain
  LossPerStop
  QuietMeansSettled
PROPERTIES
  LedgerSpec
  EveryAnalysisSettled
CHECK_DEADLOCK FALSE
