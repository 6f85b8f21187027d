SPECIFICATION PlatformSpec
CHECK_DEADLOCK FALSE
CONSTANTS
  Files = {f1, f2}
  MaxLines = 2
  MaxTrouble = 1
  Calls = {k1, k2}
  PipeCapacity = 1
  OutputLength = 2
  ErrorLength = 1
  Inherits = TRUE
  ClusterRequests = {r1, r2}
  Sites = {s1}
  Missing = Missing
  MaxConfigs = 2
  Requests = {r1}
  Groups = {g1, g2}
  All = All
  MaxFaults = 2
  Offered = {"check", "checkAll", "checkAllByName", "list", "grant", "revoke", "delete"}
  MaxFailures = 1
  MaxMishaps = 2
  MaxAllocations = 3
  NameField = 3
  PrefixField = 2
  BlockSize = 2
  ReadBlockSize = 4
  Trailer = 2
  MaxName = 3
  MaxPacked = 6
  ShowDelay = 1
  SleepLength = 2
  RepeatDelay = 3
  MaxTime = 4
  MaxTokens = 2
  MaxValues = 1
INVARIANTS
  ServingReady StatusPassedOnce RecordsAgree AccessAnswersAgree RegisteredPrepared MonitoringCredentialValid
  TransfersWhole AtMostOneLate
PROPERTIES
  ServerSettles ClientEnds
