SPECIFICATION Spec
CONSTANTS
  a = a
  b = b
  v1 = v1
  v2 = v2
  Db <- Databases
  DefaultDb = b
  Version = {v1, v2}
  Files <- FilesOf
  MaxSurplus <- SurplusOf
  Interval = 1
  AuthMode = "authenticated"
  NoName = NoName
  Unknown = Unknown
INVARIANTS
  TypeOK
  OkMeansMigrated
  GaugeNeverOptimistic
  StatusCountsAll
  SuccessMeansMigrated
PROPERTIES
  GaugesNeverRise
  OncePerInterval
  GaugesCatchUp
