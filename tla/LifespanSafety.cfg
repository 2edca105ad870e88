SPECIFICATION FairSpec
CONSTANTS
  Db = {a, b}
  DefaultDb = a
  NamedDb = b
  Option <- SomeOptions
  Environment = {"production", "development", "test"}
INVARIANTS
  IInv
  EnginesOutliveTheirUsers
  BlockServesMigrated
PROPERTIES
  MigratesOnlyWhereAllowed
  ImplementsLifecycle
  BackgroundMigrationEnds
  ShutdownDisposes
