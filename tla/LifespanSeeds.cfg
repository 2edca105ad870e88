SPECIFICATION Spec
CONSTANTS
  Db = {a, b}
  DefaultDb = a
  NamedDb = b
  Option <- SomeOptions
  Environment = {"test"}
PROPERTIES
  SeedsFollowMigrations
