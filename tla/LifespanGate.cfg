SPECIFICATION Spec
CONSTANTS
  Db = {a, b}
  DefaultDb = a
  NamedDb = b
  Option <- AllOptions
  Environment = {"test"}
PROPERTIES
  GateRejectsOnlyUnreachable
