CONSTANTS
  old = old
  new1 = new1
  new2 = new2
  Processes <- MCProcesses
  Embedded <- MCEmbedded
  Needs <- MCNeeds
  Repeatable = {1}
  MaxStops = 2
SPECIFICATION Spec
CHECK_DEADLOCK FALSE
INVARIANTS
  TypeOK
  SchemaInOrder
  ServesComplete
PROPERTIES
  OneComesThrough
  AdminCanLogIn
