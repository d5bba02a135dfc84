SPECIFICATION Spec
CONSTANTS
  a = a
  b = b
  Message = {a, b}
  Tasks = 3
  History <- MCHistory
  MaxAccepted = 3
INVARIANTS
  TypeOK
  NothingStranded
PROPERTIES
  ImplementsEventStream
  EventuallyReleased
CHECK_DEADLOCK FALSE
