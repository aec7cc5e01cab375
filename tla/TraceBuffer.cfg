SPECIFICATION Spec
CONSTANTS
  e1 = e1
  e2 = e2
  Event <- MCEvent
  Capacity = 3
  MaxEvents = 5
INVARIANTS
  TypeOK
  Conservation
  FileIsPrefix
  LossIsBounded
  ClosedIsComplete
PROPERTIES
  DropIsFinal
  ImplementsEventLog
