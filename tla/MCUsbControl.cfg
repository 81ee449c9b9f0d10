CONSTANTS
  MaxRequests = 4
  MaxStops = 2
SPECIFICATION Spec
INVARIANTS
  RequestsOK
  Notified
PROPERTIES
  Answered
  LinkUp
CHECK_DEADLOCK FALSE
