SPECIFICATION Spec
CONSTANTS
  People = {p1, p2}
  Away = {p2}
  MaxModules = 2
  MaxReopened = 1
INVARIANTS TypeOK OwedOnce OfferedIsAccepted ReasonFitsTheFinding
PROPERTIES NothingForTheClosed ClosedByTheBook SubjectsKeepTheirWork
CHECK_DEADLOCK FALSE
