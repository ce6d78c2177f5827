SPECIFICATION Spec
CONSTANTS
  Top = 4
  Base = 2
  Change <- SmallChange
  Sessions = {s1}
  Activities = {"signal"}
  MaxEvents = 4
  MaxCrashes = 0
  MaxErrors = 0
INVARIANTS HalvesReconcile
CHECK_DEADLOCK FALSE
