SPECIFICATION Spec
CONSTANTS
  Top = 4
  Base = 2
  Change <- SmallChange
  Sessions = {s1}
  Activities = {"signal", "contest", "resolve"}
  MaxEvents = 3
  MaxCrashes = 1
  MaxErrors = 1
INVARIANTS TypeOK ScoreIsTheTrail WithdrawalLands
PROPERTIES OneAnswer
CHECK_DEADLOCK FALSE
