SPECIFICATION Spec
CONSTANTS
  Top = 4
  Base = 2
  Change <- FewChanges
  Sessions = {s1, s2}
  Activities = {"signal", "contest", "resolve"}
  MaxEvents = 2
  MaxCrashes = 0
  MaxErrors = 0
SYMMETRY Interchangeable
INVARIANTS NeverExaggerates
PROPERTIES BehaviourIsEvidence
CHECK_DEADLOCK FALSE
