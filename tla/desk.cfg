SPECIFICATION Spec
CONSTANTS
  Analysts = {a1, a2}
  Slots = {s1}
  Routes = {"queue", "direct"}
  MaxTexts = 1
  MaxTrail = 3
INVARIANTS TypeOK TwoPeople TrailTellsTheRun RecordedOnce
PROPERTIES RefusedForAReason
SYMMETRY AnalystSymmetry
CHECK_DEADLOCK FALSE
