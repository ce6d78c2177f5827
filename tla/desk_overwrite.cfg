SPECIFICATION Spec
CONSTANTS
  Analysts = {a1, a2}
  Slots = {s1}
  Routes = {"queue"}
  MaxTexts = 1
  MaxTrail = 1
PROPERTIES NobodyUndoesAnEdit
CHECK_DEADLOCK FALSE
