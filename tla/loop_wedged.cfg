SPECIFICATION Spec
CONSTANTS
  Pipeline = pipeline
  Emps = {e1}
  Slots = {s1, s2}
  Resumes = {r1, r2}
  Measures = {m1, m2}
  Handlers = {"approve"}
  AutoModes = {FALSE}
  MaxCrashes = 0
  MaxErrors = 0
INVARIANTS RunningHasTask
CHECK_DEADLOCK FALSE
