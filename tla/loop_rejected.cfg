SPECIFICATION Spec
CONSTANTS
  Pipeline = pipeline
  Emps = {e1}
  Slots = {s1}
  Resumes = {r1}
  Measures = {m1, m2}
  Handlers = {"approve", "review"}
  AutoModes = {FALSE}
  MaxCrashes = 0
  MaxErrors = 0
PROPERTIES NothingAfterReject
CHECK_DEADLOCK FALSE
