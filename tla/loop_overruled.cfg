SPECIFICATION Spec
CONSTANTS
  Pipeline = pipeline
  Emps = {e1}
  Slots = {s1, s2}
  Resumes = {r1, r2}
  Measures = {m1, m2}
  Handlers = {"approve", "reject", "review", "force", "start", "complete"}
  AutoModes = {TRUE, FALSE}
  MaxCrashes = 1
  MaxErrors = 1
PROPERTIES RejectionStands
CHECK_DEADLOCK FALSE
