SPECIFICATION Spec
CONSTANTS
  Pipeline = pipeline
  Emps = {e1}
  Slots = {s1, s2}
  Resumes = {r1, r2}
  Measures = {m1, m2}
  Handlers = {"approve", "review", "start", "complete", "force"}
  AutoModes = {TRUE, FALSE}
  MaxCrashes = 0
  MaxErrors = 1
INVARIANTS TargetedOnce StageOrder OneTargetRun
PROPERTIES HistoryKept
CHECK_DEADLOCK FALSE
