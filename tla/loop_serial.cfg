SPECIFICATION FairSpec
CONSTANTS
  Pipeline = pipeline
  Emps = {e1, e2}
  Slots = {s1}
  Resumes = {r1}
  Measures = {m1, m2}
  Handlers = {"approve", "reject", "review", "force", "start", "complete"}
  AutoModes = {TRUE, FALSE}
  MaxCrashes = 1
  MaxErrors = 0
INVARIANTS TypeOK SettledOnce RunningHasTask ReportStands Awaited
INVARIANTS DrawnWhereItWorks ReleasedByAPerson SentenceIsTrue
PROPERTIES ClosedStays OutcomeStays StageEnds LastAnswerCloses ImplementsGate
CHECK_DEADLOCK FALSE
