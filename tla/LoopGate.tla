------------------------------ MODULE LoopGate ------------------------------
(***************************************************************************)
(* A run of the loop seen as an implementation of TrainingGate.            *)
(***************************************************************************)
EXTENDS LoopSerial

\* The runner whose assignment an employee holds, in the given rows.
HolderIn(rows, e) == CHOOSE t \in Runners : rows[<<t, e>>] # "none"

DutyIn(rows, e) ==
    IF \A t \in Runners : rows[<<t, e>>] = "none" THEN "none"
    ELSE LET s == rows[<<HolderIn(rows, e), e>>]
         IN  IF s \in OpenStatus THEN "open" ELSE s

\* The run is past the gate once a task that may TARGET was let through.
PastGate ==
    \/ pc[Pipeline] \in {"approved", "targeting", "targeted", "training"}
    \/ \E t \in Resumes : pc[t] \notin Gone

PhaseNow ==
    CASE status \in Terminal -> "closed"
      [] status = "awaiting_approval" -> "review"
      [] status = "awaiting_training" -> "training"
      [] status = "running" ->
             IF StageAlreadyRan(hist, MEASURE) THEN "measuring"
             ELSE IF PastGate THEN "delivering" ELSE "preparing"

DutiesNow == [e \in Emps |-> DutyIn(asg, e)]

ReportNow ==
    [taken   |-> summary.taken,
     trained |-> {e \in Emps : \E t \in Runners : <<t, e>> \in summary.completed}]

Gate == INSTANCE TrainingGate WITH
    phase <- PhaseNow, duty <- DutiesNow, report <- ReportNow

\* Every behaviour of the run is one the abstract gate allows
\* (orchestrator.py and loop_runs.py together).
ImplementsGate == Gate!GateSpec
=============================================================================
