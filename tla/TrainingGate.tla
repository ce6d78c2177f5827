---------------------------- MODULE TrainingGate ----------------------------
(***************************************************************************)
(* What the closed loop promises about one threat, without sessions, tasks *)
(* or stages: a person's decision (or the demo setting) stands between the *)
(* generated module and any employee, each employee has at most one duty   *)
(* whose outcome is final, and the report is taken when every duty is      *)
(* settled and counts exactly the completed ones.                          *)
(***************************************************************************)
CONSTANT Emps

VARIABLES
    phase,      \* where the loop stands
    duty,       \* what each employee owes
    report      \* the employees MEASURE counted as trained, once taken

gateVars == <<phase, duty, report>>

Phases == {"preparing", "review", "delivering", "training", "measuring", "closed"}
Duties == {"none", "open", "completed", "expired"}
Untaken == [taken |-> FALSE, trained |-> {}]

Owing == {e \in Emps : duty[e] = "open"}

GateTypeOK ==
    /\ phase \in Phases
    /\ duty \in [Emps -> Duties]
    /\ report \in [taken : BOOLEAN, trained : SUBSET Emps]

Move(from, to) == phase = from /\ phase' = to

Charge(who, d) == duty' = [e \in Emps |-> IF e \in who THEN d ELSE duty[e]]

Start ==
    /\ phase = "preparing"
    /\ duty = [e \in Emps |-> "none"]
    /\ report = Untaken

Submit == Move("preparing", "review") /\ UNCHANGED <<duty, report>>

\* The only two ways past the gate.
Approve == Move("review", "delivering") /\ UNCHANGED <<duty, report>>
Waive   == Move("preparing", "delivering") /\ UNCHANGED <<duty, report>>

Deliver ==
    /\ Move("delivering", "training")
    /\ \E who \in (SUBSET Emps) \ {{}} : Charge(who, "open")
    /\ UNCHANGED report

NobodyAtRisk == Move("delivering", "measuring") /\ UNCHANGED <<duty, report>>

\* Also after a failed delivery closed the loop: what was handed out stands.
Settle ==
    /\ phase \in {"training", "closed"}
    /\ \E who \in (SUBSET Owing) \ {{}}, d \in {"completed", "expired"} : Charge(who, d)
    /\ UNCHANGED <<phase, report>>

Measure ==
    /\ Move("training", "measuring")
    /\ Owing = {}
    /\ UNCHANGED <<duty, report>>

Report ==
    /\ phase = "measuring"
    /\ ~report.taken
    /\ report' = [taken |-> TRUE, trained |-> {e \in Emps : duty[e] = "completed"}]
    /\ UNCHANGED <<phase, duty>>

\* Benign, rejected, failed, interrupted, or finished after the report.
Close ==
    /\ phase \in {"preparing", "review", "measuring"}
    /\ phase' = "closed"
    /\ UNCHANGED <<duty, report>>

DeliveryFails ==
    /\ Move("delivering", "closed")
    /\ \E who \in SUBSET Emps : Charge(who, "open")
    /\ UNCHANGED report

GateStep ==
    \/ Submit \/ Approve \/ Waive \/ Deliver \/ NobodyAtRisk
    \/ Settle \/ Measure \/ Report \/ Close \/ DeliveryFails

GateSpec == Start /\ [][GateStep]_gateVars
=============================================================================
