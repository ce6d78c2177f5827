---------------------------- MODULE LoopScreens ----------------------------
(***************************************************************************)
(* What the analyst's screens say of a loop run, computed from its row     *)
(* (frontend/src: components/loop/derive.ts, features/command-center/      *)
(* derive.ts, features/loops/detail/nextAction.ts), over the states the    *)
(* backend can leave that row in.                                          *)
(*                                                                         *)
(* These are pure functions of the row.  They repeat, in the browser, rules*)
(* the orchestrator applies on the server: where a run stands, that only a *)
(* person opens the gate, what a closed run implies about the people in it.*)
(***************************************************************************)
EXTENDS LoopRun

\* Where the backend says the run is: the stage it entered last.
StagesEntered == {e[1] : e \in hist}
CurrentStage  == CHOOSE s \in StagesEntered : \A u \in StagesEntered : u <= s

Failures == {e[1] : e \in {x \in hist : x[2] = "failed"}}

\* When a run failed, the stage it died at, else where it stopped.
FailedStage ==
    IF Failures = {} THEN CurrentStage
    ELSE CHOOSE s \in Failures : \A u \in Failures : s <= u

GATE == 0       \* the place between CONVERT and TARGET

NoPlace == [kind |-> "none", at |-> GATE]

\* Mutant of Position: a running run is drawn at the stage it finished last.
PositionDone ==
    CASE status = "failed" -> [kind |-> "failed", at |-> FailedStage]
      [] status = "awaiting_approval" -> [kind |-> "waiting", at |-> GATE]
      [] status = "awaiting_training" -> [kind |-> "waiting", at |-> TRAIN]
      [] status = "running" ->
             [kind |-> "active",
              at |-> CHOOSE s \in INGEST..FEEDBACK :
                        <<s, "completed">> \in hist
                        /\ \A u \in INGEST..FEEDBACK : <<u, "completed">> \in hist => u <= s]
      [] OTHER -> NoPlace

\* The one place the flow figure counts the run at; a completed run has none.
Position ==
    CASE status = "failed" -> [kind |-> "failed", at |-> FailedStage]
      [] status = "awaiting_approval" -> [kind |-> "waiting", at |-> GATE]
      [] status = "awaiting_training" -> [kind |-> "waiting", at |-> TRAIN]
      [] status = "running" -> [kind |-> "active", at |-> CurrentStage]
      [] OTHER -> NoPlace

\* The figure counts the run among those a person let through the gate.
CountedReleased == CurrentStage > CONVERT

AsgOfRun == {a \in AsgIds : asg[a] # "none"}

\* Mutant of NextAction: a run that stopped for training is said to be closed
\* once nobody is left to wait for.
NextActionEager ==
    CASE status = "failed" -> "start_again"
      [] status = "awaiting_approval" -> "decide"
      [] status = "awaiting_training" -> IF Open = {} THEN "all_completed" ELSE "wait"
      [] status = "running" -> "nothing_required"
      [] status = "completed" ->
             IF ~summary.taken THEN "closed_unmeasured"
             ELSE IF summary.completed # AsgOfRun THEN "some_missed" ELSE "all_completed"

\* Which sentence the run page shows.
NextAction ==
    CASE status = "failed" -> "start_again"
      [] status = "awaiting_approval" -> "decide"
      [] status = "awaiting_training" -> "wait"
      [] status = "running" -> "nothing_required"
      [] status = "completed" ->
             IF ~summary.taken THEN "closed_unmeasured"
             ELSE IF summary.completed # AsgOfRun THEN "some_missed" ELSE "all_completed"

-----------------------------------------------------------------------------
(* What the pictures and sentences claim about the system.                 *)

\* The stage at which each point of a task's life does its work.
StageOfPc(t) ==
    CASE pc[t] = "queued" ->
             IF t = Pipeline THEN INGEST ELSE IF t \in Resumes THEN CONVERT ELSE TRAIN
      [] pc[t] \in {"analyzing", "analyzed", "benign"} -> ANALYZE
      [] pc[t] \in {"converting", "converted", "approved"} -> CONVERT
      [] pc[t] \in {"targeting", "targeted"} -> TARGET
      [] pc[t] = "training" -> TRAIN
      [] pc[t] \in {"measuring", "measured"} -> MEASURE
      [] pc[t] = "feeding" -> FEEDBACK
      [] OTHER -> GATE

\* A run drawn as active at a stage has a task of its own working there, and
\* a run drawn anywhere else has none at work: the figure neither shows dead
\* runs moving nor hides one that moves (summariseRuns).
DrawnWhereItWorks ==
    /\ Position.kind = "active" => \E t \in Tasks : StageOfPc(t) = Position.at
    /\ Position.kind \in {"waiting", "none"} =>
           \A t \in Tasks : pc[t] \in Gone \cup {"queued"}

\* "Reaching stage 4 is only possible through the gate": where the demo
\* setting does not open it, a run counted as released has an approval a
\* person committed (summariseRuns, the gate's tally).
ReleasedByAPerson ==
    CountedReleased /\ ~auto => \E t \in Resumes : pc[t] # "none"

\* The sentence about what a run still needs is true of the people in it:
\* before the decision nobody was touched, a run closed unmeasured trained
\* nobody, and whoever is said to have missed it was charged for it, once.
SentenceIsTrue ==
    LET missed == AsgOfRun \ summary.completed
    IN  /\ NextAction \in {"decide", "closed_unmeasured"} => AsgOfRun = {} /\ exposures = {}
        /\ NextAction = "some_missed" => \A a \in missed : asg[a] = "expired" /\ charges[a] = 1
        /\ NextAction = "all_completed" =>
               /\ summary.taken
               /\ \A a \in AsgOfRun : asg[a] = "completed" /\ charges[a] = 1
=============================================================================
