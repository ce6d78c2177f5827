-------------------------- MODULE LoopGate_proofs --------------------------
(***************************************************************************)
(* What TLAPS proves of LoopGate: every step of the run is a step of the   *)
(* abstract gate or leaves it as it is, for every number of employees,     *)
(* tasks and restarts.                                                     *)
(***************************************************************************)
EXTENDS LoopGate, LoopSerial_proofs

-----------------------------------------------------------------------------
(* What the run's state is to the gate. *)

\* One phase for each status, and three while the run is running.
PhaseTable ==
    /\ status \in Terminal => PhaseNow = "closed"
    /\ status = "awaiting_approval" => PhaseNow = "review"
    /\ status = "awaiting_training" => PhaseNow = "training"
    /\ status = "running" =>
          PhaseNow = IF StageAlreadyRan(hist, MEASURE) THEN "measuring"
                     ELSE IF PastGate THEN "delivering" ELSE "preparing"

LEMMA Phases == PhaseTable /\ PhaseTable'
  <1>1. PhaseTable
    BY DEF PhaseTable, PhaseNow, Terminal
  <1>2. PhaseTable'
    BY DEF PhaseTable, PhaseNow, Terminal
  <1> QED BY <1>1, <1>2

\* An employee with one assignment owes what that assignment says.
LEMMA HeldBy ==
    ASSUME NEW rows, NEW e \in Emps, NEW t \in Runners, rows[<<t, e>>] # "none",
           \A u \in Runners : rows[<<u, e>>] # "none" => u = t
    PROVE  DutyIn(rows, e) = IF rows[<<t, e>>] \in OpenStatus THEN "open" ELSE rows[<<t, e>>]
  <1>1. HolderIn(rows, e) = t
    BY DEF HolderIn
  <1> QED BY <1>1 DEF DutyIn

LEMMA HeldByNone ==
    ASSUME NEW rows, NEW e \in Emps, \A u \in Runners : rows[<<u, e>>] = "none"
    PROVE  DutyIn(rows, e) = "none"
  BY DEF DutyIn

\* The first of the assignments found is the only one.
LEMMA OneAssignment ==
    ASSUME PeopleFit, NEW e \in Emps, NEW t \in Runners, NEW u \in Runners,
           asg[<<t, e>>] # "none", asg[<<u, e>>] # "none"
    PROVE  t = u
  <1>1. <<t, e>> \in AsgIds /\ <<u, e>> \in AsgIds
    BY DEF AsgIds
  <1>2. <<t, e>>[1] = <<u, e>>[1]
    BY <1>1 DEF PeopleFit, Touched
  <1> QED BY <1>2

\* An employee's duty is open exactly while an assignment is.
LEMMA OpenDuties ==
    ASSUME RestTypes, PeopleFit, NEW e \in Emps
    PROVE  /\ DutyIn(asg, e) = "open" <=> \E t \in Runners : <<t, e>> \in Open
           /\ DutyIn(asg, e) = "completed" <=> \E t \in Runners : asg[<<t, e>>] = "completed"
  <1>1. CASE \A t \in Runners : asg[<<t, e>>] = "none"
    BY <1>1, HeldByNone DEF Open, OpenStatus
  <1>2. ASSUME NEW t \in Runners, asg[<<t, e>>] # "none"
        PROVE  /\ DutyIn(asg, e) = "open" <=> \E u \in Runners : <<u, e>> \in Open
               /\ DutyIn(asg, e) = "completed" <=> \E u \in Runners : asg[<<u, e>>] = "completed"
    <2>1. \A u \in Runners : asg[<<u, e>>] # "none" => u = t
      BY <1>2, OneAssignment
    <2>2. DutyIn(asg, e) = IF asg[<<t, e>>] \in OpenStatus THEN "open" ELSE asg[<<t, e>>]
      BY <1>2, <2>1, HeldBy
    <2>3. <<t, e>> \in AsgIds
      BY DEF AsgIds
    <2>4. asg[<<t, e>>] \in AsgStatus
      BY <2>3 DEF RestTypes
    <2> QED BY <1>2, <2>1, <2>2, <2>3, <2>4 DEF Open, OpenStatus, AsgStatus, Settled
  <1> QED BY <1>1, <1>2

\* Moving open assignments moves the duties they stand for and no other.
LEMMA DutiesMoved ==
    ASSUME RestTypes, PeopleFit, NEW S, S \subseteq Open,
           NEW d \in {"in_progress", "completed", "expired"},
           asg' = [a \in AsgIds |-> IF a \in S THEN d ELSE asg[a]],
           NEW e \in Emps
    PROVE  DutyIn(asg', e) =
              IF \E t \in Runners : <<t, e>> \in S
              THEN IF d = "in_progress" THEN "open" ELSE d
              ELSE DutyIn(asg, e)
  <1>0. \A t \in Runners : <<t, e>> \in AsgIds
    BY DEF AsgIds
  <1>1. \A a \in S : asg[a] # "none"
    BY DEF Open, OpenStatus
  <1>2. CASE \A t \in Runners : asg[<<t, e>>] = "none"
    BY <1>0, <1>1, <1>2, HeldByNone
  <1>3. ASSUME NEW t \in Runners, asg[<<t, e>>] # "none"
        PROVE  DutyIn(asg', e) =
                  IF \E u \in Runners : <<u, e>> \in S
                  THEN IF d = "in_progress" THEN "open" ELSE d
                  ELSE DutyIn(asg, e)
    <2>1. \A u \in Runners : asg[<<u, e>>] # "none" => u = t
      BY <1>3, OneAssignment
    <2>2. \A u \in Runners : asg'[<<u, e>>] # "none" => u = t
      BY <1>0, <1>1, <2>1
    <2>3. asg'[<<t, e>>] = IF <<t, e>> \in S THEN d ELSE asg[<<t, e>>]
      BY <1>0
    <2>4. DutyIn(asg, e) = IF asg[<<t, e>>] \in OpenStatus THEN "open" ELSE asg[<<t, e>>]
      BY <1>3, <2>1, HeldBy
    <2>5. DutyIn(asg', e) = IF asg'[<<t, e>>] \in OpenStatus THEN "open" ELSE asg'[<<t, e>>]
      BY <1>3, <2>2, <2>3, HeldBy
    <2>6. (\E u \in Runners : <<u, e>> \in S) <=> <<t, e>> \in S
      BY <1>1, <2>1
    <2> QED BY <2>3, <2>4, <2>5, <2>6 DEF OpenStatus
  <1> QED BY <1>2, <1>3

-----------------------------------------------------------------------------
(* The steps of the gate. *)

GateMay == [Gate!GateStep]_(Gate!gateVars)

\* The moves of the phase that settle and report nothing.
LEMMA PhaseMoves ==
    ASSUME asg' = asg, summary' = summary,
           \/ PhaseNow' = PhaseNow
           \/ PhaseNow = "preparing" /\ PhaseNow' \in {"review", "delivering", "closed"}
           \/ PhaseNow = "review" /\ PhaseNow' \in {"delivering", "closed"}
           \/ PhaseNow = "delivering" /\ PhaseNow' \in {"measuring", "closed"}
           \/ PhaseNow = "measuring" /\ PhaseNow' = "closed"
           \/ /\ PhaseNow = "training" /\ PhaseNow' = "measuring"
              /\ \A e \in Emps : DutyIn(asg, e) # "open"
    PROVE  GateMay
  <1>1. DutiesNow' = DutiesNow /\ ReportNow' = ReportNow
    BY DEF DutiesNow, ReportNow
  <1>2. CASE PhaseNow' = PhaseNow
    BY <1>1, <1>2 DEF GateMay, Gate!gateVars
  <1>3. CASE PhaseNow = "preparing" /\ PhaseNow' \in {"review", "delivering", "closed"}
    BY <1>1, <1>3 DEF GateMay, Gate!GateStep, Gate!Submit, Gate!Waive, Gate!Close, Gate!Move
  <1>4. CASE PhaseNow = "review" /\ PhaseNow' \in {"delivering", "closed"}
    BY <1>1, <1>4 DEF GateMay, Gate!GateStep, Gate!Approve, Gate!Close, Gate!Move
  <1>5. CASE PhaseNow = "delivering" /\ PhaseNow' = "measuring"
    BY <1>1, <1>5 DEF GateMay, Gate!GateStep, Gate!NobodyAtRisk, Gate!Move
  <1>6. CASE PhaseNow = "delivering" /\ PhaseNow' = "closed"
    <2>1. Gate!Charge({}, "open")
      BY <1>1 DEF Gate!Charge, DutiesNow
    <2> QED BY <1>1, <1>6, <2>1 DEF GateMay, Gate!GateStep, Gate!DeliveryFails, Gate!Move
  <1>7. CASE PhaseNow = "measuring" /\ PhaseNow' = "closed"
    BY <1>1, <1>7 DEF GateMay, Gate!GateStep, Gate!Close
  <1>8. CASE /\ PhaseNow = "training" /\ PhaseNow' = "measuring"
             /\ \A e \in Emps : DutyIn(asg, e) # "open"
    <2>1. Gate!Owing = {}
      BY <1>8 DEF Gate!Owing, DutiesNow
    <2> QED BY <1>1, <1>8, <2>1 DEF GateMay, Gate!GateStep, Gate!Measure, Gate!Move
  <1> QED BY <1>2, <1>3, <1>4, <1>5, <1>6, <1>7, <1>8

\* Where the task that holds the run has brought it.
LEMMA PhaseOfWorker ==
    ASSUME RunTypes, SerialInv, NEW t \in Tasks, Active(t)
    PROVE  /\ pc[t] \in {"measuring", "measured", "feeding"} => PhaseNow = "measuring"
           /\ pc[t] \notin {"measuring", "measured", "feeding"} /\ t \in Runners =>
                 PhaseNow = IF \/ pc[t] \in {"approved", "targeting", "targeted", "training"}
                               \/ t \in Resumes
                            THEN "delivering" ELSE "preparing"
  <1> USE StageOrdinals
  <1>0. Runners \subseteq Tasks /\ Pipeline \in Runners /\ Resumes \subseteq Runners
        /\ Resumes \cap Measures = {} /\ Pipeline \notin Resumes /\ Pipeline \notin Measures
        /\ (t \in Runners => t = Pipeline \/ t \in Resumes)
    BY LoopRunAssumption DEF Tasks, Runners
  <1>1. SoleWorker(t) /\ status = "running" /\ HistoryFits(t) /\ pc[t] \notin Gone
    BY AtWork DEF SerialInv
  <1>2. \A k \in 1..7 : hist \in {Through(k), Inside(k)}
          => (StageAlreadyRan(hist, MEASURE) <=> 6 <= k)
    BY OnRecord
  <1>3. PhaseNow = IF StageAlreadyRan(hist, MEASURE) THEN "measuring"
                   ELSE IF PastGate THEN "delivering" ELSE "preparing"
    BY <1>1, Phases DEF PhaseTable
  <1>4. ASSUME pc[t] \in {"measuring", "measured", "feeding"} PROVE PhaseNow = "measuring"
    <2>1. hist \in {Inside(6), Through(6), Inside(7)}
      BY <1>1, <1>4 DEF HistoryFits
    <2> QED BY <1>2, <1>3, <2>1
  <1>5. ASSUME pc[t] \notin {"measuring", "measured", "feeding"}, t \in Runners
        PROVE  ~StageAlreadyRan(hist, MEASURE)
    <2>1. pc[t] \in {"queued", "analyzing", "analyzed", "benign", "converting", "converted",
                     "approved", "targeting", "targeted", "training"}
      BY <1>1, <1>5 DEF RunTypes, Pc, Suspended, MidStretch
    <2>2. \E k \in 1..5 : hist \in {Through(k), Inside(k)}
      BY <1>1, <2>1 DEF HistoryFits
    <2> QED BY <1>2, <2>2
  <1>6. t \in Runners =>
          (PastGate <=> \/ pc[t] \in {"approved", "targeting", "targeted", "training"}
                        \/ t \in Resumes)
    <2>1. \A u \in Runners : u # t => pc[u] \in Gone
      BY <1>0, <1>1 DEF SoleWorker, Active, Runners
    <2> QED BY <1>0, <1>1, <2>1 DEF PastGate, Gone
  <1> QED BY <1>3, <1>4, <1>5, <1>6

\* Where its next commit brings it.
LEMMA PhaseAfter ==
    ASSUME RunTypes, SerialInv, NEW t \in Tasks, Active(t),
           NEW k \in Stage, NEW h \in {Through(k), Inside(k), BrokenAt(k)},
           NEW loaded \in {Held(t), Fresh}, loaded = Fresh \/ pc[t] # "queued",
           NEW s \in LoopStatus, NEW p \in Pc, TaskCommit(t, loaded, h, s, p)
    PROVE  /\ s \in Terminal => PhaseNow' = "closed"
           /\ s = "awaiting_approval" => PhaseNow' = "review"
           /\ s = "awaiting_training" => PhaseNow' = "training"
           /\ s = "running" /\ MEASURE <= k => PhaseNow' = "measuring"
           /\ s = "running" /\ k < MEASURE /\ t \in Runners /\ p \notin Gone =>
                 PhaseNow' = IF \/ p \in {"approved", "targeting", "targeted", "training"}
                                \/ t \in Resumes
                             THEN "delivering" ELSE "preparing"
  <1> USE StageOrdinals
  <1>0. Runners \subseteq Tasks /\ Pipeline \in Runners /\ Resumes \subseteq Runners
        /\ Resumes \cap Measures = {} /\ Pipeline \notin Resumes
        /\ (t \in Runners => t = Pipeline \/ t \in Resumes) /\ Pipeline \notin Measures
    BY LoopRunAssumption DEF Tasks, Runners
  <1> OneWorker
    BY DEF SerialInv
  <1>1. SoleWorker(t)
    BY AtWork
  <1>2. hist' = h /\ status' = s /\ pc' = [pc EXCEPT ![t] = p]
    BY Committed
  <1>3. StageAlreadyRan(hist', MEASURE) <=> MEASURE <= k
    BY <1>2, OnRecord
  <1>4. t \in Runners /\ p \notin Gone =>
          (PastGate' <=> \/ p \in {"approved", "targeting", "targeted", "training"}
                         \/ t \in Resumes)
    <2>1. \A u \in Runners : u # t => pc'[u] \in Gone
      BY <1>0, <1>1, <1>2 DEF SoleWorker, Active, Runners, RunTypes
    <2>2. pc'[t] = p
      BY <1>2 DEF RunTypes
    <2> QED BY <1>0, <2>1, <2>2 DEF PastGate, Gone
  <1>5. PhaseTable'
    BY Phases
  <1> QED BY <1>2, <1>3, <1>4, <1>5 DEF PhaseTable, StageAlreadyRan

\* While the run is running nobody owes anything.
LEMMA NobodyOwes ==
    ASSUME RunTypes, SerialInv, NEW t \in Tasks, Active(t)
    PROVE  Open = {}
  <1> USE StageOrdinals
  <1>1. HistoryFits(t) /\ pc[t] \in Pc \ Gone
    BY AtWork DEF SerialInv, RunTypes
  <1>2. CASE pc[t] \in {"targeting", "targeted", "training"}
    BY <1>2 DEF SerialInv, PeopleFit, Open, OpenStatus
  <1>3. CASE pc[t] \in {"measuring", "measured", "feeding"}
    <2>1. hist \in {Inside(6), Through(6), Inside(7)}
      BY <1>1, <1>3 DEF HistoryFits
    <2>2. StageAlreadyRan(hist, MEASURE)
      BY <2>1, OnRecord
    <2> QED BY <2>2 DEF SerialInv, MeasureFits
  <1>4. CASE pc[t] \in BeforeGate
    <2>1. \E k \in 1..3 : hist \in {Through(k), Inside(k)}
      BY <1>1, <1>4 DEF HistoryFits, BeforeGate
    <2>2. ~Targeted(hist)
      BY <2>1, OnRecord DEF Targeted
    <2> QED BY <2>2 DEF SerialInv, PeopleFit, Touched, Open, OpenStatus
  <1> QED BY <1>1, <1>2, <1>3, <1>4 DEF Pc, Suspended, MidStretch, Gone, BeforeGate

-----------------------------------------------------------------------------
(* The tasks. *)

\* A stage that fails while nobody was handed anything closes the loop.
LEMMA FailCloses ==
    ASSUME RunTypes, SerialInv, NEW t \in Tasks, Active(t), pc[t] # "queued",
           NEW k \in ANALYZE..FEEDBACK, hist = Inside(k), Fail(t, k)
    PROVE  PhaseNow' = "closed"
  <1> USE StageOrdinals
  <1>1. memHist[t] = Inside(k) /\ k \in Stage /\ Ended(t) \in Pc
    BY AtWork DEF SerialInv, Ended, Pc, Gone
  <1>2. TaskCommit(t, Held(t), BrokenAt(k), "failed", Ended(t))
    BY <1>1, Histories DEF Fail
  <1> QED BY <1>1, <1>2, PhaseAfter DEF LoopStatus, Terminal

LEMMA PipelineGate ==
    ASSUME RunTypes, SerialInv, PipelineStep
    PROVE  GateMay
  <1> DEFINE t == Pipeline
  <1> USE StageOrdinals
  <1> OneWorker
    BY DEF SerialInv
  <1>0. t \in Tasks /\ t \in Runners /\ t \notin Measures /\ t \notin Resumes
    BY LoopRunAssumption DEF Tasks, Runners
  <1>p. /\ {"analyzing", "analyzed", "benign", "converting", "converted"}
             \subseteq Pc \ (Gone \cup {"approved", "targeting", "targeted", "training"})
        /\ "approved" \in Pc \ Gone /\ "done" \in Pc
        /\ {"failed", "completed"} \subseteq Terminal
        /\ {"running", "failed", "completed", "awaiting_approval"} \subseteq LoopStatus
    BY DEF Pc, Suspended, MidStretch, Gone, Terminal, LoopStatus
  <1>1. asg' = asg /\ summary' = summary
    BY DEF PipelineStep, AnalyzeStart, AnalyzeDone, BenignClose, ConvertStart, ConvertDone,
       ReachGate, people
  <1>2. /\ pc[t] \in {"queued", "analyzing", "analyzed", "benign", "converting", "converted"}
        /\ Active(t)
    BY <1>0 DEF PipelineStep, AnalyzeStart, AnalyzeDone, BenignClose, ConvertStart, ConvertDone,
       ReachGate, At, Active, Gone
  <1>3. PhaseNow = "preparing" /\ status = "running" /\ HistoryFits(t)
        /\ (pc[t] # "queued" => memHist[t] = hist /\ memStatus[t] = "running")
    BY <1>0, <1>2, PhaseOfWorker, AtWork
  <1>4. CASE AnalyzeStart
    <2>1. hist = Through(1)
      BY <1>0, <1>3, <1>4 DEF AnalyzeStart, At, HistoryFits
    <2>2. TaskCommit(t, Fresh, Inside(2), "running", "analyzing")
      BY <1>3, <1>4, <2>1, Histories DEF AnalyzeStart
    <2>3. PhaseNow' = "preparing"
      BY <1>0, <1>p, <1>2, <2>2, PhaseAfter
    <2> QED BY <1>1, <1>3, <2>3, PhaseMoves
  <1>5. CASE AnalyzeDone
    <2>1. pc[t] = "analyzing" /\ hist = Inside(2) /\ memHist[t] = hist /\ memStatus[t] = "running"
      BY <1>3, <1>5 DEF AnalyzeDone, At, HistoryFits
    <2>2. CASE Fail(t, ANALYZE)
      BY <1>0, <1>1, <1>2, <1>3, <2>1, <2>2, FailCloses, PhaseMoves
    <2>3. ASSUME NEW v \in {"analyzed", "benign"}, Advance(t, StageDone(memHist[t], ANALYZE), v)
          PROVE  PhaseNow' = "preparing"
      <3>1. TaskCommit(t, Held(t), Through(2), "running", v)
        BY <2>1, <2>3, Histories DEF Advance
      <3> QED BY <1>0, <1>p, <1>2, <2>1, <3>1, PhaseAfter
    <2> QED BY <1>1, <1>3, <1>5, <2>2, <2>3, PhaseMoves DEF AnalyzeDone
  <1>6. CASE BenignClose
    <2>1. pc[t] = "benign" /\ memHist[t] = Through(2)
      BY <1>3, <1>6 DEF BenignClose, At, HistoryFits
    <2>2. TaskCommit(t, Held(t), Through(3), "completed", "done")
      BY <1>6, <2>1, Histories DEF BenignClose
    <2>3. PhaseNow' = "closed"
      BY <1>0, <1>p, <1>2, <2>1, <2>2, PhaseAfter
    <2> QED BY <1>1, <1>3, <2>3, PhaseMoves
  <1>7. CASE ConvertStart
    <2>1. pc[t] = "analyzed" /\ memHist[t] = Through(2) /\ memStatus[t] = "running"
      BY <1>3, <1>7 DEF ConvertStart, At, HistoryFits
    <2>2. TaskCommit(t, Held(t), Inside(3), "running", "converting")
      BY <1>7, <2>1, Histories DEF ConvertStart, Advance
    <2>3. PhaseNow' = "preparing"
      BY <1>0, <1>p, <1>2, <2>1, <2>2, PhaseAfter
    <2> QED BY <1>1, <1>3, <2>3, PhaseMoves
  <1>8. CASE ConvertDone
    <2>1. pc[t] = "converting" /\ hist = Inside(3) /\ memHist[t] = hist /\ memStatus[t] = "running"
      BY <1>3, <1>8 DEF ConvertDone, At, HistoryFits
    <2>2. CASE Fail(t, CONVERT)
      BY <1>0, <1>1, <1>2, <1>3, <2>1, <2>2, FailCloses, PhaseMoves
    <2>3. CASE Advance(t, StageDone(memHist[t], CONVERT), "converted")
      <3>1. TaskCommit(t, Held(t), Through(3), "running", "converted")
        BY <2>1, <2>3, Histories DEF Advance
      <3>2. PhaseNow' = "preparing"
        BY <1>0, <1>p, <1>2, <2>1, <3>1, PhaseAfter
      <3> QED BY <1>1, <1>3, <3>2, PhaseMoves
    <2> QED BY <1>8, <2>2, <2>3 DEF ConvertDone
  <1>9. CASE ReachGate
    <2>1. pc[t] = "converted" /\ memHist[t] = Through(3) /\ memStatus[t] = "running"
      BY <1>3, <1>9 DEF ReachGate, At, HistoryFits
    <2>2. CASE Advance(t, memHist[t], "approved")
      <3>1. TaskCommit(t, Held(t), Through(3), "running", "approved")
        BY <2>1, <2>2 DEF Advance
      <3>2. PhaseNow' = "delivering"
        BY <1>0, <1>p, <1>2, <2>1, <3>1, PhaseAfter
      <3> QED BY <1>1, <1>3, <3>2, PhaseMoves
    <2>3. CASE TaskCommit(t, Held(t), memHist[t], "awaiting_approval", "done")
      <3>1. PhaseNow' = "review"
        BY <1>0, <1>p, <1>2, <2>1, <2>3, PhaseAfter
      <3> QED BY <1>1, <1>3, <3>1, PhaseMoves
    <2> QED BY <1>9, <2>2, <2>3 DEF ReachGate
  <1> QED BY <1>4, <1>5, <1>6, <1>7, <1>8, <1>9 DEF PipelineStep

\* Nothing the gate knows changes.
LEMMA SameGate ==
    ASSUME asg' = asg, summary' = summary, hist' = hist, status' = status,
           PastGate' <=> PastGate
    PROVE  GateMay
  <1>1. PhaseNow' = PhaseNow
    BY DEF PhaseNow, StageAlreadyRan
  <1> QED BY <1>1, PhaseMoves

LEMMA TargetGate ==
    ASSUME RunTypes, SerialInv, NEW t \in Runners,
           TargetStart(t) \/ TargetDone(t) \/ TrainStart(t) \/ TrainNobody(t)
    PROVE  GateMay
  <1> USE StageOrdinals
  <1> OneWorker
    BY DEF SerialInv
  <1>0. t \in Tasks /\ t \notin Measures /\ (t = Pipeline \/ t \in Resumes) /\ Pipeline \notin Resumes
    BY LoopRunAssumption DEF Tasks, Runners
  <1>p. /\ {"targeting", "targeted", "training", "measuring"} \subseteq Pc \ Gone
        /\ "running" \in LoopStatus
    BY DEF Pc, Suspended, MidStretch, Gone, LoopStatus
  <1>1. asg' = asg /\ summary' = summary
    BY DEF TargetStart, TargetDone, TrainStart, TrainNobody, people
  <1>2. /\ pc[t] \in {"queued", "approved", "targeting", "targeted", "training"}
        /\ pc[t] = "queued" => t \in Resumes
        /\ Active(t)
    BY <1>0 DEF TargetStart, TargetDone, TrainStart, TrainNobody, At, Active, Gone
  <1>3. PhaseNow = "delivering" /\ status = "running" /\ HistoryFits(t)
        /\ (pc[t] # "queued" => memHist[t] = hist /\ memStatus[t] = "running")
    BY <1>0, <1>2, PhaseOfWorker, AtWork
  <1>4. CASE TargetStart(t)
    <2>1. pc[t] \in {"queued", "approved"} /\ (t = Pipeline => pc[t] = "approved")
      BY <1>4 DEF TargetStart, At
    <2>2. hist = Through(3)
      BY <1>0, <1>2, <1>3, <2>1 DEF HistoryFits
    <2>3. t \in Resumes => module = "approved"
      BY <1>0, <1>4 DEF TargetStart, At, SerialInv, ApprovalStands
    <2>4. ~TargetRefused(t)
      BY <1>0, <1>3, <2>2, <2>3, OnRecord DEF TargetRefused, GateSeen
    <2>5. TaskCommit(t, Fresh, Inside(4), "running", "targeting")
      BY <1>3, <1>4, <2>2, <2>4, Histories DEF TargetStart
    <2>6. PhaseNow' = "delivering"
      BY <1>0, <1>p, <1>2, <2>5, PhaseAfter
    <2> QED BY <1>1, <1>3, <2>6, PhaseMoves
  <1>5. CASE TargetDone(t)
    <2>1. pc[t] = "targeting" /\ hist = Inside(4) /\ memHist[t] = hist /\ memStatus[t] = "running"
      BY <1>3, <1>5 DEF TargetDone, At, HistoryFits
    <2>2. CASE Fail(t, TARGET)
      BY <1>0, <1>1, <1>2, <1>3, <2>1, <2>2, FailCloses, PhaseMoves
    <2>3. CASE Advance(t, StageDone(memHist[t], TARGET), "targeted")
      <3>1. TaskCommit(t, Held(t), Through(4), "running", "targeted")
        BY <2>1, <2>3, Histories DEF Advance
      <3>2. PhaseNow' = "delivering"
        BY <1>0, <1>p, <1>2, <2>1, <3>1, PhaseAfter
      <3> QED BY <1>1, <1>3, <3>2, PhaseMoves
    <2> QED BY <1>5, <2>2, <2>3 DEF TargetDone
  <1>6. CASE TrainStart(t)
    <2>1. pc[t] = "targeted" /\ memHist[t] = Through(4) /\ memStatus[t] = "running"
      BY <1>3, <1>6 DEF TrainStart, At, HistoryFits
    <2>2. TaskCommit(t, Held(t), Inside(5), "running", "training")
      BY <1>6, <2>1, Histories DEF TrainStart, Advance
    <2>3. PhaseNow' = "delivering"
      BY <1>0, <1>p, <1>2, <2>1, <2>2, PhaseAfter
    <2> QED BY <1>1, <1>3, <2>3, PhaseMoves
  <1>7. CASE TrainNobody(t)
    <2>1. pc[t] = "training" /\ memHist[t] = Inside(5) /\ memStatus[t] = "running"
      BY <1>3, <1>7 DEF TrainNobody, At, HistoryFits
    <2>2. StageDone(memHist[t], TRAIN) = Through(5)
      BY <2>1, Histories
    <2>3. ~MeasureRefused(Through(5), memStatus[t])
      BY <2>1, OnRecord DEF MeasureRefused, Terminal
    <2>4. TaskCommit(t, Held(t), Inside(6), "running", "measuring")
      BY <1>7, <2>2, <2>3, Histories DEF TrainNobody
    <2>5. PhaseNow' = "measuring"
      BY <1>0, <1>p, <1>2, <2>1, <2>4, PhaseAfter
    <2> QED BY <1>1, <1>3, <2>5, PhaseMoves
  <1> QED BY <1>4, <1>5, <1>6, <1>7

\* TRAIN hands the module to the employees TARGET selected, or to some of them
\* before it fails.
LEMMA TrainGate ==
    ASSUME RunTypes, RestTypes, SerialInv, NEW t \in Runners, TrainAssign(t)
    PROVE  GateMay
  <1> USE StageOrdinals
  <1> OneWorker
    BY DEF SerialInv
  <1>0. t \in Tasks /\ t \notin Measures
    BY LoopRunAssumption DEF Tasks, Runners
  <1>1. pc[t] = "training" /\ Active(t) /\ summary' = summary /\ ReportNow' = ReportNow
    BY <1>0 DEF TrainAssign, At, Active, Gone, ReportNow
  <1>2. PhaseNow = "delivering" /\ hist = Inside(5) /\ memHist[t] = hist
    BY <1>0, <1>1, PhaseOfWorker, AtWork DEF HistoryFits
  <1>3. \A a \in AsgIds : asg[a] = "none"
    BY <1>0, <1>1 DEF SerialInv, PeopleFit
  <1>4. ASSUME NEW who \in SUBSET Emps, Assign(t, who)
        PROVE  Gate!Charge(who, "open")
    <2> SUFFICES ASSUME NEW e \in Emps
                 PROVE  DutyIn(asg', e) = IF e \in who THEN "open" ELSE DutyIn(asg, e)
      BY DEF Gate!Charge, DutiesNow
    <2>1. \A u \in Runners : /\ <<u, e>> \in AsgIds
                             /\ <<u, e>> \in {t} \X who <=> u = t /\ e \in who
      BY DEF AsgIds
    <2>2. \A u \in Runners : /\ asg[<<u, e>>] = "none"
                             /\ asg'[<<u, e>>] = IF u = t /\ e \in who THEN "assigned" ELSE "none"
      BY <1>3, <1>4, <2>1 DEF Assign
    <2>3. DutyIn(asg, e) = "none"
      BY <2>2, HeldByNone
    <2>4. CASE e \in who
      <3>1. asg'[<<t, e>>] = "assigned" /\ \A u \in Runners : asg'[<<u, e>>] # "none" => u = t
        BY <2>2, <2>4
      <3>2. DutyIn(asg', e) = IF asg'[<<t, e>>] \in OpenStatus THEN "open" ELSE asg'[<<t, e>>]
        BY <3>1, HeldBy
      <3> QED BY <2>4, <3>1, <3>2 DEF OpenStatus
    <2>5. CASE e \notin who
      <3>1. \A u \in Runners : asg'[<<u, e>>] = "none"
        BY <2>2, <2>5
      <3> QED BY <2>3, <2>5, <3>1, HeldByNone
    <2> QED BY <2>4, <2>5
  <1>5. memTargets[t] \in SUBSET Emps
    BY <1>0 DEF RestTypes
  <1>6. CASE /\ Assign(t, memTargets[t])
             /\ TaskCommit(t, Held(t), StageDone(memHist[t], TRAIN), "awaiting_training", "done")
    <2>1. TaskCommit(t, Held(t), Through(5), "awaiting_training", "done")
      BY <1>2, <1>6, Histories
    <2>2. PhaseNow' = "training"
      BY <1>0, <1>1, <2>1, PhaseAfter DEF LoopStatus, Pc, Gone
    <2>3. memTargets[t] \in (SUBSET Emps) \ {{}}
      BY <1>5 DEF TrainAssign
    <2>4. Gate!Charge(memTargets[t], "open")
      BY <1>4, <1>5, <1>6
    <2> QED BY <1>1, <1>2, <2>2, <2>3, <2>4 DEF GateMay, Gate!GateStep, Gate!Deliver, Gate!Move
  <1>7. ASSUME NEW pending \in SUBSET memTargets[t], Assign(t, pending), Fail(t, TRAIN)
        PROVE  GateMay
    <2>1. PhaseNow' = "closed"
      BY <1>0, <1>1, <1>2, <1>7, FailCloses
    <2>2. pending \in SUBSET Emps /\ Gate!Charge(pending, "open")
      BY <1>4, <1>5, <1>7
    <2> QED BY <1>1, <1>2, <2>1, <2>2 DEF GateMay, Gate!GateStep, Gate!DeliveryFails, Gate!Move
  <1> QED BY <1>6, <1>7 DEF TrainAssign

\* MEASURE starts when nobody owes anything and reports once.
LEMMA MeasureGate ==
    ASSUME RunTypes, RestTypes, SerialInv, NEW t \in Tasks,
           (t \in Measures /\ MeasureStart(t)) \/ MeasureStep(t)
    PROVE  GateMay
  <1> USE StageOrdinals
  <1> OneWorker
    BY DEF SerialInv
  <1>p. /\ {"measured", "feeding", "measuring"} \subseteq Pc
        /\ {"running", "completed"} \subseteq LoopStatus /\ "completed" \in Terminal
        /\ Ended(t) \in Pc
    BY DEF Pc, MidStretch, Gone, LoopStatus, Terminal, Ended
  <1>1. asg' = asg
    BY DEF MeasureStart, MeasureStep, MeasureDone, FeedbackStart, FeedbackDone, people
  <1>2. CASE t \in Measures /\ MeasureStart(t)
    <2>1. TrainingOver /\ Open = {} /\ summary' = summary /\ pc[t] = "queued"
      BY <1>2 DEF MeasureStart, At, SerialInv, MeasureFits
    <2>2. \A u \in Runners : u # t
      BY <1>2, LoopRunAssumption DEF Runners
    <2>3. CASE Return(t)
      <3>1. PastGate' <=> PastGate
        BY <2>2, <2>3 DEF Return, PastGate, Runners, RunTypes, Tasks
      <3> QED BY <1>1, <2>1, <2>3, <3>1, SameGate DEF Return, runRow
    <2>4. CASE /\ ~MeasureRefused(hist, status)
               /\ TaskCommit(t, Fresh, StageStart(hist, MEASURE), "running", "measuring")
      <3>1. status = "awaiting_training"
        BY <2>1, <2>4 DEF TrainingOver, MeasureRefused
      <3>2. hist = Through(5)
        BY <3>1 DEF SerialInv, StatusFits
      <3>3. hist' = Inside(6) /\ status' = "running"
        BY <2>4, <3>1, <3>2, Histories DEF TaskCommit, Fresh
      <3>4. PhaseNow = "training" /\ PhaseNow' = "measuring"
        BY <3>1, <3>3, OnRecord, Phases DEF PhaseTable, StageAlreadyRan
      <3>5. \A e \in Emps : DutyIn(asg, e) # "open"
        BY <2>1, OpenDuties DEF SerialInv
      <3> QED BY <1>1, <2>1, <3>4, <3>5, PhaseMoves
    <2> QED BY <1>2, <2>3, <2>4 DEF MeasureStart
  <1>3. CASE MeasureDone(t)
    <2>1. pc[t] = "measuring" /\ Active(t)
      BY <1>3 DEF MeasureDone, At, Active, Gone
    <2>2. hist = Inside(6) /\ memHist[t] = hist /\ memStatus[t] = "running"
          /\ PhaseNow = "measuring"
      BY <2>1, AtWork, PhaseOfWorker DEF HistoryFits
    <2>3. CASE Fail(t, MEASURE) /\ summary' = summary
      BY <1>1, <2>1, <2>2, <2>3, FailCloses, PhaseMoves
    <2>4. CASE /\ summary' = [taken |-> TRUE, completed |-> {a \in AsgIds : asg[a] = "completed"}]
               /\ Advance(t, StageDone(memHist[t], MEASURE), "measured")
      <3>1. TaskCommit(t, Held(t), Through(6), "running", "measured")
        BY <2>2, <2>4, Histories DEF Advance
      <3>2. PhaseNow' = "measuring"
        BY <1>p, <2>1, <2>2, <3>1, PhaseAfter
      <3>3. ~ReportNow.taken
        BY <2>2, NotMeasured DEF SerialInv, MeasureFits, ReportNow
      <3>4. DutiesNow' = DutiesNow
        BY <1>1 DEF DutiesNow
      <3>5. ReportNow' = [taken |-> TRUE, trained |-> {e \in Emps : DutiesNow[e] = "completed"}]
        <4>1. \A e \in Emps : DutiesNow[e] = "completed"
                                <=> \E u \in Runners : <<u, e>> \in summary'.completed
          <5>1. \A e \in Emps : \A u \in Runners : <<u, e>> \in AsgIds
            BY DEF AsgIds
          <5> QED BY <2>4, <5>1, OpenDuties DEF SerialInv, DutiesNow
        <4>2. ReportNow' = [taken   |-> TRUE,
                            trained |-> {e \in Emps : \E u \in Runners : <<u, e>> \in summary'.completed}]
          BY <2>4 DEF ReportNow
        <4>3. {e \in Emps : DutiesNow[e] = "completed"}
                = {e \in Emps : \E u \in Runners : <<u, e>> \in summary'.completed}
          BY <4>1
        <4> QED BY <4>2, <4>3
      <3>6. Gate!Report
        BY <2>2, <3>2, <3>3, <3>4, <3>5 DEF Gate!Report
      <3> QED BY <3>6 DEF GateMay, Gate!GateStep
    <2> QED BY <1>3, <2>3, <2>4 DEF MeasureDone
  <1>4. CASE FeedbackStart(t)
    <2>1. pc[t] = "measured" /\ Active(t) /\ summary' = summary
      BY <1>4 DEF FeedbackStart, At, Active, Gone
    <2>2. memHist[t] = Through(6) /\ memStatus[t] = "running" /\ PhaseNow = "measuring"
      BY <2>1, AtWork, PhaseOfWorker DEF HistoryFits
    <2>3. TaskCommit(t, Held(t), Inside(7), "running", "feeding")
      BY <1>4, <2>2, Histories DEF FeedbackStart, Advance
    <2>4. PhaseNow' = "measuring"
      BY <1>p, <2>1, <2>3, PhaseAfter
    <2> QED BY <1>1, <2>1, <2>2, <2>4, PhaseMoves
  <1>5. CASE FeedbackDone(t)
    <2>1. pc[t] = "feeding" /\ Active(t) /\ summary' = summary
      BY <1>5 DEF FeedbackDone, At, Active, Gone
    <2>2. hist = Inside(7) /\ memHist[t] = hist /\ PhaseNow = "measuring"
      BY <2>1, AtWork, PhaseOfWorker DEF HistoryFits
    <2>3. CASE Fail(t, FEEDBACK)
      BY <1>1, <2>1, <2>2, <2>3, FailCloses, PhaseMoves
    <2>4. CASE TaskCommit(t, Held(t), StageDone(memHist[t], FEEDBACK), "completed", Ended(t))
      <3>1. TaskCommit(t, Held(t), Through(7), "completed", Ended(t))
        BY <2>2, <2>4, Histories
      <3>2. PhaseNow' = "closed"
        BY <1>p, <2>1, <3>1, PhaseAfter
      <3> QED BY <1>1, <2>1, <2>2, <3>2, PhaseMoves
    <2> QED BY <1>5, <2>3, <2>4 DEF FeedbackDone
  <1> QED BY <1>2, <1>3, <1>4, <1>5 DEF MeasureStep

-----------------------------------------------------------------------------
(* The requests and the boot. *)

\* Whoever owes something owes it after TRAIN has stopped the run, or closed.
LEMMA OwingPhase ==
    ASSUME RunTypes, SerialInv, errors = 0, Open # {}
    PROVE  PhaseNow \in {"training", "closed"}
  <1> USE StageOrdinals
  <1>1. status # "running"
    BY NobodyOwes DEF SerialInv, OneWorker
  <1>2. status # "awaiting_approval"
    <2>1. ASSUME status = "awaiting_approval" PROVE ~Targeted(hist)
      BY <2>1, OnRecord DEF SerialInv, StatusFits, Targeted
    <2> QED BY <2>1 DEF SerialInv, PeopleFit, Touched, Open, OpenStatus
  <1> QED BY <1>1, <1>2, Phases DEF PhaseTable, RunTypes, LoopStatus, Terminal

\* A request that settles what it loaded settles the duties it stands for.
LEMMA SettleGate ==
    ASSUME RunTypes, RestTypes, SerialInv, errors = 0,
           NEW S, S \subseteq Open, NEW d \in {"completed", "expired"},
           asg' = [a \in AsgIds |-> IF a \in S THEN d ELSE asg[a]],
           summary' = summary, PhaseNow' = PhaseNow
    PROVE  GateMay
  <1> DEFINE who == {e \in Emps : \E t \in Runners : <<t, e>> \in S}
  <1>1. Gate!Charge(who, d)
    <2> SUFFICES ASSUME NEW e \in Emps
                 PROVE  DutyIn(asg', e) = IF e \in who THEN d ELSE DutyIn(asg, e)
      BY DEF Gate!Charge, DutiesNow
    <2>1. PeopleFit
      BY DEF SerialInv
    <2> QED BY <2>1, DutiesMoved
  <1>2. ReportNow' = ReportNow
    BY DEF ReportNow
  <1>3. CASE S = {}
    <2>1. asg' = asg
      BY <1>3 DEF RestTypes
    <2> QED BY <2>1, PhaseMoves
  <1>4. CASE S # {}
    <2>1. who # {}
      <3>1. PICK a \in S : TRUE
        BY <1>4
      <3>2. PICK t \in Runners, e \in Emps : a = <<t, e>>
        BY <3>1 DEF Open, AsgIds
      <3> QED BY <3>1, <3>2
    <2>2. who \subseteq Gate!Owing
      <3>1. \A e \in who : DutyIn(asg, e) = "open"
        BY OpenDuties DEF SerialInv
      <3> QED BY <3>1 DEF Gate!Owing, DutiesNow
    <2>3. who \in (SUBSET Gate!Owing) \ {{}}
      BY <2>1, <2>2
    <2>4. PhaseNow \in {"training", "closed"}
      BY <1>4, OwingPhase
    <2> HIDE DEF who
    <2>5. Gate!Settle
      BY <1>1, <1>2, <2>3, <2>4 DEF Gate!Settle
    <2> QED BY <2>5 DEF GateMay, Gate!GateStep
  <1> QED BY <1>3, <1>4

LEMMA RequestGate ==
    ASSUME OneAtATime, RunTypes, RestTypes, SerialInv, errors = 0, NEW r \in Slots,
           Read(r) \/ Commit(r)
    PROVE  GateMay
  <1> USE StageOrdinals
  <1>q. ASSUME UNCHANGED work \/ \E m \in Measures : Submit(m), UNCHANGED runRow
        PROVE  PhaseNow' = PhaseNow
    <2>1. \A t \in Runners : pc'[t] = pc[t]
      BY <1>q, Queues
    <2>2. PastGate' <=> PastGate
      BY <2>1 DEF PastGate, Runners
    <2>3. StageAlreadyRan(hist', MEASURE) <=> StageAlreadyRan(hist, MEASURE)
      BY <1>q DEF runRow
    <2> QED BY <1>q, <2>2, <2>3 DEF PhaseNow, runRow, StageAlreadyRan
  <1>1. CASE Read(r) \/ CommitReview(r) \/ OnAssignmentCompleted(r)
    <2>1. /\ UNCHANGED <<runRow, summary, people>>
          /\ UNCHANGED work \/ \E m \in Measures : Submit(m)
      BY <1>1 DEF Read, ReadApprove, ReadReject, ReadReview, ReadForce, ReadStart, ReadComplete,
         Load, CommitReview, OnAssignmentCompleted
    <2>2. asg' = asg /\ summary' = summary
      BY <2>1 DEF people
    <2> QED BY <1>q, <2>1, <2>2, PhaseMoves
  <1>2. CASE CommitApprove(r)
    <2>1. status = "awaiting_approval" /\ hist' = hist /\ status' = "running"
          /\ asg' = asg /\ summary' = summary
      BY <1>2 DEF CommitApprove, SerialInv, RequestFits, people
    <2>2. ~StageAlreadyRan(hist', MEASURE)
      BY <2>1, OnRecord DEF SerialInv, StatusFits
    <2>3. PastGate'
      <3>1. PICK t \in Resumes : Submit(t)
        BY <1>2 DEF CommitApprove
      <3>2. pc'[t] = "queued"
        BY <3>1 DEF Submit, RunTypes, Tasks, Runners
      <3> QED BY <3>2 DEF PastGate, Gone
    <2>4. PhaseNow = "review" /\ PhaseNow' = "delivering"
      BY <2>1, <2>2, <2>3, Phases DEF PhaseTable, StageAlreadyRan
    <2> QED BY <2>1, <2>4, PhaseMoves
  <1>3. CASE CommitReject(r)
    <2>1. status = "awaiting_approval" /\ status' = "failed" /\ asg' = asg /\ summary' = summary
      BY <1>3 DEF CommitReject, SerialInv, RequestFits, people
    <2>2. PhaseNow = "review" /\ PhaseNow' = "closed"
      BY <2>1, Phases DEF PhaseTable, Terminal
    <2> QED BY <2>1, <2>2, PhaseMoves
  <1>4. CASE CommitStart(r)
    <2>1. /\ seenAsg[r] \subseteq Open /\ summary' = summary /\ UNCHANGED runRow /\ UNCHANGED work
          /\ asg' = [a \in AsgIds |-> IF a \in seenAsg[r] THEN "in_progress" ELSE asg[a]]
      BY <1>4 DEF CommitStart, SerialInv, RequestFits
    <2>2. \A e \in Emps : DutyIn(asg', e) = DutyIn(asg, e)
      <3>1. PeopleFit
        BY DEF SerialInv
      <3>2. \A e \in Emps : (\E t \in Runners : <<t, e>> \in seenAsg[r]) => DutyIn(asg, e) = "open"
        BY <2>1, <3>1, OpenDuties
      <3> QED BY <2>1, <3>1, <3>2, DutiesMoved
    <2>3. DutiesNow' = DutiesNow /\ ReportNow' = ReportNow
      BY <2>1, <2>2 DEF DutiesNow, ReportNow
    <2> QED BY <1>q, <2>1, <2>3 DEF GateMay, Gate!gateVars
  <1>5. CASE CommitComplete(r)
    <2>1. /\ seenAsg[r] \subseteq Open /\ summary' = summary /\ UNCHANGED runRow /\ UNCHANGED work
          /\ asg' = [a \in AsgIds |-> IF a \in seenAsg[r] THEN "completed" ELSE asg[a]]
      BY <1>5 DEF CommitComplete, SerialInv, RequestFits
    <2> QED BY <1>q, <2>1, SettleGate
  <1>6. CASE CommitForce(r)
    <2>1. /\ seenAsg[r] \subseteq Open /\ summary' = summary /\ UNCHANGED runRow
          /\ \E m \in Measures : Submit(m)
          /\ asg' = [a \in AsgIds |-> IF a \in seenAsg[r] THEN "expired" ELSE asg[a]]
      BY <1>6 DEF CommitForce, SerialInv, RequestFits
    <2> QED BY <1>q, <2>1, SettleGate
  <1> QED BY <1>1, <1>2, <1>3, <1>4, <1>5, <1>6 DEF Commit

\* A boot closes the run that was moving and leaves any other where it is.
LEMMA RestartGate ==
    ASSUME RunTypes, SerialInv, errors = 0, Restart
    PROVE  GateMay
  <1>1. asg' = asg /\ summary' = summary
    BY DEF Restart, people
  <1>2. CASE status = "running"
    <2>1. PhaseNow \in {"preparing", "delivering", "measuring"}
      BY <1>2, Phases DEF PhaseTable
    <2>2. PhaseNow' = "closed"
      BY <1>2, Phases DEF Restart, PhaseTable, Terminal
    <2> QED BY <1>1, <2>1, <2>2, PhaseMoves
  <1>3. CASE status # "running"
    <2>1. PhaseNow' = PhaseNow
      BY <1>3, Phases DEF Restart, runRow, PhaseTable, RunTypes, LoopStatus, Terminal
    <2> QED BY <1>1, <2>1, PhaseMoves
  <1> QED BY <1>2, <1>3

LEMMA InitGate == Init => Gate!Start
  <1> SUFFICES ASSUME Init PROVE Gate!Start
    OBVIOUS
  <1> USE StageOrdinals
  <1>0. Pipeline \in Tasks /\ Resumes \subseteq Tasks /\ Pipeline \notin Resumes
    BY LoopRunAssumption DEF Tasks, Runners
  <1>1. PhaseNow = "preparing"
    <2>1. ~StageAlreadyRan(hist, MEASURE)
      BY DEF Init, StageAlreadyRan
    <2>2. ~PastGate
      BY <1>0 DEF Init, PastGate, Gone
    <2> QED BY <2>1, <2>2, Phases DEF PhaseTable, Init
  <1>2. DutiesNow = [e \in Emps |-> "none"]
    <2>1. \A e \in Emps : \A t \in Runners : asg[<<t, e>>] = "none"
      BY DEF Init, AsgIds
    <2>2. \A e \in Emps : DutyIn(asg, e) = "none"
      BY <2>1, HeldByNone
    <2> QED BY <2>2 DEF DutiesNow
  <1>3. ReportNow = Gate!Untaken
    BY DEF Init, NoSummary, ReportNow, Gate!Untaken
  <1> QED BY <1>1, <1>2, <1>3 DEF Gate!Start

\* While no exception may escape, none is counted.
LEMMA NoErrors ==
    ASSUME MaxErrors = 0
    PROVE  Spec => [](errors = 0)
  <1>1. Init => errors = 0
    BY DEF Init
  <1>2. errors = 0 /\ [Next]_vars => (errors = 0)'
    <2> SUFFICES ASSUME errors = 0, [Next]_vars PROVE errors' = 0
      OBVIOUS
    <2>1. CASE TaskStep
      BY <2>1 DEF TaskStep, PipelineStep, AnalyzeStart, AnalyzeDone, BenignClose, ConvertStart,
         ConvertDone, ReachGate, RunnerStep, TargetStart, TargetDone, TrainStart, TrainAssign,
         TrainNobody, MeasureStart, MeasureStep, MeasureDone, FeedbackStart, FeedbackDone, env
    <2>2. ASSUME NEW r \in Slots, Read(r) \/ Commit(r) PROVE errors' = 0
      BY <2>2 DEF Read, ReadApprove, ReadReject, ReadReview, ReadForce, ReadStart, ReadComplete,
         Load, Commit, CommitApprove, CommitReject, CommitReview, CommitForce, CommitStart,
         CommitComplete, OnAssignmentCompleted, env
    <2>3. (\A r \in Slots : ~RequestDies(r)) /\ (\A t \in Tasks : ~TaskDies(t))
      BY DEF RequestDies, TaskDies
    <2>4. CASE Restart \/ UNCHANGED vars
      BY <2>4 DEF Restart, vars, env
    <2> QED BY <2>1, <2>2, <2>3, <2>4 DEF Next
  <1> QED BY <1>1, <1>2, PTL DEF Spec

\* While no exception escapes, and whatever restarts, the run does only what
\* the gate allows: nobody is reached without a decision or the demo setting,
\* duties are settled once, and the report is taken when all are
\* (orchestrator.py, loop_runs.py).
THEOREM RunImplementsGate ==
    ASSUME OneAtATime, MaxErrors = 0
    PROVE  Spec => ImplementsGate
  <1>1. TypeOK /\ SerialInv /\ errors = 0 /\ [Next]_vars => [Gate!GateStep]_(Gate!gateVars)
    <2> SUFFICES ASSUME TypeOK, SerialInv, errors = 0, [Next]_vars PROVE GateMay
      BY DEF GateMay
    <2> RunTypes /\ RestTypes
      BY TypeHalves
    <2>1. CASE PipelineStep
      BY <2>1, PipelineGate
    <2>2. ASSUME NEW t \in Runners, RunnerStep(t) PROVE GateMay
      BY <2>2, TargetGate, TrainGate DEF RunnerStep
    <2>3. CASE (\E m \in Measures : MeasureStart(m)) \/ (\E t \in Tasks : MeasureStep(t))
      BY <2>3, MeasureGate DEF Tasks
    <2>4. ASSUME NEW r \in Slots, Read(r) \/ Commit(r) PROVE GateMay
      BY <2>4, RequestGate
    <2>5. (\A r \in Slots : ~RequestDies(r)) /\ (\A t \in Tasks : ~TaskDies(t))
      BY DEF RequestDies, TaskDies
    <2>6. CASE Restart
      BY <2>6, RestartGate
    <2>7. CASE UNCHANGED vars
      <3>1. /\ asg' = asg /\ summary' = summary /\ hist' = hist /\ status' = status /\ pc' = pc
        BY <2>7 DEF vars, people, runRow, work
      <3>2. PastGate' <=> PastGate
        BY <3>1 DEF PastGate
      <3> QED BY <3>1, <3>2, SameGate
    <2> QED BY <2>1, <2>2, <2>3, <2>4, <2>5, <2>6, <2>7 DEF Next, TaskStep
  <1> QED BY <1>1, InitGate, NoErrors, Typing, Serial, PTL DEF Spec, ImplementsGate, Gate!GateSpec

=============================================================================
