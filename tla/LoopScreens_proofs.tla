------------------------ MODULE LoopScreens_proofs ------------------------
(***************************************************************************)
(* What TLAPS proves of the analyst's screens: what they draw and say of a *)
(* run is so in every state the backend leaves its row in, while requests  *)
(* on the run are served one at a time.                                    *)
(***************************************************************************)
EXTENDS LoopSerial_proofs

\* The largest member of a set of stages is the one the definitions choose.
LEMMA Largest ==
    ASSUME NEW S, NEW k \in S, S \subseteq Nat, \A u \in S : u <= k
    PROVE  (CHOOSE s \in S : \A u \in S : u <= s) = k
  <1> DEFINE m == CHOOSE s \in S : \A u \in S : u <= s
  <1>1. m \in S /\ \A u \in S : u <= m
    OBVIOUS
  <1>2. m <= k /\ k <= m /\ m \in Nat /\ k \in Nat
    BY <1>1
  <1> QED BY <1>2

\* Where the flow figure finds a run of each shape.
LEMMA StageShown ==
    /\ \A k \in Stage : hist \in {Through(k), Inside(k), BrokenAt(k)} => CurrentStage = k
    /\ hist = RejectedAtGate => CurrentStage = CONVERT
  <1> USE StageOrdinals
  <1>1. ASSUME NEW k \in Stage, hist \in {Through(k), Inside(k), BrokenAt(k)}
        PROVE  CurrentStage = k
    <2>1. \A e \in hist : e[1] \in 1..k
      BY <1>1 DEF Through, Inside, BrokenAt
    <2>2. \E e \in hist : e[1] = k
      BY <1>1, OnRecord DEF StageAlreadyRan
    <2>3. k \in StagesEntered /\ StagesEntered \subseteq Nat /\ \A u \in StagesEntered : u <= k
      BY <2>1, <2>2 DEF StagesEntered
    <2> QED BY <2>3, Largest DEF CurrentStage
  <1>2. ASSUME hist = RejectedAtGate PROVE CurrentStage = 3
    <2>1. \A e \in hist : e[1] \in 1..3
      BY <1>2 DEF RejectedAtGate, Through
    <2>2. \E e \in hist : e[1] = 3
      BY <1>2, RejectedRecord DEF StageAlreadyRan
    <2>3. 3 \in StagesEntered /\ StagesEntered \subseteq Nat /\ \A u \in StagesEntered : u <= 3
      BY <2>1, <2>2 DEF StagesEntered
    <2> QED BY <2>3, Largest DEF CurrentStage
  <1> QED BY <1>1, <1>2

\* The task that holds the run works at the stage its history shows.
LEMMA WorksWhereDrawn ==
    ASSUME RunTypes, SerialInv, NEW t \in Tasks, Active(t)
    PROVE  StageOfPc(t) = CurrentStage
  <1> USE StageOrdinals
  <1>0. (t \in Measures => pc[t] # "queued") /\ pc[t] \in Pc \ Gone
        /\ (t \in Measures \/ t = Pipeline \/ t \in Resumes)
    BY DEF Active, RunTypes, Tasks, Runners
  <1>1. HistoryFits(t)
    BY AtWork DEF SerialInv
  <1>2. \A k \in 1..7 : hist \in {Through(k), Inside(k)} => CurrentStage = k
    BY StageShown
  <1>3. CASE pc[t] = "queued"
    <2>1. hist = IF t = Pipeline THEN Through(1) ELSE Through(3)
      BY <1>1, <1>3 DEF HistoryFits
    <2>2. StageOfPc(t) = IF t = Pipeline THEN 1 ELSE 3
      BY <1>0, <1>3 DEF StageOfPc
    <2> QED BY <1>2, <2>1, <2>2
  <1>4. CASE pc[t] \in {"analyzing", "analyzed", "benign"}
    <2>1. hist \in {Through(2), Inside(2)} /\ StageOfPc(t) = 2
      BY <1>1, <1>4 DEF HistoryFits, StageOfPc
    <2> QED BY <1>2, <2>1
  <1>5. CASE pc[t] \in {"converting", "converted", "approved"}
    <2>1. hist \in {Through(3), Inside(3)} /\ StageOfPc(t) = 3
      BY <1>1, <1>5 DEF HistoryFits, StageOfPc
    <2> QED BY <1>2, <2>1
  <1>6. CASE pc[t] \in {"targeting", "targeted"}
    <2>1. hist \in {Through(4), Inside(4)} /\ StageOfPc(t) = 4
      BY <1>1, <1>6 DEF HistoryFits, StageOfPc
    <2> QED BY <1>2, <2>1
  <1>7. CASE pc[t] = "training"
    <2>1. hist = Inside(5) /\ StageOfPc(t) = 5
      BY <1>1, <1>7 DEF HistoryFits, StageOfPc
    <2> QED BY <1>2, <2>1
  <1>8. CASE pc[t] \in {"measuring", "measured"}
    <2>1. hist \in {Through(6), Inside(6)} /\ StageOfPc(t) = 6
      BY <1>1, <1>8 DEF HistoryFits, StageOfPc
    <2> QED BY <1>2, <2>1
  <1>9. CASE pc[t] = "feeding"
    <2>1. hist = Inside(7) /\ StageOfPc(t) = 7
      BY <1>1, <1>9 DEF HistoryFits, StageOfPc
    <2> QED BY <1>2, <2>1
  <1> QED BY <1>0, <1>3, <1>4, <1>5, <1>6, <1>7, <1>8, <1>9
      DEF Pc, Suspended, MidStretch, Gone

\* A run drawn as active at a stage has a task working there, and one drawn
\* as waiting or done has none at work (summariseRuns).
THEOREM DrawnTruly ==
    ASSUME OneAtATime
    PROVE  Spec => [](errors = 0 => DrawnWhereItWorks)
  <1>1. TypeOK /\ SerialInv => (errors = 0 => DrawnWhereItWorks)
    <2> SUFFICES ASSUME TypeOK, SerialInv, errors = 0 PROVE DrawnWhereItWorks
      OBVIOUS
    <2> RunTypes
      BY TypeHalves
    <2>1. ASSUME Position.kind = "active" PROVE \E t \in Tasks : StageOfPc(t) = Position.at
      <3>1. status = "running" /\ Position.at = CurrentStage
        BY <2>1 DEF Position, NoPlace, RunTypes, LoopStatus
      <3>2. PICK t \in Tasks : Active(t)
        BY <3>1 DEF SerialInv, OneWorker
      <3> QED BY <3>1, <3>2, WorksWhereDrawn
    <2>2. ASSUME Position.kind \in {"waiting", "none"}
          PROVE  \A t \in Tasks : pc[t] \in Gone \cup {"queued"}
      <3>1. status # "running"
        BY <2>2 DEF Position
      <3> QED BY <3>1 DEF SerialInv, OneWorker, CopyFits, Active
    <2> QED BY <2>1, <2>2 DEF DrawnWhereItWorks
  <1> QED BY <1>1, Typing, Serial, PTL

\* A run the figure counts as released has an approval a person committed,
\* unless the demo setting opens the gate (summariseRuns).
THEOREM ReleasedByPeople ==
    ASSUME OneAtATime
    PROVE  Spec => []ReleasedByAPerson
  <1> USE StageOrdinals
  <1>1. SerialInv => ReleasedByAPerson
    <2> SUFFICES ASSUME SerialInv, CurrentStage > CONVERT
                 PROVE  auto \/ \E t \in Resumes : pc[t] # "none"
      BY DEF ReleasedByAPerson, CountedReleased
    <2>1. hist # RejectedAtGate
      BY StageShown
    <2>2. PICK k \in Stage : hist \in {Through(k), Inside(k), BrokenAt(k)}
      BY <2>1 DEF SerialInv, StatusFits, WellShaped, Stage
    <2>3. CurrentStage = k
      BY <2>2, StageShown
    <2>4. Targeted(hist)
      BY <2>2, <2>3, OnRecord DEF Targeted
    <2> QED BY <2>4 DEF SerialInv, LetThrough
  <1> QED BY <1>1, Serial, PTL

\* The sentence about what a run still needs is true of the people in it.
THEOREM SentencesAreTrue ==
    ASSUME OneAtATime
    PROVE  Spec => []SentenceIsTrue
  <1> USE StageOrdinals
  <1>1. TypeOK /\ SerialInv => SentenceIsTrue
    <2> SUFFICES ASSUME TypeOK, SerialInv PROVE SentenceIsTrue
      OBVIOUS
    <2> RestTypes
      BY TypeHalves
    <2>1. ASSUME NextAction \in {"decide", "closed_unmeasured"}
          PROVE  AsgOfRun = {} /\ exposures = {}
      <3>1. status = "awaiting_approval" \/ (status = "completed" /\ ~summary.taken)
        BY <2>1 DEF NextAction, TypeOK, LoopStatus
      <3>2. hist = Through(3)
        BY <3>1 DEF SerialInv, StatusFits
      <3>3. ~Targeted(hist)
        BY <3>2, OnRecord DEF Targeted
      <3> QED BY <3>3 DEF SerialInv, PeopleFit, Touched, AsgOfRun, RestTypes
    <2>2. ASSUME NextAction \in {"some_missed", "all_completed"}
          PROVE  /\ summary.taken
                 /\ \A a \in AsgOfRun : \/ asg[a] = "completed" /\ a \in summary.completed
                                        \/ asg[a] = "expired" /\ a \notin summary.completed
                 /\ \A a \in AsgOfRun : charges[a] = 1
      <3>1. summary.taken
        BY <2>2 DEF NextAction, TypeOK, LoopStatus
      <3>2. Open = {} /\ summary.completed = {a \in AsgIds : asg[a] = "completed"}
        BY <3>1 DEF SerialInv, ReportStands
      <3>3. \A a \in AsgOfRun : asg[a] \in Settled
        BY <3>2 DEF AsgOfRun, Open, OpenStatus, Settled, RestTypes, AsgStatus
      <3>4. AsgOfRun \subseteq AsgIds
        BY DEF AsgOfRun
      <3> QED BY <3>1, <3>2, <3>3, <3>4 DEF SerialInv, SettledOnce, Settled
    <2>3. NextAction = "all_completed" => summary.completed = AsgOfRun
      BY DEF NextAction, TypeOK, LoopStatus
    <2> QED BY <2>1, <2>2, <2>3 DEF SentenceIsTrue
  <1> QED BY <1>1, Typing, Serial, PTL

=============================================================================
