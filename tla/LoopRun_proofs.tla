--------------------------- MODULE LoopRun_proofs ---------------------------
(***************************************************************************)
(* What TLAPS proves of LoopRun for every number of employees, requests,   *)
(* tasks, crashes and errors.                                              *)
(***************************************************************************)
EXTENDS LoopRun, TLAPS

-----------------------------------------------------------------------------
(* Lemmas about the operators. *)

\* The history operators build histories out of histories.
LEMMA HistoryTypes ==
    ASSUME NEW h \in SUBSET Entry, NEW s \in INGEST..FEEDBACK
    PROVE  /\ StageStart(h, s) \in SUBSET Entry
           /\ StageDone(h, s) \in SUBSET Entry
           /\ StageFailed(h, s) \in SUBSET Entry
  BY DEF StageStart, StageDone, StageFailed, StageClose, Entry

\* The stage numbers, for the leaves that only need to know they are stages.
LEMMA StageNumbers ==
    /\ ANALYZE \in INGEST..FEEDBACK /\ CONVERT \in INGEST..FEEDBACK
    /\ TARGET \in INGEST..FEEDBACK /\ TRAIN \in INGEST..FEEDBACK
    /\ MEASURE \in INGEST..FEEDBACK /\ FEEDBACK \in INGEST..FEEDBACK
    /\ INGEST \in INGEST..FEEDBACK
  BY DEF INGEST, ANALYZE, CONVERT, TARGET, TRAIN, MEASURE, FEEDBACK

\* The task part of the type invariant.
RunTypes ==
    /\ status \in LoopStatus
    /\ hist \in SUBSET Entry
    /\ pc \in [Tasks -> Pc]
    /\ memHist \in [Tasks -> SUBSET Entry]
    /\ memStatus \in [Tasks -> LoopStatus]

\* Whatever a task commits, the rows and its copy keep their types.
LEMMA CommitTypes ==
    ASSUME RunTypes, NEW t \in Tasks, NEW loaded,
           NEW h \in SUBSET Entry, NEW s \in LoopStatus, NEW p \in Pc,
           TaskCommit(t, loaded, h, s, p)
    PROVE  RunTypes'
  BY DEF RunTypes, TaskCommit

\* A stage of a task that goes on, or fails, keeps them too.
LEMMA AdvanceTypes ==
    ASSUME RunTypes, NEW t \in Tasks, NEW h \in SUBSET Entry, NEW p \in Pc,
           Advance(t, h, p)
    PROVE  RunTypes'
  <1>1. memStatus[t] \in LoopStatus
    BY DEF RunTypes
  <1>2. TaskCommit(t, Held(t), h, memStatus[t], p)
    BY DEF Advance
  <1> QED BY <1>1, <1>2, CommitTypes

LEMMA FailTypes ==
    ASSUME RunTypes, NEW t \in Tasks, NEW s \in INGEST..FEEDBACK, Fail(t, s)
    PROVE  RunTypes'
  <1>1. StageFailed(memHist[t], s) \in SUBSET Entry
    BY HistoryTypes DEF RunTypes
  <1>2. Ended(t) \in Pc /\ "failed" \in LoopStatus
    BY DEF Ended, Pc, Gone, LoopStatus
  <1>3. TaskCommit(t, Held(t), StageFailed(memHist[t], s), "failed", Ended(t))
    BY DEF Fail
  <1> QED BY <1>1, <1>2, <1>3, CommitTypes

LEMMA ReturnTypes ==
    ASSUME RunTypes, NEW t \in Tasks, Return(t)
    PROVE  RunTypes' /\ memTargets' = memTargets
  BY DEF RunTypes, Return, runRow, Ended, Pc, Gone

-----------------------------------------------------------------------------
(* Type correctness. *)

LEMMA InitTypes == Init => TypeOK
  <1> SUFFICES ASSUME Init PROVE TypeOK
    OBVIOUS
  <1>1. hist \subseteq Entry
    BY StageNumbers DEF Init, Entry
  <1>2. auto \in BOOLEAN
    BY LoopRunAssumption DEF Init
  <1>3. pc \in [Tasks -> Pc]
    BY DEF Init, Pc, Suspended, Gone
  <1> QED
    BY <1>1, <1>2, <1>3 DEF Init, TypeOK, LoopStatus, Summary, NoSummary, ModuleStatus,
       AsgStatus, Ops

\* TypeOK in two halves, so that a step only argues about the half it writes.
RestTypes ==
    /\ summary \in Summary
    /\ module \in ModuleStatus
    /\ asg \in [AsgIds -> AsgStatus]
    /\ exposures \subseteq AsgIds
    /\ charges \in [AsgIds -> Nat]
    /\ rejected \in BOOLEAN
    /\ memTargets \in [Tasks -> SUBSET Emps]
    /\ op \in [Slots -> Ops]
    /\ seenHist \in [Slots -> SUBSET Entry]
    /\ seenModule \in [Slots -> ModuleStatus]
    /\ seenAsg \in [Slots -> SUBSET AsgIds]
    /\ auto \in BOOLEAN
    /\ crashes \in Nat
    /\ errors \in Nat

LEMMA TypeHalves == TypeOK <=> RunTypes /\ RestTypes
  BY DEF TypeOK, RunTypes, RestTypes

LEMMA PipelineTypes ==
    ASSUME RunTypes, RestTypes, PipelineStep
    PROVE  RunTypes' /\ RestTypes'
  <1> Pipeline \in Tasks
    BY DEF Tasks, Runners
  <1> memHist[Pipeline] \in SUBSET Entry /\ hist \in SUBSET Entry /\ status \in LoopStatus
    BY DEF RunTypes
  <1>p. \A p \in {"analyzing", "analyzed", "benign", "converting", "converted",
                  "approved", "done"} : p \in Pc
    BY DEF Pc, Suspended, MidStretch, Gone
  <1>s. {"completed", "awaiting_approval"} \subseteq LoopStatus
    BY DEF LoopStatus
  <1>m. {"pending_review", "approved"} \subseteq ModuleStatus
    BY DEF ModuleStatus
  <1>1. CASE AnalyzeStart
    <2>1. RunTypes'
      BY <1>1, <1>p, StageNumbers, HistoryTypes, CommitTypes DEF AnalyzeStart
    <2> QED BY <2>1, <1>1 DEF AnalyzeStart, RestTypes, people, gate, reqs, env
  <1>2. CASE AnalyzeDone
    <2>1. RunTypes'
      BY <1>2, <1>p, StageNumbers, HistoryTypes, AdvanceTypes, FailTypes DEF AnalyzeDone
    <2> QED BY <2>1, <1>2 DEF AnalyzeDone, RestTypes, people, gate, reqs, env
  <1>3. CASE BenignClose
    <2>1. RunTypes'
      BY <1>3, <1>p, <1>s, StageNumbers, HistoryTypes, CommitTypes DEF BenignClose
    <2> QED BY <2>1, <1>3 DEF BenignClose, RestTypes, people, gate, reqs, env
  <1>4. CASE ConvertStart
    <2>1. RunTypes'
      BY <1>4, <1>p, StageNumbers, HistoryTypes, AdvanceTypes DEF ConvertStart
    <2> QED BY <2>1, <1>4 DEF ConvertStart, RestTypes, people, gate, reqs, env
  <1>5. CASE ConvertDone
    <2>1. RunTypes'
      BY <1>5, <1>p, StageNumbers, HistoryTypes, AdvanceTypes, FailTypes DEF ConvertDone
    <2> QED BY <2>1, <1>5, <1>m DEF ConvertDone, RestTypes, people, reqs, env
  <1>6. CASE ReachGate
    <2>1. RunTypes'
      BY <1>6, <1>p, <1>s, AdvanceTypes, CommitTypes DEF ReachGate
    <2> QED BY <2>1, <1>6, <1>m DEF ReachGate, RestTypes, people, reqs, env
  <1> QED BY <1>1, <1>2, <1>3, <1>4, <1>5, <1>6 DEF PipelineStep

LEMMA RunnerTypes ==
    ASSUME RunTypes, RestTypes, NEW t \in Runners, RunnerStep(t)
    PROVE  RunTypes' /\ RestTypes'
  <1> t \in Tasks
    BY DEF Tasks
  <1> memHist[t] \in SUBSET Entry /\ hist \in SUBSET Entry /\ status \in LoopStatus
    BY DEF RunTypes
  <1>p. \A p \in {"targeting", "targeted", "training", "measuring", "done"} : p \in Pc
    BY DEF Pc, Suspended, MidStretch, Gone
  <1>s. {"awaiting_training", "running"} \subseteq LoopStatus
    BY DEF LoopStatus
  <1>a. ASSUME NEW who \in SUBSET Emps, Assign(t, who)
        PROVE  asg' \in [AsgIds -> AsgStatus]
    BY <1>a DEF RestTypes, Assign, AsgStatus, OpenStatus
  <1>1. CASE TargetStart(t)
    <2>1. CASE Return(t)
      BY <1>1, <2>1, ReturnTypes DEF TargetStart, RestTypes, people, gate, reqs, env
    <2>2. CASE TaskCommit(t, Fresh, StageStart(hist, TARGET), status, "targeting")
               /\ memTargets' = memTargets
      <3>1. RunTypes'
        BY <2>2, <1>p, StageNumbers, HistoryTypes, CommitTypes
      <3> QED BY <3>1, <1>1, <2>2 DEF TargetStart, RestTypes, people, gate, reqs, env
    <2> QED BY <1>1, <2>1, <2>2 DEF TargetStart
  <1>2. CASE TargetDone(t)
    <2>1. RunTypes'
      BY <1>2, <1>p, StageNumbers, HistoryTypes, AdvanceTypes, FailTypes DEF TargetDone
    <2>2. exposures' \subseteq AsgIds
      BY <1>2 DEF TargetDone, RestTypes, AsgIds
    <2>3. memTargets' \in [Tasks -> SUBSET Emps]
      BY <1>2 DEF TargetDone, RestTypes
    <2> QED BY <2>1, <2>2, <2>3, <1>2 DEF TargetDone, RestTypes, gate, reqs, env
  <1>3. CASE TrainStart(t)
    <2>1. RunTypes'
      BY <1>3, <1>p, StageNumbers, HistoryTypes, AdvanceTypes DEF TrainStart
    <2> QED BY <2>1, <1>3 DEF TrainStart, RestTypes, people, gate, reqs, env
  <1>4. CASE TrainAssign(t)
    <2>1. RunTypes'
      BY <1>4, <1>p, <1>s, StageNumbers, HistoryTypes, CommitTypes, FailTypes DEF TrainAssign
    <2>2. asg' \in [AsgIds -> AsgStatus]
      <3>1. memTargets[t] \in SUBSET Emps
        BY DEF RestTypes
      <3>2. PICK who \in SUBSET memTargets[t] : Assign(t, who)
        BY <1>4 DEF TrainAssign
      <3> QED BY <3>1, <3>2, <1>a
    <2> QED BY <2>1, <2>2, <1>4 DEF TrainAssign, RestTypes, gate, reqs, env
  <1>5. CASE TrainNobody(t)
    <2> DEFINE h == StageDone(memHist[t], TRAIN)
    <2>1. StageStart(h, MEASURE) \in SUBSET Entry
      BY StageNumbers, HistoryTypes
    <2>2. CASE Return(t)
      BY <1>5, <2>2, ReturnTypes DEF TrainNobody, RestTypes, people, gate, reqs, env
    <2>3. CASE TaskCommit(t, Held(t), StageStart(h, MEASURE), "running", "measuring")
               /\ memTargets' = memTargets
      <3>1. RunTypes'
        BY <2>1, <2>3, <1>p, <1>s, CommitTypes
      <3> QED BY <3>1, <1>5, <2>3 DEF TrainNobody, RestTypes, people, gate, reqs, env
    <2> QED BY <1>5, <2>2, <2>3 DEF TrainNobody
  <1> QED BY <1>1, <1>2, <1>3, <1>4, <1>5 DEF RunnerStep

LEMMA MeasureTypes ==
    ASSUME RunTypes, RestTypes, NEW t \in Tasks, MeasureStart(t) \/ MeasureStep(t)
    PROVE  RunTypes' /\ RestTypes'
  <1> memHist[t] \in SUBSET Entry /\ hist \in SUBSET Entry
    BY DEF RunTypes
  <1>p. \A p \in {"measuring", "measured", "feeding", Ended(t)} : p \in Pc
    BY DEF Ended, Pc, MidStretch, Gone
  <1>s. {"completed", "running"} \subseteq LoopStatus
    BY DEF LoopStatus
  <1>1. CASE MeasureStart(t)
    <2>1. CASE Return(t)
      BY <1>1, <2>1, ReturnTypes DEF MeasureStart, RestTypes, people, gate, reqs, env
    <2>2. CASE TaskCommit(t, Fresh, StageStart(hist, MEASURE), "running", "measuring")
               /\ memTargets' = memTargets
      <3>1. RunTypes'
        BY <2>2, <1>p, <1>s, StageNumbers, HistoryTypes, CommitTypes
      <3> QED BY <3>1, <1>1, <2>2 DEF MeasureStart, RestTypes, people, gate, reqs, env
    <2> QED BY <1>1, <2>1, <2>2 DEF MeasureStart
  <1>2. CASE MeasureDone(t)
    <2>1. RunTypes'
      BY <1>2, <1>p, StageNumbers, HistoryTypes, AdvanceTypes, FailTypes DEF MeasureDone
    <2>2. summary' \in Summary
      <3>1. [taken |-> TRUE, completed |-> {a \in AsgIds : asg[a] = "completed"}] \in Summary
        BY DEF Summary
      <3>2. summary \in Summary
        BY DEF RestTypes
      <3> QED BY <3>1, <3>2, <1>2 DEF MeasureDone
    <2> QED BY <2>1, <2>2, <1>2 DEF MeasureDone, RestTypes, people, gate, reqs, env
  <1>3. CASE FeedbackStart(t)
    <2>1. RunTypes'
      BY <1>3, <1>p, StageNumbers, HistoryTypes, AdvanceTypes DEF FeedbackStart
    <2> QED BY <2>1, <1>3 DEF FeedbackStart, RestTypes, people, gate, reqs, env
  <1>4. CASE FeedbackDone(t)
    <2>1. RunTypes'
      BY <1>4, <1>p, <1>s, StageNumbers, HistoryTypes, CommitTypes, FailTypes DEF FeedbackDone
    <2> QED BY <2>1, <1>4 DEF FeedbackDone, RestTypes, people, gate, reqs, env
  <1> QED BY <1>1, <1>2, <1>3, <1>4 DEF MeasureStep

\* What a session loads and lets go of again.
SessionTypes ==
    /\ op \in [Slots -> Ops]
    /\ seenHist \in [Slots -> SUBSET Entry]
    /\ seenModule \in [Slots -> ModuleStatus]
    /\ seenAsg \in [Slots -> SUBSET AsgIds]

LEMMA ReleaseTypes ==
    ASSUME SessionTypes, NEW r \in Slots, Release(r)
    PROVE  SessionTypes'
  BY DEF SessionTypes, Release, Ops, ModuleStatus

LEMMA ReadTypes ==
    ASSUME RunTypes, RestTypes, NEW r \in Slots, Read(r)
    PROVE  RunTypes' /\ RestTypes'
  <1>1. PICK o \in Ops, h \in SUBSET Entry, m \in ModuleStatus, as \in SUBSET AsgIds :
           Load(r, o, h, m, as)
    <2>1. /\ {} \in SUBSET Entry /\ hist \in SUBSET Entry
          /\ "none" \in ModuleStatus /\ module \in ModuleStatus
          /\ {} \in SUBSET AsgIds /\ Open \in SUBSET AsgIds
          /\ \A a \in AsgIds : {a} \in SUBSET AsgIds
      BY DEF RunTypes, RestTypes, ModuleStatus, Open
    <2>2. {"approve", "reject", "review_ok", "review_no", "force", "start", "complete"}
            \subseteq Ops
      BY DEF Ops
    <2>3. CASE ReadApprove(r)
      BY <2>1, <2>2, <2>3 DEF ReadApprove
    <2>4. CASE ReadReject(r)
      BY <2>1, <2>2, <2>4 DEF ReadReject
    <2>5. CASE ReadReview(r)
      BY <2>1, <2>2, <2>5 DEF ReadReview
    <2>6. CASE ReadForce(r)
      BY <2>1, <2>2, <2>6 DEF ReadForce
    <2>7. CASE ReadStart(r)
      BY <2>1, <2>2, <2>7 DEF ReadStart
    <2>8. CASE ReadComplete(r)
      <3>1. PICK a \in Open : Load(r, "complete", {}, "none", {a})
        BY <2>8 DEF ReadComplete
      <3>2. a \in AsgIds
        BY <3>1 DEF Open
      <3> QED BY <2>1, <2>2, <3>1, <3>2
    <2> QED BY <2>3, <2>4, <2>5, <2>6, <2>7, <2>8 DEF Read
  <1>2. RunTypes'
    BY <1>1 DEF Load, RunTypes, runRow, work
  <1> QED BY <1>1, <1>2 DEF Load, RestTypes, people, gate, work, env

LEMMA SubmitTypes ==
    ASSUME RunTypes, NEW t \in Tasks, Submit(t), status' \in LoopStatus, hist' \in SUBSET Entry
    PROVE  RunTypes' /\ memTargets' = memTargets
  BY DEF RunTypes, Submit, Pc, Suspended

LEMMA RequestTypes ==
    ASSUME RunTypes, RestTypes, NEW r \in Slots, Commit(r) \/ RequestDies(r)
    PROVE  RunTypes' /\ RestTypes'
  <1> SessionTypes
    BY DEF RestTypes, SessionTypes
  <1>r. Release(r) => SessionTypes'
    BY ReleaseTypes
  <1>t. Resumes \subseteq Tasks /\ Measures \subseteq Tasks
    BY DEF Tasks, Runners
  <1>m. {"approved", "rejected"} \subseteq ModuleStatus /\ {"running", "failed"} \subseteq LoopStatus
    BY DEF ModuleStatus, LoopStatus
  <1>c. {"expired", "in_progress", "completed"} \subseteq AsgStatus
    BY DEF AsgStatus, OpenStatus, Settled
  <1>1. CASE CommitApprove(r)
    <2>1. status' \in LoopStatus /\ hist' \in SUBSET Entry
      BY <1>1, <1>m DEF CommitApprove, RunTypes
    <2>2. RunTypes' /\ memTargets' = memTargets
      BY <1>1, <2>1, <1>t, SubmitTypes DEF CommitApprove
    <2> QED BY <1>1, <2>2, <1>r, <1>m DEF CommitApprove, RestTypes, SessionTypes, people, env
  <1>2. CASE CommitReject(r)
    <2>1. status' \in LoopStatus /\ hist' \in SUBSET Entry
      BY <1>2, <1>m, StageNumbers DEF CommitReject, SessionTypes, Entry
    <2>2. RunTypes'
      BY <1>2, <2>1 DEF CommitReject, RunTypes, work
    <2> QED BY <1>2, <2>2, <1>r, <1>m DEF CommitReject, RestTypes, SessionTypes, people, work, env
  <1>3. CASE CommitReview(r)
    <2>1. RunTypes'
      BY <1>3 DEF CommitReview, RunTypes, work, runRow
    <2> QED BY <1>3, <2>1, <1>r, <1>m
        DEF CommitReview, RestTypes, SessionTypes, people, work, env
  <1>4. CASE CommitForce(r)
    <2>1. status' \in LoopStatus /\ hist' \in SUBSET Entry
      BY <1>4 DEF CommitForce, RunTypes, runRow
    <2>2. RunTypes' /\ memTargets' = memTargets
      BY <1>4, <2>1, <1>t, SubmitTypes DEF CommitForce
    <2> QED BY <1>4, <2>2, <1>r, <1>c DEF CommitForce, RestTypes, SessionTypes, gate, env
  <1>5. CASE CommitStart(r)
    <2>1. RunTypes'
      BY <1>5 DEF CommitStart, RunTypes, work, runRow
    <2> QED BY <1>5, <2>1, <1>r, <1>c DEF CommitStart, RestTypes, SessionTypes, gate, work, env
  <1>6. CASE CommitComplete(r)
    <2>1. RunTypes'
      BY <1>6 DEF CommitComplete, RunTypes, work, runRow
    <2>2. op' \in [Slots -> Ops]
      BY <1>6 DEF CommitComplete, RestTypes, Ops
    <2> QED BY <1>6, <2>1, <2>2, <1>c DEF CommitComplete, RestTypes, gate, work, env
  <1>7. CASE OnAssignmentCompleted(r)
    <2>1. status' \in LoopStatus /\ hist' \in SUBSET Entry
      BY <1>7 DEF OnAssignmentCompleted, RunTypes, runRow
    <2>2. RunTypes' /\ memTargets' = memTargets
      <3>1. CASE UNCHANGED work
        BY <3>1, <2>1 DEF RunTypes, work
      <3>2. CASE \E m \in Measures : Submit(m)
        BY <3>2, <2>1, <1>t, SubmitTypes
      <3> QED BY <3>1, <3>2, <1>7 DEF OnAssignmentCompleted
    <2> QED BY <1>7, <2>2, <1>r DEF OnAssignmentCompleted, RestTypes, SessionTypes, people, gate, env
  <1>8. CASE RequestDies(r)
    <2>1. RunTypes'
      BY <1>8 DEF RequestDies, RunTypes, work, runRow
    <2> QED BY <1>8, <2>1, <1>r DEF RequestDies, RestTypes, SessionTypes, people, gate, work
  <1> QED BY <1>1, <1>2, <1>3, <1>4, <1>5, <1>6, <1>7, <1>8 DEF Commit

LEMMA CrashTypes ==
    ASSUME RunTypes, RestTypes, Restart \/ \E t \in Tasks : TaskDies(t)
    PROVE  RunTypes' /\ RestTypes'
  <1>1. CASE \E t \in Tasks : TaskDies(t)
    BY <1>1, ReturnTypes DEF TaskDies, RestTypes, people, gate, reqs
  <1>2. CASE Restart
    <2>1. Recovered(hist) \in SUBSET Entry
      BY DEF Recovered, RunTypes, Entry
    <2>2. RunTypes'
      BY <1>2, <2>1 DEF Restart, RunTypes, runRow, LoopStatus, Ended, Pc, Gone
    <2> QED BY <1>2, <2>2 DEF Restart, RestTypes, Ops, ModuleStatus, people, gate
  <1> QED BY <1>1, <1>2

\* Every row and every copy of it keeps a value the code can give it
\* (orchestrator.py, loop_runs.py, training.py), however much happens at once.
THEOREM Typing == Spec => []TypeOK
  <1>1. TypeOK /\ [Next]_vars => TypeOK'
    <2> SUFFICES ASSUME TypeOK, [Next]_vars PROVE RunTypes' /\ RestTypes'
      BY TypeHalves DEF TypeOK, RunTypes, RestTypes
    <2> RunTypes /\ RestTypes
      BY TypeHalves
    <2>1. CASE PipelineStep
      BY <2>1, PipelineTypes
    <2>2. CASE \E t \in Runners : RunnerStep(t)
      BY <2>2, RunnerTypes
    <2>3. CASE \E t \in Tasks : MeasureStart(t) \/ MeasureStep(t)
      BY <2>3, MeasureTypes
    <2>4. CASE \E r \in Slots : Read(r)
      BY <2>4, ReadTypes
    <2>5. CASE \E r \in Slots : Commit(r) \/ RequestDies(r)
      BY <2>5, RequestTypes
    <2>6. CASE Restart \/ \E t \in Tasks : TaskDies(t)
      BY <2>6, CrashTypes
    <2>7. CASE UNCHANGED vars
      BY <2>7 DEF vars, runRow, people, gate, work, reqs, env, RunTypes, RestTypes
    <2> QED
      BY <2>1, <2>2, <2>3, <2>4, <2>5, <2>6, <2>7 DEF Next, TaskStep, Tasks
  <1> QED BY <1>1, InitTypes, PTL DEF Spec

-----------------------------------------------------------------------------
(* TARGET runs once, however many approvals were accepted. *)

Live == (BeforeGate \ {"queued"}) \cup PastTarget

\* Only StageStart(h, TARGET) puts TARGET on record, and nothing takes it off.
LEMMA TargetedAfter ==
    ASSUME NEW h \in SUBSET Entry, NEW s \in INGEST..FEEDBACK
    PROVE  /\ Targeted(StageStart(h, s)) <=> Targeted(h) \/ s = TARGET
           /\ Targeted(StageDone(h, s)) <=> Targeted(h)
           /\ Targeted(StageFailed(h, s)) <=> Targeted(h)
  <1>1. Targeted(StageStart(h, s)) <=> Targeted(h) \/ s = TARGET
    <2>1. <<s, "in_progress">> \in StageStart(h, s) /\ <<s, "in_progress">>[1] = s
      BY DEF StageStart
    <2>2. \A x : x \in StageStart(h, s) <=> x \in h \/ x = <<s, "in_progress">>
      BY DEF StageStart
    <2> QED BY <2>1, <2>2 DEF Targeted, StageAlreadyRan
  <1>2. ASSUME NEW o PROVE Targeted(StageClose(h, s, o)) <=> Targeted(h)
    <2>1. ASSUME NEW e \in h, e[1] = TARGET
          PROVE  \E x \in StageClose(h, s, o) : x[1] = TARGET
      <3>1. CASE e = <<s, "in_progress">>
        <4>1. <<s, o>> \in StageClose(h, s, o) /\ <<s, o>>[1] = TARGET
          BY <2>1, <3>1 DEF StageClose
        <4> QED BY <4>1
      <3>2. CASE e # <<s, "in_progress">>
        BY <2>1, <3>2 DEF StageClose
      <3> QED BY <3>1, <3>2
    <2>2. ASSUME NEW x \in StageClose(h, s, o), x[1] = TARGET
          PROVE  \E e \in h : e[1] = TARGET
      <3>1. CASE x \in h
        BY <2>2, <3>1
      <3>2. CASE x \notin h
        <4>1. x = <<s, o>> /\ <<s, "in_progress">> \in h
          BY <2>2, <3>2 DEF StageClose
        <4>2. <<s, "in_progress">>[1] = TARGET
          BY <2>2, <4>1
        <4> QED BY <4>1, <4>2
      <3> QED BY <3>1, <3>2
    <2> QED BY <2>1, <2>2 DEF Targeted, StageAlreadyRan
  <1> QED BY <1>1, <1>2 DEF StageDone, StageFailed

LEMMA TargetedRecovered ==
    ASSUME NEW h \in SUBSET Entry PROVE Targeted(Recovered(h)) <=> Targeted(h)
  <1>1. ASSUME NEW e \in h, e[1] = TARGET PROVE \E x \in Recovered(h) : x[1] = TARGET
    <2>1. CASE e[2] = "in_progress"
      <3>1. <<e[1], "failed">> \in Recovered(h) /\ <<e[1], "failed">>[1] = TARGET
        BY <1>1, <2>1 DEF Recovered
      <3> QED BY <3>1
    <2>2. CASE e[2] # "in_progress"
      BY <1>1, <2>2 DEF Recovered
    <2> QED BY <2>1, <2>2
  <1>2. ASSUME NEW x \in Recovered(h), x[1] = TARGET PROVE \E e \in h : e[1] = TARGET
    BY <1>2 DEF Recovered
  <1> QED BY <1>1, <1>2 DEF Targeted, StageAlreadyRan

\* The stages other than TARGET are other numbers.
LEMMA OtherStages ==
    /\ ANALYZE # TARGET /\ CONVERT # TARGET /\ TRAIN # TARGET
    /\ MEASURE # TARGET /\ FEEDBACK # TARGET
  BY DEF ANALYZE, CONVERT, TARGET, TRAIN, MEASURE, FEEDBACK

\* A commit that does not touch TARGET leaves the record, and every copy of
\* it, as they agree.
LEMMA QuietCommit ==
    ASSUME RunTypes, OneTargetRun, NEW t \in Tasks, pc[t] \in Live,
           NEW h \in SUBSET Entry, Targeted(h) <=> Targeted(memHist[t]),
           NEW s, NEW p, TaskCommit(t, Held(t), h, s, p)
    PROVE  /\ pc' = [pc EXCEPT ![t] = p]
           /\ Targeted(hist') <=> Targeted(hist)
           /\ CopiesAgree'
           /\ status' \in {status, s}
           /\ s = memStatus[t] => status' = status
  <1>1. hist' \in {hist, h} /\ (Targeted(memHist[t]) <=> Targeted(hist))
    BY DEF TaskCommit, Held, OneTargetRun, CopiesAgree, Live
  <1>2. Targeted(hist') <=> Targeted(hist)
    BY <1>1
  <1>3. pc' = [pc EXCEPT ![t] = p] /\ memHist' = [memHist EXCEPT ![t] = h]
    BY DEF TaskCommit
  <1>4. CopiesAgree'
    <2> SUFFICES ASSUME NEW u \in Tasks, pc'[u] \in Live
                 PROVE  Targeted(memHist'[u]) <=> Targeted(hist')
      BY DEF CopiesAgree, Live, Targeted
    <2>1. CASE u = t
      BY <1>1, <1>2, <1>3, <2>1 DEF RunTypes
    <2>2. CASE u # t
      BY <1>2, <1>3, <2>2 DEF RunTypes, OneTargetRun, CopiesAgree, Live
    <2> QED BY <2>1, <2>2
  <1> QED BY <1>2, <1>3, <1>4 DEF TaskCommit, Held

\* The pipeline on its way to the gate: it is alone.
LEMMA PreparingKeeps ==
    ASSUME RunTypes, OneTargetRun, PipelineStep
    PROVE  OneTargetRun'
  <1> DEFINE on(p) == /\ pc' = [pc EXCEPT ![Pipeline] = p]
                      /\ Targeted(hist') <=> Targeted(hist)
                      /\ CopiesAgree'
                      /\ status' # "awaiting_training"
  <1>0. Pipeline \in Tasks /\ Pipeline \in Runners /\ Ended(Pipeline) = "done"
    BY LoopRunAssumption DEF Tasks, Runners, Ended
  <1>1. pc[Pipeline] \in BeforeGate
    BY DEF PipelineStep, AnalyzeStart, AnalyzeDone, BenignClose, ConvertStart,
           ConvertDone, ReachGate, At, BeforeGate
  <1>2. /\ status = "running"
        /\ \A t \in Tasks \ {Pipeline} : pc[t] = "none"
        /\ \A r \in Slots : op[r] \notin {"approve", "force"}
    BY <1>1 DEF OneTargetRun, AloneBeforeGate
  <1>3. asg' = asg /\ exposures' = exposures /\ op' = op /\ seenAsg' = seenAsg
    BY DEF PipelineStep, AnalyzeStart, AnalyzeDone, BenignClose, ConvertStart,
           ConvertDone, ReachGate, people, reqs
  <1>h. memHist[Pipeline] \in SUBSET Entry /\ hist \in SUBSET Entry
    BY <1>0 DEF RunTypes
  <1>q. ASSUME pc[Pipeline] \in Live,
               NEW h \in SUBSET Entry, Targeted(h) <=> Targeted(memHist[Pipeline]),
               NEW s, s # "awaiting_training", NEW p,
               TaskCommit(Pipeline, Held(Pipeline), h, s, p)
        PROVE  on(p)
    BY <1>0, <1>2, <1>q, QuietCommit
  <1>a. ASSUME pc[Pipeline] \in Live,
               NEW h \in SUBSET Entry, Targeted(h) <=> Targeted(memHist[Pipeline]),
               NEW p, Advance(Pipeline, h, p)
        PROVE  on(p) /\ status' = status
    BY <1>0, <1>2, <1>a, QuietCommit DEF Advance
  <1>f. ASSUME pc[Pipeline] \in Live, NEW s \in INGEST..FEEDBACK, Fail(Pipeline, s)
        PROVE  on("done")
    BY <1>0, <1>f, <1>h, <1>q, HistoryTypes, TargetedAfter DEF Fail
  <1>4. PICK p \in (BeforeGate \ {"queued"}) \cup {"done"} :
           on(p) /\ (p \in BeforeGate => status' = status)
    <2>1. CASE AnalyzeStart
      <3>1. TaskCommit(Pipeline, Fresh, StageStart(hist, ANALYZE), status, "analyzing")
        BY <2>1 DEF AnalyzeStart
      <3>2. Targeted(StageStart(hist, ANALYZE)) <=> Targeted(hist)
        BY <1>h, StageNumbers, OtherStages, TargetedAfter
      <3>3. /\ hist' = StageStart(hist, ANALYZE) /\ status' = status
            /\ memHist' = [memHist EXCEPT ![Pipeline] = hist']
            /\ pc' = [pc EXCEPT ![Pipeline] = "analyzing"]
        BY <3>1 DEF TaskCommit, Fresh
      <3>4. memHist'[Pipeline] = hist'
        BY <1>0, <3>3 DEF RunTypes
      <3>5. \A t \in Tasks : t # Pipeline => pc'[t] = "none"
        BY <1>2, <3>3 DEF RunTypes
      <3>6. CopiesAgree'
        BY <3>4, <3>5 DEF CopiesAgree, BeforeGate, PastTarget
      <3> QED BY <1>2, <3>2, <3>3, <3>6 DEF BeforeGate
    <2>2. CASE AnalyzeDone
      <3>1. pc[Pipeline] \in Live
        BY <2>2 DEF AnalyzeDone, At, Live, BeforeGate
      <3>2. CASE Fail(Pipeline, ANALYZE)
        BY <3>1, <3>2, <1>f, StageNumbers DEF BeforeGate
      <3>3. CASE \E verdict \in {"analyzed", "benign"} :
                    Advance(Pipeline, StageDone(memHist[Pipeline], ANALYZE), verdict)
        BY <3>1, <3>3, <1>h, <1>a, StageNumbers, HistoryTypes, TargetedAfter DEF BeforeGate
      <3> QED BY <2>2, <3>2, <3>3 DEF AnalyzeDone
    <2>3. CASE BenignClose
      <3>1. pc[Pipeline] \in Live
        BY <2>3 DEF BenignClose, At, Live, BeforeGate
      <3> DEFINE h == StageStart(memHist[Pipeline], CONVERT)
      <3>2. h \in SUBSET Entry /\ (Targeted(h) <=> Targeted(memHist[Pipeline]))
        BY <1>h, StageNumbers, OtherStages, HistoryTypes, TargetedAfter
      <3>3. /\ StageDone(h, CONVERT) \in SUBSET Entry
            /\ Targeted(StageDone(h, CONVERT)) <=> Targeted(memHist[Pipeline])
        BY <3>2, StageNumbers, HistoryTypes, TargetedAfter
      <3>4. TaskCommit(Pipeline, Held(Pipeline), StageDone(h, CONVERT), "completed", "done")
        BY <2>3 DEF BenignClose
      <3>5. on("done")
        BY <3>1, <3>3, <3>4, <1>q
      <3>6. "done" \notin BeforeGate
        BY DEF BeforeGate
      <3> HIDE DEF h, on
      <3> QED BY <3>5, <3>6
    <2>4. CASE ConvertStart
      <3>1. pc[Pipeline] \in Live
        BY <2>4 DEF ConvertStart, At, Live, BeforeGate
      <3> DEFINE h == StageStart(memHist[Pipeline], CONVERT)
      <3>2. h \in SUBSET Entry /\ (Targeted(h) <=> Targeted(memHist[Pipeline]))
        BY <1>h, StageNumbers, OtherStages, HistoryTypes, TargetedAfter
      <3>3. on("converting") /\ status' = status
        BY <2>4, <3>1, <3>2, <1>a DEF ConvertStart
      <3> QED BY <3>3 DEF BeforeGate
    <2>5. CASE ConvertDone
      <3>1. pc[Pipeline] \in Live
        BY <2>5 DEF ConvertDone, At, Live, BeforeGate
      <3>2. CASE Fail(Pipeline, CONVERT)
        BY <3>1, <3>2, <1>f, StageNumbers DEF BeforeGate
      <3>3. CASE Advance(Pipeline, StageDone(memHist[Pipeline], CONVERT), "converted")
        BY <3>1, <3>3, <1>h, <1>a, StageNumbers, HistoryTypes, TargetedAfter DEF BeforeGate
      <3> QED BY <2>5, <3>2, <3>3 DEF ConvertDone
    <2>6. CASE ReachGate
      <3>1. pc[Pipeline] \in Live
        BY <2>6 DEF ReachGate, At, Live, BeforeGate
      <3>2. CASE Advance(Pipeline, memHist[Pipeline], "approved")
        BY <3>1, <3>2, <1>h, <1>a DEF BeforeGate
      <3>3. CASE TaskCommit(Pipeline, Held(Pipeline), memHist[Pipeline],
                            "awaiting_approval", "done")
        BY <3>1, <3>3, <1>h, <1>q DEF BeforeGate
      <3> QED BY <2>6, <3>2, <3>3 DEF ReachGate
    <2> QED BY <2>1, <2>2, <2>3, <2>4, <2>5, <2>6 DEF PipelineStep
  <1>5. /\ pc'[Pipeline] = p
        /\ \A t \in Tasks : t # Pipeline => pc'[t] = "none"
    BY <1>0, <1>2, <1>4 DEF RunTypes
  <1>6. p \notin PastTarget /\ p \notin {"targeting", "targeted", "training"}
    BY <1>4 DEF BeforeGate, PastTarget
  <1>7. \A t \in Runners : Holds(t)' => Holds(t)
    BY <1>3, <1>5, <1>6 DEF Holds, Tasks
  <1>8. OnlyPipelinePrepares'
    BY <1>5 DEF OnlyPipelinePrepares
  <1>9. AloneBeforeGate'
    BY <1>2, <1>3, <1>4, <1>5 DEF AloneBeforeGate
  <1>10. TargetOnRecord'
    <2>1. CASE Targeted(hist)
      BY <2>1, <1>4 DEF TargetOnRecord, Targeted
    <2>2. CASE ~Targeted(hist)
      <3>1. \A t \in Tasks : pc'[t] \notin PastTarget
        BY <1>5, <1>6 DEF PastTarget
      <3>2. \A m \in Measures : pc'[m] = "none"
        BY <1>5, LoopRunAssumption DEF Tasks
      <3>3. \A t \in Runners : ~Holds(t)'
        BY <2>2, <1>7 DEF OneTargetRun, TargetOnRecord
      <3> QED BY <1>2, <1>3, <1>4, <3>1, <3>2, <3>3 DEF TargetOnRecord
    <2> QED BY <2>1, <2>2
  <1>11. OneHolder'
    BY <1>7 DEF OneTargetRun, OneHolder
  <1> QED BY <1>3, <1>4, <1>8, <1>9, <1>10, <1>11 DEF OneTargetRun, DutiesExist

\* A task that goes on once TARGET is on record.
LEMMA CarryOnKeeps ==
    ASSUME RunTypes, OneTargetRun, Targeted(hist),
           NEW t \in Tasks, pc[t] # "none", t = Pipeline => pc[t] \notin BeforeGate,
           NEW p \in PastTarget \cup {"none", "done"}, pc' = [pc EXCEPT ![t] = p],
           Targeted(hist') <=> Targeted(hist), CopiesAgree',
           op' = op, seenAsg' = seenAsg,
           \A u \in Runners : Holds(u)' => Holds(u),
           \A r \in Slots : \A a \in seenAsg[r] : asg[a] # "none" => asg'[a] # "none"
    PROVE  OneTargetRun'
  <1>2. TargetOnRecord'
    BY DEF TargetOnRecord, Targeted
  <1>3. p \notin BeforeGate
    BY DEF PastTarget, BeforeGate
  <1>4. pc[Pipeline] \notin BeforeGate /\ Pipeline \in Tasks
    BY <1>3 DEF OneTargetRun, AloneBeforeGate, Tasks, Runners
  <1>5. AloneBeforeGate'
    BY <1>3, <1>4 DEF AloneBeforeGate, RunTypes
  <1>6. OnlyPipelinePrepares'
    BY DEF OneTargetRun, OnlyPipelinePrepares, RunTypes
  <1>7. OneHolder' /\ DutiesExist'
    BY DEF OneTargetRun, OneHolder, DutiesExist
  <1> QED BY <1>2, <1>5, <1>6, <1>7 DEF OneTargetRun

\* The same for a commit of a task past TARGET that hands nothing out.
LEMMA CommitKeeps ==
    ASSUME RunTypes, OneTargetRun, NEW t \in Tasks, pc[t] \in PastTarget,
           NEW h \in SUBSET Entry, Targeted(h) <=> Targeted(memHist[t]),
           NEW s, NEW p \in PastTarget \cup {"none", "done"},
           TaskCommit(t, Held(t), h, s, p),
           p \in {"targeting", "targeted", "training"}
              => pc[t] \in {"targeting", "targeted", "training"},
           op' = op, seenAsg' = seenAsg,
           \A u \in Runners, e \in Emps :
              (asg'[<<u, e>>] # "none" \/ <<u, e>> \in exposures') => Holds(u),
           \A r \in Slots : \A a \in seenAsg[r] : asg[a] # "none" => asg'[a] # "none"
    PROVE  OneTargetRun'
  <1>1. pc[t] \in Live
    BY DEF Live
  <1>2. pc' = [pc EXCEPT ![t] = p] /\ (Targeted(hist') <=> Targeted(hist)) /\ CopiesAgree'
    BY <1>1, QuietCommit
  <1>3. ASSUME NEW u \in Runners, Holds(u)' PROVE Holds(u)
    <2>1. u \in Tasks
      BY DEF Tasks
    <2> QED BY <1>2, <1>3, <2>1 DEF Holds, RunTypes
  <1>4. Targeted(hist) /\ pc[t] # "none" /\ pc[t] \notin BeforeGate
    BY DEF OneTargetRun, TargetOnRecord, PastTarget, BeforeGate
  <1> QED BY <1>2, <1>3, <1>4, CarryOnKeeps

\* A task that only ends.
LEMMA ReturnKeeps ==
    ASSUME RunTypes, OneTargetRun, NEW t \in Tasks, pc[t] \notin Gone, Return(t),
           asg' = asg, exposures' = exposures, op' = op, seenAsg' = seenAsg
    PROVE  OneTargetRun'
  <1>1. /\ pc' = [pc EXCEPT ![t] = Ended(t)] /\ hist' = hist /\ status' = status
        /\ memHist' = memHist
    BY DEF Return, runRow
  <1>2. Ended(t) \in {"none", "done"} /\ (t = Pipeline => Ended(t) = "done")
    BY LoopRunAssumption DEF Ended
  <1>3. Pipeline \in Tasks /\ Measures \subseteq Tasks /\ Runners \subseteq Tasks
    BY DEF Tasks, Runners
  <1>4. \A u \in Tasks : pc'[u] \in {pc[u], Ended(t)}
    BY <1>1 DEF RunTypes
  <1>5. \A u \in Runners : Holds(u)' => Holds(u)
    BY <1>2, <1>3, <1>4 DEF Holds
  <1>6. OnlyPipelinePrepares'
    BY <1>2, <1>4 DEF OneTargetRun, OnlyPipelinePrepares
  <1>7. AloneBeforeGate'
    <2> SUFFICES ASSUME pc'[Pipeline] \in BeforeGate PROVE AloneBeforeGate'
      BY DEF AloneBeforeGate
    <2>1. pc[Pipeline] \in BeforeGate /\ t # Pipeline
      BY <1>1, <1>2, <1>3, <1>4 DEF RunTypes, BeforeGate
    <2>2. pc[t] = "none"
      BY <2>1 DEF OneTargetRun, AloneBeforeGate
    <2> QED BY <2>2 DEF Gone
  <1>8. TargetOnRecord'
    <2>1. CASE Targeted(hist)
      BY <1>1, <2>1 DEF TargetOnRecord, Targeted
    <2>2. CASE ~Targeted(hist)
      <3>1. \A u \in Tasks : pc'[u] \notin PastTarget
        BY <1>2, <1>4, <2>2 DEF OneTargetRun, TargetOnRecord, PastTarget
      <3>2. \A m \in Measures : pc'[m] = "none"
        <4>1. \A m \in Measures : pc[m] = "none" /\ m # t
          BY <2>2 DEF OneTargetRun, TargetOnRecord, Gone
        <4> QED BY <1>1, <1>3, <4>1 DEF RunTypes
      <3>3. \A u \in Runners : ~Holds(u)'
        BY <2>2, <1>5 DEF OneTargetRun, TargetOnRecord
      <3>4. status' # "awaiting_training" /\ \A r \in Slots : op'[r] # "force"
        BY <1>1, <2>2 DEF OneTargetRun, TargetOnRecord
      <3> QED BY <3>1, <3>2, <3>3, <3>4 DEF TargetOnRecord
    <2> QED BY <2>1, <2>2
  <1>9. CopiesAgree'
    BY <1>1, <1>2, <1>4 DEF OneTargetRun, CopiesAgree, BeforeGate, PastTarget, Targeted
  <1>10. OneHolder' /\ DutiesExist'
    BY <1>5 DEF OneTargetRun, OneHolder, DutiesExist
  <1> QED BY <1>6, <1>7, <1>8, <1>9, <1>10 DEF OneTargetRun

\* A task that enters TARGET found nothing on record, so nobody else had a
\* copy of the run and nobody held anything.
LEMMA TargetStartKeeps ==
    ASSUME RunTypes, OneTargetRun, NEW t \in Runners, TargetStart(t)
    PROVE  OneTargetRun'
  <1>0. t \in Tasks /\ Pipeline \in Tasks /\ Runners \subseteq Tasks /\ Measures \subseteq Tasks
    BY DEF Tasks, Runners
  <1>1. /\ asg' = asg /\ exposures' = exposures /\ op' = op /\ seenAsg' = seenAsg
        /\ pc[t] \in {"queued", "approved"} /\ pc[t] \notin Gone
        /\ t = Pipeline => pc[t] = "approved"
    BY DEF TargetStart, At, people, reqs, Gone
  <1>2. CASE Return(t)
    BY <1>0, <1>1, <1>2, ReturnKeeps
  <1>3. CASE ~TargetRefused(t)
             /\ TaskCommit(t, Fresh, StageStart(hist, TARGET), status, "targeting")
    <2>1. ~Targeted(hist)
      BY <1>3 DEF TargetRefused, Targeted
    <2>2. /\ status # "awaiting_training"
          /\ \A u \in Tasks : pc[u] \notin PastTarget
          /\ \A m \in Measures : pc[m] = "none"
          /\ \A r \in Slots : op[r] # "force"
          /\ \A u \in Runners : ~Holds(u)
      BY <2>1 DEF OneTargetRun, TargetOnRecord
    <2>3. \A u \in Tasks : u # t => pc[u] \in {"none", "queued", "done"}
      <3>1. CASE t = Pipeline
        BY <1>1, <3>1 DEF OneTargetRun, AloneBeforeGate, BeforeGate
      <3>2. CASE t # Pipeline
        <4>1. pc[Pipeline] \notin BeforeGate
          BY <1>0, <1>1, <3>2 DEF OneTargetRun, AloneBeforeGate
        <4>2. pc[Pipeline] \in Pc
          BY <1>0 DEF RunTypes
        <4>3. pc[Pipeline] \in {"none", "done"}
          BY <4>1, <4>2, <2>2, <1>0
             DEF Pc, Suspended, MidStretch, Gone, BeforeGate, PastTarget
        <4> QED BY <4>3, <2>2 DEF OneTargetRun, OnlyPipelinePrepares
      <3> QED BY <3>1, <3>2
    <2>4. StageStart(hist, TARGET) # hist /\ Targeted(StageStart(hist, TARGET))
      BY <2>1, StageNumbers, TargetedAfter DEF RunTypes
    <2>5. /\ hist' = StageStart(hist, TARGET) /\ status' = status
          /\ memHist' = [memHist EXCEPT ![t] = hist']
          /\ pc' = [pc EXCEPT ![t] = "targeting"]
      BY <1>3, <2>4 DEF TaskCommit, Fresh
    <2>6. /\ Targeted(hist') /\ memHist'[t] = hist' /\ pc'[t] = "targeting"
          /\ \A u \in Tasks : u # t => pc'[u] = pc[u]
      BY <1>0, <2>4, <2>5 DEF RunTypes
    <2>7. CopiesAgree'
      BY <2>3, <2>6 DEF CopiesAgree, BeforeGate, PastTarget
    <2>8. \A u \in Runners : u # t => ~Holds(u)'
      BY <1>0, <1>1, <2>2, <2>6 DEF Holds
    <2>9. OnlyPipelinePrepares'
      BY <2>3, <2>6 DEF OnlyPipelinePrepares, PastTarget
    <2>10. AloneBeforeGate'
      <3>1. CASE t = Pipeline
        BY <2>6, <3>1 DEF AloneBeforeGate, BeforeGate
      <3>2. CASE t # Pipeline
        BY <1>0, <1>1, <2>6, <3>2 DEF OneTargetRun, AloneBeforeGate
      <3> QED BY <3>1, <3>2
    <2>11. TargetOnRecord'
      BY <2>6 DEF TargetOnRecord, Targeted
    <2> QED BY <1>1, <2>7, <2>8, <2>9, <2>10, <2>11
        DEF OneTargetRun, OneHolder, DutiesExist
  <1> QED BY <1>2, <1>3 DEF TargetStart

LEMMA RunnerKeeps ==
    ASSUME RunTypes, RestTypes, OneTargetRun, NEW t \in Runners, RunnerStep(t)
    PROVE  OneTargetRun'
  <1>0. t \in Tasks
    BY DEF Tasks
  <1>h. memHist[t] \in SUBSET Entry
    BY <1>0 DEF RunTypes
  <1>p. PastTarget \cap Gone = {} /\ Ended(t) \in {"none", "done"}
    BY DEF PastTarget, Gone, Ended
  <1>1. CASE TargetStart(t)
    BY <1>1, TargetStartKeeps
  <1>2. CASE TargetDone(t)
    <2>1. pc[t] = "targeting" /\ op' = op /\ seenAsg' = seenAsg /\ asg' = asg
      BY <1>2 DEF TargetDone, At, reqs
    <2>2. \A u \in Runners, e \in Emps :
             (asg'[<<u, e>>] # "none" \/ <<u, e>> \in exposures') => Holds(u)
      BY <1>2, <2>1 DEF TargetDone, Holds
    <2>3. CASE Fail(t, TARGET)
      <3>1. /\ StageFailed(memHist[t], TARGET) \in SUBSET Entry
            /\ Targeted(StageFailed(memHist[t], TARGET)) <=> Targeted(memHist[t])
        BY <1>h, StageNumbers, HistoryTypes, TargetedAfter
      <3> QED BY <1>0, <1>p, <2>1, <2>2, <2>3, <3>1, CommitKeeps DEF Fail, PastTarget
    <2>4. CASE Advance(t, StageDone(memHist[t], TARGET), "targeted")
      <3>1. /\ StageDone(memHist[t], TARGET) \in SUBSET Entry
            /\ Targeted(StageDone(memHist[t], TARGET)) <=> Targeted(memHist[t])
        BY <1>h, StageNumbers, HistoryTypes, TargetedAfter
      <3> QED BY <1>0, <2>1, <2>2, <2>4, <3>1, CommitKeeps DEF Advance, PastTarget
    <2> QED BY <1>2, <2>3, <2>4 DEF TargetDone
  <1>3. CASE TrainStart(t)
    <2>1. pc[t] = "targeted" /\ op' = op /\ seenAsg' = seenAsg
          /\ asg' = asg /\ exposures' = exposures
      BY <1>3 DEF TrainStart, At, reqs, people
    <2>2. /\ StageStart(memHist[t], TRAIN) \in SUBSET Entry
          /\ Targeted(StageStart(memHist[t], TRAIN)) <=> Targeted(memHist[t])
      BY <1>h, StageNumbers, OtherStages, HistoryTypes, TargetedAfter
    <2> QED BY <1>0, <1>3, <2>1, <2>2, CommitKeeps DEF TrainStart, Advance, PastTarget, Holds
  <1>4. CASE TrainAssign(t)
    <2>1. pc[t] = "training" /\ op' = op /\ seenAsg' = seenAsg /\ exposures' = exposures
      BY <1>4 DEF TrainAssign, At, reqs
    <2>2. PICK who \in SUBSET memTargets[t] : Assign(t, who)
      BY <1>4 DEF TrainAssign
    <2>3. \A u \in Runners, e \in Emps :
             (asg'[<<u, e>>] # "none" \/ <<u, e>> \in exposures') => Holds(u)
      BY <2>1, <2>2 DEF Assign, Holds, AsgIds
    <2>4. \A r \in Slots : \A a \in seenAsg[r] : asg[a] # "none" => asg'[a] # "none"
      BY <2>2 DEF Assign, RestTypes
    <2>5. CASE Fail(t, TRAIN)
      <3>1. /\ StageFailed(memHist[t], TRAIN) \in SUBSET Entry
            /\ Targeted(StageFailed(memHist[t], TRAIN)) <=> Targeted(memHist[t])
        BY <1>h, StageNumbers, HistoryTypes, TargetedAfter
      <3> QED BY <1>0, <1>p, <2>1, <2>3, <2>4, <2>5, <3>1, CommitKeeps DEF Fail, PastTarget
    <2>6. CASE TaskCommit(t, Held(t), StageDone(memHist[t], TRAIN), "awaiting_training", "done")
      <3>1. /\ StageDone(memHist[t], TRAIN) \in SUBSET Entry
            /\ Targeted(StageDone(memHist[t], TRAIN)) <=> Targeted(memHist[t])
        BY <1>h, StageNumbers, HistoryTypes, TargetedAfter
      <3> QED BY <1>0, <2>1, <2>3, <2>4, <2>6, <3>1, CommitKeeps DEF PastTarget
    <2> QED BY <1>4, <2>5, <2>6 DEF TrainAssign
  <1>5. CASE TrainNobody(t)
    <2> DEFINE d == StageDone(memHist[t], TRAIN)
               h == StageStart(d, MEASURE)
    <2>1. pc[t] = "training" /\ op' = op /\ seenAsg' = seenAsg
          /\ asg' = asg /\ exposures' = exposures
      BY <1>5 DEF TrainNobody, At, reqs, people
    <2>2. d \in SUBSET Entry /\ (Targeted(d) <=> Targeted(memHist[t]))
      BY <1>h, StageNumbers, HistoryTypes, TargetedAfter
    <2>3. h \in SUBSET Entry /\ (Targeted(h) <=> Targeted(memHist[t]))
      BY <2>2, StageNumbers, OtherStages, HistoryTypes, TargetedAfter
    <2>4. Return(t) \/ TaskCommit(t, Held(t), h, "running", "measuring")
      BY <1>5 DEF TrainNobody
    <2>5. CASE Return(t)
      BY <1>0, <2>1, <2>5, ReturnKeeps DEF Gone
    <2>6. CASE TaskCommit(t, Held(t), h, "running", "measuring")
      <3> HIDE DEF h
      <3> QED BY <1>0, <2>1, <2>3, <2>6, CommitKeeps DEF PastTarget, Holds
    <2> QED BY <2>4, <2>5, <2>6
  <1> QED BY <1>1, <1>2, <1>3, <1>4, <1>5 DEF RunnerStep

LEMMA MeasureKeeps ==
    ASSUME RunTypes, OneTargetRun, NEW t \in Tasks,
           (t \in Measures /\ MeasureStart(t)) \/ MeasureStep(t)
    PROVE  OneTargetRun'
  <1>h. memHist[t] \in SUBSET Entry /\ hist \in SUBSET Entry
    BY DEF RunTypes
  <1>p. Ended(t) \in {"none", "done"}
    BY DEF Ended
  <1>r. Runners \subseteq Tasks
    BY DEF Tasks
  <1>1. asg' = asg /\ exposures' = exposures /\ op' = op /\ seenAsg' = seenAsg
    BY DEF MeasureStep, MeasureStart, MeasureDone, FeedbackStart, FeedbackDone, people, reqs
  <1>2. \A u \in Runners, e \in Emps :
           (asg'[<<u, e>>] # "none" \/ <<u, e>> \in exposures') => Holds(u)
    BY <1>1 DEF Holds
  <1>c. ASSUME pc[t] \in PastTarget, NEW h \in SUBSET Entry,
               Targeted(h) <=> Targeted(memHist[t]), NEW s,
               NEW p \in {"measured", "feeding", "none", "done"},
               TaskCommit(t, Held(t), h, s, p)
        PROVE  OneTargetRun'
    <2>1. p \in PastTarget \cup {"none", "done"} /\ p \notin {"targeting", "targeted", "training"}
      BY DEF PastTarget
    <2> QED BY <1>1, <1>2, <1>c, <2>1, CommitKeeps
  <1>f. ASSUME pc[t] \in PastTarget, NEW s \in INGEST..FEEDBACK, Fail(t, s)
        PROVE  OneTargetRun'
    BY <1>h, <1>p, <1>c, <1>f, HistoryTypes, TargetedAfter DEF Fail
  <1>3. CASE t \in Measures /\ MeasureStart(t)
    <2>1. pc[t] = "queued" /\ t # Pipeline
      BY <1>3, LoopRunAssumption DEF MeasureStart, At
    <2>2. Targeted(hist)
      BY <1>3, <2>1 DEF OneTargetRun, TargetOnRecord
    <2>3. CASE Return(t)
      BY <1>1, <2>1, <2>3, ReturnKeeps DEF Gone
    <2>4. CASE TaskCommit(t, Fresh, StageStart(hist, MEASURE), "running", "measuring")
      <3>1. Targeted(StageStart(hist, MEASURE))
        BY <1>h, <2>2, StageNumbers, TargetedAfter
      <3>2. /\ pc' = [pc EXCEPT ![t] = "measuring"] /\ hist' = StageStart(hist, MEASURE)
            /\ memHist' = [memHist EXCEPT ![t] = hist']
        BY <2>4 DEF TaskCommit, Fresh
      <3>3. Targeted(hist') <=> Targeted(hist)
        BY <2>2, <3>1, <3>2
      <3>4. CopiesAgree'
        <4> SUFFICES ASSUME NEW u \in Tasks, pc'[u] \in Live
                     PROVE  Targeted(memHist'[u]) <=> Targeted(hist')
          BY DEF CopiesAgree, Live, Targeted
        <4>1. CASE u = t
          BY <3>2, <4>1 DEF RunTypes
        <4>2. CASE u # t
          BY <3>2, <3>3, <4>2 DEF RunTypes, OneTargetRun, CopiesAgree, Live
        <4> QED BY <4>1, <4>2
      <3>5. \A u \in Runners : Holds(u)' => Holds(u)
        BY <1>1, <1>r, <3>2 DEF Holds, RunTypes
      <3> QED BY <1>1, <2>1, <2>2, <3>2, <3>3, <3>4, <3>5, CarryOnKeeps DEF PastTarget
    <2> QED BY <1>3, <2>3, <2>4 DEF MeasureStart
  <1>4. CASE MeasureDone(t)
    <2>1. pc[t] \in PastTarget
      BY <1>4 DEF MeasureDone, At, PastTarget
    <2>2. CASE Fail(t, MEASURE)
      BY <1>f, <2>1, <2>2, StageNumbers
    <2>3. CASE Advance(t, StageDone(memHist[t], MEASURE), "measured")
      BY <1>h, <1>c, <2>1, <2>3, StageNumbers, HistoryTypes, TargetedAfter DEF Advance
    <2> QED BY <1>4, <2>2, <2>3 DEF MeasureDone
  <1>5. CASE FeedbackStart(t)
    <2>1. pc[t] \in PastTarget
      BY <1>5 DEF FeedbackStart, At, PastTarget
    <2>2. /\ StageStart(memHist[t], FEEDBACK) \in SUBSET Entry
          /\ Targeted(StageStart(memHist[t], FEEDBACK)) <=> Targeted(memHist[t])
      BY <1>h, StageNumbers, OtherStages, HistoryTypes, TargetedAfter
    <2> QED BY <1>5, <1>c, <2>1, <2>2 DEF FeedbackStart, Advance
  <1>6. CASE FeedbackDone(t)
    <2>1. pc[t] \in PastTarget
      BY <1>6 DEF FeedbackDone, At, PastTarget
    <2>2. CASE Fail(t, FEEDBACK)
      BY <1>f, <2>1, <2>2, StageNumbers
    <2>3. CASE TaskCommit(t, Held(t), StageDone(memHist[t], FEEDBACK), "completed", Ended(t))
      BY <1>h, <1>p, <1>c, <2>1, <2>3, StageNumbers, HistoryTypes, TargetedAfter
    <2> QED BY <1>6, <2>2, <2>3 DEF FeedbackDone
  <1> QED BY <1>3, <1>4, <1>5, <1>6 DEF MeasureStep

\* A request leaves the record alone; it may submit one task, a measurement
\* only once TARGET is on record.
LEMMA RequestEffect ==
    ASSUME RunTypes, OneTargetRun, hist' = hist, memHist' = memHist,
           exposures' = exposures, status' \in {status, "running"},
           \/ pc' = pc
           \/ /\ pc[Pipeline] \notin BeforeGate
              /\ \E t \in Resumes \cup Measures :
                    Submit(t) /\ (t \in Measures => Targeted(hist)),
           \A s \in Slots : op'[s] \in {op[s], "idle", "hook"},
           DutiesExist',
           \A a \in AsgIds : asg'[a] # "none" => asg[a] # "none"
    PROVE  OneTargetRun'
  <1>0. Pipeline \in Tasks /\ Measures \subseteq Tasks /\ Runners \subseteq Tasks
    BY DEF Tasks, Runners
  <1>1. \A u \in Tasks : pc'[u] = pc[u] \/ (pc[u] = "none" /\ pc'[u] = "queued" /\ u # Pipeline)
    BY LoopRunAssumption DEF Submit, RunTypes
  <1>2. \A u \in Runners : Holds(u)' => Holds(u)
    BY <1>0, <1>1 DEF Holds, AsgIds
  <1>3. OnlyPipelinePrepares'
    BY <1>1 DEF OneTargetRun, OnlyPipelinePrepares
  <1>4. AloneBeforeGate'
    <2> SUFFICES ASSUME pc'[Pipeline] \in BeforeGate PROVE AloneBeforeGate'
      BY DEF AloneBeforeGate
    <2>1. pc[Pipeline] \in BeforeGate /\ pc' = pc
      BY <1>0, <1>1
    <2> QED BY <2>1 DEF OneTargetRun, AloneBeforeGate
  <1>5. TargetOnRecord'
    <2>1. CASE Targeted(hist)
      BY <2>1 DEF TargetOnRecord, Targeted
    <2>2. CASE ~Targeted(hist)
      <3>1. \A u \in Tasks : pc'[u] \notin PastTarget
        BY <1>1, <2>2 DEF OneTargetRun, TargetOnRecord, PastTarget
      <3>2. \A m \in Measures : pc'[m] = "none"
        <4>1. \A m \in Measures : pc[m] = "none"
          BY <2>2 DEF OneTargetRun, TargetOnRecord
        <4>2. CASE pc' = pc
          BY <4>1, <4>2
        <4>3. CASE \E t \in Resumes : Submit(t)
          BY <1>0, <4>1, <4>3, LoopRunAssumption DEF Submit, RunTypes
        <4> QED BY <2>2, <4>2, <4>3
      <3>3. \A u \in Runners : ~Holds(u)'
        BY <1>2, <2>2 DEF OneTargetRun, TargetOnRecord
      <3> QED BY <2>2, <3>1, <3>2, <3>3 DEF OneTargetRun, TargetOnRecord
    <2> QED BY <2>1, <2>2
  <1>6. CopiesAgree'
    BY <1>1 DEF OneTargetRun, CopiesAgree, BeforeGate, PastTarget, Targeted
  <1>7. OneHolder' /\ \A s \in Slots : op'[s] # "reject"
    BY <1>2 DEF OneTargetRun, OneHolder
  <1> QED BY <1>3, <1>4, <1>5, <1>6, <1>7 DEF OneTargetRun

LEMMA ReadKeeps ==
    ASSUME "reject" \notin Handlers, RunTypes, RestTypes, OneTargetRun,
           NEW r \in Slots, Read(r)
    PROVE  OneTargetRun'
  <1>1. PICK o \in Ops, as \in SUBSET AsgIds :
           /\ op' = [op EXCEPT ![r] = o]
           /\ seenAsg' = [seenAsg EXCEPT ![r] = as]
           /\ UNCHANGED <<runRow, summary, people, gate, work, env>>
           /\ o # "reject"
           /\ o = "approve" => status = "awaiting_approval"
           /\ o = "force" => status = "awaiting_training"
           /\ \A a \in as : asg[a] # "none"
    <2>0. Open \subseteq AsgIds /\ \A a \in Open : asg[a] # "none"
      BY DEF Open, OpenStatus
    <2>1. CASE ReadApprove(r)
      <3>1. Load(r, "approve", {}, module, {}) /\ status = "awaiting_approval"
        BY <2>1 DEF ReadApprove
      <3>2. {} \in SUBSET AsgIds /\ (\A b \in {} : asg[b] # "none") /\ "approve" \in Ops
        BY DEF Ops
      <3> QED BY <3>1, <3>2 DEF Load
    <2>2. CASE ReadReject(r)
      BY <2>2 DEF ReadReject, Idle
    <2>3. CASE ReadReview(r)
      <3>1. PICK d \in {"review_ok", "review_no"} : Load(r, d, {}, module, {})
        BY <2>3 DEF ReadReview
      <3>2. {} \in SUBSET AsgIds /\ \A b \in {} : asg[b] # "none"
        OBVIOUS
      <3>3. d \in Ops /\ d \notin {"reject", "approve", "force"}
        BY <3>1 DEF Ops
      <3> QED BY <3>1, <3>2, <3>3 DEF Load
    <2>4. CASE ReadForce(r)
      <3>1. Load(r, "force", {}, "none", Open) /\ status = "awaiting_training"
        BY <2>4 DEF ReadForce
      <3>2. Open \in SUBSET AsgIds /\ "force" \in Ops
        BY <2>0 DEF Ops
      <3> QED BY <2>0, <3>1, <3>2 DEF Load
    <2>5. CASE ReadStart(r)
      <3>1. PICK a \in AsgIds : asg[a] = "assigned" /\ Load(r, "start", {}, "none", {a})
        BY <2>5 DEF ReadStart
      <3>2. {a} \in SUBSET AsgIds /\ \A b \in {a} : asg[b] # "none"
        BY <3>1
      <3> QED BY <3>1, <3>2 DEF Load, Ops
    <2>6. CASE ReadComplete(r)
      <3>1. PICK a \in Open : Load(r, "complete", {}, "none", {a})
        BY <2>6 DEF ReadComplete
      <3>2. {a} \in SUBSET AsgIds /\ \A b \in {a} : asg[b] # "none"
        BY <2>0, <3>1
      <3> QED BY <3>1, <3>2 DEF Load, Ops
    <2> QED BY <2>1, <2>2, <2>3, <2>4, <2>5, <2>6 DEF Read
  <1>2. /\ status' = status /\ hist' = hist /\ pc' = pc /\ memHist' = memHist
        /\ asg' = asg /\ exposures' = exposures
    BY <1>1 DEF runRow, work, people
  <1>3. \A s \in Slots : op'[s] = op[s] \/ op'[s] = o
    BY <1>1 DEF RestTypes
  <1>4. OnlyPipelinePrepares' /\ CopiesAgree' /\ OneHolder'
    BY <1>2 DEF OneTargetRun, OnlyPipelinePrepares, CopiesAgree, OneHolder, Holds, Targeted
  <1>5. AloneBeforeGate'
    BY <1>1, <1>2, <1>3 DEF OneTargetRun, AloneBeforeGate
  <1>6. TargetOnRecord'
    BY <1>1, <1>2, <1>3 DEF OneTargetRun, TargetOnRecord, Holds, Targeted
  <1>7. DutiesExist'
    <2> SUFFICES ASSUME NEW s \in Slots, NEW a \in seenAsg'[s] PROVE asg[a] # "none"
      BY <1>2 DEF DutiesExist
    <2>1. seenAsg'[s] = seenAsg[s] \/ seenAsg'[s] = as
      BY <1>1 DEF RestTypes
    <2> QED BY <1>1, <2>1 DEF OneTargetRun, DutiesExist
  <1> QED BY <1>1, <1>3, <1>4, <1>5, <1>6, <1>7 DEF OneTargetRun

LEMMA CommitOpKeeps ==
    ASSUME RunTypes, RestTypes, OneTargetRun, NEW r \in Slots, Commit(r) \/ RequestDies(r)
    PROVE  OneTargetRun'
  <1>1. op[r] # "reject"
    BY DEF OneTargetRun
  <1>2. hist' = hist /\ memHist' = memHist /\ exposures' = exposures /\ status' \in {status, "running"}
    BY <1>1 DEF Commit, CommitApprove, CommitReject, CommitReview, CommitForce, CommitStart,
       CommitComplete, OnAssignmentCompleted, RequestDies, Submit, runRow, people, work
  <1>3. \A s \in Slots : op'[s] \in {op[s], "idle", "hook"}
    BY <1>1 DEF Commit, CommitApprove, CommitReject, CommitReview, CommitForce, CommitStart,
       CommitComplete, OnAssignmentCompleted, RequestDies, Release, RestTypes
  <1>4. \A s \in Slots : seenAsg'[s] \in {seenAsg[s], {}}
    BY <1>1 DEF Commit, CommitApprove, CommitReject, CommitReview, CommitForce, CommitStart,
       CommitComplete, OnAssignmentCompleted, RequestDies, Release, RestTypes
  <1>5. /\ asg' \in [AsgIds -> AsgStatus]
        /\ \A a \in AsgIds : asg'[a] # "none" <=> asg[a] # "none"
    <2>1. \A a \in seenAsg[r] : asg[a] # "none"
      BY DEF OneTargetRun, DutiesExist
    <2>2. CASE asg' = asg
      BY <2>2 DEF RestTypes
    <2>3. ASSUME NEW v \in {"expired", "in_progress", "completed"},
                 asg' = [a \in AsgIds |-> IF a \in seenAsg[r] THEN v ELSE asg[a]]
          PROVE  /\ asg' \in [AsgIds -> AsgStatus]
                 /\ \A a \in AsgIds : asg'[a] # "none" <=> asg[a] # "none"
      BY <2>1, <2>3 DEF RestTypes, AsgStatus, OpenStatus, Settled
    <2> QED BY <1>1, <2>2, <2>3 DEF Commit, CommitApprove, CommitReject, CommitReview,
          CommitForce, CommitStart, CommitComplete, OnAssignmentCompleted, RequestDies, people
  <1>6. DutiesExist'
    <2> SUFFICES ASSUME NEW s \in Slots, NEW a \in seenAsg'[s] PROVE asg'[a] # "none"
      BY DEF DutiesExist
    <2>1. a \in seenAsg[s] /\ a \in AsgIds
      BY <1>4 DEF RestTypes
    <2> QED BY <1>5, <2>1 DEF OneTargetRun, DutiesExist
  <1>7. \/ pc' = pc
        \/ /\ pc[Pipeline] \notin BeforeGate
           /\ \E t \in Resumes \cup Measures : Submit(t) /\ (t \in Measures => Targeted(hist))
    <2>1. CASE CommitApprove(r)
      <3>1. op[r] = "approve" /\ \E t \in Resumes : Submit(t)
        BY <2>1 DEF CommitApprove
      <3> QED BY <3>1, LoopRunAssumption DEF OneTargetRun, AloneBeforeGate
    <2>2. CASE CommitForce(r)
      <3>1. op[r] = "force" /\ \E m \in Measures : Submit(m)
        BY <2>2 DEF CommitForce
      <3> QED BY <3>1 DEF OneTargetRun, AloneBeforeGate, TargetOnRecord
    <2>3. CASE OnAssignmentCompleted(r)
      <3>1. CASE status = "awaiting_training" /\ \E m \in Measures : Submit(m)
        BY <3>1 DEF OneTargetRun, AloneBeforeGate, TargetOnRecord
      <3>2. CASE UNCHANGED work
        BY <3>2 DEF work
      <3> QED BY <2>3, <3>1, <3>2 DEF OnAssignmentCompleted, LastAnswer
    <2>4. CASE CommitReview(r) \/ CommitStart(r) \/ CommitComplete(r) \/ RequestDies(r)
      BY <2>4 DEF CommitReview, CommitStart, CommitComplete, RequestDies, work
    <2> QED BY <1>1, <2>1, <2>2, <2>3, <2>4 DEF Commit, CommitReject
  <1> QED BY <1>2, <1>3, <1>5, <1>6, <1>7, RequestEffect

LEMMA RestartKeeps ==
    ASSUME RunTypes, OneTargetRun, Restart
    PROVE  OneTargetRun'
  <1>0. Runners \subseteq Tasks /\ Measures \subseteq Tasks /\ Pipeline \in Tasks
    BY DEF Tasks, Runners
  <1>1. /\ Targeted(hist') <=> Targeted(hist)
        /\ status' # "awaiting_training" \/ status' = status
    BY TargetedRecovered DEF Restart, RunTypes, runRow
  <1>2. /\ \A t \in Tasks : pc'[t] \in {"none", "done"}
        /\ \A t \in Tasks : pc[t] = "none" => pc'[t] = "none"
        /\ pc[Pipeline] # "none" => pc'[Pipeline] = "done"
    BY <1>0, LoopRunAssumption DEF Restart, Ended
  <1>3. /\ \A r \in Slots : op'[r] = "idle" /\ seenAsg'[r] = {}
        /\ asg' = asg /\ exposures' = exposures
    BY DEF Restart, people
  <1>4. \A t \in Runners : Holds(t)' => Holds(t)
    BY <1>0, <1>2, <1>3 DEF Holds
  <1>5. AloneBeforeGate' /\ OnlyPipelinePrepares' /\ CopiesAgree'
    BY <1>0, <1>2 DEF AloneBeforeGate, OnlyPipelinePrepares, CopiesAgree, BeforeGate, PastTarget
  <1>6. TargetOnRecord'
    <2>1. CASE Targeted(hist)
      BY <1>1, <2>1 DEF TargetOnRecord, Targeted
    <2>2. CASE ~Targeted(hist)
      <3>1. \A t \in Tasks : pc'[t] \notin PastTarget
        BY <1>2 DEF PastTarget
      <3>2. \A m \in Measures : pc'[m] = "none"
        BY <1>0, <1>2, <2>2 DEF OneTargetRun, TargetOnRecord
      <3>3. \A t \in Runners : ~Holds(t)'
        BY <1>4, <2>2 DEF OneTargetRun, TargetOnRecord
      <3> QED BY <1>1, <1>3, <2>2, <3>1, <3>2, <3>3 DEF OneTargetRun, TargetOnRecord
    <2> QED BY <2>1, <2>2
  <1> QED BY <1>3, <1>4, <1>5, <1>6 DEF OneTargetRun, OneHolder, DutiesExist

LEMMA InitKeeps == Init => OneTargetRun
  <1> SUFFICES ASSUME Init PROVE OneTargetRun
    OBVIOUS
  <1>0. /\ Runners \subseteq Tasks /\ Measures \subseteq Tasks /\ Pipeline \in Tasks
        /\ Pipeline \notin Measures
    BY LoopRunAssumption DEF Tasks, Runners
  <1>1. \A t \in Tasks : pc[t] = IF t = Pipeline THEN "queued" ELSE "none"
    BY DEF Init
  <1>2. \A t \in Runners : ~Holds(t)
    BY <1>0, <1>1 DEF Init, Holds, AsgIds
  <1>3. TargetOnRecord
    BY <1>0, <1>1, <1>2 DEF Init, TargetOnRecord, PastTarget
  <1> QED BY <1>0, <1>1, <1>2, <1>3
      DEF Init, OneTargetRun, OnlyPipelinePrepares, AloneBeforeGate, CopiesAgree, DutiesExist,
          OneHolder, BeforeGate, PastTarget

\* If no two tasks ever held something, no employee got anything from two.
LEMMA OneHolderIsEnough == OneTargetRun => TargetedOnce
  BY DEF OneTargetRun, OneHolder, Holds, TargetedOnce

\* One task runs TARGET, and every copy of the run knows whether it did: the
\* invariant behind _target_and_train's check of stage_history.
THEOREM Alone ==
    ASSUME "reject" \notin Handlers
    PROVE  Spec => []OneTargetRun
  <1>1. TypeOK /\ OneTargetRun /\ [Next]_vars => OneTargetRun'
    <2> SUFFICES ASSUME TypeOK, OneTargetRun, [Next]_vars PROVE OneTargetRun'
      OBVIOUS
    <2> RunTypes /\ RestTypes
      BY TypeHalves
    <2>1. CASE PipelineStep
      BY <2>1, PreparingKeeps
    <2>2. CASE \E t \in Runners : RunnerStep(t)
      BY <2>2, RunnerKeeps
    <2>3. CASE (\E m \in Measures : MeasureStart(m)) \/ (\E t \in Tasks : MeasureStep(t))
      BY <2>3, MeasureKeeps DEF Tasks
    <2>4. CASE \E r \in Slots : Read(r)
      BY <2>4, ReadKeeps
    <2>5. CASE \E r \in Slots : Commit(r) \/ RequestDies(r)
      BY <2>5, CommitOpKeeps
    <2>6. CASE \E t \in Tasks : TaskDies(t)
      BY <2>6, ReturnKeeps DEF TaskDies, people, reqs
    <2>7. CASE Restart
      BY <2>7, RestartKeeps
    <2>8. CASE UNCHANGED vars
      BY <2>8 DEF vars, runRow, people, work, reqs, OneTargetRun, OnlyPipelinePrepares,
         AloneBeforeGate, TargetOnRecord, CopiesAgree, DutiesExist, OneHolder, Holds, Targeted,
         StageAlreadyRan
    <2> QED
      BY <2>1, <2>2, <2>3, <2>4, <2>5, <2>6, <2>7, <2>8 DEF Next, TaskStep
  <1> QED BY <1>1, InitKeeps, Typing, PTL DEF Spec

\* However many approvals, completions, crashes and errors overlap, and as
\* long as nobody rejects, nobody is charged exposure or assigned twice.
THEOREM NobodyTwice ==
    ASSUME "reject" \notin Handlers
    PROVE  Spec => []TargetedOnce
  BY Alone, OneHolderIsEnough, PTL

=============================================================================
