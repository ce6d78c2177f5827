-------------------------- MODULE LoopSerial_proofs --------------------------
(***************************************************************************)
(* What TLAPS proves of LoopRun and LoopScreens for every number of        *)
(* employees, tasks, restarts and errors: while the requests on a run are  *)
(* served one at a time, and, at the end of the module, what is left of it *)
(* when they overlap.                                                      *)
(***************************************************************************)
EXTENDS LoopSerial, LoopRun_proofs

-----------------------------------------------------------------------------
(* The histories. *)

Stage == INGEST..FEEDBACK

\* Opening and closing the next stage leads from one shape to the next.
LEMMA StageByStage ==
    ASSUME NEW k \in ANALYZE..FEEDBACK
    PROVE  /\ StageStart(Through(k - 1), k) = Inside(k)
           /\ StageDone(Inside(k), k) = Through(k)
           /\ StageFailed(Inside(k), k) = BrokenAt(k)
  <1> USE DEF INGEST, ANALYZE, FEEDBACK
  <1>1. StageStart(Through(k - 1), k) = Inside(k)
    BY DEF StageStart, Inside
  <1>2. <<k, "in_progress">> \notin Through(k - 1)
    BY DEF Through
  <1>3. Inside(k) \ {<<k, "in_progress">>} = Through(k - 1)
    BY <1>2 DEF Inside
  <1>4. Through(k - 1) \cup {<<k, "completed">>} = Through(k)
    <2>1. \A s : s \in 1..k <=> s \in 1..(k - 1) \/ s = k
      OBVIOUS
    <2> QED BY <2>1 DEF Through
  <1>5. <<k, "in_progress">> \in Inside(k)
    BY DEF Inside
  <1> QED BY <1>1, <1>3, <1>4, <1>5 DEF StageDone, StageFailed, StageClose, BrokenAt

\* Which stages a shape has on record, and whether MEASURE completed.
LEMMA OnRecord ==
    ASSUME NEW k \in Stage, NEW h \in {Through(k), Inside(k), BrokenAt(k)}
    PROVE  /\ \A s \in Stage : StageAlreadyRan(h, s) <=> s <= k
           /\ <<MEASURE, "completed">> \in h => MEASURE <= k
  <1> USE DEF INGEST, FEEDBACK, MEASURE, Stage
  <1>1. ASSUME NEW s \in Stage PROVE StageAlreadyRan(h, s) <=> s <= k
    <2>1. CASE s < k
      <3>1. <<s, "completed">> \in h /\ <<s, "completed">>[1] = s
        BY <2>1 DEF Through, Inside, BrokenAt
      <3> QED BY <3>1, <2>1 DEF StageAlreadyRan
    <2>2. CASE s = k
      <3>1. k \in 1..k /\ \A o : <<k, o>>[1] = k
        OBVIOUS
      <3>2. <<k, "completed">> \in h \/ <<k, "in_progress">> \in h \/ <<k, "failed">> \in h
        BY <3>1 DEF Through, Inside, BrokenAt
      <3> QED BY <3>1, <3>2, <2>2 DEF StageAlreadyRan
    <2>3. CASE s > k
      <3>1. \A e \in h : e[1] \in 1..k
        BY DEF Through, Inside, BrokenAt
      <3> QED BY <3>1, <2>3 DEF StageAlreadyRan
    <2> QED BY <2>1, <2>2, <2>3
  <1>2. <<MEASURE, "completed">> \in h => MEASURE <= k
    BY DEF Through, Inside, BrokenAt
  <1> QED BY <1>1, <1>2

LEMMA Recovery ==
    ASSUME NEW k \in Stage
    PROVE  /\ Recovered(Through(k)) = Through(k)
           /\ Recovered(Inside(k)) = BrokenAt(k)
           /\ Recovered(BrokenAt(k)) = BrokenAt(k)
  <1>1. ASSUME NEW h, \A e \in h : e[2] # "in_progress"
        PROVE  Recovered(h) = h
    BY <1>1 DEF Recovered
  <1>2. \A j : \A e \in Through(j) : e[2] # "in_progress"
    BY DEF Through
  <1>3. \A e \in BrokenAt(k) : e[2] # "in_progress"
    BY <1>2 DEF BrokenAt
  <1>4. Recovered(Inside(k)) = BrokenAt(k)
    <2>1. \A x \in Inside(k) : x[2] = "in_progress" <=> x = <<k, "in_progress">>
      BY <1>2 DEF Inside
    <2>2. ASSUME NEW y
          PROVE  y \in Recovered(Inside(k)) <=> y \in Through(k - 1) \/ y = <<k, "failed">>
      <3>1. y \in Recovered(Inside(k))
              <=> \/ y \in Inside(k) /\ y[2] # "in_progress"
                  \/ \E x \in Inside(k) : x[2] = "in_progress" /\ y = <<x[1], "failed">>
        BY DEF Recovered
      <3>2. y \in Inside(k) /\ y[2] # "in_progress" <=> y \in Through(k - 1)
        BY <1>2 DEF Inside
      <3>3. <<k, "in_progress">> \in Inside(k) /\ <<k, "in_progress">>[1] = k
        BY DEF Inside
      <3> QED BY <3>1, <3>2, <3>3, <2>1
    <2>3. \A y : y \in BrokenAt(k) <=> y \in Through(k - 1) \/ y = <<k, "failed">>
      BY DEF BrokenAt
    <2> QED BY <2>2, <2>3
  <1> QED BY <1>1, <1>2, <1>3, <1>4

LEMMA RejectedRecord ==
    /\ \A s \in Stage : StageAlreadyRan(RejectedAtGate, s) <=> s <= CONVERT
    /\ <<MEASURE, "completed">> \notin RejectedAtGate
    /\ Recovered(RejectedAtGate) = RejectedAtGate
  <1>1. \A e \in RejectedAtGate : e[1] \in INGEST..CONVERT
    BY DEF RejectedAtGate, Through, INGEST, CONVERT
  <1>2. \A s \in INGEST..CONVERT : <<s, "completed">> \in RejectedAtGate
    BY DEF RejectedAtGate, Through
  <1>3. Recovered(RejectedAtGate) = RejectedAtGate
    <2>1. \A e \in RejectedAtGate : e[2] # "in_progress"
      BY DEF RejectedAtGate, Through
    <2> QED BY <2>1 DEF Recovered
  <1> QED
    BY <1>1, <1>2, <1>3 DEF StageAlreadyRan, INGEST, CONVERT, MEASURE, Stage, FEEDBACK

-----------------------------------------------------------------------------
(* One worker at a time. *)

\* No task but t is at work.
SoleWorker(t) == \A u \in Tasks : Active(u) => u = t

\* A commit of the task that holds the run writes what it says.
LEMMA Committed ==
    ASSUME OneWorker, NEW t \in Tasks, Active(t), NEW loaded \in {Held(t), Fresh},
           loaded = Fresh \/ pc[t] # "queued",
           NEW h, NEW s, NEW p, TaskCommit(t, loaded, h, s, p)
    PROVE  /\ hist' = h /\ status' = s
           /\ pc' = [pc EXCEPT ![t] = p]
           /\ memHist' = [memHist EXCEPT ![t] = hist']
           /\ memStatus' = [memStatus EXCEPT ![t] = status']
  <1>1. loaded.hist = hist /\ loaded.status = status
    BY DEF OneWorker, CopyFits, Held, Fresh
  <1> QED BY <1>1 DEF TaskCommit

\* The task goes on, or leaves a run that is not running any more.
LEMMA WorkerGoesOn ==
    ASSUME RunTypes, OneWorker, NEW t \in Tasks, SoleWorker(t), NEW p \in Pc \ {"queued"},
           pc' = [pc EXCEPT ![t] = p],
           memHist' = [memHist EXCEPT ![t] = hist'],
           memStatus' = [memStatus EXCEPT ![t] = status'],
           IF p \in Gone THEN status' # "running"
                         ELSE status' = "running" /\ HistoryFits(t)'
    PROVE  OneWorker'
  <1>1. /\ pc'[t] = p /\ memHist'[t] = hist' /\ memStatus'[t] = status'
        /\ \A u \in Tasks : u # t => pc'[u] = pc[u]
    BY DEF RunTypes
  <1>2. \A u \in Tasks : Active(u)' => u = t
    BY <1>1 DEF SoleWorker, Active
  <1>3. Active(t)' <=> p \notin Gone
    BY <1>1 DEF Active
  <1>4. CASE p \in Gone
    BY <1>2, <1>3, <1>4 DEF OneWorker
  <1>5. CASE p \notin Gone
    <2>1. CopyFits(t)'
      BY <1>1, <1>5 DEF CopyFits
    <2> QED BY <1>2, <1>3, <1>5, <2>1 DEF OneWorker
  <1> QED BY <1>4, <1>5

\* Requests wait while a task moves the run on.
LEMMA RequestsWait ==
    ASSUME RequestFits, status = "running", UNCHANGED reqs,
           Open \subseteq Open',
           StageAlreadyRan(hist, MEASURE) => StageAlreadyRan(hist, MEASURE)' /\ Open' = Open
    PROVE  RequestFits'
  <1> SUFFICES ASSUME NEW r \in Slots
               PROVE  /\ op[r] \notin {"approve", "reject"}
                      /\ op[r] \in {"start", "complete", "force"} => seenAsg[r] \subseteq Open'
                      /\ op[r] = "force" => seenAsg[r] = Open' /\ TrainingOver'
    BY DEF RequestFits, reqs
  <1>1. op[r] \notin {"approve", "reject"}
    BY DEF RequestFits
  <1>2. op[r] \in {"start", "complete", "force"} => seenAsg[r] \subseteq Open
    BY DEF RequestFits
  <1>3. op[r] = "force" => seenAsg[r] = Open /\ StageAlreadyRan(hist, MEASURE)
    BY DEF RequestFits, TrainingOver
  <1> QED BY <1>1, <1>2, <1>3 DEF TrainingOver

\* A step of the task that holds the run and touches nobody: the history goes
\* from stage j on to stage k, and what follows from it still follows.
LEMMA QuietStep ==
    ASSUME RunTypes, RestTypes, SerialInv,
           NEW t \in Tasks, SoleWorker(t), status = "running", pc[t] \notin Gone,
           NEW j \in Stage, NEW k \in Stage, j <= k,
           hist \in {Through(j), Inside(j)},
           hist' \in {Through(k), Inside(k), BrokenAt(k)},
           NEW p \in Pc \ {"queued"}, pc' = [pc EXCEPT ![t] = p],
           p = "none" => t \in Measures,
           OneWorker', StatusFits', ApprovalStands',
           status' # "awaiting_training",
           UNCHANGED <<people, reqs, env>>,
           p = "approved" => auto,
           j < TARGET /\ TARGET <= k => t \notin Measures /\ (auto \/ t \in Resumes),
           p \in {"targeting", "targeted", "training"}
              => pc[t] \in {"targeting", "targeted", "training"} \/ ~Targeted(hist),
           MEASURE <= k => Open = {} /\ TARGET <= j,
           p \in {"measured", "feeding"} => summary'.taken,
           <<MEASURE, "completed">> \in hist => <<MEASURE, "completed">> \in hist',
           \/ summary' = summary
           \/ /\ summary' = [taken |-> TRUE, completed |-> {a \in AsgIds : asg[a] = "completed"}]
              /\ <<MEASURE, "completed">> \in hist'
    PROVE  SerialInv'
  <1> USE DEF SerialInv
  <1>s. TARGET \in Stage /\ MEASURE \in Stage /\ TARGET < MEASURE
    BY DEF TARGET, MEASURE, Stage, INGEST, FEEDBACK
  <1>0. /\ pc'[t] = p /\ \A u \in Tasks : u # t => pc'[u] = pc[u]
        /\ Pipeline \in Tasks /\ Resumes \subseteq Tasks /\ Measures \subseteq Tasks
        /\ Resumes \cap Measures = {}
    BY LoopRunAssumption DEF RunTypes, Tasks, Runners
  <1>1. asg' = asg /\ exposures' = exposures /\ charges' = charges /\ Open' = Open
    BY DEF people, Open
  <1>2. /\ Targeted(hist) <=> TARGET <= j
        /\ Targeted(hist') <=> TARGET <= k
        /\ StageAlreadyRan(hist, MEASURE) <=> MEASURE <= j
        /\ StageAlreadyRan(hist', MEASURE) <=> MEASURE <= k
    BY <1>s, OnRecord DEF Targeted
  <1>3. LetThrough'
    <2>1. \A u \in Resumes : pc[u] # "none" => pc'[u] # "none"
      BY <1>0
    <2>2. pc'[Pipeline] = "approved" => auto
      BY <1>0 DEF LetThrough
    <2>3. TARGET <= k => auto \/ \E u \in Resumes : pc'[u] # "none"
      <3>1. CASE TARGET <= j
        BY <1>2, <2>1, <3>1 DEF LetThrough
      <3>2. CASE j < TARGET
        BY <1>0, <3>2 DEF Gone
      <3> QED BY <3>1, <3>2, <1>s DEF Stage, INGEST, FEEDBACK
    <2> QED BY <1>2, <2>2, <2>3 DEF LetThrough, env, Targeted
  <1>4. PeopleFit'
    <2>1. ASSUME TARGET > k PROVE \A m \in Measures : pc'[m] = "none"
      <3>1. ~Targeted(hist)
        BY <1>2, <1>s, <2>1 DEF Stage, INGEST, FEEDBACK
      <3>2. \A m \in Measures : pc[m] = "none" /\ m # t
        BY <3>1 DEF PeopleFit, Gone
      <3> QED BY <1>0, <3>2
    <2>2. ASSUME TARGET > k PROVE \A a \in AsgIds : ~Touched(a)
      BY <1>2, <1>s, <2>2 DEF PeopleFit, Stage, INGEST, FEEDBACK
    <2>3. ASSUME NEW u \in Tasks, pc'[u] \in {"targeting", "targeted", "training"}
          PROVE  \A a \in AsgIds : asg[a] = "none" /\ (a \in exposures => a[1] = u)
      <3>1. CASE pc[u] \in {"targeting", "targeted", "training"}
        BY <3>1 DEF PeopleFit
      <3>2. CASE ~Targeted(hist)
        BY <3>2 DEF PeopleFit, Touched
      <3> QED BY <1>0, <2>3, <3>1, <3>2
    <2> QED BY <1>1, <1>2, <1>s, <2>1, <2>2, <2>3 DEF PeopleFit, Touched, Targeted, Stage, INGEST, FEEDBACK
  <1>5. MeasureFits'
    <2>1. ASSUME NEW m \in Measures, pc'[m] # "none"
          PROVE  Open = {} /\ MEASURE <= k
      <3>1. CASE m = t
        <4>1. pc[t] # "none"
          BY DEF Gone
        <4>2. TrainingOver /\ Open = {}
          BY <3>1, <4>1 DEF MeasureFits
        <4> QED BY <4>2, <1>2, <1>s DEF TrainingOver, Stage, INGEST, FEEDBACK
      <3>2. CASE m # t
        <4>1. TrainingOver /\ Open = {}
          BY <1>0, <2>1, <3>2 DEF MeasureFits
        <4> QED BY <4>1, <1>2, <1>s DEF TrainingOver, Stage, INGEST, FEEDBACK
      <3> QED BY <3>1, <3>2
    <2>2. \A u \in Tasks : pc'[u] \in {"measured", "feeding"} => summary'.taken
      BY <1>0 DEF MeasureFits
    <2>3. summary'.taken => <<MEASURE, "completed">> \in hist'
      BY DEF MeasureFits
    <2> QED BY <1>1, <1>2, <2>1, <2>2, <2>3 DEF MeasureFits, TrainingOver
  <1>6. RequestFits'
    <2>1. StageAlreadyRan(hist, MEASURE) => StageAlreadyRan(hist', MEASURE)
      BY <1>2, <1>s DEF Stage, INGEST, FEEDBACK
    <2> QED BY <1>1, <2>1, RequestsWait DEF StageAlreadyRan
  <1>7. SettledOnce'
    BY <1>1 DEF SettledOnce
  <1>8. ReportStands'
    <2>1. CASE summary' = summary
      BY <1>1, <2>1 DEF ReportStands
    <2>2. CASE summary' # summary
      <3>1. MEASURE <= k
        BY <2>2, OnRecord
      <3> QED BY <1>1, <2>2, <3>1 DEF ReportStands
    <2> QED BY <2>1, <2>2
  <1>9. Awaited'
    BY DEF Awaited, SomebodyWillMeasure
  <1> QED BY <1>3, <1>4, <1>5, <1>6, <1>7, <1>8, <1>9

LEMMA AtWork ==
    ASSUME OneWorker, NEW t \in Tasks, Active(t)
    PROVE  /\ SoleWorker(t) /\ status = "running" /\ HistoryFits(t) /\ pc[t] \notin Gone
           /\ pc[t] # "queued" => memHist[t] = hist /\ memStatus[t] = "running"
  BY DEF OneWorker, CopyFits, SoleWorker, Active

\* While a task works, no other waits for its turn at the run.
LEMMA NoneQueued ==
    ASSUME RunTypes, NEW t \in Tasks, SoleWorker(t), NEW p \in Pc \ {"queued"},
           pc' = [pc EXCEPT ![t] = p]
    PROVE  ApprovalStands'
  <1>1. Resumes \subseteq Tasks /\ Resumes \cap Measures = {}
    BY LoopRunAssumption DEF Tasks, Runners
  <1>2. \A u \in Resumes : pc'[u] # "queued"
    BY <1>1 DEF RunTypes, SoleWorker, Active, Gone
  <1> QED BY <1>2 DEF ApprovalStands

LEMMA Shaped ==
    ASSUME NEW k \in Stage, NEW h \in {Through(k), Inside(k), BrokenAt(k)}
    PROVE  WellShaped(h)
  BY DEF WellShaped, Stage

\* The two ways a quiet step of the working task may end: it works on ...
LEMMA GoesOn ==
    ASSUME RunTypes, RestTypes, SerialInv, NEW t \in Tasks, Active(t),
           NEW j \in Stage, NEW k \in Stage, j <= k,
           hist \in {Through(j), Inside(j)},
           NEW h \in {Through(k), Inside(k)},
           NEW loaded \in {Held(t), Fresh}, loaded = Fresh \/ pc[t] # "queued",
           NEW p \in Pc \ (Gone \cup {"queued"}),
           TaskCommit(t, loaded, h, "running", p),
           pc'[t] = p /\ hist' = h => HistoryFits(t)',
           UNCHANGED <<people, reqs, env>>,
           p = "approved" => auto,
           j < TARGET /\ TARGET <= k => t \notin Measures /\ (auto \/ t \in Resumes),
           p \in {"targeting", "targeted", "training"}
              => pc[t] \in {"targeting", "targeted", "training"} \/ ~Targeted(hist),
           MEASURE <= k => Open = {} /\ TARGET <= j,
           p \in {"measured", "feeding"} => summary'.taken,
           <<MEASURE, "completed">> \in hist => <<MEASURE, "completed">> \in h,
           \/ summary' = summary
           \/ /\ summary' = [taken |-> TRUE, completed |-> {a \in AsgIds : asg[a] = "completed"}]
              /\ <<MEASURE, "completed">> \in h
    PROVE  SerialInv'
  <1> OneWorker
    BY DEF SerialInv
  <1>1. /\ hist' = h /\ status' = "running" /\ pc' = [pc EXCEPT ![t] = p]
        /\ memHist' = [memHist EXCEPT ![t] = hist']
        /\ memStatus' = [memStatus EXCEPT ![t] = status']
    BY Committed
  <1>2. SoleWorker(t) /\ status = "running" /\ pc[t] \notin Gone
    BY AtWork
  <1>3. pc'[t] = p
    BY <1>1 DEF RunTypes
  <1>4. OneWorker'
    BY <1>1, <1>2, <1>3, WorkerGoesOn
  <1>5. StatusFits'
    BY <1>1, Shaped DEF StatusFits
  <1>6. ApprovalStands'
    BY <1>1, <1>2, NoneQueued
  <1>7. p # "none" /\ p \in Pc \ {"queued"}
    BY DEF Gone
  <1>8. hist' \in {Through(k), Inside(k), BrokenAt(k)} /\ status' # "awaiting_training"
    BY <1>1
  <1>9. \/ summary' = summary
        \/ /\ summary' = [taken |-> TRUE, completed |-> {a \in AsgIds : asg[a] = "completed"}]
           /\ <<MEASURE, "completed">> \in hist'
    BY <1>1
  <1>10. <<MEASURE, "completed">> \in hist => <<MEASURE, "completed">> \in hist'
    BY <1>1
  <1> QED
    BY <1>1, <1>2, <1>4, <1>5, <1>6, <1>7, <1>8, <1>9, <1>10, QuietStep

\* ... or it is done with the run.
LEMMA Leaves ==
    ASSUME RunTypes, RestTypes, SerialInv, NEW t \in Tasks, Active(t), pc[t] # "queued",
           NEW j \in Stage, NEW k \in Stage, j <= k,
           hist \in {Through(j), Inside(j)},
           NEW h \in {Through(k), BrokenAt(k)},
           NEW s \in {"failed", "completed", "awaiting_approval"},
           TaskCommit(t, Held(t), h, s, Ended(t)),
           s = "awaiting_approval" => h = Through(CONVERT),
           s = "completed" => \/ h = Through(CONVERT)
                              \/ h = Through(FEEDBACK) /\ summary.taken,
           UNCHANGED <<summary, people, reqs, env>>,
           j < TARGET => k < TARGET,
           MEASURE <= k => Open = {},
           <<MEASURE, "completed">> \in hist => <<MEASURE, "completed">> \in h
    PROVE  SerialInv'
  <1> OneWorker
    BY DEF SerialInv
  <1>p. Ended(t) \in Pc \ {"queued"} /\ Ended(t) \in Gone /\ (Ended(t) = "none" => t \in Measures)
    BY DEF Ended, Pc, Gone
  <1>g. Gone \cap {"approved", "targeting", "targeted", "training", "measured", "feeding"} = {}
    BY DEF Gone
  <1> DEFINE p == Ended(t)
  <1>1. /\ hist' = h /\ status' = s /\ pc' = [pc EXCEPT ![t] = p]
        /\ memHist' = [memHist EXCEPT ![t] = hist']
        /\ memStatus' = [memStatus EXCEPT ![t] = status']
    BY Committed
  <1>2. SoleWorker(t) /\ status = "running" /\ pc[t] \notin Gone
    BY AtWork
  <1>4. OneWorker'
    BY <1>1, <1>2, <1>p, WorkerGoesOn
  <1>5. StatusFits'
    BY <1>1, Shaped DEF StatusFits
  <1>6. ApprovalStands'
    BY <1>1, <1>2, <1>p, NoneQueued
  <1>8. hist' \in {Through(k), Inside(k), BrokenAt(k)} /\ status' # "awaiting_training"
    BY <1>1
  <1>10. <<MEASURE, "completed">> \in hist => <<MEASURE, "completed">> \in hist'
    BY <1>1
  <1>11. MEASURE <= k => TARGET <= j
    BY DEF MEASURE, TARGET, Stage, INGEST, FEEDBACK
  <1>12. ~(j < TARGET /\ TARGET <= k)
    BY DEF TARGET, Stage, INGEST, FEEDBACK
  <1> HIDE DEF p
  <1> QED
    BY <1>1, <1>2, <1>4, <1>5, <1>6, <1>8, <1>10, <1>11, <1>12, <1>p, <1>g, QuietStep DEF p

-----------------------------------------------------------------------------
(* The tasks. *)

LEMMA StageOrdinals ==
    /\ INGEST = 1 /\ ANALYZE = 2 /\ CONVERT = 3 /\ TARGET = 4 /\ TRAIN = 5
    /\ MEASURE = 6 /\ FEEDBACK = 7 /\ Stage = 1..7
  BY DEF INGEST, ANALYZE, CONVERT, TARGET, TRAIN, MEASURE, FEEDBACK, Stage

\* What the histories of the stages are to each other, stage by stage.
LEMMA Histories ==
    /\ \A k \in 2..7 : /\ StageStart(Through(k - 1), k) = Inside(k)
                       /\ StageDone(Inside(k), k) = Through(k)
                       /\ StageFailed(Inside(k), k) = BrokenAt(k)
    /\ StageStart(Through(1), 2) = Inside(2)
    /\ StageStart(Through(2), 3) = Inside(3)
    /\ StageStart(Through(3), 4) = Inside(4)
    /\ StageStart(Through(4), 5) = Inside(5)
    /\ StageStart(Through(5), 6) = Inside(6)
    /\ StageStart(Through(6), 7) = Inside(7)
  <1>1. \A k \in 2..7 : /\ StageStart(Through(k - 1), k) = Inside(k)
                        /\ StageDone(Inside(k), k) = Through(k)
                        /\ StageFailed(Inside(k), k) = BrokenAt(k)
    BY StageByStage, StageOrdinals
  <1>2. 2 - 1 = 1 /\ 3 - 1 = 2 /\ 4 - 1 = 3 /\ 5 - 1 = 4 /\ 6 - 1 = 5 /\ 7 - 1 = 6
    OBVIOUS
  <1>3. 2 \in 2..7 /\ 3 \in 2..7 /\ 4 \in 2..7 /\ 5 \in 2..7 /\ 6 \in 2..7 /\ 7 \in 2..7
    OBVIOUS
  <1> HIDE <1>1
  <1>4. /\ StageStart(Through(2 - 1), 2) = Inside(2)
        /\ StageStart(Through(3 - 1), 3) = Inside(3)
        /\ StageStart(Through(4 - 1), 4) = Inside(4)
        /\ StageStart(Through(5 - 1), 5) = Inside(5)
        /\ StageStart(Through(6 - 1), 6) = Inside(6)
        /\ StageStart(Through(7 - 1), 7) = Inside(7)
    BY <1>1, <1>3
  <1> QED BY <1>1, <1>2, <1>4

\* MEASURE is not completed in the histories before it is.
LEMMA NotMeasured ==
    /\ \A k \in 1..5 : /\ <<MEASURE, "completed">> \notin Through(k)
                       /\ <<MEASURE, "completed">> \notin Inside(k)
    /\ <<MEASURE, "completed">> \notin Inside(6)
  <1>1. \A k \in 1..5 : /\ <<MEASURE, "completed">> \notin Through(k)
                        /\ <<MEASURE, "completed">> \notin Inside(k)
    BY DEF Through, Inside, MEASURE, INGEST
  <1>2. <<MEASURE, "completed">> \notin Inside(6)
    BY DEF Through, Inside, MEASURE, INGEST
  <1> QED BY <1>1, <1>2

\* A stage that fails closes the run and hurts nobody.
LEMMA FailsQuietly ==
    ASSUME RunTypes, RestTypes, SerialInv, NEW t \in Tasks, Active(t), pc[t] # "queued",
           NEW k \in ANALYZE..FEEDBACK, hist = Inside(k), Fail(t, k),
           UNCHANGED <<summary, people, reqs, env>>
    PROVE  SerialInv'
  <1> USE StageOrdinals
  <1> OneWorker
    BY DEF SerialInv
  <1>1. memHist[t] = Inside(k) /\ k \in Stage
    BY AtWork
  <1>2. TaskCommit(t, Held(t), BrokenAt(k), "failed", Ended(t))
    BY <1>1, Histories DEF Fail
  <1>3. MEASURE <= k => Open = {}
    BY <1>1, OnRecord DEF SerialInv, MeasureFits
  <1>4. <<MEASURE, "completed">> \in hist => <<MEASURE, "completed">> \in BrokenAt(k)
    BY DEF Inside, BrokenAt
  <1> QED BY <1>1, <1>2, <1>3, <1>4, Leaves

LEMMA PipelineSerial ==
    ASSUME RunTypes, RestTypes, SerialInv, PipelineStep
    PROVE  SerialInv'
  <1> DEFINE t == Pipeline
  <1> USE StageOrdinals
  <1>0. t \in Tasks /\ t \notin Measures /\ Ended(t) = "done"
    BY LoopRunAssumption DEF Tasks, Runners, Ended
  <1> OneWorker
    BY DEF SerialInv
  <1>p. {"analyzing", "analyzed", "benign", "converting", "converted", "approved"}
          \subseteq Pc \ (Gone \cup {"queued"})
    BY DEF Pc, Suspended, MidStretch, Gone
  <1>1. CASE AnalyzeStart
    <2>1. pc[t] = "queued" /\ Active(t)
      BY <1>0, <1>1 DEF AnalyzeStart, At, Active, Gone
    <2>2. hist = Through(1) /\ status = "running"
      BY <1>0, <2>1, AtWork DEF HistoryFits
    <2>3. TaskCommit(t, Fresh, Inside(2), "running", "analyzing")
      BY <1>1, <2>2, Histories DEF AnalyzeStart
    <2>4. UNCHANGED <<people, reqs, env>> /\ summary' = summary
      BY <1>1 DEF AnalyzeStart
    <2>5. pc'[t] = "analyzing" /\ hist' = Inside(2) => HistoryFits(t)'
      BY DEF HistoryFits
    <2>6. <<MEASURE, "completed">> \notin hist
      BY <2>2, NotMeasured
    <2> QED BY <1>0, <1>p, <2>1, <2>2, <2>3, <2>4, <2>5, <2>6, GoesOn
  <1>2. CASE AnalyzeDone
    <2>1. pc[t] = "analyzing" /\ Active(t)
      BY <1>0, <1>2 DEF AnalyzeDone, At, Active, Gone
    <2>2. hist = Inside(2) /\ memHist[t] = hist /\ memStatus[t] = "running"
      BY <1>0, <2>1, AtWork DEF HistoryFits
    <2>3. UNCHANGED <<people, reqs, env>> /\ summary' = summary
      BY <1>2 DEF AnalyzeDone
    <2>4. CASE Fail(t, ANALYZE)
      BY <1>0, <2>1, <2>2, <2>3, <2>4, FailsQuietly
    <2>5. ASSUME NEW v \in {"analyzed", "benign"}, Advance(t, StageDone(memHist[t], ANALYZE), v)
          PROVE  SerialInv'
      <3>1. TaskCommit(t, Held(t), Through(2), "running", v)
        BY <2>2, <2>5, Histories DEF Advance
      <3>2. pc'[t] = v /\ hist' = Through(2) => HistoryFits(t)'
        BY DEF HistoryFits
      <3>3. <<MEASURE, "completed">> \notin hist
        BY <2>2, NotMeasured
      <3> QED BY <1>0, <1>p, <2>1, <2>2, <2>3, <3>1, <3>2, <3>3, GoesOn
    <2> QED BY <1>2, <2>4, <2>5 DEF AnalyzeDone
  <1>3. CASE BenignClose
    <2>1. pc[t] = "benign" /\ Active(t)
      BY <1>0, <1>3 DEF BenignClose, At, Active, Gone
    <2>2. hist = Through(2) /\ memHist[t] = hist
      BY <1>0, <2>1, AtWork DEF HistoryFits
    <2>3. TaskCommit(t, Held(t), Through(3), "completed", Ended(t))
      BY <1>0, <1>3, <2>2, Histories DEF BenignClose
    <2>4. UNCHANGED <<summary, people, reqs, env>>
      BY <1>3 DEF BenignClose
    <2>5. <<MEASURE, "completed">> \notin hist
      BY <2>2, NotMeasured
    <2> QED BY <1>0, <2>1, <2>2, <2>3, <2>4, <2>5, Leaves
  <1>4. CASE ConvertStart
    <2>1. pc[t] = "analyzed" /\ Active(t)
      BY <1>0, <1>4 DEF ConvertStart, At, Active, Gone
    <2>2. hist = Through(2) /\ memHist[t] = hist /\ memStatus[t] = "running"
      BY <1>0, <2>1, AtWork DEF HistoryFits
    <2>3. TaskCommit(t, Held(t), Inside(3), "running", "converting")
      BY <1>4, <2>2, Histories DEF ConvertStart, Advance
    <2>4. UNCHANGED <<people, reqs, env>> /\ summary' = summary
      BY <1>4 DEF ConvertStart
    <2>5. pc'[t] = "converting" /\ hist' = Inside(3) => HistoryFits(t)'
      BY DEF HistoryFits
    <2>6. <<MEASURE, "completed">> \notin hist
      BY <2>2, NotMeasured
    <2> QED BY <1>0, <1>p, <2>1, <2>2, <2>3, <2>4, <2>5, <2>6, GoesOn
  <1>5. CASE ConvertDone
    <2>1. pc[t] = "converting" /\ Active(t)
      BY <1>0, <1>5 DEF ConvertDone, At, Active, Gone
    <2>2. hist = Inside(3) /\ memHist[t] = hist /\ memStatus[t] = "running"
      BY <1>0, <2>1, AtWork DEF HistoryFits
    <2>3. UNCHANGED <<people, reqs, env>> /\ summary' = summary
      BY <1>5 DEF ConvertDone
    <2>4. CASE Fail(t, CONVERT)
      BY <1>0, <2>1, <2>2, <2>3, <2>4, FailsQuietly
    <2>5. CASE Advance(t, StageDone(memHist[t], CONVERT), "converted")
      <3>1. TaskCommit(t, Held(t), Through(3), "running", "converted")
        BY <2>2, <2>5, Histories DEF Advance
      <3>2. pc'[t] = "converted" /\ hist' = Through(3) => HistoryFits(t)'
        BY DEF HistoryFits
      <3>3. <<MEASURE, "completed">> \notin hist
        BY <2>2, NotMeasured
      <3> QED BY <1>0, <1>p, <2>1, <2>2, <2>3, <3>1, <3>2, <3>3, GoesOn
    <2> QED BY <1>5, <2>4, <2>5 DEF ConvertDone
  <1>6. CASE ReachGate
    <2>1. pc[t] = "converted" /\ Active(t)
      BY <1>0, <1>6 DEF ReachGate, At, Active, Gone
    <2>2. hist = Through(3) /\ memHist[t] = hist /\ memStatus[t] = "running"
      BY <1>0, <2>1, AtWork DEF HistoryFits
    <2>3. UNCHANGED <<people, reqs, env>> /\ summary' = summary
      BY <1>6 DEF ReachGate
    <2>4. <<MEASURE, "completed">> \notin hist
      BY <2>2, NotMeasured
    <2>5. CASE auto /\ Advance(t, memHist[t], "approved")
      <3>1. TaskCommit(t, Held(t), Through(3), "running", "approved")
        BY <2>2, <2>5 DEF Advance
      <3>2. pc'[t] = "approved" /\ hist' = Through(3) => HistoryFits(t)'
        BY DEF HistoryFits
      <3> QED BY <1>0, <1>p, <2>1, <2>2, <2>3, <2>4, <2>5, <3>1, <3>2, GoesOn
    <2>6. CASE TaskCommit(t, Held(t), memHist[t], "awaiting_approval", "done")
      <3>1. TaskCommit(t, Held(t), Through(3), "awaiting_approval", Ended(t))
        BY <1>0, <2>2, <2>6
      <3> QED BY <1>0, <2>1, <2>2, <2>3, <2>4, <3>1, Leaves
    <2> QED BY <1>6, <2>5, <2>6 DEF ReachGate
  <1> QED BY <1>1, <1>2, <1>3, <1>4, <1>5, <1>6 DEF PipelineStep

\* A step in which TARGET or TRAIN hands something to employees: nobody had
\* anything before, and nobody is waited for yet.
LEMMA TouchStep ==
    ASSUME RunTypes, RestTypes, SerialInv,
           NEW t \in Runners, Active(t), pc[t] \in {"targeting", "training"},
           NEW k \in {TARGET, TRAIN}, hist = Inside(k),
           hist' \in {Through(k), BrokenAt(k)},
           NEW p \in {"targeted", "done"}, pc' = [pc EXCEPT ![t] = p],
           OneWorker', StatusFits', ApprovalStands',
           UNCHANGED <<summary, charges, reqs, env>>,
           asg' \in [AsgIds -> AsgStatus],
           p = "targeted" => asg' = asg,
           \A a \in AsgIds : Touched(a)' => Touched(a) \/ a[1] = t,
           \A a \in AsgIds : asg'[a] \in {asg[a], "assigned"},
           status' = "awaiting_training" => \E a \in AsgIds : asg'[a] = "assigned"
    PROVE  SerialInv'
  <1> USE StageOrdinals
  <1>0. /\ t \in Tasks /\ t \notin Measures /\ Runners \subseteq Tasks /\ Measures \subseteq Tasks
        /\ Pipeline \in Tasks /\ Resumes \subseteq Tasks
    BY LoopRunAssumption DEF Tasks, Runners
  <1>1. status = "running" /\ SoleWorker(t) /\ k \in Stage
    BY <1>0, AtWork DEF SerialInv
  <1>2. /\ Targeted(hist) /\ Targeted(hist')
        /\ ~StageAlreadyRan(hist, MEASURE) /\ ~StageAlreadyRan(hist', MEASURE)
        /\ <<MEASURE, "completed">> \notin hist
    BY <1>1, OnRecord, NotMeasured DEF Targeted
  <1>3. /\ \A a \in AsgIds : asg[a] = "none" /\ (Touched(a) => a[1] = t)
        /\ ~summary.taken /\ \A m \in Measures : pc[m] = "none"
    <2>1. \A a \in AsgIds : asg[a] = "none" /\ (a \in exposures => a[1] = t)
      BY <1>0 DEF SerialInv, PeopleFit
    <2>2. ~TrainingOver
      BY <1>1, <1>2 DEF TrainingOver
    <2> QED BY <1>2, <2>1, <2>2 DEF SerialInv, MeasureFits, Touched
  <1>4. /\ pc'[t] = p /\ \A u \in Tasks : u # t => pc'[u] = pc[u]
        /\ \A m \in Measures : pc'[m] = "none"
    BY <1>0, <1>3 DEF RunTypes
  <1>5. LetThrough'
    <2>1. \A u \in Resumes : pc[u] # "none" => pc'[u] # "none"
      BY <1>0, <1>4
    <2>2. pc'[Pipeline] = "approved" => auto
      BY <1>0, <1>4 DEF SerialInv, LetThrough
    <2>3. auto \/ \E u \in Resumes : pc[u] # "none"
      BY <1>2 DEF SerialInv, LetThrough
    <2> QED BY <2>1, <2>2, <2>3 DEF LetThrough, env
  <1>6. PeopleFit'
    <2>1. \A a, b \in AsgIds : Touched(a)' /\ Touched(b)' => a[1] = b[1]
      BY <1>3
    <2>2. ASSUME NEW u \in Tasks, pc'[u] \in {"targeting", "targeted", "training"}
          PROVE  \A a \in AsgIds : asg'[a] = "none" /\ (a \in exposures' => a[1] = u)
      <3>1. u = t
        <4>1. CASE u # t
          <5>1. Active(u)
            BY <1>0, <1>3, <1>4, <2>2, <4>1 DEF Active, Gone
          <5> QED BY <1>1, <5>1 DEF SoleWorker
        <4> QED BY <4>1
      <3>2. p = "targeted"
        BY <1>4, <2>2, <3>1
      <3> QED BY <1>3, <3>1, <3>2 DEF Touched
    <2> QED BY <1>2, <2>1, <2>2 DEF PeopleFit, Targeted, Touched
  <1>7. MeasureFits'
    <2>1. ASSUME NEW u \in Tasks, pc'[u] \in {"measured", "feeding"} PROVE FALSE
      <3>1. u # t /\ pc[u] = pc'[u]
        BY <1>4, <2>1
      <3>2. summary.taken
        BY <2>1, <3>1 DEF SerialInv, MeasureFits
      <3> QED BY <1>3, <3>2
    <2> QED BY <1>2, <1>3, <1>4, <2>1 DEF MeasureFits, StageAlreadyRan
  <1>8. RequestFits'
    <2>1. Open = {}
      BY <1>3 DEF Open, OpenStatus
    <2> QED BY <1>1, <1>2, <2>1, RequestsWait DEF SerialInv
  <1>9. SettledOnce'
    BY <1>3 DEF SerialInv, SettledOnce, Settled
  <1>10. ReportStands'
    BY <1>3 DEF ReportStands
  <1>11. Awaited'
    BY DEF Awaited, SomebodyWillMeasure, Open, OpenStatus
  <1> QED BY <1>5, <1>6, <1>7, <1>8, <1>9, <1>10, <1>11 DEF SerialInv

\* A task that was let through finds TARGET undone and its approval standing.
LEMMA TargetStartSerial ==
    ASSUME RunTypes, RestTypes, SerialInv, NEW t \in Runners, TargetStart(t)
    PROVE  SerialInv'
  <1> USE StageOrdinals
  <1>0. t \in Tasks /\ t \notin Measures /\ (t = Pipeline \/ t \in Resumes)
    BY LoopRunAssumption DEF Tasks, Runners
  <1>1. /\ pc[t] = IF t = Pipeline THEN "approved" ELSE "queued"
        /\ Active(t)
    BY <1>0 DEF TargetStart, At, Active, Gone
  <1>2. hist = Through(3) /\ status = "running"
    BY <1>0, <1>1, AtWork DEF SerialInv, HistoryFits
  <1>3. ~Targeted(hist) /\ <<MEASURE, "completed">> \notin hist
    BY <1>2, OnRecord, NotMeasured DEF Targeted
  <1>4. GateSeen(t) = "approved"
    BY <1>0, <1>1 DEF GateSeen, SerialInv, ApprovalStands
  <1>5. ~TargetRefused(t)
    BY <1>2, <1>3, <1>4 DEF TargetRefused, Targeted
  <1>6. TaskCommit(t, Fresh, Inside(4), "running", "targeting")
    BY <1>2, <1>5, Histories DEF TargetStart
  <1>7. UNCHANGED <<people, reqs, env>> /\ summary' = summary
    BY DEF TargetStart
  <1>8. pc'[t] = "targeting" /\ hist' = Inside(4) => HistoryFits(t)'
    BY DEF HistoryFits
  <1>9. auto \/ t \in Resumes
    BY <1>0, <1>1 DEF SerialInv, LetThrough
  <1>10. "targeting" \in Pc \ (Gone \cup {"queued"}) /\ "targeting" # "approved"
         /\ "targeting" \notin {"measured", "feeding"}
    BY DEF Pc, Suspended, Gone
  <1> QED BY <1>0, <1>1, <1>2, <1>3, <1>6, <1>7, <1>8, <1>9, <1>10, GoesOn

LEMMA TargetDoneSerial ==
    ASSUME RunTypes, RestTypes, SerialInv, NEW t \in Runners, TargetDone(t)
    PROVE  SerialInv'
  <1> USE StageOrdinals
  <1> OneWorker
    BY DEF SerialInv
  <1>0. t \in Tasks /\ t \notin Measures /\ Ended(t) = "done"
    BY LoopRunAssumption DEF Tasks, Runners, Ended
  <1>1. pc[t] = "targeting" /\ Active(t)
    BY <1>0 DEF TargetDone, At, Active, Gone
  <1>2. hist = Inside(4) /\ memHist[t] = hist /\ memStatus[t] = "running" /\ SoleWorker(t)
    BY <1>0, <1>1, AtWork DEF HistoryFits
  <1>3. /\ UNCHANGED <<asg, summary, charges, reqs, env>>
        /\ \A a \in AsgIds : Touched(a)' => Touched(a) \/ a[1] = t
    <2>1. PICK reached \in SUBSET Emps : exposures' = exposures \cup ({t} \X reached)
      BY DEF TargetDone
    <2>2. UNCHANGED <<asg, summary, charges, reqs, env>>
      BY DEF TargetDone
    <2> QED BY <2>1, <2>2 DEF Touched
  <1>4. asg' \in [AsgIds -> AsgStatus] /\ \A a \in AsgIds : asg'[a] \in {asg[a], "assigned"}
    BY <1>3 DEF RestTypes
  <1>5. CASE Fail(t, TARGET)
    <2>1. TaskCommit(t, Held(t), BrokenAt(4), "failed", "done")
      BY <1>0, <1>2, <1>5, Histories DEF Fail
    <2>2. /\ hist' = BrokenAt(4) /\ status' = "failed" /\ pc' = [pc EXCEPT ![t] = "done"]
          /\ memHist' = [memHist EXCEPT ![t] = hist']
          /\ memStatus' = [memStatus EXCEPT ![t] = status']
      BY <1>0, <1>1, <2>1, Committed
    <2>3. "done" \in Pc \ {"queued"} /\ "done" \in Gone
      BY DEF Pc, Gone
    <2>4. OneWorker' /\ ApprovalStands'
      BY <1>0, <1>2, <2>2, <2>3, WorkerGoesOn, NoneQueued
    <2>5. StatusFits'
      BY <2>2, Shaped DEF StatusFits
    <2> QED BY <1>1, <1>2, <1>3, <1>4, <2>2, <2>4, <2>5, TouchStep
  <1>6. CASE Advance(t, StageDone(memHist[t], TARGET), "targeted")
    <2>1. TaskCommit(t, Held(t), Through(4), "running", "targeted")
      BY <1>2, <1>6, Histories DEF Advance
    <2>2. /\ hist' = Through(4) /\ status' = "running" /\ pc' = [pc EXCEPT ![t] = "targeted"]
          /\ memHist' = [memHist EXCEPT ![t] = hist']
          /\ memStatus' = [memStatus EXCEPT ![t] = status']
      BY <1>0, <1>1, <2>1, Committed
    <2>3. "targeted" \in Pc \ {"queued"} /\ "targeted" \notin Gone
      BY DEF Pc, MidStretch, Gone
    <2>4. HistoryFits(t)'
      BY <1>0, <2>2 DEF HistoryFits, RunTypes
    <2>5. OneWorker' /\ ApprovalStands'
      BY <1>0, <1>2, <2>2, <2>3, <2>4, WorkerGoesOn, NoneQueued
    <2>6. StatusFits'
      BY <2>2, Shaped DEF StatusFits
    <2> QED BY <1>1, <1>2, <1>3, <1>4, <2>2, <2>5, <2>6, TouchStep
  <1> QED BY <1>5, <1>6 DEF TargetDone

LEMMA TrainAssignSerial ==
    ASSUME RunTypes, RestTypes, SerialInv, NEW t \in Runners, TrainAssign(t)
    PROVE  SerialInv'
  <1> USE StageOrdinals
  <1> OneWorker
    BY DEF SerialInv
  <1>0. t \in Tasks /\ t \notin Measures /\ Ended(t) = "done"
    BY LoopRunAssumption DEF Tasks, Runners, Ended
  <1>1. pc[t] = "training" /\ Active(t)
    BY <1>0 DEF TrainAssign, At, Active, Gone
  <1>2. hist = Inside(5) /\ memHist[t] = hist /\ memStatus[t] = "running" /\ SoleWorker(t)
    BY <1>0, <1>1, AtWork DEF HistoryFits
  <1>3. UNCHANGED <<exposures, summary, charges, reqs, env>>
    BY DEF TrainAssign
  <1>4. ASSUME NEW who \in SUBSET memTargets[t], Assign(t, who)
        PROVE  /\ asg' \in [AsgIds -> AsgStatus]
               /\ \A a \in AsgIds : asg'[a] \in {asg[a], "assigned"}
               /\ \A a \in AsgIds : Touched(a)' => Touched(a) \/ a[1] = t
               /\ who # {} => \E a \in AsgIds : asg'[a] = "assigned"
    <2>1. who \subseteq Emps
      BY <1>0 DEF RestTypes
    <2>2. \A a \in AsgIds : asg'[a] = IF a \in {t} \X who THEN "assigned" ELSE asg[a]
      BY <1>4 DEF Assign
    <2>3. asg' \in [AsgIds -> AsgStatus]
      BY <1>4 DEF Assign, RestTypes, AsgStatus, OpenStatus
    <2>4. ASSUME NEW a \in AsgIds, Touched(a)' PROVE Touched(a) \/ a[1] = t
      <3>1. exposures' = exposures
        BY <1>3
      <3>2. a \in {t} \X who => a[1] = t
        OBVIOUS
      <3> QED BY <2>2, <2>4, <3>1, <3>2 DEF Touched
    <2>5. ASSUME NEW e \in who PROVE \E a \in AsgIds : asg'[a] = "assigned"
      <3>1. <<t, e>> \in AsgIds /\ <<t, e>> \in {t} \X who
        BY <2>1 DEF AsgIds
      <3> QED BY <2>2, <3>1
    <2> QED BY <2>2, <2>3, <2>4, <2>5
  <1>p. "done" \in Pc \ {"queued"} /\ "done" \in Gone
    BY DEF Pc, Gone
  <1>5. CASE Assign(t, memTargets[t])
             /\ TaskCommit(t, Held(t), StageDone(memHist[t], TRAIN), "awaiting_training", "done")
    <2>1. TaskCommit(t, Held(t), Through(5), "awaiting_training", "done")
      BY <1>2, <1>5, Histories
    <2>2. /\ hist' = Through(5) /\ status' = "awaiting_training" /\ pc' = [pc EXCEPT ![t] = "done"]
          /\ memHist' = [memHist EXCEPT ![t] = hist']
          /\ memStatus' = [memStatus EXCEPT ![t] = status']
      BY <1>0, <1>1, <2>1, Committed
    <2>3. OneWorker' /\ ApprovalStands'
      BY <1>0, <1>2, <1>p, <2>2, WorkerGoesOn, NoneQueued
    <2>4. StatusFits'
      BY <2>2, Shaped DEF StatusFits
    <2>5. memTargets[t] # {}
      BY DEF TrainAssign
    <2> QED BY <1>1, <1>2, <1>3, <1>4, <1>5, <2>2, <2>3, <2>4, <2>5, TouchStep
  <1>6. ASSUME NEW pending \in SUBSET memTargets[t], Assign(t, pending), Fail(t, TRAIN)
        PROVE  SerialInv'
    <2>1. TaskCommit(t, Held(t), BrokenAt(5), "failed", "done")
      BY <1>0, <1>2, <1>6, Histories DEF Fail
    <2>2. /\ hist' = BrokenAt(5) /\ status' = "failed" /\ pc' = [pc EXCEPT ![t] = "done"]
          /\ memHist' = [memHist EXCEPT ![t] = hist']
          /\ memStatus' = [memStatus EXCEPT ![t] = status']
      BY <1>0, <1>1, <2>1, Committed
    <2>3. OneWorker' /\ ApprovalStands'
      BY <1>0, <1>2, <1>p, <2>2, WorkerGoesOn, NoneQueued
    <2>4. StatusFits'
      BY <2>2, Shaped DEF StatusFits
    <2> QED BY <1>1, <1>2, <1>3, <1>4, <1>6, <2>2, <2>3, <2>4, TouchStep
  <1> QED BY <1>5, <1>6 DEF TrainAssign

LEMMA RunnerSerial ==
    ASSUME RunTypes, RestTypes, SerialInv, NEW t \in Runners, RunnerStep(t)
    PROVE  SerialInv'
  <1> USE StageOrdinals
  <1> OneWorker
    BY DEF SerialInv
  <1>0. t \in Tasks /\ t \notin Measures
    BY LoopRunAssumption DEF Tasks, Runners
  <1>p. {"training", "measuring"} \subseteq Pc \ (Gone \cup {"queued"})
    BY DEF Pc, MidStretch, Gone
  <1>1. CASE TrainStart(t)
    <2>1. pc[t] = "targeted" /\ Active(t)
      BY <1>0, <1>1 DEF TrainStart, At, Active, Gone
    <2>2. hist = Through(4) /\ memHist[t] = hist /\ memStatus[t] = "running"
      BY <1>0, <2>1, AtWork DEF HistoryFits
    <2>3. TaskCommit(t, Held(t), Inside(5), "running", "training")
      BY <1>1, <2>2, Histories DEF TrainStart, Advance
    <2>4. UNCHANGED <<people, reqs, env>> /\ summary' = summary
      BY <1>1 DEF TrainStart
    <2>5. pc'[t] = "training" /\ hist' = Inside(5) => HistoryFits(t)'
      BY DEF HistoryFits
    <2>6. <<MEASURE, "completed">> \notin hist
      BY <2>2, NotMeasured
    <2> QED BY <1>0, <1>p, <2>1, <2>2, <2>3, <2>4, <2>5, <2>6, GoesOn
  <1>2. CASE TrainNobody(t)
    <2>1. pc[t] = "training" /\ Active(t)
      BY <1>0, <1>2 DEF TrainNobody, At, Active, Gone
    <2>2. hist = Inside(5) /\ memHist[t] = hist /\ memStatus[t] = "running"
      BY <1>0, <2>1, AtWork DEF HistoryFits
    <2>3. StageDone(memHist[t], TRAIN) = Through(5)
      BY <2>2, Histories
    <2>4. ~MeasureRefused(Through(5), memStatus[t])
      BY <2>2, OnRecord DEF MeasureRefused, Terminal
    <2>5. TaskCommit(t, Held(t), Inside(6), "running", "measuring")
      BY <1>2, <2>3, <2>4, Histories DEF TrainNobody
    <2>6. UNCHANGED <<people, reqs, env>> /\ summary' = summary
      BY <1>2 DEF TrainNobody
    <2>7. pc'[t] = "measuring" /\ hist' = Inside(6) => HistoryFits(t)'
      BY DEF HistoryFits
    <2>8. <<MEASURE, "completed">> \notin hist
      BY <2>2, NotMeasured
    <2>9. Open = {}
      BY <1>0, <2>1 DEF SerialInv, PeopleFit, Open, OpenStatus
    <2> QED BY <1>0, <1>p, <2>1, <2>2, <2>5, <2>6, <2>7, <2>8, <2>9, GoesOn
  <1> QED BY <1>1, <1>2, TargetStartSerial, TargetDoneSerial, TrainAssignSerial DEF RunnerStep

\* A task that ends and writes nothing: refused, or killed by an error.
LEMMA ReturnSerial ==
    ASSUME RunTypes, RestTypes, SerialInv, NEW t \in Tasks, pc[t] \notin Gone, Return(t),
           UNCHANGED <<summary, people, gate, reqs, auto, crashes>>,
           \/ errors \in Nat /\ errors' = errors + 1
           \/ /\ errors' = errors /\ ~Active(t) /\ status # "awaiting_training"
    PROVE  SerialInv'
  <1>0. /\ Resumes \subseteq Tasks /\ Measures \subseteq Tasks /\ Resumes \cap Measures = {}
        /\ Pipeline \in Tasks /\ Runners \subseteq Tasks
    BY LoopRunAssumption DEF Tasks, Runners
  <1>1. /\ hist' = hist /\ status' = status /\ memHist' = memHist /\ memStatus' = memStatus
        /\ asg' = asg /\ exposures' = exposures /\ charges' = charges
        /\ module' = module /\ op' = op /\ Open' = Open
    BY DEF Return, runRow, people, gate, reqs, Open
  <1>2. /\ pc'[t] = Ended(t) /\ Ended(t) \in Gone
        /\ t \in Resumes => Ended(t) = "done"
        /\ \A u \in Tasks : u # t => pc'[u] = pc[u]
    BY <1>0 DEF Return, RunTypes, Ended, Gone
  <1>3. \A u \in Tasks : Active(u)' <=> Active(u) /\ u # t
    BY <1>2 DEF Active
  <1>4. errors' = 0 => errors = 0 /\ ~Active(t) /\ status # "awaiting_training"
    OBVIOUS
  <1>5. OneWorker'
    <2>1. \A u \in Tasks : Active(u)' => HistoryFits(u)' /\ CopyFits(u)'
      BY <1>1, <1>2, <1>3 DEF SerialInv, OneWorker, HistoryFits, CopyFits
    <2> QED BY <1>1, <1>3, <1>4, <2>1 DEF SerialInv, OneWorker
  <1>6. StatusFits'
    BY <1>1 DEF SerialInv, StatusFits
  <1>g. \A q \in Gone : q \notin {"queued", "approved", "targeting", "targeted", "training",
                                   "measured", "feeding"}
    BY DEF Gone
  <1>7. ApprovalStands' /\ LetThrough'
    <2>1. \A u \in Resumes : pc'[u] = "queued" => pc[u] = "queued"
      BY <1>0, <1>2, <1>g
    <2>2. \A u \in Resumes : pc[u] # "none" => pc'[u] # "none"
      BY <1>0, <1>2
    <2>3. pc'[Pipeline] = "approved" => pc[Pipeline] = "approved"
      BY <1>0, <1>2, <1>g
    <2> QED BY <1>1, <2>1, <2>2, <2>3
        DEF SerialInv, ApprovalStands, LetThrough, Targeted, StageAlreadyRan
  <1>8. PeopleFit' /\ MeasureFits'
    <2>1. \A m \in Measures : pc'[m] # "none" => pc[m] # "none"
      BY <1>0, <1>2 DEF Gone
    <2>2. \A u \in Tasks : pc'[u] \in {"targeting", "targeted", "training", "measured", "feeding"}
                              => pc'[u] = pc[u]
      BY <1>2, <1>g
    <2>3. PeopleFit'
      BY <1>1, <2>1, <2>2 DEF SerialInv, PeopleFit, Touched, Targeted, StageAlreadyRan
    <2>4. MeasureFits'
      BY <1>1, <2>1, <2>2 DEF SerialInv, MeasureFits, TrainingOver, StageAlreadyRan
    <2> QED BY <2>3, <2>4
  <1>9. RequestFits' /\ SettledOnce' /\ ReportStands'
    BY <1>1 DEF SerialInv, RequestFits, SettledOnce, ReportStands, TrainingOver, reqs,
       StageAlreadyRan
  <1>10. Awaited'
    BY <1>1, <1>4 DEF Awaited, SomebodyWillMeasure
  <1> QED BY <1>5, <1>6, <1>7, <1>8, <1>9, <1>10 DEF SerialInv

\* A measurement that starts finds the run stopped for training, everybody
\* settled and no task at work.
LEMMA MeasureStartSerial ==
    ASSUME RunTypes, RestTypes, SerialInv, NEW t \in Measures, MeasureStart(t)
    PROVE  SerialInv'
  <1> USE StageOrdinals
  <1>0. /\ t \in Tasks /\ t \notin Resumes /\ t # Pipeline
        /\ Pipeline \in Tasks /\ Resumes \subseteq Tasks /\ Measures \subseteq Tasks
    BY LoopRunAssumption DEF Tasks, Runners
  <1>1. pc[t] = "queued" /\ ~Active(t) /\ pc[t] \notin Gone
    BY DEF MeasureStart, At, Active, Gone
  <1>2. TrainingOver /\ Open = {}
    BY <1>1 DEF SerialInv, MeasureFits
  <1>3. UNCHANGED <<people, gate, reqs, env>> /\ summary' = summary
    BY DEF MeasureStart
  <1>4. CASE status # "awaiting_training"
    <2>1. StageAlreadyRan(hist, MEASURE)
      BY <1>2, <1>4 DEF TrainingOver
    <2>2. Return(t)
      BY <2>1 DEF MeasureStart, MeasureRefused
    <2> QED BY <1>0, <1>1, <1>3, <1>4, <2>2, ReturnSerial DEF env
  <1>5. CASE status = "awaiting_training"
    <2>1. hist = Through(5) /\ \A u \in Tasks : ~Active(u)
      BY <1>5 DEF SerialInv, StatusFits, OneWorker, CopyFits
    <2>2. ~MeasureRefused(hist, status)
      BY <1>5, <2>1, OnRecord DEF MeasureRefused, Terminal
    <2>3. TaskCommit(t, Fresh, Inside(6), "running", "measuring")
      BY <2>1, <2>2, Histories DEF MeasureStart
    <2>4. /\ hist' = Inside(6) /\ status' = "running" /\ pc' = [pc EXCEPT ![t] = "measuring"]
          /\ memHist' = [memHist EXCEPT ![t] = hist']
          /\ memStatus' = [memStatus EXCEPT ![t] = status']
      BY <2>3 DEF TaskCommit, Fresh
    <2>5. /\ pc'[t] = "measuring" /\ \A u \in Tasks : u # t => pc'[u] = pc[u]
          /\ SoleWorker(t) /\ "measuring" \in Pc \ {"queued"} /\ "measuring" \notin Gone
      BY <1>0, <2>1, <2>4 DEF RunTypes, SoleWorker, Pc, MidStretch, Gone
    <2>6. HistoryFits(t)'
      BY <2>4, <2>5 DEF HistoryFits
    <2>7. OneWorker' /\ ApprovalStands'
      BY <1>0, <2>4, <2>5, <2>6, WorkerGoesOn, NoneQueued DEF SerialInv
    <2>8. StatusFits'
      BY <2>4, Shaped DEF StatusFits
    <2>9. /\ asg' = asg /\ exposures' = exposures /\ charges' = charges /\ Open' = Open
      BY <1>3 DEF people, Open
    <2>10. /\ Targeted(hist) /\ Targeted(hist') /\ StageAlreadyRan(hist', MEASURE)
           /\ <<MEASURE, "completed">> \notin hist
      BY <2>1, <2>4, OnRecord, NotMeasured DEF Targeted
    <2>11. LetThrough'
      <3>1. \A u \in Resumes : pc'[u] = pc[u]
        BY <1>0, <2>5
      <3>2. pc'[Pipeline] = pc[Pipeline] /\ auto' = auto
        BY <1>0, <1>3, <2>5 DEF env
      <3> QED BY <2>10, <3>1, <3>2 DEF SerialInv, LetThrough
    <2>12. PeopleFit'
      <3>1. \A u \in Tasks : pc'[u] \in {"targeting", "targeted", "training"} => pc'[u] = pc[u]
        BY <2>5
      <3> QED BY <2>9, <2>10, <3>1 DEF SerialInv, PeopleFit, Touched, Targeted
    <2>13. MeasureFits'
      <3>1. ~summary.taken
        BY <2>10 DEF SerialInv, MeasureFits
      <3>2. \A u \in Tasks : pc'[u] \in {"measured", "feeding"} => summary.taken
        BY <2>5 DEF SerialInv, MeasureFits
      <3> QED BY <1>2, <1>3, <2>9, <2>10, <3>1, <3>2 DEF MeasureFits, TrainingOver
    <2>14. RequestFits'
      <3>1. /\ op' = op /\ seenAsg' = seenAsg /\ seenModule' = seenModule /\ seenHist' = seenHist
        BY <1>3 DEF reqs
      <3> QED BY <1>5, <2>9, <2>10, <3>1 DEF SerialInv, RequestFits, TrainingOver
    <2>15. SettledOnce' /\ ReportStands'
      BY <1>3, <2>9 DEF SerialInv, SettledOnce, ReportStands
    <2>16. Awaited'
      BY <2>4 DEF Awaited, SomebodyWillMeasure
    <2> QED BY <2>7, <2>8, <2>11, <2>12, <2>13, <2>14, <2>15, <2>16 DEF SerialInv
  <1> QED BY <1>4, <1>5

LEMMA MeasureSerial ==
    ASSUME RunTypes, RestTypes, SerialInv, NEW t \in Tasks, MeasureStep(t)
    PROVE  SerialInv'
  <1> USE StageOrdinals
  <1> OneWorker
    BY DEF SerialInv
  <1>p. {"measured", "feeding"} \subseteq Pc \ (Gone \cup {"queued"})
    BY DEF Pc, MidStretch, Gone
  <1>1. CASE MeasureDone(t)
    <2>1. pc[t] = "measuring" /\ Active(t)
      BY <1>1 DEF MeasureDone, At, Active, Gone
    <2>2. hist = Inside(6) /\ memHist[t] = hist /\ memStatus[t] = "running"
      BY <2>1, AtWork DEF HistoryFits
    <2>3. UNCHANGED <<people, reqs, env>>
      BY <1>1 DEF MeasureDone
    <2>4. CASE Fail(t, MEASURE) /\ summary' = summary
      BY <2>1, <2>2, <2>3, <2>4, FailsQuietly
    <2>5. CASE /\ summary' = [taken |-> TRUE, completed |-> {a \in AsgIds : asg[a] = "completed"}]
               /\ Advance(t, StageDone(memHist[t], MEASURE), "measured")
      <3>1. TaskCommit(t, Held(t), Through(6), "running", "measured")
        BY <2>2, <2>5, Histories DEF Advance
      <3>2. pc'[t] = "measured" /\ hist' = Through(6) => HistoryFits(t)'
        BY DEF HistoryFits
      <3>3. <<MEASURE, "completed">> \in Through(6)
        BY DEF Through
      <3>4. Open = {}
        BY <2>2, OnRecord DEF SerialInv, MeasureFits
      <3>5. summary'.taken
        BY <2>5
      <3> QED BY <1>p, <2>1, <2>2, <2>3, <2>5, <3>1, <3>2, <3>3, <3>4, <3>5, GoesOn
    <2> QED BY <1>1, <2>4, <2>5 DEF MeasureDone
  <1>2. CASE FeedbackStart(t)
    <2>1. pc[t] = "measured" /\ Active(t)
      BY <1>2 DEF FeedbackStart, At, Active, Gone
    <2>2. hist = Through(6) /\ memHist[t] = hist /\ memStatus[t] = "running"
      BY <2>1, AtWork DEF HistoryFits
    <2>3. UNCHANGED <<people, reqs, env>> /\ summary' = summary
      BY <1>2 DEF FeedbackStart
    <2>4. TaskCommit(t, Held(t), Inside(7), "running", "feeding")
      BY <1>2, <2>2, Histories DEF FeedbackStart, Advance
    <2>5. pc'[t] = "feeding" /\ hist' = Inside(7) => HistoryFits(t)'
      BY DEF HistoryFits
    <2>6. <<MEASURE, "completed">> \in Inside(7)
      BY DEF Inside, Through
    <2>7. Open = {} /\ summary.taken
      BY <2>1, <2>2, OnRecord DEF SerialInv, MeasureFits
    <2> QED BY <1>p, <2>1, <2>2, <2>3, <2>4, <2>5, <2>6, <2>7, GoesOn
  <1>3. CASE FeedbackDone(t)
    <2>1. pc[t] = "feeding" /\ Active(t)
      BY <1>3 DEF FeedbackDone, At, Active, Gone
    <2>2. hist = Inside(7) /\ memHist[t] = hist /\ memStatus[t] = "running"
      BY <2>1, AtWork DEF HistoryFits
    <2>3. UNCHANGED <<summary, people, reqs, env>>
      BY <1>3 DEF FeedbackDone
    <2>4. CASE Fail(t, FEEDBACK)
      BY <2>1, <2>2, <2>3, <2>4, FailsQuietly
    <2>5. CASE TaskCommit(t, Held(t), StageDone(memHist[t], FEEDBACK), "completed", Ended(t))
      <3>1. TaskCommit(t, Held(t), Through(7), "completed", Ended(t))
        BY <2>2, <2>5, Histories
      <3>2. <<MEASURE, "completed">> \in Through(7)
        BY DEF Through
      <3>3. Open = {} /\ summary.taken
        BY <2>1, <2>2, OnRecord DEF SerialInv, MeasureFits
      <3> QED BY <2>1, <2>2, <2>3, <3>1, <3>2, <3>3, Leaves
    <2> QED BY <1>3, <2>4, <2>5 DEF FeedbackDone
  <1> QED BY <1>1, <1>2, <1>3 DEF MeasureStep

-----------------------------------------------------------------------------
(* The requests. *)

\* A submitted measurement is not at work yet, and disturbs no task.
LEMMA Queues ==
    ASSUME RunTypes, UNCHANGED work \/ \E m \in Measures : Submit(m)
    PROVE  /\ \A t \in Tasks : Active(t)' <=> Active(t)
           /\ \A t \in Tasks : \/ pc'[t] = pc[t]
                               \/ t \in Measures /\ pc[t] = "none" /\ pc'[t] = "queued"
           /\ \A t \in Runners : pc'[t] = pc[t]
           /\ memHist' = memHist /\ memStatus' = memStatus
  <1>1. CASE UNCHANGED work
    BY <1>1 DEF work, Active
  <1>2. ASSUME NEW m \in Measures, Submit(m)
        PROVE  /\ pc[m] = "none" /\ pc'[m] = "queued"
               /\ \A t \in Tasks : t # m => pc'[t] = pc[t]
               /\ memHist' = memHist /\ memStatus' = memStatus
    BY <1>2 DEF Submit, RunTypes, Tasks
  <1>3. \A t \in Runners : t \in Tasks /\ t \notin Measures
    BY LoopRunAssumption DEF Tasks, Runners
  <1> QED BY <1>1, <1>2, <1>3 DEF Active, Gone

\* A run that went past TRAIN went past TARGET.
LEMMA OverMeansTargeted ==
    ASSUME StatusFits, TrainingOver
    PROVE  Targeted(hist)
  <1> USE StageOrdinals
  <1>1. CASE status = "awaiting_training"
    BY <1>1, OnRecord DEF StatusFits, Targeted
  <1>2. CASE StageAlreadyRan(hist, MEASURE)
    <2>1. hist # RejectedAtGate
      BY <1>2, RejectedRecord
    <2>2. PICK k \in Stage : hist \in {Through(k), Inside(k), BrokenAt(k)}
      BY <2>1 DEF StatusFits, WellShaped, Stage
    <2> QED BY <1>2, <2>2, OnRecord DEF Targeted
  <1> QED BY <1>1, <1>2 DEF TrainingOver

\* A request that leaves the row alone, settles no more than open duties and
\* submits a measurement only when there is nothing left to wait for.
LEMMA RowStands ==
    ASSUME RunTypes, RestTypes, SerialInv,
           UNCHANGED <<runRow, summary, exposures, auto>>,
           \/ UNCHANGED work
           \/ TrainingOver /\ Open' = {} /\ \E m \in Measures : Submit(m),
           errors' = 0 => errors = 0,
           \A a \in AsgIds : asg'[a] = "none" <=> asg[a] = "none",
           \A a \in AsgIds : a \notin Open => asg'[a] = asg[a],
           ApprovalStands', RequestFits', SettledOnce', Awaited'
    PROVE  SerialInv'
  <1>0. Pipeline \in Runners /\ Resumes \subseteq Runners /\ Runners \subseteq Tasks
        /\ Measures \subseteq Tasks
    BY DEF Tasks, Runners
  <1>q. /\ \A t \in Tasks : Active(t)' <=> Active(t)
        /\ \A t \in Tasks : \/ pc'[t] = pc[t]
                            \/ t \in Measures /\ pc[t] = "none" /\ pc'[t] = "queued"
        /\ \A t \in Runners : pc'[t] = pc[t]
        /\ memHist' = memHist /\ memStatus' = memStatus
    BY Queues
  <1>r. hist' = hist /\ status' = status /\ (TrainingOver' <=> TrainingOver)
    BY DEF runRow, TrainingOver, StageAlreadyRan
  <1>o. Open' \subseteq Open
    BY DEF Open, OpenStatus
  <1>m. (\E m \in Measures : pc'[m] # pc[m]) => TrainingOver /\ Open' = {} /\ Targeted(hist)
    BY OverMeansTargeted DEF SerialInv, work
  <1>1. OneWorker'
    <2>1. ASSUME NEW t \in Tasks, Active(t) PROVE HistoryFits(t)' /\ CopyFits(t)'
      <3>1. pc'[t] = pc[t]
        BY <1>q, <2>1 DEF Active, Gone
      <3> QED BY <1>q, <1>r, <2>1, <3>1 DEF SerialInv, OneWorker, HistoryFits, CopyFits
    <2> QED BY <1>q, <1>r, <2>1 DEF SerialInv, OneWorker
  <1>2. StatusFits'
    BY <1>r DEF SerialInv, StatusFits, WellShaped
  <1>3. LetThrough'
    BY <1>0, <1>q, <1>r DEF SerialInv, LetThrough, Targeted, StageAlreadyRan
  <1>4. PeopleFit'
    <2>1. \A a \in AsgIds : Touched(a)' <=> Touched(a)
      BY DEF Touched
    <2>2. ~Targeted(hist) => \A m \in Measures : pc'[m] = "none"
      BY <1>m DEF SerialInv, PeopleFit
    <2>3. \A t \in Tasks : pc'[t] \in {"targeting", "targeted", "training"} => pc'[t] = pc[t]
      BY <1>q
    <2> QED BY <1>r, <2>1, <2>2, <2>3 DEF SerialInv, PeopleFit, Targeted, StageAlreadyRan
  <1>5. MeasureFits'
    <2>1. \A m \in Measures : pc'[m] # "none" => TrainingOver /\ Open' = {}
      BY <1>o, <1>m DEF SerialInv, MeasureFits
    <2>2. \A t \in Tasks : pc'[t] \in {"measured", "feeding"} => pc'[t] = pc[t]
      BY <1>q
    <2> QED BY <1>r, <1>o, <2>1, <2>2 DEF SerialInv, MeasureFits, StageAlreadyRan
  <1>6. ReportStands'
    <2> SUFFICES ASSUME summary.taken
                 PROVE  Open' = {} /\ \A a \in AsgIds : asg'[a] = asg[a]
      BY DEF SerialInv, ReportStands
    <2>1. Open = {}
      BY DEF SerialInv, ReportStands
    <2> QED BY <1>o, <2>1
  <1> QED BY <1>1, <1>2, <1>3, <1>4, <1>5, <1>6 DEF SerialInv

\* What a request loads is so when it loads it.
LEMMA ReadSerial ==
    ASSUME RunTypes, RestTypes, SerialInv, NEW r \in Slots, Read(r)
    PROVE  SerialInv'
  <1>1. /\ UNCHANGED <<runRow, summary, people, gate, work, env>> /\ op[r] = "idle"
        /\ \A s \in Slots : s # r => /\ op'[s] = op[s] /\ seenHist'[s] = seenHist[s]
                                     /\ seenModule'[s] = seenModule[s] /\ seenAsg'[s] = seenAsg[s]
    BY DEF Read, ReadApprove, ReadReject, ReadReview, ReadForce, ReadStart, ReadComplete,
       Load, Idle, RestTypes
  <1>2. /\ asg' = asg /\ exposures' = exposures /\ charges' = charges /\ Open' = Open
        /\ module' = module /\ hist' = hist /\ status' = status /\ summary' = summary
        /\ pc' = pc /\ auto' = auto /\ errors' = errors /\ crashes' = crashes
    BY <1>1 DEF people, Open, gate, runRow, work, env
  <1>3. /\ op'[r] \in {"approve", "reject"} => status = "awaiting_approval"
        /\ op'[r] = "approve" => seenModule'[r] = module
        /\ op'[r] = "reject" => seenHist'[r] = hist
        /\ op'[r] \in {"start", "complete", "force"} => seenAsg'[r] \subseteq Open
        /\ op'[r] = "force" => seenAsg'[r] = Open /\ status = "awaiting_training"
        /\ op'[r] \in {"review_ok", "review_no"} => module = "pending_review"
    <2>1. ASSUME NEW o, NEW h, NEW m, NEW as, Load(r, o, h, m, as)
          PROVE  op'[r] = o /\ seenHist'[r] = h /\ seenModule'[r] = m /\ seenAsg'[r] = as
      BY <2>1 DEF Load, RestTypes
    <2>2. CASE ReadApprove(r)
      BY <2>1, <2>2 DEF ReadApprove
    <2>3. CASE ReadReject(r)
      BY <2>1, <2>3 DEF ReadReject
    <2>4. CASE ReadReview(r)
      BY <2>1, <2>4 DEF ReadReview
    <2>5. CASE ReadForce(r)
      BY <2>1, <2>5 DEF ReadForce
    <2>6. CASE ReadStart(r)
      <3>1. PICK a \in AsgIds : asg[a] = "assigned" /\ Load(r, "start", {}, "none", {a})
        BY <2>6 DEF ReadStart
      <3>2. op'[r] = "start" /\ seenAsg'[r] = {a}
        BY <2>1, <3>1
      <3> QED BY <3>1, <3>2 DEF Open, OpenStatus
    <2>7. CASE ReadComplete(r)
      <3>1. PICK a \in Open : Load(r, "complete", {}, "none", {a})
        BY <2>7 DEF ReadComplete
      <3>2. op'[r] = "complete" /\ seenAsg'[r] = {a}
        BY <2>1, <3>1
      <3> QED BY <3>1, <3>2
    <2> QED BY <2>2, <2>3, <2>4, <2>5, <2>6, <2>7 DEF Read
  <1>4. RequestFits'
    BY <1>1, <1>2, <1>3 DEF SerialInv, RequestFits, TrainingOver, StageAlreadyRan
  <1>5. ApprovalStands'
    BY <1>1, <1>2, <1>3 DEF SerialInv, ApprovalStands
  <1>6. Awaited'
    <2>1. \A s \in Slots : op[s] = "hook" => op'[s] = "hook"
      BY <1>1
    <2> QED BY <1>2, <2>1 DEF SerialInv, Awaited, SomebodyWillMeasure
  <1>7. SettledOnce'
    BY <1>2 DEF SerialInv, SettledOnce
  <1> QED BY <1>1, <1>2, <1>4, <1>5, <1>6, <1>7, RowStands

\* With one slot, a released request leaves none in flight.
LEMMA NoneInFlight ==
    ASSUME OneAtATime, RestTypes, NEW r \in Slots, NEW o \in {"idle", "hook"},
           op' = [op EXCEPT ![r] = o]
    PROVE  /\ \A s \in Slots : s = r /\ op'[s] = o
           /\ RequestFits'
  <1>1. \A s \in Slots : s = r /\ op'[s] = o
    BY DEF OneAtATime, RestTypes
  <1> QED BY <1>1 DEF RequestFits

\* The request's exception rolls back; only the error is counted.
LEMMA RequestDiesSerial ==
    ASSUME OneAtATime, RunTypes, RestTypes, SerialInv, NEW r \in Slots, RequestDies(r)
    PROVE  SerialInv'
  <1>1. /\ UNCHANGED <<runRow, summary, people, gate, work>> /\ errors' # 0 /\ auto' = auto
        /\ op' = [op EXCEPT ![r] = "idle"]
    BY DEF RequestDies, Release, RestTypes
  <1>2. /\ asg' = asg /\ exposures' = exposures /\ charges' = charges /\ pc' = pc
        /\ module' = module
    BY <1>1 DEF people, work, gate
  <1>3. RequestFits' /\ \A s \in Slots : op'[s] = "idle"
    BY <1>1, NoneInFlight
  <1>4. ApprovalStands' /\ SettledOnce' /\ Awaited'
    BY <1>1, <1>2, <1>3 DEF SerialInv, ApprovalStands, SettledOnce, Awaited
  <1> QED BY <1>1, <1>2, <1>3, <1>4, RowStands

\* A review writes the module while no approved task waits for it.
LEMMA CommitReviewSerial ==
    ASSUME OneAtATime, RunTypes, RestTypes, SerialInv, NEW r \in Slots, CommitReview(r)
    PROVE  SerialInv'
  <1>1. /\ op[r] \in {"review_ok", "review_no"} /\ op' = [op EXCEPT ![r] = "idle"]
        /\ UNCHANGED <<runRow, summary, people, work, env>>
    BY DEF CommitReview, Release
  <1>2. /\ asg' = asg /\ exposures' = exposures /\ charges' = charges /\ pc' = pc
        /\ status' = status /\ auto' = auto /\ errors' = errors /\ crashes' = crashes
        /\ Open' = Open
    BY <1>1 DEF people, work, runRow, env, Open
  <1>3. RequestFits' /\ \A s \in Slots : op[s] # "hook"
    BY <1>1, NoneInFlight DEF OneAtATime
  <1>4. ApprovalStands' /\ SettledOnce'
    BY <1>1, <1>2 DEF SerialInv, ApprovalStands, SettledOnce
  <1>5. Awaited'
    BY <1>2, <1>3 DEF SerialInv, Awaited, SomebodyWillMeasure
  <1> QED BY <1>1, <1>2, <1>3, <1>4, <1>5, RowStands

\* Requests that move the duties they loaded: those are still open.
LEMMA DutySerial ==
    ASSUME OneAtATime, RunTypes, RestTypes, SerialInv, NEW r \in Slots,
           op[r] \in {"start", "complete", "force"},
           NEW d \in {"in_progress", "completed", "expired"},
           asg' = [a \in AsgIds |-> IF a \in seenAsg[r] THEN d ELSE asg[a]],
           charges' = [a \in AsgIds |->
                         IF a \in seenAsg[r] /\ d \in Settled THEN charges[a] + 1 ELSE charges[a]],
           NEW o \in {"idle", "hook"}, op' = [op EXCEPT ![r] = o],
           UNCHANGED <<runRow, summary, exposures, gate, env>>,
           \/ UNCHANGED work
           \/ TrainingOver /\ Open' = {} /\ \E m \in Measures : Submit(m),
           Awaited'
    PROVE  SerialInv'
  <1>1. seenAsg[r] \subseteq Open
    BY DEF SerialInv, RequestFits
  <1>2. /\ \A a \in AsgIds : asg'[a] = IF a \in seenAsg[r] THEN d ELSE asg[a]
        /\ \A a \in AsgIds : charges[a] \in Nat
    BY DEF RestTypes
  <1>3. \A a \in Open : asg[a] # "none" /\ asg[a] \notin Settled
    BY DEF Open, OpenStatus, Settled
  <1>4. \A a \in AsgIds : asg'[a] = "none" <=> asg[a] = "none"
    BY <1>1, <1>2, <1>3
  <1>5. \A a \in AsgIds : a \notin Open => asg'[a] = asg[a]
    BY <1>1, <1>2
  <1>6. SettledOnce'
    <2> SUFFICES ASSUME NEW a \in AsgIds
                 PROVE  charges'[a] = IF asg'[a] \in Settled THEN 1 ELSE 0
      BY DEF SettledOnce
    <2>1. charges[a] = IF asg[a] \in Settled THEN 1 ELSE 0
      BY DEF SerialInv, SettledOnce
    <2> QED BY <1>1, <1>2, <1>3, <2>1
  <1>7. RequestFits' /\ \A s \in Slots : op'[s] \in {"idle", "hook"}
    BY NoneInFlight
  <1>8. ApprovalStands'
    <2>1. \A t \in Resumes : pc'[t] = pc[t]
      BY Queues DEF Runners
    <2> QED BY <1>7, <2>1 DEF SerialInv, ApprovalStands, gate
  <1>9. auto' = auto /\ errors' = errors
    BY DEF env
  <1> QED BY <1>4, <1>5, <1>6, <1>7, <1>8, <1>9, RowStands

LEMMA PeopleSerial ==
    ASSUME OneAtATime, RunTypes, RestTypes, SerialInv, NEW r \in Slots,
           CommitStart(r) \/ CommitComplete(r) \/ CommitForce(r)
    PROVE  SerialInv'
  <1> USE DEF Settled
  <1>1. \A s \in Slots : s = r
    BY DEF OneAtATime
  <1>2. status' = status /\ errors' = errors /\ crashes' = crashes
    BY DEF CommitStart, CommitComplete, CommitForce, runRow, env
  <1>3. CASE CommitStart(r)
    <2>1. /\ op[r] = "start" /\ op' = [op EXCEPT ![r] = "idle"]
          /\ asg' = [a \in AsgIds |-> IF a \in seenAsg[r] THEN "in_progress" ELSE asg[a]]
          /\ UNCHANGED <<exposures, charges, runRow, summary, gate, work, env>>
      BY <1>3 DEF CommitStart, Release
    <2>2. charges' = [a \in AsgIds |->
                        IF a \in seenAsg[r] /\ "in_progress" \in Settled
                        THEN charges[a] + 1 ELSE charges[a]]
      BY <2>1 DEF RestTypes
    <2>3. Open' = Open
      <3>1. seenAsg[r] \subseteq Open
        BY <2>1 DEF SerialInv, RequestFits
      <3> QED BY <2>1, <3>1 DEF Open, OpenStatus
    <2>4. Awaited'
      <3>1. op[r] # "hook" /\ pc' = pc
        BY <2>1 DEF work
      <3> QED BY <1>1, <1>2, <2>3, <3>1 DEF SerialInv, Awaited, SomebodyWillMeasure
    <2> QED BY <2>1, <2>2, <2>4, DutySerial
  <1>4. CASE CommitComplete(r)
    <2>1. /\ op[r] = "complete" /\ op' = [op EXCEPT ![r] = "hook"]
          /\ asg' = [a \in AsgIds |-> IF a \in seenAsg[r] THEN "completed" ELSE asg[a]]
          /\ charges' = [a \in AsgIds |->
                           IF a \in seenAsg[r] /\ "completed" \in Settled
                           THEN charges[a] + 1 ELSE charges[a]]
          /\ UNCHANGED <<exposures, runRow, summary, gate, work, env>>
      BY <1>4 DEF CommitComplete
    <2>2. Awaited'
      <3>1. op'[r] = "hook"
        BY <2>1 DEF RestTypes
      <3> QED BY <3>1 DEF Awaited, SomebodyWillMeasure
    <2> QED BY <2>1, <2>2, DutySerial
  <1>5. CASE CommitForce(r)
    <2>1. /\ op[r] = "force" /\ op' = [op EXCEPT ![r] = "idle"]
          /\ asg' = [a \in AsgIds |-> IF a \in seenAsg[r] THEN "expired" ELSE asg[a]]
          /\ charges' = [a \in AsgIds |->
                           IF a \in seenAsg[r] /\ "expired" \in Settled
                           THEN charges[a] + 1 ELSE charges[a]]
          /\ UNCHANGED <<exposures, runRow, summary, gate, env>>
      BY <1>5 DEF CommitForce, Release
    <2>2. PICK m \in Measures : Submit(m)
      BY <1>5 DEF CommitForce
    <2>3. TrainingOver /\ seenAsg[r] = Open
      BY <2>1 DEF SerialInv, RequestFits
    <2>4. Open' = {}
      BY <2>1, <2>3 DEF Open, OpenStatus
    <2>5. Awaited'
      <3>1. pc'[m] # "none"
        BY <2>2 DEF Submit, RunTypes, Tasks
      <3> QED BY <3>1 DEF Awaited, SomebodyWillMeasure
    <2> QED BY <2>1, <2>2, <2>3, <2>4, <2>5, DutySerial
  <1> QED BY <1>3, <1>4, <1>5

\* The completion that asks last finds nobody left to wait for.
LEMMA HookSerial ==
    ASSUME OneAtATime, RunTypes, RestTypes, SerialInv, NEW r \in Slots,
           OnAssignmentCompleted(r)
    PROVE  SerialInv'
  <1>1. /\ op' = [op EXCEPT ![r] = "idle"]
        /\ UNCHANGED <<runRow, summary, people, gate, env>>
    BY DEF OnAssignmentCompleted, Release
  <1>2. /\ asg' = asg /\ exposures' = exposures /\ charges' = charges /\ Open' = Open
        /\ module' = module /\ status' = status /\ auto' = auto /\ errors' = errors
    BY <1>1 DEF people, Open, gate, runRow, env
  <1>3. RequestFits' /\ \A s \in Slots : op'[s] = "idle"
    BY <1>1, NoneInFlight
  <1>4. \/ UNCHANGED work
        \/ TrainingOver /\ Open' = {} /\ \E m \in Measures : Submit(m)
    BY <1>2 DEF OnAssignmentCompleted, LastAnswer, TrainingOver
  <1>5. \A t \in Resumes : pc'[t] = pc[t]
    BY <1>4, Queues DEF Runners
  <1>6. ApprovalStands' /\ SettledOnce'
    BY <1>2, <1>3, <1>5 DEF SerialInv, ApprovalStands, SettledOnce
  <1>7. Awaited'
    <2>1. CASE LastAnswer
      <3>1. PICK m \in Measures : Submit(m)
        BY <2>1 DEF OnAssignmentCompleted
      <3>2. pc'[m] # "none"
        BY <3>1 DEF Submit, RunTypes, Tasks
      <3> QED BY <3>2 DEF Awaited, SomebodyWillMeasure
    <2>2. CASE ~LastAnswer
      BY <1>2, <2>2 DEF LastAnswer, Awaited, SomebodyWillMeasure
    <2> QED BY <2>1, <2>2
  <1> QED BY <1>1, <1>2, <1>3, <1>4, <1>6, <1>7, RowStands

\* An approval finds the run at the gate and nobody at work, and puts one task
\* to work.
LEMMA ApproveSerial ==
    ASSUME OneAtATime, RunTypes, RestTypes, SerialInv, NEW r \in Slots, CommitApprove(r)
    PROVE  SerialInv'
  <1> USE StageOrdinals
  <1>1. PICK t \in Resumes : Submit(t)
    BY DEF CommitApprove
  <1>0. t \in Tasks /\ t \notin Measures /\ t # Pipeline /\ Pipeline \in Tasks /\ Measures \subseteq Tasks
        /\ Resumes \subseteq Tasks
    BY LoopRunAssumption DEF Tasks, Runners
  <1>2. /\ pc[t] = "none" /\ pc'[t] = "queued"
        /\ \A u \in Tasks : u # t => pc'[u] = pc[u]
        /\ memHist' = memHist /\ memStatus' = memStatus
    BY <1>0, <1>1 DEF Submit, RunTypes
  <1>3. /\ op[r] = "approve" /\ op' = [op EXCEPT ![r] = "idle"]
        /\ hist' = hist /\ status' = "running" /\ summary' = summary
        /\ asg' = asg /\ exposures' = exposures /\ charges' = charges /\ Open' = Open
        /\ auto' = auto
    BY DEF CommitApprove, Release, people, env, Open
  <1>4. status = "awaiting_approval" /\ seenModule[r] = module
    BY <1>3 DEF SerialInv, RequestFits
  <1>5. module' = "approved"
    BY <1>4 DEF CommitApprove
  <1>6. hist = Through(3) /\ \A u \in Tasks : ~Active(u)
    BY <1>4 DEF SerialInv, StatusFits, OneWorker, CopyFits
  <1>7. ~Targeted(hist) /\ ~StageAlreadyRan(hist, MEASURE) /\ ~summary.taken
    BY <1>6, OnRecord, NotMeasured DEF Targeted, SerialInv, MeasureFits
  <1>8. RequestFits' /\ \A s \in Slots : op'[s] = "idle"
    BY <1>3, NoneInFlight
  <1>9. OneWorker'
    <2>1. \A u \in Tasks : Active(u)' <=> u = t
      BY <1>0, <1>2, <1>6 DEF Active, Gone
    <2>2. HistoryFits(t)' /\ CopyFits(t)'
      BY <1>0, <1>2, <1>3, <1>6 DEF HistoryFits, CopyFits
    <2> QED BY <1>0, <2>1, <2>2 DEF OneWorker
  <1>10. StatusFits' /\ ApprovalStands'
    BY <1>3, <1>5, <1>6, <1>8, Shaped DEF StatusFits, ApprovalStands
  <1>11. LetThrough'
    BY <1>0, <1>2, <1>3, <1>7 DEF SerialInv, LetThrough, Targeted, StageAlreadyRan
  <1>12. PeopleFit' /\ MeasureFits'
    <2>1. /\ \A m \in Measures : pc[m] = "none" /\ pc'[m] = "none"
          /\ \A a \in AsgIds : ~Touched(a) /\ ~Touched(a)'
      BY <1>0, <1>2, <1>3, <1>7 DEF SerialInv, PeopleFit, Touched
    <2>2. \A u \in Tasks : pc'[u] \notin {"targeting", "targeted", "training", "measured", "feeding"}
      BY <1>2, <1>6 DEF Active, Gone
    <2>3. PeopleFit'
      BY <1>3, <2>1, <2>2 DEF PeopleFit, Touched
    <2>4. MeasureFits'
      BY <1>3, <1>7, <2>1, <2>2 DEF MeasureFits, StageAlreadyRan
    <2> QED BY <2>3, <2>4
  <1>13. SettledOnce' /\ ReportStands'
    BY <1>3, <1>7 DEF SerialInv, SettledOnce, ReportStands
  <1>14. Awaited'
    BY <1>3 DEF Awaited, SomebodyWillMeasure
  <1> QED BY <1>8, <1>9, <1>10, <1>11, <1>12, <1>13, <1>14 DEF SerialInv

\* A rejection finds the run at the gate and nobody at work, and closes it.
LEMMA RejectSerial ==
    ASSUME OneAtATime, RunTypes, RestTypes, SerialInv, NEW r \in Slots, CommitReject(r)
    PROVE  SerialInv'
  <1> USE StageOrdinals
  <1>0. Pipeline \in Tasks /\ Measures \subseteq Tasks /\ Resumes \subseteq Tasks
        /\ Resumes \cap Measures = {}
    BY LoopRunAssumption DEF Tasks, Runners
  <1>1. /\ op[r] = "reject" /\ op' = [op EXCEPT ![r] = "idle"]
        /\ hist' = seenHist[r] \cup {<<CONVERT, "failed">>} /\ status' = "failed"
        /\ pc' = pc /\ memHist' = memHist /\ memStatus' = memStatus /\ summary' = summary
        /\ asg' = asg /\ exposures' = exposures /\ charges' = charges /\ Open' = Open
        /\ auto' = auto
    BY DEF CommitReject, Release, people, env, work, Open
  <1>2. status = "awaiting_approval" /\ seenHist[r] = hist
    BY <1>1 DEF SerialInv, RequestFits
  <1>3. hist = Through(3) /\ \A u \in Tasks : ~Active(u)
    BY <1>2 DEF SerialInv, StatusFits, OneWorker, CopyFits
  <1>4. hist' = RejectedAtGate
    BY <1>1, <1>2, <1>3 DEF RejectedAtGate
  <1>5. ~Targeted(hist) /\ ~StageAlreadyRan(hist, MEASURE) /\ ~summary.taken
    BY <1>3, OnRecord, NotMeasured DEF Targeted, SerialInv, MeasureFits
  <1>6. ~Targeted(hist') /\ ~StageAlreadyRan(hist', MEASURE)
    BY <1>4, RejectedRecord DEF Targeted
  <1>7. RequestFits'
    BY <1>1, NoneInFlight
  <1>8. OneWorker'
    BY <1>1, <1>3 DEF OneWorker, Active
  <1>9. StatusFits'
    BY <1>1, <1>4 DEF StatusFits, WellShaped
  <1>10. ApprovalStands'
    BY <1>0, <1>1, <1>3 DEF ApprovalStands, Active, Gone
  <1>11. LetThrough'
    BY <1>0, <1>1, <1>3, <1>6 DEF LetThrough, Active, Gone, Targeted
  <1>12. PeopleFit' /\ MeasureFits'
    <2>1. /\ \A m \in Measures : pc'[m] = "none"
          /\ \A a \in AsgIds : ~Touched(a)'
      BY <1>1, <1>5 DEF SerialInv, PeopleFit, Touched
    <2>2. \A u \in Tasks : pc'[u] \notin {"targeting", "targeted", "training", "measured", "feeding"}
      BY <1>1, <1>3 DEF Active, Gone
    <2>3. PeopleFit'
      BY <2>1, <2>2 DEF PeopleFit, Touched
    <2>4. MeasureFits'
      BY <1>1, <1>5, <1>6, <2>1, <2>2 DEF MeasureFits
    <2> QED BY <2>3, <2>4
  <1>13. SettledOnce' /\ ReportStands'
    BY <1>1, <1>5 DEF SerialInv, SettledOnce, ReportStands
  <1>14. Awaited'
    BY <1>1 DEF Awaited, SomebodyWillMeasure
  <1> QED BY <1>7, <1>8, <1>9, <1>10, <1>11, <1>12, <1>13, <1>14 DEF SerialInv

-----------------------------------------------------------------------------
(* The boot. *)

LEMMA RestartSerial ==
    ASSUME RunTypes, RestTypes, SerialInv, Restart
    PROVE  SerialInv'
  <1> USE StageOrdinals
  <1>0. /\ Pipeline \in Tasks /\ Measures \subseteq Tasks /\ Resumes \subseteq Tasks
        /\ Resumes \cap Measures = {}
    BY LoopRunAssumption DEF Tasks, Runners
  <1>1. /\ crashes' # 0 /\ summary' = summary /\ auto' = auto
        /\ asg' = asg /\ exposures' = exposures /\ charges' = charges /\ Open' = Open
        /\ \A r \in Slots : op'[r] = "idle"
    BY DEF Restart, RestTypes, people, Open
  <1>2. \A t \in Tasks : pc'[t] \in Gone /\ (pc'[t] # "none" => pc[t] # "none")
                         /\ (t \in Resumes /\ pc[t] # "none" => pc'[t] # "none")
    BY <1>0 DEF Restart, Gone, Ended
  <1>3. \A t \in Tasks : /\ ~Active(t)'
                         /\ pc'[t] \notin {"queued", "approved", "targeting", "targeted",
                                           "training", "measured", "feeding"}
    BY <1>2 DEF Active, Gone
  <1>4. status' # "running"
    BY DEF Restart, runRow
  <1>5. /\ WellShaped(hist')
        /\ \A s \in Stage : StageAlreadyRan(hist', s) <=> StageAlreadyRan(hist, s)
        /\ <<MEASURE, "completed">> \in hist => <<MEASURE, "completed">> \in hist'
    <2>1. CASE hist' = hist
      BY <2>1 DEF SerialInv, StatusFits, WellShaped, StageAlreadyRan
    <2>2. CASE hist' = Recovered(hist)
      <3>1. CASE hist = RejectedAtGate
        BY <2>2, <3>1, RejectedRecord DEF WellShaped
      <3>2. ASSUME NEW k \in Stage, hist \in {Through(k), Inside(k), BrokenAt(k)}
            PROVE  /\ WellShaped(hist')
                   /\ \A s \in Stage : StageAlreadyRan(hist', s) <=> StageAlreadyRan(hist, s)
                   /\ <<MEASURE, "completed">> \in hist => <<MEASURE, "completed">> \in hist'
        <4>1. hist' \in {Through(k), BrokenAt(k)}
          BY <2>2, <3>2, Recovery
        <4>2. hist \subseteq hist' \cup {<<k, "in_progress">>}
          BY <2>2, <3>2, Recovery DEF Inside, BrokenAt
        <4> QED BY <3>2, <4>1, <4>2, OnRecord, Shaped
      <3> QED BY <3>1, <3>2 DEF SerialInv, StatusFits, WellShaped, Stage
    <2> QED BY <2>1, <2>2 DEF Restart, runRow
  <1>6. (Targeted(hist') <=> Targeted(hist))
        /\ (StageAlreadyRan(hist', MEASURE) <=> StageAlreadyRan(hist, MEASURE))
    BY <1>5 DEF Targeted
  <1>7. status' # "failed" => status' = status /\ hist' = hist
    BY DEF Restart, runRow
  <1>8. OneWorker' /\ ApprovalStands'
    BY <1>0, <1>3, <1>4 DEF OneWorker, ApprovalStands
  <1>9. StatusFits'
    BY <1>1, <1>5, <1>7 DEF SerialInv, StatusFits
  <1>10. LetThrough'
    BY <1>0, <1>1, <1>2, <1>3, <1>6 DEF SerialInv, LetThrough
  <1>11. PeopleFit'
    BY <1>0, <1>1, <1>2, <1>3, <1>6 DEF SerialInv, PeopleFit, Touched
  <1>12. MeasureFits'
    <2>1. \A m \in Measures : pc'[m] = "none"
      BY <1>0, <1>2 DEF Restart, Ended
    <2> QED BY <1>1, <1>3, <1>5, <1>6, <2>1 DEF SerialInv, MeasureFits
  <1>13. RequestFits' /\ SettledOnce' /\ ReportStands' /\ Awaited'
    BY <1>1 DEF SerialInv, RequestFits, SettledOnce, ReportStands, Awaited
  <1> QED BY <1>8, <1>9, <1>10, <1>11, <1>12, <1>13 DEF SerialInv

LEMMA InitSerial == Init => SerialInv
  <1> SUFFICES ASSUME Init PROVE SerialInv
    OBVIOUS
  <1> USE StageOrdinals
  <1>0. /\ Runners \subseteq Tasks /\ Measures \subseteq Tasks /\ Pipeline \in Tasks
        /\ Pipeline \notin Measures /\ Pipeline \notin Resumes /\ Resumes \subseteq Tasks
    BY LoopRunAssumption DEF Tasks, Runners
  <1>1. \A t \in Tasks : pc[t] = IF t = Pipeline THEN "queued" ELSE "none"
    BY DEF Init
  <1>2. hist = Through(1) /\ status = "running" /\ ~summary.taken /\ Open = {}
    <2>1. \A s : s \in 1..1 <=> s = 1
      OBVIOUS
    <2> QED BY <2>1 DEF Init, Through, NoSummary, Open, OpenStatus
  <1>3. ~Targeted(hist) /\ ~StageAlreadyRan(hist, MEASURE)
    BY <1>2, OnRecord DEF Targeted
  <1>4. OneWorker
    <2>1. \A t \in Tasks : Active(t) <=> t = Pipeline
      BY <1>0, <1>1 DEF Active, Gone
    <2>2. HistoryFits(Pipeline) /\ CopyFits(Pipeline)
      BY <1>0, <1>1, <1>2 DEF HistoryFits, CopyFits
    <2> QED BY <1>0, <2>1, <2>2 DEF OneWorker
  <1>5. StatusFits /\ ApprovalStands /\ LetThrough
    BY <1>0, <1>1, <1>2, <1>3, Shaped DEF StatusFits, ApprovalStands, LetThrough
  <1>6. PeopleFit /\ MeasureFits
    <2>1. \A a \in AsgIds : ~Touched(a)
      BY DEF Init, Touched
    <2>2. \A t \in Tasks : pc[t] \notin {"targeting", "targeted", "training", "measured", "feeding"}
      BY <1>1
    <2>3. \A m \in Measures : pc[m] = "none"
      BY <1>0, <1>1
    <2> QED BY <1>2, <1>3, <2>1, <2>2, <2>3 DEF PeopleFit, MeasureFits
  <1>7. RequestFits /\ SettledOnce /\ ReportStands /\ Awaited
    BY <1>2 DEF Init, RequestFits, SettledOnce, Settled, ReportStands, Awaited, SomebodyWillMeasure
  <1> QED BY <1>4, <1>5, <1>6, <1>7 DEF SerialInv

\* One task holds the run at a time, its copy is the row, and what people owe
\* follows from the history, whatever crashes and fails (orchestrator.py).
THEOREM Serial ==
    ASSUME OneAtATime
    PROVE  Spec => []SerialInv
  <1>1. TypeOK /\ SerialInv /\ [Next]_vars => SerialInv'
    <2> SUFFICES ASSUME TypeOK, SerialInv, [Next]_vars PROVE SerialInv'
      OBVIOUS
    <2> RunTypes /\ RestTypes
      BY TypeHalves
    <2>1. CASE PipelineStep
      BY <2>1, PipelineSerial
    <2>2. ASSUME NEW t \in Runners, RunnerStep(t) PROVE SerialInv'
      BY <2>2, RunnerSerial
    <2>3. ASSUME NEW m \in Measures, MeasureStart(m) PROVE SerialInv'
      BY <2>3, MeasureStartSerial
    <2>4. ASSUME NEW t \in Tasks, MeasureStep(t) PROVE SerialInv'
      BY <2>4, MeasureSerial
    <2>5. ASSUME NEW r \in Slots, Read(r) PROVE SerialInv'
      BY <2>5, ReadSerial
    <2>6. ASSUME NEW r \in Slots, Commit(r) PROVE SerialInv'
      BY <2>6, ApproveSerial, RejectSerial, CommitReviewSerial, PeopleSerial, HookSerial
         DEF Commit
    <2>7. ASSUME NEW r \in Slots, RequestDies(r) PROVE SerialInv'
      BY <2>7, RequestDiesSerial
    <2>8. ASSUME NEW t \in Tasks, TaskDies(t) PROVE SerialInv'
      BY <2>8, ReturnSerial DEF TaskDies, RestTypes
    <2>9. CASE Restart
      BY <2>9, RestartSerial
    <2>10. CASE UNCHANGED vars
      <3>1. /\ UNCHANGED <<runRow, summary, exposures, auto>> /\ UNCHANGED work
            /\ errors' = errors /\ crashes' = crashes /\ asg' = asg /\ charges' = charges
            /\ module' = module /\ op' = op /\ pc' = pc /\ status' = status /\ hist' = hist
            /\ seenHist' = seenHist /\ seenModule' = seenModule /\ seenAsg' = seenAsg
        BY <2>10 DEF vars, people, gate, env, work, runRow, reqs
      <3>2. ApprovalStands' /\ SettledOnce'
        BY <3>1 DEF SerialInv, ApprovalStands, SettledOnce
      <3>3. RequestFits' /\ Awaited'
        BY <3>1 DEF SerialInv, RequestFits, TrainingOver, Open, Awaited, SomebodyWillMeasure,
           StageAlreadyRan
      <3> QED BY <3>1, <3>2, <3>3, RowStands
    <2> QED
      BY <2>1, <2>2, <2>3, <2>4, <2>5, <2>6, <2>7, <2>8, <2>9, <2>10 DEF Next, TaskStep
  <1> QED BY <1>1, InitSerial, Typing, PTL DEF Spec

-----------------------------------------------------------------------------
(* What follows from it in every state. *)

\* The risk score moved once for the outcome an assignment has.
THEOREM ChargedOnce ==
    ASSUME OneAtATime
    PROVE  Spec => []SettledOnce
  <1>1. SerialInv => SettledOnce
    BY DEF SerialInv
  <1> QED BY <1>1, Serial, PTL

\* What MEASURE wrote down stays true.
THEOREM ReportStaysTrue ==
    ASSUME OneAtATime
    PROVE  Spec => []ReportStands
  <1>1. SerialInv => ReportStands
    BY DEF SerialInv
  <1> QED BY <1>1, Serial, PTL

\* A run shown as running has a task, across restarts, until an exception
\* escapes.
THEOREM NeverWedged ==
    ASSUME OneAtATime
    PROVE  Spec => [](errors = 0 => RunningHasTask)
  <1>1. SerialInv => (errors = 0 => RunningHasTask)
    BY DEF SerialInv, OneWorker, RunningHasTask, Active
  <1> QED BY <1>1, Serial, PTL

\* A run that stopped for training is looked after until an exception escapes
\* or the process dies.
THEOREM LookedAfter ==
    ASSUME OneAtATime
    PROVE  Spec => []Awaited
  <1>1. SerialInv => Awaited
    BY DEF SerialInv
  <1> QED BY <1>1, Serial, PTL

\* Nobody is charged exposure or assigned the module twice, with rejections.
THEOREM NobodyTwiceSerially ==
    ASSUME OneAtATime
    PROVE  Spec => []TargetedOnce
  <1>1. SerialInv => TargetedOnce
    <2> SUFFICES ASSUME SerialInv, NEW t \in Runners, NEW u \in Runners, NEW e \in Emps, t # u
                 PROVE  /\ asg[<<t, e>>] = "none" \/ asg[<<u, e>>] = "none"
                        /\ <<t, e>> \notin exposures \/ <<u, e>> \notin exposures
      BY DEF TargetedOnce
    <2>1. <<t, e>> \in AsgIds /\ <<u, e>> \in AsgIds /\ <<t, e>>[1] # <<u, e>>[1]
      BY DEF AsgIds
    <2>2. ~(Touched(<<t, e>>) /\ Touched(<<u, e>>))
      BY <2>1 DEF SerialInv, PeopleFit
    <2> QED BY <2>2 DEF Touched
  <1> QED BY <1>1, Serial, PTL

\* A stage is entered only when the one before it completed.
THEOREM StagesInOrder ==
    ASSUME OneAtATime
    PROVE  Spec => []StageOrder
  <1> USE StageOrdinals
  <1>1. ASSUME NEW k \in Stage, NEW h \in {Through(k), Inside(k), BrokenAt(k)},
               NEW e \in h, e[1] > INGEST
        PROVE  <<e[1] - 1, "completed">> \in h
    <2>1. e[1] \in 2..k /\ \A s \in 1..(k - 1) : <<s, "completed">> \in h
      BY <1>1 DEF Through, Inside, BrokenAt
    <2> QED BY <2>1
  <1>2. ASSUME NEW e \in RejectedAtGate, e[1] > INGEST
        PROVE  <<e[1] - 1, "completed">> \in RejectedAtGate
    <2>1. e[1] \in 2..3 /\ \A s \in 1..3 : <<s, "completed">> \in RejectedAtGate
      BY <1>2 DEF RejectedAtGate, Through
    <2> QED BY <2>1
  <1>3. SerialInv => StageOrder
    BY <1>1, <1>2 DEF SerialInv, StatusFits, WellShaped, StageOrder, Stage
  <1> QED BY <1>3, Serial, PTL

-----------------------------------------------------------------------------
(* What no step does. *)

\* A stage on record stays there, a closed run stays closed and hands nothing
\* out, and an outcome is final.
Keeps ==
    /\ \A s \in Stage : StageAlreadyRan(hist, s) => StageAlreadyRan(hist', s)
    /\ status \in Terminal =>
          /\ status' = status
          /\ \A a \in AsgIds : asg[a] = "none" => asg'[a] = "none"
    /\ \A a \in AsgIds : asg[a] \in Settled => asg'[a] = asg[a]

\* Opening and closing entries erases no stage.
LEMMA RecordKept ==
    ASSUME NEW h, NEW s, NEW u, StageAlreadyRan(h, u)
    PROVE  /\ StageAlreadyRan(StageStart(h, s), u)
           /\ StageAlreadyRan(StageDone(h, s), u)
           /\ StageAlreadyRan(StageFailed(h, s), u)
           /\ StageAlreadyRan(Recovered(h), u)
  <1>1. PICK e \in h : e[1] = u
    BY DEF StageAlreadyRan
  <1>2. StageAlreadyRan(StageStart(h, s), u)
    BY <1>1 DEF StageAlreadyRan, StageStart
  <1>3. ASSUME NEW o PROVE StageAlreadyRan(StageClose(h, s, o), u)
    <2>1. <<s, "in_progress">>[1] = s /\ <<s, o>>[1] = s
      OBVIOUS
    <2>2. <<s, "in_progress">> \in h => <<s, o>> \in StageClose(h, s, o)
      BY DEF StageClose
    <2>3. e # <<s, "in_progress">> => e \in StageClose(h, s, o)
      BY <1>1 DEF StageClose
    <2> QED BY <1>1, <2>1, <2>2, <2>3 DEF StageAlreadyRan
  <1>4. StageAlreadyRan(Recovered(h), u)
    <2>1. e[2] # "in_progress" => e \in Recovered(h)
      BY <1>1 DEF Recovered
    <2>2. e[2] = "in_progress" => <<e[1], "failed">> \in Recovered(h)
      BY <1>1 DEF Recovered
    <2>3. <<e[1], "failed">>[1] = e[1]
      OBVIOUS
    <2> QED BY <1>1, <2>1, <2>2, <2>3 DEF StageAlreadyRan
  <1> QED BY <1>2, <1>3, <1>4 DEF StageDone, StageFailed

\* A commit of the task that holds the run.
LEMMA WorkerKeeps ==
    ASSUME OneWorker, NEW t \in Tasks, Active(t), NEW loaded \in {Held(t), Fresh},
           loaded = Fresh \/ pc[t] # "queued",
           NEW h, \A s \in Stage : StageAlreadyRan(hist, s) => StageAlreadyRan(h, s),
           NEW s, NEW p, TaskCommit(t, loaded, h, s, p), asg' = asg
    PROVE  Keeps
  <1>1. hist' = h
    BY Committed
  <1>2. status \notin Terminal
    BY DEF OneWorker, CopyFits, Terminal
  <1> QED BY <1>1, <1>2 DEF Keeps

LEMMA PipelineKept ==
    ASSUME OneWorker, PipelineStep
    PROVE  Keeps
  <1> DEFINE t == Pipeline
  <1>0. t \in Tasks /\ t \notin Measures
    BY LoopRunAssumption DEF Tasks, Runners
  <1>1. asg' = asg
    BY DEF PipelineStep, AnalyzeStart, AnalyzeDone, BenignClose, ConvertStart, ConvertDone,
       ReachGate, people
  <1>2. Active(t)
    BY <1>0 DEF PipelineStep, AnalyzeStart, AnalyzeDone, BenignClose, ConvertStart, ConvertDone,
       ReachGate, At, Active, Gone
  <1>3. \/ \E h, s, p : /\ TaskCommit(t, Fresh, h, s, p)
                        /\ \E k : h = StageStart(hist, k)
        \/ /\ pc[t] # "queued"
           /\ \E h, s, p : /\ TaskCommit(t, Held(t), h, s, p)
                           /\ \/ h = memHist[t]
                              \/ \E k : h \in {StageStart(memHist[t], k), StageDone(memHist[t], k),
                                               StageFailed(memHist[t], k),
                                               StageDone(StageStart(memHist[t], k), k)}
    BY DEF PipelineStep, AnalyzeStart, AnalyzeDone, BenignClose, ConvertStart, ConvertDone,
       ReachGate, At, Advance, Fail
  <1>4. pc[t] # "queued" => memHist[t] = hist
    BY <1>0, <1>2, AtWork
  <1>5. \A k, u : StageAlreadyRan(hist, u) =>
          /\ StageAlreadyRan(StageStart(hist, k), u)
          /\ StageAlreadyRan(StageDone(hist, k), u)
          /\ StageAlreadyRan(StageFailed(hist, k), u)
          /\ StageAlreadyRan(StageDone(StageStart(hist, k), k), u)
    BY RecordKept
  <1> QED BY <1>0, <1>1, <1>2, <1>3, <1>4, <1>5, WorkerKeeps

LEMMA RunnerKept ==
    ASSUME RestTypes, SerialInv, NEW t \in Runners, RunnerStep(t)
    PROVE  Keeps
  <1> OneWorker
    BY DEF SerialInv
  <1>0. t \in Tasks /\ t \notin Measures
    BY LoopRunAssumption DEF Tasks, Runners
  <1>1. pc[t] \notin Gone /\ Active(t) /\ status \notin Terminal
    <2>1. pc[t] \in {"queued", "approved", "targeting", "targeted", "training"}
      BY DEF RunnerStep, TargetStart, TargetDone, TrainStart, TrainAssign, TrainNobody, At
    <2> QED BY <1>0, <2>1, AtWork DEF Active, Gone, Terminal
  <1>2. pc[t] # "queued" => memHist[t] = hist
    BY <1>0, <1>1, AtWork
  <1>3. \A k, l, u : StageAlreadyRan(hist, u) =>
          /\ StageAlreadyRan(StageStart(hist, k), u)
          /\ StageAlreadyRan(StageDone(hist, k), u)
          /\ StageAlreadyRan(StageFailed(hist, k), u)
          /\ StageAlreadyRan(StageStart(StageDone(hist, k), l), u)
    BY RecordKept
  <1>4. ASSUME NEW a \in AsgIds, asg'[a] # asg[a] PROVE asg[a] = "none"
    <2>1. CASE TrainAssign(t)
      BY <1>0, <2>1 DEF TrainAssign, At, SerialInv, PeopleFit
    <2>2. CASE ~TrainAssign(t)
      BY <1>4, <2>2 DEF RunnerStep, TargetStart, TargetDone, TrainStart, TrainNobody, people
    <2> QED BY <2>1, <2>2
  <1>5. \A a \in AsgIds : asg[a] \in Settled => asg'[a] = asg[a]
    BY <1>4 DEF Settled
  <1>6. \/ hist' = hist
        \/ \E h, s, p : /\ TaskCommit(t, Fresh, h, s, p)
                        /\ \E k : h = StageStart(hist, k)
        \/ /\ pc[t] # "queued"
           /\ \E h, s, p : /\ TaskCommit(t, Held(t), h, s, p)
                           /\ \E k, l : h \in {StageStart(memHist[t], k), StageDone(memHist[t], k),
                                               StageFailed(memHist[t], k),
                                               StageStart(StageDone(memHist[t], k), l)}
    BY DEF RunnerStep, TargetStart, TargetDone, TrainStart, TrainAssign, TrainNobody, At,
       Advance, Fail, Return, runRow
  <1>7. \A s \in Stage : StageAlreadyRan(hist, s) => StageAlreadyRan(hist', s)
    BY <1>0, <1>1, <1>2, <1>3, <1>6, Committed
  <1> QED BY <1>1, <1>5, <1>7 DEF Keeps

LEMMA MeasureKept ==
    ASSUME OneWorker, NEW t \in Tasks, (t \in Measures /\ MeasureStart(t)) \/ MeasureStep(t)
    PROVE  Keeps
  <1>1. asg' = asg
    BY DEF MeasureStart, MeasureStep, MeasureDone, FeedbackStart, FeedbackDone, people
  <1>3. \A k, u : StageAlreadyRan(hist, u) =>
          /\ StageAlreadyRan(StageStart(hist, k), u)
          /\ StageAlreadyRan(StageDone(hist, k), u)
          /\ StageAlreadyRan(StageFailed(hist, k), u)
    BY RecordKept
  <1>4. CASE MeasureStart(t)
    <2>1. CASE Return(t)
      BY <1>1, <2>1 DEF Return, runRow, Keeps
    <2>2. CASE /\ ~MeasureRefused(hist, status)
               /\ TaskCommit(t, Fresh, StageStart(hist, MEASURE), "running", "measuring")
      <3>1. hist' \in {hist, StageStart(hist, MEASURE)} /\ status \notin Terminal
        BY <2>2 DEF TaskCommit, MeasureRefused
      <3> QED BY <1>1, <1>3, <3>1 DEF Keeps
    <2> QED BY <1>4, <2>1, <2>2 DEF MeasureStart
  <1>5. CASE MeasureStep(t)
    <2>1. Active(t) /\ pc[t] # "queued"
      BY <1>5 DEF MeasureStep, MeasureDone, FeedbackStart, FeedbackDone, At, Active, Gone
    <2>2. memHist[t] = hist
      BY <2>1, AtWork
    <2>3. \E h, s, p : /\ TaskCommit(t, Held(t), h, s, p)
                       /\ \E k : h \in {StageStart(memHist[t], k), StageDone(memHist[t], k),
                                        StageFailed(memHist[t], k)}
      BY <1>5 DEF MeasureStep, MeasureDone, FeedbackStart, FeedbackDone, Advance, Fail
    <2> QED BY <1>1, <1>3, <2>1, <2>2, <2>3, WorkerKeeps
  <1> QED BY <1>4, <1>5

LEMMA RequestKept ==
    ASSUME RestTypes, SerialInv, NEW r \in Slots, Read(r) \/ Commit(r) \/ RequestDies(r)
    PROVE  Keeps
  <1>1. CASE CommitApprove(r)
    <2>1. status = "awaiting_approval" /\ hist' = hist /\ asg' = asg
      BY <1>1 DEF CommitApprove, SerialInv, RequestFits, people
    <2> QED BY <2>1 DEF Keeps, Terminal
  <1>2. CASE CommitReject(r)
    <2>1. status = "awaiting_approval" /\ seenHist[r] = hist /\ asg' = asg
      BY <1>2 DEF CommitReject, SerialInv, RequestFits, people
    <2>2. hist \subseteq hist'
      BY <1>2, <2>1 DEF CommitReject
    <2> QED BY <2>1, <2>2 DEF Keeps, Terminal, StageAlreadyRan
  <1>3. CASE CommitStart(r) \/ CommitComplete(r) \/ CommitForce(r)
    <2>1. seenAsg[r] \subseteq Open
      BY <1>3 DEF CommitStart, CommitComplete, CommitForce, SerialInv, RequestFits
    <2>2. \A a \in AsgIds : a \notin Open => asg'[a] = asg[a]
      BY <1>3, <2>1 DEF CommitStart, CommitComplete, CommitForce
    <2>3. hist' = hist /\ status' = status
      BY <1>3 DEF CommitStart, CommitComplete, CommitForce, runRow
    <2> QED BY <2>2, <2>3 DEF Keeps, Open, OpenStatus, Settled
  <1>4. CASE Read(r) \/ RequestDies(r) \/ CommitReview(r) \/ OnAssignmentCompleted(r)
    <2>1. UNCHANGED <<runRow, people>>
      BY <1>4 DEF Read, ReadApprove, ReadReject, ReadReview, ReadForce, ReadStart, ReadComplete,
         Load, RequestDies, CommitReview, OnAssignmentCompleted
    <2> QED BY <2>1 DEF runRow, people, Keeps
  <1> QED BY <1>1, <1>2, <1>3, <1>4 DEF Commit

LEMMA StepKept ==
    ASSUME TypeOK, SerialInv, [Next]_vars
    PROVE  Keeps
  <1> RunTypes /\ RestTypes /\ OneWorker
    BY TypeHalves DEF SerialInv
  <1>1. CASE PipelineStep
    BY <1>1, PipelineKept
  <1>2. ASSUME NEW t \in Runners, RunnerStep(t) PROVE Keeps
    BY <1>2, RunnerKept
  <1>3. CASE (\E m \in Measures : MeasureStart(m)) \/ (\E t \in Tasks : MeasureStep(t))
    BY <1>3, MeasureKept DEF Tasks
  <1>4. ASSUME NEW r \in Slots, Read(r) \/ Commit(r) \/ RequestDies(r) PROVE Keeps
    BY <1>4, RequestKept
  <1>5. ASSUME NEW t \in Tasks, TaskDies(t) PROVE Keeps
    BY <1>5 DEF TaskDies, Return, runRow, people, Keeps
  <1>6. CASE Restart
    <2>1. hist' \in {hist, Recovered(hist)} /\ asg' = asg
          /\ (status \in Terminal => status' = status)
      BY <1>6 DEF Restart, runRow, people, Terminal
    <2>2. \A s : StageAlreadyRan(hist, s) => StageAlreadyRan(Recovered(hist), s)
      BY RecordKept
    <2> QED BY <2>1, <2>2 DEF Keeps
  <1>7. CASE UNCHANGED vars
    BY <1>7 DEF vars, runRow, people, Keeps
  <1> QED BY <1>1, <1>2, <1>3, <1>4, <1>5, <1>6, <1>7 DEF Next, TaskStep

\* No session's older copy of the history erases a stage, rejections included.
THEOREM HistoryIsKept ==
    ASSUME OneAtATime
    PROVE  Spec => HistoryKept
  <1>1. TypeOK /\ SerialInv /\ [Next]_vars
          => [\A s \in INGEST..FEEDBACK :
                 StageAlreadyRan(hist, s) => StageAlreadyRan(hist', s)]_vars
    BY StepKept DEF Keeps, Stage
  <1> QED BY <1>1, Typing, Serial, PTL DEF Spec, HistoryKept

\* A closed run is never reopened.
THEOREM ClosedForGood ==
    ASSUME OneAtATime
    PROVE  Spec => ClosedStays
  <1>1. TypeOK /\ SerialInv /\ [Next]_vars => [(status \in Terminal) => status' = status]_vars
    BY StepKept DEF Keeps
  <1> QED BY <1>1, Typing, Serial, PTL DEF Spec, ClosedStays

\* An assignment's outcome is final.
THEOREM OutcomesAreFinal ==
    ASSUME OneAtATime
    PROVE  Spec => OutcomeStays
  <1>1. TypeOK /\ SerialInv /\ [Next]_vars
          => [\A a \in AsgIds : asg[a] \in Settled => asg'[a] = asg[a]]_vars
    BY StepKept DEF Keeps
  <1> QED BY <1>1, Typing, Serial, PTL DEF Spec, OutcomeStays

-----------------------------------------------------------------------------
(* A rejection that has the last word, with any overlap of requests.       *)

\* What a step of a task changes of the gate and of the requests.
LEMMA TasksLeaveRequests ==
    ASSUME RunTypes,
           \/ TaskStep \/ UNCHANGED vars
           \/ \E t \in Tasks : TaskDies(t)
    PROVE  /\ UNCHANGED <<op, seenModule, seenAsg>>
           /\ pc'[Pipeline] \in BeforeGate \ {"converted", "approved"} =>
                 pc[Pipeline] \in BeforeGate \ {"converted", "approved"} /\ module' = module
  <1>1. pc \in [Tasks -> Pc] /\ Pipeline \in Tasks
    BY DEF RunTypes, Tasks, Runners
  <1>2. CASE PipelineStep
    BY <1>1, <1>2, LoopRunAssumption
       DEF PipelineStep, AnalyzeStart, AnalyzeDone, BenignClose, ConvertStart,
       ConvertDone, ReachGate, TaskCommit, Advance, Fail, Ended, At, BeforeGate, gate, reqs
  <1>3. ASSUME NEW t \in Runners, RunnerStep(t)
        PROVE  /\ UNCHANGED <<op, seenModule, seenAsg, module>>
               /\ pc'[Pipeline] \in BeforeGate => pc'[Pipeline] = pc[Pipeline]
    BY <1>1, <1>3
       DEF RunnerStep, TargetStart, TargetDone, TrainStart, TrainAssign, TrainNobody,
       TaskCommit, Advance, Fail, Return, Ended, BeforeGate, gate, reqs
  <1>4. ASSUME NEW t \in Tasks, MeasureStep(t) \/ (t \in Measures /\ MeasureStart(t))
        PROVE  /\ UNCHANGED <<op, seenModule, seenAsg, module>>
               /\ pc'[Pipeline] \in BeforeGate => pc'[Pipeline] = pc[Pipeline]
    BY <1>1, <1>4
       DEF MeasureStep, MeasureStart, MeasureDone, FeedbackStart, FeedbackDone,
       TaskCommit, Advance, Fail, Return, Ended, BeforeGate, gate, reqs
  <1>5. ASSUME NEW t \in Tasks, TaskDies(t)
        PROVE  /\ UNCHANGED <<op, seenModule, seenAsg, module>>
               /\ pc'[Pipeline] \in BeforeGate => pc'[Pipeline] = pc[Pipeline]
    BY <1>1, <1>5 DEF TaskDies, Return, Ended, BeforeGate, gate, reqs
  <1>6. CASE UNCHANGED vars
    BY <1>6 DEF vars, gate, work, reqs
  <1> QED BY <1>2, <1>3, <1>4, <1>5, <1>6 DEF TaskStep, Tasks

\* A request submits no task but those of approvals and measurements.
LEMMA RequestsLeavePipeline ==
    ASSUME RunTypes, NEW r \in Slots, Read(r) \/ Commit(r) \/ RequestDies(r)
    PROVE  /\ pc'[Pipeline] = pc[Pipeline]
           /\ \A t \in Tasks : pc'[t] = pc[t] \/ pc'[t] = "queued"
  <1>1. \A t \in Tasks : Submit(t) =>
           \A u \in Tasks : pc'[u] = pc[u] \/ (u = t /\ pc'[u] = "queued")
    BY DEF Submit, RunTypes
  <1> QED
    BY <1>1, LoopRunAssumption
       DEF Read, ReadApprove, ReadReject, ReadReview, ReadForce, ReadStart, ReadComplete, Load,
       Commit, CommitApprove, CommitReject, CommitReview, CommitForce, CommitStart,
       CommitComplete, OnAssignmentCompleted, RequestDies, work, Tasks, Runners

\* The pipeline decides alone until it has stored a module: requests that would
\* decide on one find none to load.
LEMMA NothingDecided == Spec => []NothingToDecide
  <1>1. Init => NothingToDecide
    BY DEF Init, NothingToDecide
  <1>2. TypeOK /\ NothingToDecide /\ [Next]_vars => NothingToDecide'
    <2> SUFFICES ASSUME TypeOK, NothingToDecide, [Next]_vars,
                        pc'[Pipeline] \in BeforeGate \ {"converted", "approved"}
                 PROVE  /\ module' = "none"
                        /\ \A r \in Slots :
                              /\ op'[r] \notin {"approve", "review_ok", "review_no"}
                              /\ op'[r] = "reject" => seenModule'[r] = "none"
      BY DEF NothingToDecide
    <2>0. RunTypes /\ RestTypes
      BY TypeHalves
    <2>1. CASE TaskStep \/ UNCHANGED vars \/ \E t \in Tasks : TaskDies(t)
      BY <2>0, <2>1, TasksLeaveRequests DEF NothingToDecide
    <2>2. ASSUME NEW r \in Slots, Read(r) \/ Commit(r) \/ RequestDies(r)
          PROVE  /\ module' = "none"
                 /\ \A q \in Slots :
                       /\ op'[q] \notin {"approve", "review_ok", "review_no"}
                       /\ op'[q] = "reject" => seenModule'[q] = "none"
      <3>1. /\ module = "none"
            /\ \A q \in Slots : /\ op[q] \notin {"approve", "review_ok", "review_no"}
                                /\ op[q] = "reject" => seenModule[q] = "none"
        BY <2>0, <2>2, RequestsLeavePipeline DEF NothingToDecide
      <3>2. CASE Read(r)
        BY <2>0, <3>1, <3>2
           DEF Read, ReadApprove, ReadReject, ReadReview, ReadForce, ReadStart, ReadComplete,
           Load, gate, RestTypes
      <3>3. CASE Commit(r) \/ RequestDies(r)
        BY <2>0, <3>1, <3>3
           DEF Commit, CommitApprove, CommitReject, CommitReview, CommitForce, CommitStart,
           CommitComplete, OnAssignmentCompleted, RequestDies, Release, gate, RestTypes
      <3> QED BY <2>2, <3>2, <3>3
    <2>3. CASE Restart
      BY <2>0, <2>3, LoopRunAssumption DEF Restart, Ended, BeforeGate, RunTypes, Tasks, Runners
    <2> QED BY <2>1, <2>2, <2>3 DEF Next
  <1> QED BY <1>1, <1>2, Typing, PTL DEF Spec

\* An assignment once made stays a row, and requests load existing rows only.
LEMMA DutiesStand == Spec => []DutiesExist
  <1>1. Init => DutiesExist
    BY DEF Init, DutiesExist
  <1>2. TypeOK /\ DutiesExist /\ [Next]_vars => DutiesExist'
    <2> SUFFICES ASSUME TypeOK, DutiesExist, [Next]_vars
                 PROVE  DutiesExist'
      OBVIOUS
    <2>0. RunTypes /\ RestTypes
      BY TypeHalves
    <2>1. \A a \in AsgIds : asg[a] # "none" => asg'[a] # "none"
      <3>1. CASE TaskStep \/ UNCHANGED vars \/ Restart \/ \E t \in Tasks : TaskDies(t)
        BY <2>0, <3>1 DEF TaskStep, PipelineStep, AnalyzeStart, AnalyzeDone, BenignClose,
           ConvertStart, ConvertDone, ReachGate, RunnerStep, TargetStart, TargetDone, TrainStart,
           TrainAssign, TrainNobody, MeasureStart, MeasureStep, MeasureDone, FeedbackStart,
           FeedbackDone, Assign, TaskDies, Restart, people, vars
      <3>2. ASSUME NEW r \in Slots, Read(r) \/ Commit(r) \/ RequestDies(r)
            PROVE  \A a \in AsgIds : asg[a] # "none" => asg'[a] # "none"
        BY <2>0, <3>2 DEF Read, ReadApprove, ReadReject, ReadReview, ReadForce, ReadStart,
           ReadComplete, Load, Commit, CommitApprove, CommitReject, CommitReview, CommitForce,
           CommitStart, CommitComplete, OnAssignmentCompleted, RequestDies, people
      <3> QED BY <3>1, <3>2 DEF Next
    <2>2. \A r \in Slots : \A a \in seenAsg'[r] : a \in AsgIds /\ asg[a] # "none"
      <3>1. CASE TaskStep \/ UNCHANGED vars \/ \E t \in Tasks : TaskDies(t)
        BY <2>0, <3>1, TasksLeaveRequests DEF DutiesExist, RestTypes
      <3>2. ASSUME NEW r \in Slots, Read(r) \/ Commit(r) \/ RequestDies(r)
            PROVE  \A q \in Slots : \A a \in seenAsg'[q] : a \in AsgIds /\ asg[a] # "none"
        BY <2>0, <3>2 DEF Read, ReadApprove, ReadReject, ReadReview, ReadForce, ReadStart,
           ReadComplete, Load, Open, OpenStatus, Commit, CommitApprove, CommitReject, CommitReview,
           CommitForce, CommitStart, CommitComplete, OnAssignmentCompleted, RequestDies, Release,
           DutiesExist, RestTypes
      <3>3. CASE Restart
        BY <3>3 DEF Restart
      <3> QED BY <3>1, <3>2, <3>3 DEF Next
    <2> QED BY <2>1, <2>2 DEF DutiesExist
  <1> QED BY <1>1, <1>2, Typing, PTL DEF Spec

\* Where nothing is told apart, the verdict on a rejection is as it was.
LEMMA StandsOn ==
    ASSUME Overruled, module' = "rejected", status' # "awaiting_approval",
           pc'[Pipeline] # "converted",
           \A r \in Slots : op'[r] \in {op[r]} \cup (Ops \ {"approve", "review_ok"}),
           \A t \in Runners : pc'[t] \in {pc[t], "queued", "none", "done", "measuring",
                                          "measured", "feeding"}
    PROVE  Overruled'
  BY DEF Overruled

\* A rejection with the last word keeps it and nobody is handed anything any
\* more, whatever was submitted before it, however requests overlap, whichever
\* endpoints are in use and whatever crashes or fails.
THEOREM NothingHandedOutAfterReject == Spec => RejectionStands
  <1>1. TypeOK /\ NothingToDecide /\ DutiesExist /\ [Next]_vars
          => [Overruled => Overruled' /\ HandedOut' = HandedOut]_vars
    <2> SUFFICES ASSUME TypeOK, NothingToDecide, DutiesExist, Next, Overruled
                 PROVE  Overruled' /\ HandedOut' = HandedOut
      OBVIOUS
    <2>0. /\ RunTypes /\ RestTypes
          /\ Pipeline \in Tasks /\ Runners \subseteq Tasks /\ Pipeline \in Runners
          /\ Measures \subseteq Tasks
      BY TypeHalves DEF Tasks, Runners
    <2>1. /\ module = "rejected" /\ status # "awaiting_approval"
          /\ pc[Pipeline] \notin BeforeGate
          /\ \A r \in Slots : op[r] \notin {"approve", "review_ok"}
          /\ \A t \in Runners : pc[t] \notin {"approved", "targeting", "targeted", "training"}
      BY <2>0 DEF Overruled, NothingToDecide
    <2>2. CASE PipelineStep
      BY <2>1, <2>2 DEF PipelineStep, AnalyzeStart, AnalyzeDone, BenignClose, ConvertStart,
         ConvertDone, ReachGate, At, BeforeGate
    <2>3. ASSUME NEW t \in Runners, RunnerStep(t)
          PROVE  Overruled' /\ HandedOut' = HandedOut
      <3>1. TargetStart(t) /\ t # Pipeline
        BY <2>1, <2>3 DEF RunnerStep, TargetStart, TargetDone, TrainStart, TrainAssign,
           TrainNobody, At
      <3>2. Return(t) /\ UNCHANGED <<people, gate, reqs>>
        BY <2>1, <3>1 DEF TargetStart, TargetRefused, GateSeen
      <3>3. \A u \in Tasks : pc'[u] \in {pc[u], "none", "done"}
        BY <2>0, <3>2 DEF Return, Ended, RunTypes
      <3>4. UNCHANGED <<module, status, op, asg, exposures>>
        BY <3>2 DEF Return, people, gate, reqs, runRow
      <3> QED BY <2>0, <2>1, <3>3, <3>4, StandsOn DEF HandedOut, BeforeGate
    <2>4. ASSUME NEW t \in Tasks, MeasureStep(t) \/ (t \in Measures /\ MeasureStart(t))
          PROVE  Overruled' /\ HandedOut' = HandedOut
      <3> DEFINE Onward == {"none", "done", "measuring", "measured", "feeding"}
      <3>1. \A h, x, p : TaskCommit(t, Held(t), h, x, p) \/ TaskCommit(t, Fresh, h, x, p) =>
               /\ \A u \in Tasks : pc'[u] \in {pc[u], p}
               /\ status' \in {status, x}
        BY <2>0 DEF TaskCommit, RunTypes
      <3>2. /\ \A u \in Tasks : pc'[u] \in {pc[u]} \cup Onward
            /\ status' # "awaiting_approval"
        <4>1. \A s : Fail(t, s) => \E h : TaskCommit(t, Held(t), h, "failed", Ended(t))
          BY DEF Fail
        <4>2. \A h, p : Advance(t, h, p) => status' = status /\ \A u \in Tasks : pc'[u] \in {pc[u], p}
          BY <2>0 DEF Advance, Held, TaskCommit, RunTypes
        <4>3. Return(t) => status' = status /\ \A u \in Tasks : pc'[u] \in {pc[u], Ended(t)}
          BY <2>0 DEF Return, RunTypes, runRow
        <4>4. Ended(t) \in Onward
          BY DEF Ended
        <4> QED BY <2>1, <2>4, <3>1, <4>1, <4>2, <4>3, <4>4
               DEF MeasureStep, MeasureStart, MeasureDone, FeedbackStart, FeedbackDone
      <3>3. UNCHANGED <<module, op, asg, exposures>>
        BY <2>4 DEF MeasureStep, MeasureStart, MeasureDone, FeedbackStart, FeedbackDone,
           people, gate, reqs
      <3> QED BY <2>0, <2>1, <3>2, <3>3, StandsOn DEF HandedOut, BeforeGate
    <2>5. ASSUME NEW r \in Slots, Read(r)
          PROVE  Overruled' /\ HandedOut' = HandedOut
      <3>1. /\ \E o \in Ops \ {"approve", "review_ok"} : op' = [op EXCEPT ![r] = o]
            /\ UNCHANGED <<module, status, pc, asg, exposures>>
        BY <2>1, <2>5 DEF Read, ReadApprove, ReadReject, ReadReview, ReadForce, ReadStart,
           ReadComplete, Load, runRow, people, gate, work, Ops
      <3> QED BY <2>0, <2>1, <3>1, StandsOn DEF HandedOut, BeforeGate, RestTypes
    <2>6. ASSUME NEW r \in Slots, Commit(r) \/ RequestDies(r)
          PROVE  Overruled' /\ HandedOut' = HandedOut
      <3>1. /\ \E o \in {"idle", "hook"} : op' = [op EXCEPT ![r] = o]
            /\ module' = "rejected" /\ status' \in {status, "failed"} /\ exposures' = exposures
        BY <2>1, <2>6 DEF Commit, CommitApprove, CommitReject, CommitReview, CommitForce,
           CommitStart, CommitComplete, OnAssignmentCompleted, RequestDies, Release, runRow,
           people, gate
      <3>2. \A a \in AsgIds : asg'[a] = "none" <=> asg[a] = "none"
        BY <2>0, <2>6 DEF Commit, CommitApprove, CommitReject, CommitReview, CommitForce,
           CommitStart, CommitComplete, OnAssignmentCompleted, RequestDies, people,
           DutiesExist, RestTypes
      <3>3. pc'[Pipeline] = pc[Pipeline] /\ \A t \in Tasks : pc'[t] = pc[t] \/ pc'[t] = "queued"
        BY <2>0, <2>6, RequestsLeavePipeline
      <3>4. {"idle", "hook"} \subseteq Ops \ {"approve", "review_ok"}
        BY DEF Ops
      <3>5. Overruled'
        BY <2>0, <2>1, <3>1, <3>3, <3>4, StandsOn DEF RestTypes, BeforeGate
      <3> QED BY <3>1, <3>2, <3>5 DEF HandedOut
    <2>7. CASE Restart
      <3>1. /\ \A t \in Tasks : pc'[t] \in {"none", "done"}
            /\ \A r \in Slots : op'[r] = "idle"
            /\ status' \in {status, "failed"} /\ UNCHANGED <<module, asg, exposures>>
        BY <2>7 DEF Restart, Ended, people, gate, runRow
      <3> QED BY <2>0, <2>1, <3>1, StandsOn DEF HandedOut, BeforeGate, Ops
    <2>8. ASSUME NEW t \in Tasks, TaskDies(t)
          PROVE  Overruled' /\ HandedOut' = HandedOut
      <3>1. \A u \in Tasks : pc'[u] \in {pc[u], "none", "done"}
        BY <2>0, <2>8 DEF TaskDies, Return, Ended, RunTypes
      <3>2. UNCHANGED <<module, status, op, asg, exposures>>
        BY <2>8 DEF TaskDies, Return, people, gate, reqs, runRow
      <3> QED BY <2>0, <2>1, <3>1, <3>2, StandsOn DEF HandedOut, BeforeGate
    <2> QED BY <2>2, <2>3, <2>4, <2>5, <2>6, <2>7, <2>8 DEF Next, TaskStep, Tasks
  <1> QED BY <1>1, Typing, NothingDecided, DutiesStand, PTL DEF Spec, RejectionStands

-----------------------------------------------------------------------------
(* Overlapping requests, rejections left out: the history has one writer.  *)

\* A task about to write, given what OneTargetRun says of the gate, has left
\* no stop behind it: nobody reads one while it works.
LEMMA WriterPast ==
    ASSUME RunTypes, OneTargetRun, OverlapInv, NEW t \in Tasks, Writing(t)
    PROVE  /\ HistoryFits(t) /\ memHist[t] = hist /\ \A u \in Tasks : Writing(u) => u = t
           /\ pc[t] \in (BeforeGate \ {"queued"}) \cup PastTarget
           /\ pc[t] \in BeforeGate => t = Pipeline
           /\ pc[Pipeline] # "queued"
           /\ status # "awaiting_approval" /\ status # "awaiting_training"
           /\ (\E r \in Slots : op[r] = "approve") \/ (\E u \in Resumes : pc[u] # "none")
                 => Targeted(hist)
           /\ (\E r \in Slots : op[r] = "force") \/ (\E m \in Measures : pc[m] # "none")
                 => StageAlreadyRan(hist, MEASURE)
  <1> USE StageOrdinals
  <1>0. Pipeline \in Tasks /\ Resumes \subseteq Tasks /\ Pipeline \notin Resumes
    BY LoopRunAssumption DEF Tasks, Runners
  <1>1. /\ HistoryFits(t) /\ memHist[t] = hist /\ \A u \in Tasks : Writing(u) => u = t
        /\ pc[t] \in (BeforeGate \ {"queued"}) \cup PastTarget
    BY DEF OverlapInv, OneWriter, Writing, RunTypes, Pc, Suspended, MidStretch, Gone, BeforeGate,
       PastTarget
  <1>2. pc[t] \in BeforeGate => t = Pipeline
    BY <1>0, <1>1 DEF OneTargetRun, OnlyPipelinePrepares, BeforeGate, PastTarget
  <1>3. pc[Pipeline] # "queued"
    BY <1>1 DEF OneTargetRun, AloneBeforeGate, BeforeGate, PastTarget
  <1>4. CASE pc[t] \in BeforeGate
    <2>1. /\ status = "running" /\ \A u \in Tasks \ {Pipeline} : pc[u] = "none"
          /\ \A r \in Slots : op[r] \notin {"approve", "force"}
      BY <1>2, <1>4 DEF OneTargetRun, AloneBeforeGate
    <2>2. Pipeline \notin Measures /\ Measures \subseteq Tasks
      BY LoopRunAssumption DEF Tasks
    <2> QED BY <1>0, <1>1, <1>2, <1>3, <2>1, <2>2
  <1>5. CASE pc[t] \in PastTarget
    <2>1. hist \in {Inside(4), Through(4), Inside(5), Inside(6), Through(6), Inside(7)}
      BY <1>1, <1>5 DEF HistoryFits, PastTarget
    <2>2. Targeted(hist)
      BY <2>1, OnRecord DEF Targeted
    <2>3. hist # Through(3)
      BY <2>2, OnRecord DEF Targeted
    <2>4. hist # Through(5)
      <3>1. <<5, "completed">> \in Through(5)
        BY DEF Through
      <3>2. <<6, "in_progress">> \notin Through(5) /\ <<6, "completed">> \notin Through(5)
            /\ <<7, "in_progress">> \notin Through(5)
        BY DEF Through
      <3>3. <<5, "completed">> \notin Inside(4) /\ <<5, "completed">> \notin Through(4)
            /\ <<5, "completed">> \notin Inside(5)
        BY DEF Through, Inside
      <3>4. <<6, "in_progress">> \in Inside(6) /\ <<6, "completed">> \in Through(6)
            /\ <<7, "in_progress">> \in Inside(7)
        BY DEF Through, Inside
      <3> QED BY <2>1, <3>1, <3>2, <3>3, <3>4
    <2> QED BY <1>1, <1>2, <1>3, <2>2, <2>3, <2>4 DEF OverlapInv, GateOnRecord, StopOnRecord
  <1> QED BY <1>1, <1>4, <1>5

\* What a commit that writes the history has to respect.
LEMMA WriterLeaves ==
    ASSUME RunTypes, OverlapInv, NEW t \in Tasks, \A u \in Tasks : Writing(u) => u = t,
           pc[t] \notin Gone, pc[Pipeline] = "queued" => t = Pipeline,
           NEW k \in Stage, hist' \in {Through(k), Inside(k), BrokenAt(k)},
           NEW p \in Pc \ {"queued"}, pc' = [pc EXCEPT ![t] = p],
           memHist' = [memHist EXCEPT ![t] = hist'], op' = op,
           p \notin Gone => HistoryFits(t)',
           status' = "awaiting_approval" =>
              hist' = Through(CONVERT) /\ t \notin Resumes /\ \A u \in Resumes : pc[u] = "none",
           status' = "awaiting_training" => hist' = Through(TRAIN),
           (\E r \in Slots : op[r] = "approve") \/ (\E u \in Resumes : pc[u] # "none")
              => Targeted(hist'),
           (\E r \in Slots : op[r] = "force") \/ (\E m \in Measures : pc[m] # "none")
              => StageAlreadyRan(hist', MEASURE)
    PROVE  OverlapInv'
  <1>0. Pipeline \in Tasks /\ Resumes \subseteq Tasks /\ Measures \subseteq Tasks
    BY DEF Tasks, Runners
  <1>1. /\ pc'[t] = p /\ memHist'[t] = hist'
        /\ \A u \in Tasks : u # t => pc'[u] = pc[u]
    BY DEF RunTypes
  <1>2. \A u \in Tasks : Writing(u)' => u = t /\ p \notin Gone
    BY <1>1 DEF Writing
  <1>3. OneWriter'
    <2>1. \E i \in INGEST..FEEDBACK : hist' \in {Through(i), Inside(i), BrokenAt(i)}
      BY DEF Stage
    <2>2. pc'[Pipeline] # "queued"
      BY <1>0, <1>1
    <2> QED BY <1>1, <1>2, <2>1, <2>2 DEF OneWriter
  <1>4. \A u \in Tasks : pc'[u] # "none" => pc[u] # "none"
    BY <1>1 DEF Gone
  <1>5. GateOnRecord' /\ StopOnRecord'
    BY <1>0, <1>1, <1>4 DEF GateOnRecord, StopOnRecord, Targeted, StageAlreadyRan
  <1> QED BY <1>3, <1>5 DEF OverlapInv

\* The writer takes the history on from stage j to stage k.
LEMMA WriterCommits ==
    ASSUME RunTypes, OneTargetRun, OverlapInv, NEW t \in Tasks, Writing(t),
           NEW j \in Stage, NEW k \in Stage, j <= k, hist \in {Through(j), Inside(j)},
           NEW h \in {Through(k), Inside(k), BrokenAt(k)},
           NEW loaded \in {Held(t), Fresh}, NEW s, NEW p \in Pc \ {"queued"},
           TaskCommit(t, loaded, h, s, p), op' = op,
           p \notin Gone /\ pc'[t] = p /\ hist' = h => HistoryFits(t)',
           s # loaded.status =>
              /\ s = "awaiting_approval" => h = Through(CONVERT) /\ pc[t] \in BeforeGate
              /\ s = "awaiting_training" => h = Through(TRAIN)
    PROVE  OverlapInv'
  <1> USE StageOrdinals
  <1>1. /\ HistoryFits(t) /\ memHist[t] = hist /\ \A u \in Tasks : Writing(u) => u = t
        /\ pc[t] \in BeforeGate => t = Pipeline
        /\ pc[Pipeline] # "queued"
        /\ status # "awaiting_approval" /\ status # "awaiting_training"
        /\ (\E r \in Slots : op[r] = "approve") \/ (\E u \in Resumes : pc[u] # "none")
              => Targeted(hist)
        /\ (\E r \in Slots : op[r] = "force") \/ (\E m \in Measures : pc[m] # "none")
              => StageAlreadyRan(hist, MEASURE)
    BY WriterPast
  <1>2. loaded.hist = hist /\ pc[t] \notin Gone
    BY <1>1 DEF Held, Fresh, Writing
  <1>3. /\ hist' = h /\ pc' = [pc EXCEPT ![t] = p]
        /\ status' = status \/ (status' = s /\ s # loaded.status)
        /\ memHist' = [memHist EXCEPT ![t] = hist'] /\ pc'[t] = p
    BY <1>2 DEF TaskCommit, RunTypes
  <1>4. /\ Targeted(hist) => Targeted(hist')
        /\ StageAlreadyRan(hist, MEASURE) => StageAlreadyRan(hist', MEASURE)
    BY <1>3, OnRecord DEF Targeted
  <1>5. pc[t] \in BeforeGate => t \notin Resumes /\ \A u \in Resumes : pc[u] = "none"
    <2>1. Resumes \subseteq Tasks \ {Pipeline}
      BY LoopRunAssumption DEF Tasks, Runners
    <2> QED BY <1>1, <2>1 DEF OneTargetRun, AloneBeforeGate
  <1>6. /\ status' = "awaiting_approval" =>
              hist' = Through(CONVERT) /\ t \notin Resumes /\ \A u \in Resumes : pc[u] = "none"
        /\ status' = "awaiting_training" => hist' = Through(TRAIN)
    BY <1>1, <1>3, <1>5
  <1> QED BY <1>1, <1>2, <1>3, <1>4, <1>6, WriterLeaves

\* What a task that writes holds, and where a failing stage leaves the record.
LEMMA WriterHolds ==
    ASSUME OverlapInv, NEW t \in Tasks, pc[t] \notin Gone \cup {"queued"}
    PROVE  Writing(t) /\ HistoryFits(t) /\ memHist[t] = hist
  BY DEF Writing, OverlapInv, OneWriter

LEMMA FailOverlaps ==
    ASSUME RunTypes, OneTargetRun, OverlapInv, NEW t \in Tasks, Writing(t),
           NEW k \in 2..7, hist = Inside(k), Fail(t, k), op' = op
    PROVE  OverlapInv'
  <1>1. memHist[t] = hist
    BY WriterHolds DEF Writing
  <1>2. TaskCommit(t, Held(t), BrokenAt(k), "failed", Ended(t))
    BY <1>1, Histories DEF Fail
  <1>3. k \in Stage /\ k <= k
    BY StageOrdinals
  <1>4. Ended(t) \in Gone /\ Ended(t) \in Pc \ {"queued"}
    BY DEF Gone, Ended, Pc
  <1> QED BY <1>2, <1>3, <1>4, WriterCommits

\* The pipeline prepares the module: nobody else is there before the gate.
LEMMA PipelineOverlaps ==
    ASSUME RunTypes, OneTargetRun, OverlapInv, PipelineStep
    PROVE  OverlapInv'
  <1> DEFINE t == Pipeline
  <1> USE StageOrdinals
  <1>0. t \in Tasks /\ t \notin Measures /\ Ended(t) = "done" /\ t \notin Resumes
        /\ Resumes \subseteq Tasks /\ Measures \subseteq Tasks
    BY LoopRunAssumption DEF Tasks, Runners, Ended
  <1>o. op' = op
    BY DEF PipelineStep, AnalyzeStart, AnalyzeDone, BenignClose, ConvertStart, ConvertDone,
       ReachGate, reqs
  <1>p. {"analyzing", "analyzed", "benign", "converting", "converted", "approved", "done"}
          \subseteq Pc \ {"queued"}
    BY DEF Pc, Suspended, MidStretch, Gone
  <1>w. pc[t] \notin Gone \cup {"queued"} =>
           Writing(t) /\ HistoryFits(t) /\ memHist[t] = hist
    BY <1>0, WriterHolds
  <1>1. CASE AnalyzeStart
    <2>1. pc[t] = "queued"
      BY <1>1 DEF AnalyzeStart, At
    <2>2. hist = Through(1)
      BY <2>1 DEF OverlapInv, OneWriter
    <2>3. /\ status = "running" /\ \A u \in Tasks : u # t => pc[u] = "none"
          /\ \A r \in Slots : op[r] \notin {"approve", "force"}
      BY <1>0, <2>1 DEF OneTargetRun, AloneBeforeGate, BeforeGate
    <2>4. /\ hist' \in {hist, Inside(2)} /\ status' = status
          /\ memHist' = [memHist EXCEPT ![t] = Inside(2)]
          /\ pc' = [pc EXCEPT ![t] = "analyzing"]
          /\ (Inside(2) # hist => hist' = Inside(2))
      BY <1>1, <2>2, Histories DEF AnalyzeStart, TaskCommit, Fresh
    <2>5. hist' = Inside(2)
      BY <2>4
    <2>6. /\ pc[t] \notin Gone /\ \A u \in Tasks : Writing(u) => u = t
          /\ \A u \in Resumes \cup Measures : pc[u] = "none"
      BY <1>0, <2>1, <2>3 DEF Writing, Gone
    <2>7. HistoryFits(t)'
      BY <1>0, <2>4, <2>5 DEF HistoryFits, RunTypes
    <2>8. 2 \in Stage
      OBVIOUS
    <2> QED BY <1>0, <1>o, <1>p, <2>3, <2>4, <2>5, <2>6, <2>7, <2>8, WriterLeaves
  <1>2. CASE AnalyzeDone
    <2>1. pc[t] = "analyzing"
      BY <1>2 DEF AnalyzeDone, At
    <2>2. Writing(t) /\ hist = Inside(2) /\ memHist[t] = hist
      BY <1>w, <2>1 DEF HistoryFits, Gone
    <2>3. ASSUME NEW v \in {"analyzed", "benign"}, Advance(t, StageDone(memHist[t], ANALYZE), v)
          PROVE  OverlapInv'
      <3>1. TaskCommit(t, Held(t), Through(2), memStatus[t], v) /\ Held(t).status = memStatus[t]
        BY <2>2, <2>3, Histories DEF Advance, Held
      <3>2. pc'[t] = v /\ hist' = Through(2) => HistoryFits(t)'
        BY DEF HistoryFits
      <3>3. 2 \in Stage /\ 2 <= 2
        OBVIOUS
      <3> QED BY <1>0, <1>o, <1>p, <2>2, <3>1, <3>2, <3>3, WriterCommits
    <2> QED BY <1>0, <1>2, <1>o, <2>2, <2>3, FailOverlaps DEF AnalyzeDone
  <1>3. CASE BenignClose
    <2>1. pc[t] = "benign"
      BY <1>3 DEF BenignClose, At
    <2>2. Writing(t) /\ hist = Through(2) /\ memHist[t] = hist
      BY <1>w, <2>1 DEF HistoryFits, Gone
    <2>3. TaskCommit(t, Held(t), Through(3), "completed", "done")
      BY <1>3, <2>2, Histories DEF BenignClose
    <2>4. 2 \in Stage /\ 3 \in Stage /\ 2 <= 3 /\ "done" \in Gone
      BY DEF Gone
    <2> QED BY <1>0, <1>o, <1>p, <2>2, <2>3, <2>4, WriterCommits
  <1>4. CASE ConvertStart
    <2>1. pc[t] = "analyzed"
      BY <1>4 DEF ConvertStart, At
    <2>2. Writing(t) /\ hist = Through(2) /\ memHist[t] = hist
      BY <1>w, <2>1 DEF HistoryFits, Gone
    <2>3. TaskCommit(t, Held(t), Inside(3), memStatus[t], "converting")
          /\ Held(t).status = memStatus[t]
      BY <1>4, <2>2, Histories DEF ConvertStart, Advance, Held
    <2>4. pc'[t] = "converting" /\ hist' = Inside(3) => HistoryFits(t)'
      BY DEF HistoryFits
    <2>5. 2 \in Stage /\ 3 \in Stage /\ 2 <= 3
      OBVIOUS
    <2> QED BY <1>0, <1>o, <1>p, <2>2, <2>3, <2>4, <2>5, WriterCommits
  <1>5. CASE ConvertDone
    <2>1. pc[t] = "converting"
      BY <1>5 DEF ConvertDone, At
    <2>2. Writing(t) /\ hist = Inside(3) /\ memHist[t] = hist
      BY <1>w, <2>1 DEF HistoryFits, Gone
    <2>3. CASE Advance(t, StageDone(memHist[t], CONVERT), "converted")
      <3>1. TaskCommit(t, Held(t), Through(3), memStatus[t], "converted")
            /\ Held(t).status = memStatus[t]
        BY <2>2, <2>3, Histories DEF Advance, Held
      <3>2. pc'[t] = "converted" /\ hist' = Through(3) => HistoryFits(t)'
        BY DEF HistoryFits
      <3>3. 3 \in Stage /\ 3 <= 3
        OBVIOUS
      <3> QED BY <1>0, <1>o, <1>p, <2>2, <3>1, <3>2, <3>3, WriterCommits
    <2> QED BY <1>0, <1>5, <1>o, <2>2, <2>3, FailOverlaps DEF ConvertDone
  <1>6. CASE ReachGate
    <2>1. pc[t] = "converted"
      BY <1>6 DEF ReachGate, At
    <2>2. Writing(t) /\ hist = Through(3) /\ memHist[t] = hist
      BY <1>w, <2>1 DEF HistoryFits, Gone
    <2>3. 3 \in Stage /\ 3 <= 3 /\ "done" \in Gone
      BY DEF Gone
    <2>4. CASE Advance(t, memHist[t], "approved")
      <3>1. TaskCommit(t, Held(t), Through(3), memStatus[t], "approved")
            /\ Held(t).status = memStatus[t]
        BY <2>2, <2>4 DEF Advance, Held
      <3>2. pc'[t] = "approved" /\ hist' = Through(3) => HistoryFits(t)'
        BY DEF HistoryFits
      <3> QED BY <1>0, <1>o, <1>p, <2>2, <2>3, <3>1, <3>2, WriterCommits
    <2>5. CASE TaskCommit(t, Held(t), memHist[t], "awaiting_approval", "done")
      <3>1. TaskCommit(t, Held(t), Through(3), "awaiting_approval", "done")
            /\ pc[t] \in BeforeGate
        BY <2>1, <2>2, <2>5 DEF BeforeGate
      <3> QED BY <1>0, <1>o, <1>p, <2>2, <2>3, <3>1, WriterCommits
    <2> QED BY <1>6, <2>4, <2>5 DEF ReachGate
  <1> QED BY <1>1, <1>2, <1>3, <1>4, <1>5, <1>6 DEF PipelineStep

\* A step that leaves the history and every copy of it alone.
LEMMA RecordStands ==
    ASSUME RunTypes, OverlapInv, hist' = hist, memHist' = memHist,
           \A t \in Tasks : \/ pc'[t] = pc[t] \/ pc'[t] \in Gone
                            \/ pc[t] = "none" /\ pc'[t] = "queued" /\ t # Pipeline,
           status' = "awaiting_approval" =>
              /\ status = "awaiting_approval"
              /\ \A t \in Resumes : pc'[t] # "none" => pc[t] # "none",
           status' = "awaiting_training" => status = "awaiting_training",
           (\E r \in Slots : op'[r] = "approve") \/ (\E t \in Resumes : pc'[t] # "none") =>
              hist = Through(CONVERT) \/ Targeted(hist),
           (\E r \in Slots : op'[r] = "force") \/ (\E m \in Measures : pc'[m] # "none") =>
              hist = Through(TRAIN) \/ StageAlreadyRan(hist, MEASURE)
    PROVE  OverlapInv'
  <1>0. Pipeline \in Tasks /\ Resumes \subseteq Tasks /\ Measures \subseteq Tasks
    BY DEF Tasks, Runners
  <1>1. \A t \in Tasks : Writing(t)' => Writing(t) /\ pc'[t] = pc[t]
    BY DEF Writing, Gone
  <1>2. pc'[Pipeline] = "queued" => pc[Pipeline] = "queued"
    BY <1>0 DEF Gone
  <1>3. OneWriter'
    <2>1. \A t \in Tasks : Writing(t)' => HistoryFits(t)' /\ memHist'[t] = hist'
      <3> SUFFICES ASSUME NEW t \in Tasks, Writing(t)'
                   PROVE  HistoryFits(t)' /\ memHist'[t] = hist'
        OBVIOUS
      <3>1. Writing(t) /\ pc'[t] = pc[t]
        BY <1>1
      <3>2. HistoryFits(t) /\ memHist[t] = hist
        BY <3>1 DEF OverlapInv, OneWriter
      <3> QED BY <3>1, <3>2 DEF HistoryFits
    <2> QED BY <1>1, <1>2, <2>1 DEF OverlapInv, OneWriter
  <1>4. GateOnRecord' /\ StopOnRecord'
    BY <1>0 DEF OverlapInv, GateOnRecord, StopOnRecord, Targeted, StageAlreadyRan
  <1> QED BY <1>3, <1>4 DEF OverlapInv

\* A task that ends without writing leaves the record as it was.
LEMMA ReturnOverlaps ==
    ASSUME RunTypes, OverlapInv, NEW t \in Tasks, pc[t] \notin Gone, Return(t), op' = op
    PROVE  OverlapInv'
  <1>0. Resumes \subseteq Tasks /\ Measures \subseteq Tasks
    BY DEF Tasks, Runners
  <1>1. /\ hist' = hist /\ status' = status /\ memHist' = memHist
        /\ pc' = [pc EXCEPT ![t] = Ended(t)] /\ Ended(t) \in Gone
    BY DEF Return, runRow, Ended, Gone
  <1>2. \A u \in Tasks : /\ pc'[u] = pc[u] \/ pc'[u] \in Gone
                         /\ pc'[u] # "none" => pc[u] # "none"
    BY <1>1 DEF RunTypes, Gone
  <1>3. /\ status = "awaiting_approval" => \A u \in Resumes : pc'[u] # "none" => pc[u] # "none"
        /\ (\E r \in Slots : op'[r] = "approve") \/ (\E u \in Resumes : pc'[u] # "none") =>
              hist = Through(CONVERT) \/ Targeted(hist)
        /\ (\E r \in Slots : op'[r] = "force") \/ (\E m \in Measures : pc'[m] # "none") =>
              hist = Through(TRAIN) \/ StageAlreadyRan(hist, MEASURE)
    BY <1>0, <1>2 DEF OverlapInv, GateOnRecord, StopOnRecord
  <1> QED BY <1>1, <1>2, <1>3, RecordStands

\* A queued approval that is not refused finds nobody at work and the run
\* still at the gate, whatever status a late approval has written.
LEMMA TargetStartOverlaps ==
    ASSUME RunTypes, OneTargetRun, OverlapInv, NEW t \in Runners, TargetStart(t)
    PROVE  OverlapInv'
  <1> USE StageOrdinals
  <1>0. t \in Tasks /\ (t # Pipeline => t \in Resumes /\ t \notin Measures)
        /\ Resumes \subseteq Tasks /\ Measures \subseteq Tasks /\ Pipeline \in Tasks
        /\ Pipeline \notin Resumes
    BY LoopRunAssumption DEF Tasks, Runners
  <1>1. op' = op /\ pc[t] = IF t = Pipeline THEN "approved" ELSE "queued"
    BY DEF TargetStart, reqs, At
  <1>p. "targeting" \in Pc \ {"queued"} /\ "targeting" \notin Gone /\ 3 \in Stage /\ 4 \in Stage
        /\ 3 <= 4
    BY DEF Pc, Suspended, Gone
  <1>2. CASE Return(t)
    BY <1>0, <1>1, <1>2, ReturnOverlaps DEF Gone
  <1>3. CASE ~TargetRefused(t) /\ TaskCommit(t, Fresh, StageStart(hist, TARGET), status, "targeting")
    <2>1. ~Targeted(hist)
      BY <1>3 DEF TargetRefused, Targeted
    <2>2. CASE t = Pipeline
      <3>1. Writing(t)
        BY <1>1, <2>2 DEF Writing, Gone
      <3>2. hist = Through(3)
        BY <1>0, <1>1, <2>2, <3>1 DEF OverlapInv, OneWriter, HistoryFits
      <3>3. TaskCommit(t, Fresh, Inside(4), status, "targeting") /\ Fresh.status = status
        BY <1>3, <3>2, Histories DEF Fresh
      <3>4. pc'[t] = "targeting" /\ hist' = Inside(4) => HistoryFits(t)'
        BY DEF HistoryFits
      <3> QED BY <1>0, <1>1, <1>p, <3>1, <3>2, <3>3, <3>4, WriterCommits
    <2>3. CASE t # Pipeline
      <3>1. pc[t] = "queued" /\ t \in Resumes
        BY <1>0, <1>1, <2>3
      <3>2. hist = Through(3)
        BY <2>1, <3>1 DEF OverlapInv, GateOnRecord
      <3>3. \A u \in Tasks : ~Writing(u)
        BY <2>1, <3>1, WriterPast
      <3>4. /\ hist' = Inside(4) /\ status' = status
            /\ memHist' = [memHist EXCEPT ![t] = Inside(4)]
            /\ pc' = [pc EXCEPT ![t] = "targeting"]
        <4>1. StageStart(hist, TARGET) = Inside(4)
          BY <3>2, Histories
        <4> QED BY <1>3, <4>1 DEF TaskCommit, Fresh
      <3>5. HistoryFits(t)'
        BY <1>0, <3>4 DEF HistoryFits, RunTypes
      <3>6. Targeted(hist')
        BY <1>p, <3>4, OnRecord DEF Targeted
      <3>7. pc[Pipeline] # "queued"
        BY <1>0, <2>3, <3>1 DEF OneTargetRun, AloneBeforeGate, BeforeGate
      <3>8. hist # Through(5) /\ ~StageAlreadyRan(hist, MEASURE)
        <4>1. 5 \in Stage /\ 6 \in Stage /\ 3 \in Stage
          OBVIOUS
        <4> QED BY <3>2, <4>1, OnRecord
      <3>9. /\ status' # "awaiting_approval" /\ status' # "awaiting_training"
            /\ ~(\E r \in Slots : op[r] = "force") /\ ~(\E m \in Measures : pc[m] # "none")
        BY <3>1, <3>4, <3>8 DEF OverlapInv, GateOnRecord, StopOnRecord
      <3>10. pc[t] \notin Gone
        BY <3>1 DEF Gone
      <3> QED
        BY <1>0, <1>1, <1>p, <3>3, <3>4, <3>5, <3>6, <3>7, <3>9, <3>10, WriterLeaves
    <2> QED BY <2>2, <2>3
  <1> QED BY <1>2, <1>3 DEF TargetStart

LEMMA RunnerOverlaps ==
    ASSUME RunTypes, OneTargetRun, OverlapInv, NEW t \in Runners, RunnerStep(t)
    PROVE  OverlapInv'
  <1> USE StageOrdinals
  <1>0. t \in Tasks /\ t \notin Measures
    BY LoopRunAssumption DEF Tasks, Runners
  <1>p. {"targeted", "training", "measuring", "done"} \subseteq Pc \ {"queued"}
        /\ "done" \in Gone
    BY DEF Pc, MidStretch, Gone
  <1>o. op' = op
    BY DEF RunnerStep, TargetStart, TargetDone, TrainStart, TrainAssign, TrainNobody, reqs
  <1>1. CASE TargetDone(t)
    <2>1. pc[t] = "targeting"
      BY <1>1 DEF TargetDone, At
    <2>2. Writing(t) /\ hist = Inside(4) /\ memHist[t] = hist
      BY <1>0, <2>1, WriterHolds DEF HistoryFits, Gone
    <2>3. CASE Advance(t, StageDone(memHist[t], TARGET), "targeted")
      <3>1. TaskCommit(t, Held(t), Through(4), memStatus[t], "targeted")
            /\ Held(t).status = memStatus[t]
        BY <2>2, <2>3, Histories DEF Advance, Held
      <3>2. pc'[t] = "targeted" /\ hist' = Through(4) => HistoryFits(t)'
        BY DEF HistoryFits
      <3>3. 4 \in Stage /\ 4 <= 4
        OBVIOUS
      <3> QED BY <1>0, <1>o, <1>p, <2>2, <3>1, <3>2, <3>3, WriterCommits
    <2>4. CASE Fail(t, TARGET)
      BY <1>0, <1>o, <2>2, <2>4, FailOverlaps
    <2> QED BY <1>1, <2>3, <2>4 DEF TargetDone
  <1>2. CASE TrainStart(t)
    <2>1. pc[t] = "targeted"
      BY <1>2 DEF TrainStart, At
    <2>2. Writing(t) /\ hist = Through(4) /\ memHist[t] = hist
      BY <1>0, <2>1, WriterHolds DEF HistoryFits, Gone
    <2>3. TaskCommit(t, Held(t), Inside(5), memStatus[t], "training")
          /\ Held(t).status = memStatus[t]
      BY <1>2, <2>2, Histories DEF TrainStart, Advance, Held
    <2>4. pc'[t] = "training" /\ hist' = Inside(5) => HistoryFits(t)'
      BY DEF HistoryFits
    <2>5. 4 \in Stage /\ 5 \in Stage /\ 4 <= 5
      OBVIOUS
    <2> QED BY <1>0, <1>o, <1>p, <2>2, <2>3, <2>4, <2>5, WriterCommits
  <1>3. CASE TrainAssign(t)
    <2>1. pc[t] = "training"
      BY <1>3 DEF TrainAssign, At
    <2>2. Writing(t) /\ hist = Inside(5) /\ memHist[t] = hist
      BY <1>0, <2>1, WriterHolds DEF HistoryFits, Gone
    <2>3. CASE TaskCommit(t, Held(t), StageDone(memHist[t], TRAIN), "awaiting_training", "done")
      <3>1. TaskCommit(t, Held(t), Through(5), "awaiting_training", "done")
        BY <2>2, <2>3, Histories
      <3>2. 5 \in Stage /\ 5 <= 5
        OBVIOUS
      <3> QED BY <1>0, <1>o, <1>p, <2>2, <3>1, <3>2, WriterCommits
    <2>4. CASE Fail(t, TRAIN)
      BY <1>0, <1>o, <2>2, <2>4, FailOverlaps
    <2> QED BY <1>3, <2>3, <2>4 DEF TrainAssign
  <1>4. CASE TrainNobody(t)
    <2>1. pc[t] = "training"
      BY <1>4 DEF TrainNobody, At
    <2>2. Writing(t) /\ hist = Inside(5) /\ memHist[t] = hist
      BY <1>0, <2>1, WriterHolds DEF HistoryFits, Gone
    <2>3. CASE Return(t)
      BY <1>0, <1>o, <2>2, <2>3, ReturnOverlaps DEF Writing
    <2>4. CASE TaskCommit(t, Held(t), StageStart(StageDone(memHist[t], TRAIN), MEASURE),
                          "running", "measuring")
      <3>1. TaskCommit(t, Held(t), Inside(6), "running", "measuring")
        BY <2>2, <2>4, Histories
      <3>2. pc'[t] = "measuring" /\ hist' = Inside(6) => HistoryFits(t)'
        BY DEF HistoryFits
      <3>3. 5 \in Stage /\ 6 \in Stage /\ 5 <= 6
        OBVIOUS
      <3> QED BY <1>0, <1>o, <1>p, <2>2, <3>1, <3>2, <3>3, WriterCommits
    <2> QED BY <1>4, <2>3, <2>4 DEF TrainNobody
  <1> QED BY <1>1, <1>2, <1>3, <1>4, TargetStartOverlaps DEF RunnerStep

\* Of several queued measurements the first opens MEASURE; the run stopped
\* for training, so nobody else is at work.
LEMMA MeasureStartOverlaps ==
    ASSUME RunTypes, OneTargetRun, OverlapInv, NEW m \in Measures, MeasureStart(m)
    PROVE  OverlapInv'
  <1> USE StageOrdinals
  <1>0. m \in Tasks /\ m # Pipeline /\ m \notin Resumes
        /\ Resumes \subseteq Tasks /\ Pipeline \in Tasks
    BY LoopRunAssumption DEF Tasks, Runners
  <1>1. op' = op /\ pc[m] = "queued" /\ pc[m] \notin Gone
    BY DEF MeasureStart, reqs, At, Gone
  <1>2. CASE Return(m)
    BY <1>0, <1>1, <1>2, ReturnOverlaps
  <1>3. CASE /\ ~MeasureRefused(hist, status)
             /\ TaskCommit(m, Fresh, StageStart(hist, MEASURE), "running", "measuring")
    <2>1. ~StageAlreadyRan(hist, MEASURE)
      BY <1>3 DEF MeasureRefused
    <2>2. hist = Through(5)
      BY <1>1, <2>1 DEF OverlapInv, StopOnRecord
    <2>3. \A u \in Tasks : ~Writing(u)
      BY <1>1, <2>1, WriterPast
    <2>4. /\ hist' = Inside(6) /\ status' = "running"
          /\ memHist' = [memHist EXCEPT ![m] = Inside(6)]
          /\ pc' = [pc EXCEPT ![m] = "measuring"]
      <3>1. StageStart(hist, MEASURE) = Inside(6)
        BY <2>2, Histories
      <3> QED BY <1>3, <3>1 DEF TaskCommit, Fresh
    <2>5. HistoryFits(m)'
      BY <1>0, <2>4 DEF HistoryFits, RunTypes
    <2>6. Targeted(hist') /\ StageAlreadyRan(hist', MEASURE) /\ 6 \in Stage
      <3>1. 6 \in Stage /\ 4 <= 6 /\ 4 \in Stage
        OBVIOUS
      <3> QED BY <3>1, <2>4, OnRecord DEF Targeted
    <2>7. pc[Pipeline] # "queued"
      BY <1>0, <1>1 DEF OneTargetRun, AloneBeforeGate, BeforeGate
    <2>8. "measuring" \in Pc \ {"queued"}
      BY DEF Pc, MidStretch
    <2> QED BY <1>0, <1>1, <2>3, <2>4, <2>5, <2>6, <2>7, <2>8, WriterLeaves
  <1> QED BY <1>2, <1>3 DEF MeasureStart

LEMMA MeasureOverlaps ==
    ASSUME RunTypes, OneTargetRun, OverlapInv, NEW t \in Tasks, MeasureStep(t)
    PROVE  OverlapInv'
  <1> USE StageOrdinals
  <1>p. {"measured", "feeding"} \subseteq Pc \ {"queued"}
        /\ Ended(t) \in Gone /\ Ended(t) \in Pc \ {"queued"}
    BY DEF Pc, MidStretch, Gone, Ended
  <1>o. op' = op
    BY DEF MeasureStep, MeasureDone, FeedbackStart, FeedbackDone, reqs
  <1>1. CASE MeasureDone(t)
    <2>1. pc[t] = "measuring"
      BY <1>1 DEF MeasureDone, At
    <2>2. Writing(t) /\ hist = Inside(6) /\ memHist[t] = hist
      BY <2>1, WriterHolds DEF HistoryFits, Gone
    <2>3. CASE Advance(t, StageDone(memHist[t], MEASURE), "measured")
      <3>1. TaskCommit(t, Held(t), Through(6), memStatus[t], "measured")
            /\ Held(t).status = memStatus[t]
        BY <2>2, <2>3, Histories DEF Advance, Held
      <3>2. pc'[t] = "measured" /\ hist' = Through(6) => HistoryFits(t)'
        BY DEF HistoryFits
      <3>3. 6 \in Stage /\ 6 <= 6
        OBVIOUS
      <3> QED BY <1>o, <1>p, <2>2, <3>1, <3>2, <3>3, WriterCommits
    <2>4. CASE Fail(t, MEASURE)
      BY <1>o, <2>2, <2>4, FailOverlaps
    <2> QED BY <1>1, <2>3, <2>4 DEF MeasureDone
  <1>2. CASE FeedbackStart(t)
    <2>1. pc[t] = "measured"
      BY <1>2 DEF FeedbackStart, At
    <2>2. Writing(t) /\ hist = Through(6) /\ memHist[t] = hist
      BY <2>1, WriterHolds DEF HistoryFits, Gone
    <2>3. TaskCommit(t, Held(t), Inside(7), memStatus[t], "feeding")
          /\ Held(t).status = memStatus[t]
      BY <1>2, <2>2, Histories DEF FeedbackStart, Advance, Held
    <2>4. pc'[t] = "feeding" /\ hist' = Inside(7) => HistoryFits(t)'
      BY DEF HistoryFits
    <2>5. 6 \in Stage /\ 7 \in Stage /\ 6 <= 7
      OBVIOUS
    <2> QED BY <1>o, <1>p, <2>2, <2>3, <2>4, <2>5, WriterCommits
  <1>3. CASE FeedbackDone(t)
    <2>1. pc[t] = "feeding"
      BY <1>3 DEF FeedbackDone, At
    <2>2. Writing(t) /\ hist = Inside(7) /\ memHist[t] = hist
      BY <2>1, WriterHolds DEF HistoryFits, Gone
    <2>3. CASE TaskCommit(t, Held(t), StageDone(memHist[t], FEEDBACK), "completed", Ended(t))
      <3>1. TaskCommit(t, Held(t), Through(7), "completed", Ended(t))
        BY <2>2, <2>3, Histories
      <3>2. 7 \in Stage /\ 7 <= 7
        OBVIOUS
      <3> QED BY <1>o, <1>p, <2>2, <3>1, <3>2, WriterCommits
    <2>4. CASE Fail(t, FEEDBACK)
      BY <1>o, <2>2, <2>4, FailOverlaps
    <2> QED BY <1>3, <2>3, <2>4 DEF FeedbackDone
  <1> QED BY <1>1, <1>2, <1>3 DEF MeasureStep

-----------------------------------------------------------------------------
(* The requests, which write only the status, and the boot. *)

\* An approval or a measurement is submitted on what was read: at the gate,
\* or at the stop, and the history has only gone on since.
LEMMA RequestOverlaps ==
    ASSUME RunTypes, RestTypes, OneTargetRun, OverlapInv, NEW r \in Slots,
           Read(r) \/ Commit(r) \/ RequestDies(r)
    PROVE  OverlapInv'
  <1>0. /\ Pipeline \in Tasks /\ Resumes \subseteq Tasks /\ Measures \subseteq Tasks
        /\ Pipeline \notin Resumes /\ Pipeline \notin Measures /\ Resumes \cap Measures = {}
    BY LoopRunAssumption DEF Tasks, Runners
  <1>1. ASSUME NEW o \in Ops, op' = [op EXCEPT ![r] = o],
               hist' = hist, memHist' = memHist, status' \in {status, "running"},
               \/ pc' = pc
               \/ \E t \in Resumes : Submit(t) /\ op[r] = "approve" /\ status' = "running"
               \/ \E m \in Measures : Submit(m) /\ (op[r] = "force" \/ status = "awaiting_training"),
               o = "approve" => status = "awaiting_approval",
               o = "force" => status = "awaiting_training"
        PROVE  OverlapInv'
    <2>1. \A s \in Slots : op'[s] = op[s] \/ (s = r /\ op'[s] = o)
      BY <1>1 DEF RestTypes
    <2>2. \A t \in Tasks : \/ pc'[t] = pc[t]
                           \/ pc[t] = "none" /\ pc'[t] = "queued" /\ t # Pipeline
      BY <1>0, <1>1 DEF Submit, RunTypes
    <2>3. \A t \in Resumes : pc'[t] # pc[t] => op[r] = "approve" /\ status' = "running"
      BY <1>0, <1>1 DEF Submit, RunTypes
    <2>4. \A m \in Measures : pc'[m] # pc[m] => op[r] = "force" \/ status = "awaiting_training"
      BY <1>0, <1>1 DEF Submit, RunTypes
    <2>5. (\E s \in Slots : op'[s] = "approve") \/ (\E t \in Resumes : pc'[t] # "none") =>
             hist = Through(CONVERT) \/ Targeted(hist)
      BY <1>1, <2>1, <2>3 DEF OverlapInv, GateOnRecord
    <2>6. (\E s \in Slots : op'[s] = "force") \/ (\E m \in Measures : pc'[m] # "none") =>
             hist = Through(TRAIN) \/ StageAlreadyRan(hist, MEASURE)
      BY <1>1, <2>1, <2>4 DEF OverlapInv, StopOnRecord
    <2>7. /\ status' = "awaiting_approval" =>
                /\ status = "awaiting_approval"
                /\ \A t \in Resumes : pc'[t] # "none" => pc[t] # "none"
          /\ status' = "awaiting_training" => status = "awaiting_training"
      BY <1>1, <2>3
    <2> QED BY <1>1, <2>2, <2>5, <2>6, <2>7, RecordStands
  <1>o. {"approve", "reject", "review_ok", "review_no", "force", "start", "complete",
         "idle", "hook"} \subseteq Ops
    BY DEF Ops
  <1>2. CASE Read(r)
    <2>1. PICK o \in Ops : /\ op' = [op EXCEPT ![r] = o]
                           /\ o = "approve" => status = "awaiting_approval"
                           /\ o = "force" => status = "awaiting_training"
      BY <1>2, <1>o DEF Read, ReadApprove, ReadReject, ReadReview, ReadForce, ReadStart,
         ReadComplete, Load
    <2>2. UNCHANGED <<runRow, work>>
      BY <1>2 DEF Read, ReadApprove, ReadReject, ReadReview, ReadForce, ReadStart,
         ReadComplete, Load
    <2> QED BY <1>1, <2>1, <2>2 DEF runRow, work
  <1>3. CASE CommitApprove(r)
    <2>1. /\ op' = [op EXCEPT ![r] = "idle"] /\ hist' = hist /\ status' = "running"
          /\ op[r] = "approve" /\ \E t \in Resumes : Submit(t)
      BY <1>3 DEF CommitApprove, Release
    <2>2. memHist' = memHist
      BY <2>1 DEF Submit
    <2> QED BY <1>o, <1>1, <2>1, <2>2
  <1>4. CASE CommitForce(r)
    <2>1. /\ op' = [op EXCEPT ![r] = "idle"] /\ hist' = hist /\ status' = status
          /\ op[r] = "force" /\ \E m \in Measures : Submit(m)
      BY <1>4 DEF CommitForce, Release, runRow
    <2>2. memHist' = memHist
      BY <2>1 DEF Submit
    <2> QED BY <1>o, <1>1, <2>1, <2>2
  <1>5. CASE OnAssignmentCompleted(r)
    <2>1. /\ op' = [op EXCEPT ![r] = "idle"] /\ hist' = hist /\ status' = status
          /\ \/ status = "awaiting_training" /\ \E m \in Measures : Submit(m)
             \/ UNCHANGED work
      BY <1>5 DEF OnAssignmentCompleted, LastAnswer, Release, runRow
    <2>2. memHist' = memHist
      BY <2>1 DEF Submit, work
    <2>3. pc' = pc \/ \E m \in Measures : Submit(m) /\ status = "awaiting_training"
      BY <2>1 DEF work
    <2> QED BY <1>o, <1>1, <2>1, <2>2, <2>3
  <1>6. CASE CommitReview(r) \/ CommitStart(r) \/ RequestDies(r)
    <2>1. op' = [op EXCEPT ![r] = "idle"] /\ UNCHANGED <<runRow, work>>
      BY <1>6 DEF CommitReview, CommitStart, RequestDies, Release
    <2> QED BY <1>o, <1>1, <2>1 DEF runRow, work
  <1>7. CASE CommitComplete(r)
    <2>1. op' = [op EXCEPT ![r] = "hook"] /\ UNCHANGED <<runRow, work>>
      BY <1>7 DEF CommitComplete
    <2> QED BY <1>o, <1>1, <2>1 DEF runRow, work
  <1>8. ~CommitReject(r)
    BY DEF CommitReject, OneTargetRun
  <1> QED BY <1>2, <1>3, <1>4, <1>5, <1>6, <1>7, <1>8 DEF Commit

LEMMA RestartOverlaps ==
    ASSUME RunTypes, OneTargetRun, OverlapInv, Restart
    PROVE  OverlapInv'
  <1> USE StageOrdinals
  <1>0. /\ Pipeline \in Tasks /\ Measures \subseteq Tasks /\ Resumes \subseteq Tasks
        /\ Resumes \cap Measures = {}
    BY LoopRunAssumption DEF Tasks, Runners
  <1>1. /\ \A r \in Slots : op'[r] = "idle"
        /\ \A t \in Tasks : pc'[t] \in Gone /\ (pc'[t] # "none" => pc[t] # "none")
        /\ \A m \in Measures : pc'[m] = "none"
    BY <1>0 DEF Restart, Gone, Ended
  <1>2. /\ hist' \in {hist, Recovered(hist)} /\ status' # "running"
        /\ status' # "failed" => status' = status /\ hist' = hist
    BY DEF Restart, runRow
  <1>3. PICK k \in Stage : hist \in {Through(k), Inside(k), BrokenAt(k)}
    BY DEF OverlapInv, OneWriter, Stage
  <1>4. hist' \in {Through(k), Inside(k), BrokenAt(k)}
    BY <1>2, <1>3, Recovery
  <1>5. hist = Through(3) => hist' = Through(3)
    <2>1. 3 \in Stage
      OBVIOUS
    <2> QED BY <1>2, <2>1, Recovery
  <1>6. Targeted(hist) => Targeted(hist')
    BY <1>2, TargetedRecovered DEF RunTypes
  <1>7. OneWriter'
    BY <1>0, <1>1, <1>4 DEF OneWriter, Writing, Gone, Stage
  <1>8. GateOnRecord' /\ StopOnRecord'
    BY <1>0, <1>1, <1>2, <1>5, <1>6 DEF OverlapInv, GateOnRecord, StopOnRecord
  <1> QED BY <1>7, <1>8 DEF OverlapInv

LEMMA InitOverlaps == Init => OverlapInv
  <1> SUFFICES ASSUME Init PROVE OverlapInv
    OBVIOUS
  <1> USE StageOrdinals
  <1>0. /\ Measures \subseteq Tasks /\ Resumes \subseteq Tasks /\ Pipeline \in Tasks
        /\ Pipeline \notin Measures /\ Pipeline \notin Resumes
    BY LoopRunAssumption DEF Tasks, Runners
  <1>1. /\ \A t \in Tasks : pc[t] = IF t = Pipeline THEN "queued" ELSE "none"
        /\ \A r \in Slots : op[r] = "idle"
        /\ status = "running"
    BY DEF Init
  <1>2. hist = Through(1) /\ 1 \in Stage
    <2>1. \A s : s \in 1..1 <=> s = 1
      OBVIOUS
    <2> QED BY <2>1 DEF Init, Through
  <1>3. \A t \in Tasks : ~Writing(t)
    BY <1>1 DEF Writing, Gone
  <1>4. OneWriter
    BY <1>2, <1>3 DEF OneWriter, Stage
  <1>5. GateOnRecord /\ StopOnRecord
    BY <1>0, <1>1 DEF GateOnRecord, StopOnRecord
  <1> QED BY <1>4, <1>5 DEF OverlapInv

\* One task at a time writes the history, from a copy that is the row, and no
\* approval comes while the run has not reached the gate: whatever approvals,
\* completions, crashes and errors overlap, as long as nobody rejects
\* (_target_and_train, _measure_and_feedback, _copy_history).
THEOREM OneWriterAtATime ==
    ASSUME "reject" \notin Handlers
    PROVE  Spec => []OverlapInv
  <1>1. TypeOK /\ OneTargetRun /\ OverlapInv /\ [Next]_vars => OverlapInv'
    <2> SUFFICES ASSUME TypeOK, OneTargetRun, OverlapInv, [Next]_vars PROVE OverlapInv'
      OBVIOUS
    <2> RunTypes /\ RestTypes
      BY TypeHalves
    <2>1. CASE PipelineStep
      BY <2>1, PipelineOverlaps
    <2>2. ASSUME NEW t \in Runners, RunnerStep(t) PROVE OverlapInv'
      BY <2>2, RunnerOverlaps
    <2>3. ASSUME NEW m \in Measures, MeasureStart(m) PROVE OverlapInv'
      BY <2>3, MeasureStartOverlaps
    <2>4. ASSUME NEW t \in Tasks, MeasureStep(t) PROVE OverlapInv'
      BY <2>4, MeasureOverlaps
    <2>5. ASSUME NEW r \in Slots, Read(r) \/ Commit(r) \/ RequestDies(r) PROVE OverlapInv'
      BY <2>5, RequestOverlaps
    <2>6. ASSUME NEW t \in Tasks, TaskDies(t) PROVE OverlapInv'
      BY <2>6, ReturnOverlaps DEF TaskDies, reqs
    <2>7. CASE Restart
      BY <2>7, RestartOverlaps
    <2>8. CASE UNCHANGED vars
      <3>1. hist' = hist /\ status' = status /\ memHist' = memHist /\ pc' = pc /\ op' = op
        BY <2>8 DEF vars, runRow, work, reqs
      <3> QED
        BY <3>1 DEF OverlapInv, OneWriter, Writing, HistoryFits, GateOnRecord, StopOnRecord,
           Targeted, StageAlreadyRan
    <2> QED
      BY <2>1, <2>2, <2>3, <2>4, <2>5, <2>6, <2>7, <2>8 DEF Next, TaskStep
  <1> QED BY <1>1, InitOverlaps, Typing, Alone, PTL DEF Spec

\* A stage is entered only when the one before it completed, however many
\* requests overlap.
THEOREM StagesInOrderOverlapping ==
    ASSUME "reject" \notin Handlers
    PROVE  Spec => []StageOrder
  <1> USE StageOrdinals
  <1>1. ASSUME NEW k \in Stage, NEW h \in {Through(k), Inside(k), BrokenAt(k)},
               NEW e \in h, e[1] > INGEST
        PROVE  <<e[1] - 1, "completed">> \in h
    <2>1. e[1] \in 2..k /\ \A s \in 1..(k - 1) : <<s, "completed">> \in h
      BY <1>1 DEF Through, Inside, BrokenAt
    <2> QED BY <2>1
  <1>2. OverlapInv => StageOrder
    BY <1>1 DEF OverlapInv, OneWriter, StageOrder, Stage
  <1> QED BY <1>2, OneWriterAtATime, PTL

\* A task writes the history it read, with an entry opened or closed.
LEMMA TaskKeepsRecord ==
    ASSUME OverlapInv, NEW t \in Tasks, NEW u,
           \/ t = Pipeline /\ PipelineStep
           \/ t \in Runners /\ RunnerStep(t)
           \/ t \in Measures /\ MeasureStart(t)
           \/ MeasureStep(t),
           StageAlreadyRan(hist, u)
    PROVE  StageAlreadyRan(hist', u)
  <1> DEFINE Written(h) == {h} \cup
        UNION {{StageStart(h, k), StageDone(h, k), StageFailed(h, k), StageDone(StageStart(h, k), k)}
               \cup {StageStart(StageDone(h, k), l) : l \in Stage} : k \in Stage}
  <1>1. ASSUME NEW h, StageAlreadyRan(h, u), NEW w \in Written(h) PROVE StageAlreadyRan(w, u)
    <2>1. \A k : /\ StageAlreadyRan(StageStart(h, k), u)
                 /\ StageAlreadyRan(StageDone(h, k), u)
                 /\ StageAlreadyRan(StageFailed(h, k), u)
      BY <1>1, RecordKept
    <2>2. \A k, l : /\ StageAlreadyRan(StageDone(StageStart(h, k), k), u)
                    /\ StageAlreadyRan(StageStart(StageDone(h, k), l), u)
      BY <2>1, RecordKept
    <2> QED BY <1>1, <2>1, <2>2
  <1>k. /\ ANALYZE \in Stage /\ CONVERT \in Stage /\ TARGET \in Stage /\ TRAIN \in Stage
        /\ MEASURE \in Stage /\ FEEDBACK \in Stage
    BY StageOrdinals
  <1>w. ASSUME NEW h PROVE
          /\ h \in Written(h)
          /\ \A k \in Stage : /\ StageStart(h, k) \in Written(h)
                              /\ StageDone(h, k) \in Written(h)
                              /\ StageFailed(h, k) \in Written(h)
                              /\ StageDone(StageStart(h, k), k) \in Written(h)
                              /\ \A l \in Stage : StageStart(StageDone(h, k), l) \in Written(h)
    OBVIOUS
  <1> HIDE DEF Written
  <1>2. ASSUME pc[t] \notin Gone \cup {"queued"}, NEW h \in Written(memHist[t]),
               NEW s, NEW p, TaskCommit(t, Held(t), h, s, p)
        PROVE  StageAlreadyRan(hist', u)
    <2>1. memHist[t] = hist
      BY <1>2, WriterHolds
    <2>2. hist' \in {hist, h}
      BY <1>2 DEF TaskCommit
    <2> QED BY <1>1, <1>2, <2>1, <2>2
  <1>3. ASSUME NEW k \in Stage, NEW s, NEW p, TaskCommit(t, Fresh, StageStart(hist, k), s, p)
        PROVE  StageAlreadyRan(hist', u)
    <2>1. hist' \in {hist, StageStart(hist, k)}
      BY <1>3 DEF TaskCommit
    <2> QED BY <2>1, RecordKept
  <1>4. ASSUME Return(t) PROVE StageAlreadyRan(hist', u)
    BY <1>4 DEF Return, runRow
  <1>5. CASE t = Pipeline /\ PipelineStep
    <2>1. CASE AnalyzeStart
      BY <1>3, <1>5, <1>k, <2>1 DEF AnalyzeStart
    <2>2. CASE ~AnalyzeStart
      <3>1. pc[t] \notin Gone \cup {"queued"}
        BY <1>5, <2>2 DEF PipelineStep, AnalyzeDone, BenignClose, ConvertStart, ConvertDone,
           ReachGate, At, Gone
      <3>2. \E h \in Written(memHist[t]) : \E s, p : TaskCommit(t, Held(t), h, s, p)
        BY <1>5, <1>k, <1>w, <2>2 DEF PipelineStep, AnalyzeDone, BenignClose, ConvertStart,
           ConvertDone, ReachGate, Advance, Fail
      <3> QED BY <1>2, <3>1, <3>2
    <2> QED BY <2>1, <2>2
  <1>6. CASE t \in Runners /\ RunnerStep(t)
    <2>1. CASE TargetStart(t)
      BY <1>3, <1>4, <1>k, <2>1 DEF TargetStart
    <2>2. CASE ~TargetStart(t) /\ ~Return(t)
      <3>1. pc[t] \notin Gone \cup {"queued"}
        BY <1>6, <2>2 DEF RunnerStep, TargetDone, TrainStart, TrainAssign, TrainNobody, At, Gone
      <3>2. \E h \in Written(memHist[t]) : \E s, p : TaskCommit(t, Held(t), h, s, p)
        BY <1>6, <1>k, <1>w, <2>2 DEF RunnerStep, TargetDone, TrainStart, TrainAssign,
           TrainNobody, Advance, Fail
      <3> QED BY <1>2, <3>1, <3>2
    <2> QED BY <1>4, <2>1, <2>2
  <1>7. CASE MeasureStart(t)
    BY <1>3, <1>4, <1>7, <1>k DEF MeasureStart
  <1>8. CASE MeasureStep(t)
    <2>1. pc[t] \notin Gone \cup {"queued"}
      BY <1>8 DEF MeasureStep, MeasureDone, FeedbackStart, FeedbackDone, At, Gone
    <2>2. \E h \in Written(memHist[t]) : \E s, p : TaskCommit(t, Held(t), h, s, p)
      BY <1>8, <1>k, <1>w DEF MeasureStep, MeasureDone, FeedbackStart, FeedbackDone, Advance, Fail
    <2> QED BY <1>2, <2>1, <2>2
  <1> QED BY <1>5, <1>6, <1>7, <1>8

\* No session's older copy of the history erases a stage, however many
\* requests overlap.
THEOREM HistoryIsKeptOverlapping ==
    ASSUME "reject" \notin Handlers
    PROVE  Spec => HistoryKept
  <1>1. ASSUME OneTargetRun, OverlapInv, [Next]_vars, NEW u \in Stage, StageAlreadyRan(hist, u)
        PROVE  StageAlreadyRan(hist', u)
    <2>1. CASE TaskStep
      <3>1. Pipeline \in Tasks /\ Runners \subseteq Tasks /\ Measures \subseteq Tasks
        BY DEF Tasks, Runners
      <3> QED BY <1>1, <2>1, <3>1, TaskKeepsRecord DEF TaskStep
    <2>2. CASE Restart
      <3>1. hist' \in {hist, Recovered(hist)}
        BY <2>2 DEF Restart, runRow
      <3> QED BY <1>1, <3>1, RecordKept
    <2>3. ASSUME NEW r \in Slots, Read(r) \/ Commit(r) \/ RequestDies(r)
          PROVE  StageAlreadyRan(hist', u)
      <3>1. ~CommitReject(r)
        BY <1>1 DEF CommitReject, OneTargetRun
      <3>2. hist' = hist
        BY <2>3, <3>1 DEF Read, ReadApprove, ReadReject, ReadReview, ReadForce, ReadStart,
           ReadComplete, Load, Commit, CommitApprove, CommitReview, CommitForce, CommitStart,
           CommitComplete, OnAssignmentCompleted, RequestDies, runRow
      <3> QED BY <1>1, <3>2
    <2>4. ASSUME NEW t \in Tasks, TaskDies(t) PROVE StageAlreadyRan(hist', u)
      BY <1>1, <2>4 DEF TaskDies, Return, runRow
    <2>5. CASE UNCHANGED vars
      BY <1>1, <2>5 DEF vars, runRow
    <2> QED BY <1>1, <2>1, <2>2, <2>3, <2>4, <2>5 DEF Next
  <1>2. OneTargetRun /\ OverlapInv /\ [Next]_vars
          => [\A s \in INGEST..FEEDBACK :
                 StageAlreadyRan(hist, s) => StageAlreadyRan(hist', s)]_vars
    BY <1>1 DEF Stage
  <1> QED BY <1>2, Alone, OneWriterAtATime, PTL DEF Spec, HistoryKept

=============================================================================
