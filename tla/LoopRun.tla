------------------------------ MODULE LoopRun ------------------------------
(***************************************************************************)
(* One pass of the closed loop (core/orchestrator.py): the database rows   *)
(* of one LoopRun, the asyncio tasks that move it through its stages, and  *)
(* the HTTP requests of analysts and employees that act on it.             *)
(*                                                                         *)
(* Requests run on a thread pool.  Each has a database session of its own, *)
(* which loads rows (a Read action), decides on what it loaded, and writes *)
(* later (a Commit action), only the columns whose value differs from the  *)
(* loaded one; nothing locks a row in between.  Tasks share one event      *)
(* loop: between two awaits a task is interrupted by no other task, but    *)
(* requests commit around each of its own commits.  A task keeps its copy  *)
(* of the run for its whole life (expire_on_commit=False) and overwrites   *)
(* the JSON column stage_history as a whole.                               *)
(***************************************************************************)
EXTENDS Naturals

CONSTANTS
    Emps,        \* the employees a TARGET stage may select
    Slots,       \* request threads: how many requests may be in flight at once
    Pipeline,    \* the task submitted by start_loop
    Resumes,     \* tasks submitted by approvals (_resume_target_train)
    Measures,    \* tasks submitted by completions and force-measure
    Handlers,    \* the endpoints in use, a subset of AllHandlers
    AutoModes,   \* the values settings.auto_approve_training may have
    MaxCrashes,  \* bound on process restarts
    MaxErrors    \* bound on database errors that escape a task or a request

AllHandlers == {"approve", "reject", "review", "force", "start", "complete"}

Runners == {Pipeline} \cup Resumes       \* tasks that run _target_and_train
Tasks   == Runners \cup Measures
AsgIds  == Runners \X Emps               \* TrainingAssignment rows of this run

ASSUME LoopRunAssumption ==
    /\ Pipeline \notin Resumes \cup Measures
    /\ Resumes \cap Measures = {}
    /\ Handlers \subseteq AllHandlers
    /\ AutoModes \subseteq BOOLEAN
    /\ MaxCrashes \in Nat
    /\ MaxErrors \in Nat

INGEST == 1
ANALYZE == 2
CONVERT == 3
TARGET == 4
TRAIN == 5
MEASURE == 6
FEEDBACK == 7

Entry        == (INGEST..FEEDBACK) \X {"in_progress", "completed", "failed"}
LoopStatus   == {"running", "awaiting_approval", "awaiting_training",
                 "completed", "failed"}
Terminal     == {"completed", "failed"}
ModuleStatus == {"none", "pending_review", "approved", "rejected"}
OpenStatus   == {"assigned", "in_progress"}
Settled      == {"completed", "expired"}
AsgStatus    == {"none"} \cup OpenStatus \cup Settled
Summary      == [taken : BOOLEAN, completed : SUBSET AsgIds]
NoSummary    == [taken |-> FALSE, completed |-> {}]

\* Where a task stands.  In Suspended it has yielded the event loop; in
\* MidStretch it holds it, between two commits with no await in between.
Suspended  == {"queued", "analyzing", "converting", "targeting"}
MidStretch == {"analyzed", "benign", "converted", "approved", "targeted",
               "training", "measuring", "measured", "feeding"}
Gone       == {"none", "done"}
Pc         == Suspended \cup MidStretch \cup Gone

Ops == {"idle", "approve", "reject", "review_ok", "review_no", "force",
        "start", "complete", "hook"}

VARIABLES
    status, hist,        \* columns of the LoopRun row
    summary,             \* its measure_summary column
    module,              \* status of its training module, "none" before there is one
    asg,                 \* its TrainingAssignment rows
    exposures,           \* the real_threat_exposure events it wrote
    charges,             \* per assignment, how often its outcome moved the risk score
    rejected,            \* history: an analyst's rejection of the module was committed
    pc, memHist, memStatus, memTargets,     \* the tasks and their copies of the run
    op, seenHist, seenModule, seenAsg,      \* the requests and what they loaded
    auto,                \* settings.auto_approve_training
    crashes, errors      \* counters for the bounds

runRow == <<status, hist>>
people == <<asg, exposures, charges>>
gate   == <<module, rejected>>
work   == <<pc, memHist, memStatus, memTargets>>
reqs   == <<op, seenHist, seenModule, seenAsg>>
env    == <<auto, crashes, errors>>
vars   == <<runRow, summary, people, gate, work, reqs, env>>

-----------------------------------------------------------------------------
(* stage_history: the set of its <<stage, status>> entries. *)

\* Mutant of StageStart: the new list forgets the old one.
StageRestart(h, s) == {<<s, "in_progress">>}

StageStart(h, s) == h \cup {<<s, "in_progress">>}

\* _stage_done and _stage_failed rewrite the open entry of the stage, if any.
StageClose(h, s, outcome) ==
    IF <<s, "in_progress">> \in h
    THEN (h \ {<<s, "in_progress">>}) \cup {<<s, outcome>>}
    ELSE h

StageDone(h, s)   == StageClose(h, s, "completed")

\* Mutant of StageFailed: a status the history does not know.
StageErrored(h, s) == StageClose(h, s, "error")

\* Mutant of StageFailed: the failed entry is dropped from the history.
StageErased(h, s) == h \ {<<s, "in_progress">>}

StageFailed(h, s) == StageClose(h, s, "failed")

StageAlreadyRan(h, s) == \E e \in h : e[1] = s

Open == {a \in AsgIds : asg[a] \in OpenStatus}

-----------------------------------------------------------------------------
(* Tasks on the event loop. *)

EventLoopFree == \A t \in Tasks : pc[t] \notin MidStretch

At(t, p) == pc[t] = p /\ (p \in Suspended => EventLoopFree)

\* A measure task leaves its identifier to a later submission; the
\* identifiers of the others name assignments and are used once.
Ended(t) == IF t \in Measures THEN "none" ELSE "done"

\* The run as task t holds it, and as a session that loads it now gets it.
Held(t) == [hist |-> memHist[t], status |-> memStatus[t]]
Fresh   == [hist |-> hist, status |-> status]

\* Task t commits history h and status s for the run it loaded, and goes on
\* at p.  A column that still has its loaded value is not written.
TaskCommit(t, loaded, h, s, p) ==
    /\ hist' = IF h = loaded.hist THEN hist ELSE h
    /\ status' = IF s = loaded.status THEN status ELSE s
    /\ memHist' = [memHist EXCEPT ![t] = h]
    /\ memStatus' = [memStatus EXCEPT ![t] = s]
    /\ pc' = [pc EXCEPT ![t] = p]

Advance(t, h, p) == TaskCommit(t, Held(t), h, memStatus[t], p)

\* Mutant of Fail: the entry is closed, the run is not.
FailEntry(t, s) ==
    TaskCommit(t, Held(t), StageFailed(memHist[t], s), memStatus[t], Ended(t))

\* The except branch of a stage: entry and run marked failed, task over.
Fail(t, s) ==
    TaskCommit(t, Held(t), StageFailed(memHist[t], s), "failed", Ended(t))

\* A task returns without writing anything.
Return(t) ==
    /\ pc' = [pc EXCEPT ![t] = Ended(t)]
    /\ UNCHANGED <<runRow, memHist, memStatus, memTargets>>

AnalyzeStart ==
    /\ At(Pipeline, "queued")
    /\ TaskCommit(Pipeline, Fresh, StageStart(hist, ANALYZE), status, "analyzing")
    /\ UNCHANGED <<memTargets, summary, people, gate, reqs, env>>

\* The verdict is the analyser's: any.
AnalyzeDone ==
    /\ At(Pipeline, "analyzing")
    /\ \/ \E verdict \in {"analyzed", "benign"} :
             Advance(Pipeline, StageDone(memHist[Pipeline], ANALYZE), verdict)
       \/ Fail(Pipeline, ANALYZE)
    /\ UNCHANGED <<memTargets, summary, people, gate, reqs, env>>

BenignClose ==
    /\ At(Pipeline, "benign")
    /\ TaskCommit(Pipeline, Held(Pipeline),
                  StageDone(StageStart(memHist[Pipeline], CONVERT), CONVERT),
                  "completed", "done")
    /\ UNCHANGED <<memTargets, summary, people, gate, reqs, env>>

ConvertStart ==
    /\ At(Pipeline, "analyzed")
    /\ Advance(Pipeline, StageStart(memHist[Pipeline], CONVERT), "converting")
    /\ UNCHANGED <<memTargets, summary, people, gate, reqs, env>>

ConvertDone ==
    /\ At(Pipeline, "converting")
    /\ \/ /\ module' = "pending_review"
          /\ Advance(Pipeline, StageDone(memHist[Pipeline], CONVERT), "converted")
       \/ /\ Fail(Pipeline, CONVERT)
          /\ UNCHANGED module
    /\ UNCHANGED <<rejected, memTargets, summary, people, reqs, env>>

\* Mutant of ReachGate: the demo setting is not looked at.
ReachGateOpen ==
    /\ At(Pipeline, "converted")
    /\ module' = "approved"
    /\ Advance(Pipeline, memHist[Pipeline], "approved")
    /\ UNCHANGED <<rejected, memTargets, summary, people, reqs, env>>

\* The human gate: open it at once in demo mode, else hold the run.
ReachGate ==
    /\ At(Pipeline, "converted")
    /\ \/ /\ auto
          /\ module' = "approved"
          /\ Advance(Pipeline, memHist[Pipeline], "approved")
       \/ /\ ~auto
          /\ TaskCommit(Pipeline, Held(Pipeline), memHist[Pipeline],
                        "awaiting_approval", "done")
          /\ UNCHANGED module
    /\ UNCHANGED <<rejected, memTargets, summary, people, reqs, env>>

\* What db.get(TrainingModule) returns in _target_and_train: the pipeline's
\* session still holds the module it approved, a resumed one reads the row.
GateSeen(t) == IF t = Pipeline THEN "approved" ELSE module

\* Mutant of TargetRefused: it does not ask whether TARGET already ran.
GateRefused(t) == status = "failed" \/ GateSeen(t) # "approved"

\* Mutant of TargetRefused: the approval it was submitted for is trusted.
TargetedBefore(t) == StageAlreadyRan(hist, TARGET)

TargetRefused(t) ==
    \/ StageAlreadyRan(hist, TARGET)
    \/ status = "failed"
    \/ GateSeen(t) # "approved"

TargetStart(t) ==
    /\ At(t, IF t = Pipeline THEN "approved" ELSE "queued")
    /\ \/ /\ TargetRefused(t)
          /\ Return(t)
       \/ /\ ~TargetRefused(t)
          /\ TaskCommit(t, Fresh, StageStart(hist, TARGET), status, "targeting")
          /\ UNCHANGED memTargets
    /\ UNCHANGED <<summary, people, gate, reqs, env>>

\* select_targets picks any set of employees, of whom the artifact reached
\* any; the exposure events pending when a later one fails are committed too.
TargetDone(t) ==
    /\ At(t, "targeting")
    /\ \E reached \in SUBSET Emps :
          /\ exposures' = exposures \cup ({t} \X reached)
          /\ \/ \E targets \in SUBSET Emps :
                   /\ reached \subseteq targets
                   /\ memTargets' = [memTargets EXCEPT ![t] = targets]
                   /\ Advance(t, StageDone(memHist[t], TARGET), "targeted")
             \/ /\ Fail(t, TARGET)
                /\ UNCHANGED memTargets
    /\ UNCHANGED <<asg, charges, summary, gate, reqs, env>>

TrainStart(t) ==
    /\ At(t, "targeted")
    /\ Advance(t, StageStart(memHist[t], TRAIN), "training")
    /\ UNCHANGED <<memTargets, summary, people, gate, reqs, env>>

Assign(t, who) ==
    asg' = [a \in AsgIds |-> IF a \in {t} \X who THEN "assigned" ELSE asg[a]]

\* Mutant of TrainAssign: it also waits for nobody.
TrainAnybody(t) ==
    /\ At(t, "training")
    /\ Assign(t, memTargets[t])
    /\ TaskCommit(t, Held(t), StageDone(memHist[t], TRAIN), "awaiting_training", "done")
    /\ UNCHANGED <<exposures, charges, memTargets, summary, gate, reqs, env>>

\* The except branch commits the assignments that were pending as well.
TrainAssign(t) ==
    /\ At(t, "training")
    /\ memTargets[t] # {}
    /\ \/ /\ Assign(t, memTargets[t])
          /\ TaskCommit(t, Held(t), StageDone(memHist[t], TRAIN),
                        "awaiting_training", "done")
       \/ \E pending \in SUBSET memTargets[t] :
             Assign(t, pending) /\ Fail(t, TRAIN)
    /\ UNCHANGED <<exposures, charges, memTargets, summary, gate, reqs, env>>

\* Mutant of MeasureRefused: it also refuses a run that waits for training.
MeasureOnlyRunning(h, s) == StageAlreadyRan(h, MEASURE) \/ s # "running"

MeasureRefused(h, s) == StageAlreadyRan(h, MEASURE) \/ s \in Terminal

\* Mutant of TrainNobody: it does not close the TRAIN entry.
TrainLeftOpen(t) ==
    /\ At(t, "training")
    /\ memTargets[t] = {}
    /\ TaskCommit(t, Held(t), StageStart(memHist[t], MEASURE), "running", "measuring")
    /\ UNCHANGED <<memTargets, summary, people, gate, reqs, env>>

\* Nobody matched: the same task goes on to MEASURE with its copy of the run.
TrainNobody(t) ==
    /\ At(t, "training")
    /\ memTargets[t] = {}
    /\ LET h == StageDone(memHist[t], TRAIN) IN
       \/ /\ MeasureRefused(h, memStatus[t])
          /\ Return(t)
       \/ /\ ~MeasureRefused(h, memStatus[t])
          /\ TaskCommit(t, Held(t), StageStart(h, MEASURE), "running", "measuring")
          /\ UNCHANGED memTargets
    /\ UNCHANGED <<summary, people, gate, reqs, env>>

MeasureStart(m) ==
    /\ At(m, "queued")
    /\ \/ /\ MeasureRefused(hist, status)
          /\ Return(m)
       \/ /\ ~MeasureRefused(hist, status)
          /\ TaskCommit(m, Fresh, StageStart(hist, MEASURE), "running", "measuring")
          /\ UNCHANGED memTargets
    /\ UNCHANGED <<summary, people, gate, reqs, env>>

\* Mutant of MeasureDone: the report counts expired assignments as completed.
MeasureSettled(t) ==
    /\ At(t, "measuring")
    /\ summary' = [taken |-> TRUE, completed |-> {a \in AsgIds : asg[a] \in Settled}]
    /\ Advance(t, StageDone(memHist[t], MEASURE), "measured")
    /\ UNCHANGED <<memTargets, people, gate, reqs, env>>

MeasureDone(t) ==
    /\ At(t, "measuring")
    /\ \/ /\ summary' = [taken |-> TRUE,
                         completed |-> {a \in AsgIds : asg[a] = "completed"}]
          /\ Advance(t, StageDone(memHist[t], MEASURE), "measured")
       \/ /\ Fail(t, MEASURE)
          /\ UNCHANGED summary
    /\ UNCHANGED <<memTargets, people, gate, reqs, env>>

FeedbackStart(t) ==
    /\ At(t, "measured")
    /\ Advance(t, StageStart(memHist[t], FEEDBACK), "feeding")
    /\ UNCHANGED <<memTargets, summary, people, gate, reqs, env>>

FeedbackDone(t) ==
    /\ At(t, "feeding")
    /\ \/ TaskCommit(t, Held(t), StageDone(memHist[t], FEEDBACK),
                     "completed", Ended(t))
       \/ Fail(t, FEEDBACK)
    /\ UNCHANGED <<memTargets, summary, people, gate, reqs, env>>

\* A commit that the database refuses leaves the session unusable, so the
\* commit of the except branch fails as well: the exception ends the task,
\* which only logs it, and the run keeps the state it had.
TaskDies(t) ==
    /\ pc[t] \notin Gone
    /\ pc[t] \in Suspended => EventLoopFree
    /\ errors < MaxErrors
    /\ errors' = errors + 1
    /\ Return(t)
    /\ UNCHANGED <<auto, crashes, summary, people, gate, reqs>>

-----------------------------------------------------------------------------
(* Requests. *)

Load(r, o, h, m, as) ==
    /\ op' = [op EXCEPT ![r] = o]
    /\ seenHist' = [seenHist EXCEPT ![r] = h]
    /\ seenModule' = [seenModule EXCEPT ![r] = m]
    /\ seenAsg' = [seenAsg EXCEPT ![r] = as]
    /\ UNCHANGED <<runRow, summary, people, gate, work, env>>

Release(r) ==
    /\ op' = [op EXCEPT ![r] = "idle"]
    /\ seenHist' = [seenHist EXCEPT ![r] = {}]
    /\ seenModule' = [seenModule EXCEPT ![r] = "none"]
    /\ seenAsg' = [seenAsg EXCEPT ![r] = {}]

Idle(r, handler) == op[r] = "idle" /\ handler \in Handlers

Submit(t) ==
    /\ pc[t] = "none"
    /\ pc' = [pc EXCEPT ![t] = "queued"]
    /\ UNCHANGED <<memHist, memStatus, memTargets>>

\* Mutant of ReadApprove: any run with a module may be approved.
ReadApproveAny(r) ==
    /\ Idle(r, "approve")
    /\ module # "none"
    /\ Load(r, "approve", {}, module, {})

ReadApprove(r) ==
    /\ Idle(r, "approve")
    /\ status = "awaiting_approval"
    /\ module # "none"
    /\ Load(r, "approve", {}, module, {})

CommitApprove(r) ==
    /\ op[r] = "approve"
    /\ module' = IF seenModule[r] = "approved" THEN module ELSE "approved"
    /\ status' = "running"
    /\ \E t \in Resumes : Submit(t)
    /\ Release(r)
    /\ UNCHANGED <<hist, rejected, summary, people, env>>

ReadReject(r) ==
    /\ Idle(r, "reject")
    /\ status = "awaiting_approval"
    /\ Load(r, "reject", hist, module, {})

CommitReject(r) ==
    /\ op[r] = "reject"
    /\ module' = IF seenModule[r] \in {"none", "rejected"} THEN module ELSE "rejected"
    /\ rejected' = TRUE
    /\ hist' = seenHist[r] \cup {<<CONVERT, "failed">>}
    /\ status' = "failed"
    /\ Release(r)
    /\ UNCHANGED <<summary, people, work, env>>

\* The studio's review endpoint, which asks only for a module pending review.
ReadReview(r) ==
    /\ Idle(r, "review")
    /\ module = "pending_review"
    /\ \E decision \in {"review_ok", "review_no"} :
          Load(r, decision, {}, module, {})

CommitReview(r) ==
    /\ \/ /\ op[r] = "review_ok"
          /\ module' = "approved"
          /\ UNCHANGED rejected
       \/ /\ op[r] = "review_no"
          /\ module' = "rejected"
          /\ rejected' = TRUE
    /\ Release(r)
    /\ UNCHANGED <<runRow, summary, people, work, env>>

\* Mutant of ReadForce: it expires every assignment, completed ones too.
ReadForceAll(r) ==
    /\ Idle(r, "force")
    /\ status = "awaiting_training"
    /\ Load(r, "force", {}, "none", {a \in AsgIds : asg[a] # "none"})

ReadForce(r) ==
    /\ Idle(r, "force")
    /\ status = "awaiting_training"
    /\ Load(r, "force", {}, "none", Open)

CommitForce(r) ==
    /\ op[r] = "force"
    /\ asg' = [a \in AsgIds |-> IF a \in seenAsg[r] THEN "expired" ELSE asg[a]]
    /\ charges' = [a \in AsgIds |->
                     IF a \in seenAsg[r] THEN charges[a] + 1 ELSE charges[a]]
    /\ \E m \in Measures : Submit(m)
    /\ Release(r)
    /\ UNCHANGED <<exposures, runRow, summary, gate, env>>

ReadStart(r) ==
    /\ Idle(r, "start")
    /\ \E a \in AsgIds : asg[a] = "assigned" /\ Load(r, "start", {}, "none", {a})

CommitStart(r) ==
    /\ op[r] = "start"
    /\ asg' = [a \in AsgIds |-> IF a \in seenAsg[r] THEN "in_progress" ELSE asg[a]]
    /\ Release(r)
    /\ UNCHANGED <<exposures, charges, runRow, summary, gate, work, env>>

\* Mutant of ReadComplete: an expired assignment may still be handed in.
ReadCompleteLate(r) ==
    /\ Idle(r, "complete")
    /\ \E a \in AsgIds : /\ asg[a] \in OpenStatus \cup {"expired"}
                        /\ Load(r, "complete", {}, "none", {a})

ReadComplete(r) ==
    /\ Idle(r, "complete")
    /\ \E a \in Open : Load(r, "complete", {}, "none", {a})

CommitComplete(r) ==
    /\ op[r] = "complete"
    /\ asg' = [a \in AsgIds |-> IF a \in seenAsg[r] THEN "completed" ELSE asg[a]]
    /\ charges' = [a \in AsgIds |->
                     IF a \in seenAsg[r] THEN charges[a] + 1 ELSE charges[a]]
    /\ op' = [op EXCEPT ![r] = "hook"]
    /\ UNCHANGED <<exposures, seenHist, seenModule, seenAsg>>
    /\ UNCHANGED <<runRow, summary, gate, work, env>>

\* Mutant of LastAnswer: it does not count the open assignments.
AnyAnswer == status = "awaiting_training"

LastAnswer == status = "awaiting_training" /\ Open = {}

\* After its commit a completion asks whether it was the run's last one.
OnAssignmentCompleted(r) ==
    /\ op[r] = "hook"
    /\ \/ LastAnswer /\ (\E m \in Measures : Submit(m))
       \/ ~LastAnswer /\ UNCHANGED work
    /\ Release(r)
    /\ UNCHANGED <<runRow, summary, people, gate, env>>

RequestDies(r) ==
    /\ op[r] # "idle"
    /\ errors < MaxErrors
    /\ errors' = errors + 1
    /\ Release(r)
    /\ UNCHANGED <<auto, crashes, runRow, summary, people, gate, work>>

-----------------------------------------------------------------------------
(* The process dies and boots again: tasks and requests are gone, and       *)
(* _recover_orphaned_runs settles a run that was left running.              *)

Recovered(h) ==
    {e \in h : e[2] # "in_progress"}
      \cup {<<e[1], "failed">> : e \in {x \in h : x[2] = "in_progress"}}

\* Mutant of Restart: the boot leaves orphaned runs as they are.
RestartBlind ==
    /\ crashes < MaxCrashes
    /\ crashes' = crashes + 1
    /\ pc' = [t \in Tasks |-> IF pc[t] = "none" THEN "none" ELSE Ended(t)]
    /\ op' = [r \in Slots |-> "idle"]
    /\ UNCHANGED <<runRow, memHist, memStatus, memTargets, seenHist, seenModule, seenAsg>>
    /\ UNCHANGED <<auto, errors, summary, people, gate>>

Restart ==
    /\ crashes < MaxCrashes
    /\ crashes' = crashes + 1
    /\ \/ /\ status = "running"
          /\ status' = "failed"
          /\ hist' = Recovered(hist)
       \/ /\ status # "running"
          /\ UNCHANGED runRow
    /\ pc' = [t \in Tasks |-> IF pc[t] = "none" THEN "none" ELSE Ended(t)]
    /\ op' = [r \in Slots |-> "idle"]
    /\ seenHist' = [r \in Slots |-> {}]
    /\ seenModule' = [r \in Slots |-> "none"]
    /\ seenAsg' = [r \in Slots |-> {}]
    /\ UNCHANGED <<memHist, memStatus, memTargets, auto, errors>>
    /\ UNCHANGED <<summary, people, gate>>

-----------------------------------------------------------------------------
\* start_loop has committed the run, INGEST completed, and submitted the task.
Init ==
    /\ status = "running"
    /\ hist = {<<INGEST, "completed">>}
    /\ summary = NoSummary
    /\ module = "none"
    /\ asg = [a \in AsgIds |-> "none"]
    /\ exposures = {}
    /\ charges = [a \in AsgIds |-> 0]
    /\ rejected = FALSE
    /\ pc = [t \in Tasks |-> IF t = Pipeline THEN "queued" ELSE "none"]
    /\ memHist = [t \in Tasks |-> {}]
    /\ memStatus = [t \in Tasks |-> "running"]
    /\ memTargets = [t \in Tasks |-> {}]
    /\ op = [r \in Slots |-> "idle"]
    /\ seenHist = [r \in Slots |-> {}]
    /\ seenModule = [r \in Slots |-> "none"]
    /\ seenAsg = [r \in Slots |-> {}]
    /\ auto \in AutoModes
    /\ crashes = 0
    /\ errors = 0

PipelineStep ==
    \/ AnalyzeStart \/ AnalyzeDone \/ BenignClose
    \/ ConvertStart \/ ConvertDone \/ ReachGate

RunnerStep(t) ==
    TargetStart(t) \/ TargetDone(t) \/ TrainStart(t) \/ TrainAssign(t) \/ TrainNobody(t)

MeasureStep(t) == MeasureDone(t) \/ FeedbackStart(t) \/ FeedbackDone(t)

TaskStep ==
    \/ PipelineStep
    \/ \E t \in Runners : RunnerStep(t)
    \/ \E m \in Measures : MeasureStart(m)
    \/ \E t \in Tasks : MeasureStep(t)

Read(r) ==
    \/ ReadApprove(r) \/ ReadReject(r) \/ ReadReview(r)
    \/ ReadForce(r) \/ ReadStart(r) \/ ReadComplete(r)

Commit(r) ==
    \/ CommitApprove(r) \/ CommitReject(r) \/ CommitReview(r) \/ CommitForce(r)
    \/ CommitStart(r) \/ CommitComplete(r) \/ OnAssignmentCompleted(r)

Next ==
    \/ TaskStep
    \/ \E r \in Slots : Read(r) \/ Commit(r) \/ RequestDies(r)
    \/ \E t \in Tasks : TaskDies(t)
    \/ Restart

Spec == Init /\ [][Next]_vars

\* The event loop keeps running its tasks and the thread pool finishes the
\* requests it has begun; nothing obliges a person to send one.
Fairness == WF_vars(TaskStep) /\ \A r \in Slots : WF_vars(Commit(r))

FairSpec == Spec /\ Fairness
-----------------------------------------------------------------------------
(* What must hold.  The runs say for which endpoints and how much overlap. *)

\* Every row and every local copy has a value the code can give it.
TypeOK ==
    /\ status \in LoopStatus
    /\ hist \subseteq Entry
    /\ summary \in Summary
    /\ module \in ModuleStatus
    /\ asg \in [AsgIds -> AsgStatus]
    /\ exposures \subseteq AsgIds
    /\ charges \in [AsgIds -> Nat]
    /\ rejected \in BOOLEAN
    /\ pc \in [Tasks -> Pc]
    /\ memHist \in [Tasks -> SUBSET Entry]
    /\ memStatus \in [Tasks -> LoopStatus]
    /\ memTargets \in [Tasks -> SUBSET Emps]
    /\ op \in [Slots -> Ops]
    /\ seenHist \in [Slots -> SUBSET Entry]
    /\ seenModule \in [Slots -> ModuleStatus]
    /\ seenAsg \in [Slots -> SUBSET AsgIds]
    /\ auto \in BOOLEAN
    /\ crashes \in Nat
    /\ errors \in Nat

\* However many approvals were accepted, one task ran TARGET: nobody is
\* charged exposure twice or assigned the module twice (_target_and_train).
TargetedOnce ==
    \A t, u \in Runners, e \in Emps :
        t # u => /\ asg[<<t, e>>] = "none" \/ asg[<<u, e>>] = "none"
                 /\ <<t, e>> \notin exposures \/ <<u, e>> \notin exposures

\* The risk score moved once for the outcome an assignment has, never for
\* both "completed" and "ignored" (complete_assignment, force_measure).
SettledOnce ==
    \A a \in AsgIds : charges[a] = IF asg[a] \in Settled THEN 1 ELSE 0

\* A run shown as running has a task that will move it on; otherwise it is
\* wedged until the next restart (main.py, _recover_orphaned_runs).
RunningHasTask == status = "running" => \E t \in Tasks : pc[t] \notin Gone

\* What MEASURE wrote down stays true: it counted final outcomes only
\* (_measure_and_feedback).
ReportStands ==
    summary.taken =>
        /\ Open = {}
        /\ summary.completed = {a \in AsgIds : asg[a] = "completed"}

\* A stage is entered only when the one before it completed, across restarts
\* and whichever session wrote the history last (LoopStage, stage_history).
StageOrder ==
    \A e \in hist : e[1] > INGEST => <<e[1] - 1, "completed">> \in hist

\* Somebody is still to answer, or the measurement is on the way.
SomebodyWillMeasure ==
    status = "awaiting_training" =>
        \/ Open # {}
        \/ \E m \in Measures : pc[m] # "none"
        \/ \E r \in Slots : op[r] = "hook"

\* A run that stops for training is looked after until an exception escapes
\* or the process dies (on_assignment_completed, force_measure).
Awaited == errors = 0 /\ crashes = 0 => SomebodyWillMeasure

\* A stage once entered stays on record: no session's older copy of the
\* history erases it (_copy_history, _stage_already_ran).
HistoryKept ==
    [][\A s \in INGEST..FEEDBACK :
          StageAlreadyRan(hist, s) => StageAlreadyRan(hist', s)]_vars

\* A closed run is never reopened (loop_runs.py, _measure_and_feedback).
ClosedStays == [][(status \in Terminal) => status' = status]_vars

\* An assignment's outcome is final (complete_assignment answers 409).
OutcomeStays ==
    [][\A a \in AsgIds : asg[a] \in Settled => asg'[a] = asg[a]]_vars

\* Once an analyst's rejection is on record, nobody is assigned the module.
NothingAfterReject ==
    [][rejected => \A a \in AsgIds : asg[a] = "none" => asg'[a] = "none"]_vars

\* The rejection is the last word on the module: the run has left the gate,
\* no approval is still to be committed and no task has seen it approved.
Overruled ==
    /\ module = "rejected"
    /\ status # "awaiting_approval" /\ pc[Pipeline] # "converted"
    /\ \A r \in Slots : op[r] \notin {"approve", "review_ok"}
    /\ \A t \in Runners :
          pc[t] \notin {"approved", "targeting", "targeted", "training"}

\* Whom the run has charged exposure, and to whom it gave the module.
HandedOut == exposures \cup {a \in AsgIds : asg[a] # "none"}

\* A rejection that overlapped an approval and had the last word keeps it: the
\* tasks already submitted hand out nothing, after restarts and late requests
\* too (_target_and_train re-reads the gate at the moment of use).
RejectionStands == [][Overruled => Overruled' /\ HandedOut' = HandedOut]_vars

\* A run does not stay in a stage for ever.
StageEnds == (status = "running") ~> (status # "running")

\* When the last assignment of a run lands, the run advances and closes,
\* unless the process dies before (on_assignment_completed).
LastAnswerCloses ==
    (status = "awaiting_training" /\ Open = {} /\ crashes = 0)
        ~> (status \in Terminal \/ crashes > 0)
-----------------------------------------------------------------------------
(* Why TargetedOnce holds when rejections are left out: TARGET, once on    *)
(* record, stays there, and the task that put it there was alone.          *)

Targeted(h) == StageAlreadyRan(h, TARGET)

BeforeGate == {"queued", "analyzing", "analyzed", "benign", "converting",
               "converted", "approved"}
PastTarget == {"targeting", "targeted", "training", "measuring", "measured", "feeding"}

\* Task t may hand something to an employee, or has done so.
Holds(t) ==
    \/ pc[t] \in {"targeting", "targeted", "training"}
    \/ \E e \in Emps : asg[<<t, e>>] # "none" \/ <<t, e>> \in exposures

OnlyPipelinePrepares ==
    \A t \in Tasks \ {Pipeline} : pc[t] \in {"none", "queued", "done"} \cup PastTarget

AloneBeforeGate ==
    pc[Pipeline] \in BeforeGate =>
        /\ status = "running"
        /\ \A t \in Tasks \ {Pipeline} : pc[t] = "none"
        /\ \A r \in Slots : op[r] \notin {"approve", "force"}

TargetOnRecord ==
    \/ Targeted(hist)
    \/ /\ status # "awaiting_training"
       /\ \A t \in Tasks : pc[t] \notin PastTarget
       /\ \A m \in Measures : pc[m] = "none"
       /\ \A r \in Slots : op[r] # "force"
       /\ \A t \in Runners : ~Holds(t)

CopiesAgree ==
    \A t \in Tasks : pc[t] \in (BeforeGate \ {"queued"}) \cup PastTarget
                     => (Targeted(memHist[t]) <=> Targeted(hist))

DutiesExist == \A r \in Slots : \A a \in seenAsg[r] : asg[a] # "none"

OneHolder == \A t, u \in Runners : Holds(t) /\ Holds(u) => t = u

\* The inductive invariant: whoever ran TARGET ran it alone, and every task
\* with a copy of the run knows (_target_and_train, _stage_already_ran).
OneTargetRun ==
    /\ OnlyPipelinePrepares
    /\ AloneBeforeGate
    /\ \A r \in Slots : op[r] # "reject"
    /\ TargetOnRecord
    /\ CopiesAgree
    /\ DutiesExist
    /\ OneHolder
=============================================================================
