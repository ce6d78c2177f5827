----------------------------- MODULE LoopSerial -----------------------------
(***************************************************************************)
(* Why one run of the loop is in order while its requests are served one   *)
(* at a time: a strengthening of the invariants of LoopRun and LoopScreens *)
(* that every step preserves.  It describes the run as its source reads:   *)
(* one task holds it at a time, each point of that task has one history,   *)
(* and what people owe follows from how far the history has got.           *)
(***************************************************************************)
EXTENDS LoopScreens

\* No two requests on the run overlap.  Its tasks still interleave with each.
OneAtATime == \A r, s \in Slots : r = s

-----------------------------------------------------------------------------
(* The histories a run passes through. *)

\* Every stage up to k completed.
Through(k) == {<<s, "completed">> : s \in INGEST..k}

\* The same, and stage k being worked on, or failed.
Inside(k)   == Through(k - 1) \cup {<<k, "in_progress">>}
BrokenAt(k) == Through(k - 1) \cup {<<k, "failed">>}

\* A rejection adds a failed CONVERT beside the completed one.
RejectedAtGate == Through(CONVERT) \cup {<<CONVERT, "failed">>}

WellShaped(h) ==
    \/ \E k \in INGEST..FEEDBACK : h \in {Through(k), Inside(k), BrokenAt(k)}
    \/ h = RejectedAtGate

-----------------------------------------------------------------------------
(* The task that holds the run. *)

\* A queued measurement is not yet one: there may be several, the first wins.
Active(t) == pc[t] \notin Gone /\ (t \in Measures => pc[t] # "queued")

\* The history at each point of a task.
HistoryFits(t) ==
    /\ pc[t] = "queued" =>
          hist = IF t = Pipeline THEN Through(INGEST) ELSE Through(CONVERT)
    /\ pc[t] = "analyzing" => hist = Inside(ANALYZE)
    /\ pc[t] \in {"analyzed", "benign"} => hist = Through(ANALYZE)
    /\ pc[t] = "converting" => hist = Inside(CONVERT)
    /\ pc[t] \in {"converted", "approved"} => hist = Through(CONVERT)
    /\ pc[t] = "targeting" => hist = Inside(TARGET)
    /\ pc[t] = "targeted" => hist = Through(TARGET)
    /\ pc[t] = "training" => hist = Inside(TRAIN)
    /\ pc[t] = "measuring" => hist = Inside(MEASURE)
    /\ pc[t] = "measured" => hist = Through(MEASURE)
    /\ pc[t] = "feeding" => hist = Inside(FEEDBACK)

\* Its copy of the run is the row, and the row says running.
CopyFits(t) ==
    /\ status = "running"
    /\ pc[t] # "queued" => memHist[t] = hist /\ memStatus[t] = "running"

OneWorker ==
    /\ \A t, u \in Tasks : Active(t) /\ Active(u) => t = u
    /\ \A t \in Tasks : Active(t) => HistoryFits(t) /\ CopyFits(t)
    /\ status = "running" /\ errors = 0 => \E t \in Tasks : Active(t)

\* Where nobody works, the history fits the status.
StatusFits ==
    /\ WellShaped(hist)
    /\ status = "awaiting_approval" => hist = Through(CONVERT)
    /\ status = "awaiting_training" => hist = Through(TRAIN)
    /\ status = "completed" =>
          \/ hist = Through(CONVERT)
          \/ hist = Through(FEEDBACK) /\ summary.taken

-----------------------------------------------------------------------------
(* The gate. *)

\* The approval a resumed task was submitted for still stands when it runs.
ApprovalStands ==
    \A t \in Resumes : pc[t] = "queued" =>
        module = "approved" /\ \A r \in Slots : op[r] \notin {"review_ok", "review_no"}

\* Nothing went past the gate but by the demo setting or a person.
LetThrough ==
    /\ pc[Pipeline] = "approved" => auto
    /\ Targeted(hist) => auto \/ \E t \in Resumes : pc[t] # "none"

-----------------------------------------------------------------------------
(* The people. *)

Touched(a) == asg[a] # "none" \/ a \in exposures

\* What happened to people follows from how far the history has got.
PeopleFit ==
    /\ ~Targeted(hist) =>
          /\ \A a \in AsgIds : ~Touched(a)
          /\ \A m \in Measures : pc[m] = "none"
    /\ \A t \in Tasks : pc[t] \in {"targeting", "targeted", "training"} =>
          \A a \in AsgIds : asg[a] = "none" /\ (a \in exposures => a[1] = t)
    /\ \A a, b \in AsgIds : Touched(a) /\ Touched(b) => a[1] = b[1]

\* The run stopped for training, or has gone on to MEASURE.
TrainingOver == status = "awaiting_training" \/ StageAlreadyRan(hist, MEASURE)

\* A measurement is on the way only when everybody has settled.
MeasureFits ==
    /\ StageAlreadyRan(hist, MEASURE) => Open = {}
    /\ \A m \in Measures : pc[m] # "none" => TrainingOver /\ Open = {}
    /\ \A t \in Tasks : pc[t] \in {"measured", "feeding"} => summary.taken
    /\ summary.taken => <<MEASURE, "completed">> \in hist

-----------------------------------------------------------------------------
(* What the request in flight has loaded is still so. *)

RequestFits ==
    \A r \in Slots :
        /\ op[r] \in {"approve", "reject"} => status = "awaiting_approval"
        /\ op[r] = "approve" => seenModule[r] = module
        /\ op[r] = "reject" => seenHist[r] = hist
        /\ op[r] \in {"start", "complete", "force"} => seenAsg[r] \subseteq Open
        /\ op[r] = "force" => seenAsg[r] = Open /\ TrainingOver

\* The inductive invariant.
SerialInv ==
    /\ OneWorker
    /\ StatusFits
    /\ ApprovalStands
    /\ LetThrough
    /\ PeopleFit
    /\ MeasureFits
    /\ RequestFits
    /\ SettledOnce
    /\ ReportStands
    /\ Awaited

\* Before the pipeline task has stored a module nothing can decide on one.
NothingToDecide ==
    pc[Pipeline] \in BeforeGate \ {"converted", "approved"} =>
        /\ module = "none"
        /\ \A r \in Slots :
              /\ op[r] \notin {"approve", "review_ok", "review_no"}
              /\ op[r] = "reject" => seenModule[r] = "none"

-----------------------------------------------------------------------------
(* What is left of it when requests overlap and rejections are left out:   *)
(* the status may be written by an approval that comes too late, but the   *)
(* history still has one writer at a time.                                 *)

\* Task t has a copy of the run and will write it back.
Writing(t) == pc[t] \notin Gone \cup {"queued"}

OneWriter ==
    /\ \A t, u \in Tasks : Writing(t) /\ Writing(u) => t = u
    /\ \A t \in Tasks : Writing(t) => HistoryFits(t) /\ memHist[t] = hist
    /\ pc[Pipeline] = "queued" => hist = Through(INGEST)
    /\ \E k \in INGEST..FEEDBACK : hist \in {Through(k), Inside(k), BrokenAt(k)}

\* An approval, and the tasks approvals submitted, find the run at the gate or
\* targeted already; a run that still waits at the gate has none of them.
GateOnRecord ==
    /\ status = "awaiting_approval" =>
          hist = Through(CONVERT) /\ \A t \in Resumes : pc[t] = "none"
    /\ (\E r \in Slots : op[r] = "approve") \/ (\E t \in Resumes : pc[t] # "none") =>
          hist = Through(CONVERT) \/ Targeted(hist)

\* A measurement finds TRAIN completed and the run stopped, or MEASURE begun.
StopOnRecord ==
    /\ status = "awaiting_training" => hist = Through(TRAIN)
    /\ (\E r \in Slots : op[r] = "force") \/ (\E m \in Measures : pc[m] # "none") =>
          hist = Through(TRAIN) \/ StageAlreadyRan(hist, MEASURE)

\* The inductive invariant, beside OneTargetRun.
OverlapInv == OneWriter /\ GateOnRecord /\ StopOnRecord
=============================================================================
