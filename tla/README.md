# Cyclowareness: a verification project

TLA+ specifications of Cyclowareness, the backend (`src/backend/app`) and the browser
application in front of it (`src/frontend/src`), model-checked with TLC and, where a
statement should hold for every size, proved with TLAPS. Paths of Python files below are
relative to the first directory, paths of TypeScript files to the second.

## 1. The system

Cyclowareness turns a phishing artifact into training. One *loop run* passes seven
stages: INGEST, ANALYZE, CONVERT, (a person approves), TARGET, TRAIN, (employees
answer), MEASURE, FEEDBACK. Around the loop are an explainable risk score per employee,
incident risks and policy findings that raise training of their own, a remediation
engine, and a malware sandbox.

The backend is a FastAPI process over SQLAlchemy. Three kinds of actor share the database:

* **requests** of analysts and employees, on a thread pool, each with its own session;
* **tasks** on one asyncio event loop (`core/task_runner.py`), each with its own session
  that lives as long as the task, across its awaits;
* **the boot**, which settles what a dead process left behind (`main.py`).

Sessions are created with `autoflush=False, expire_on_commit=False` (`database.py`). No
query locks a row. A commit writes the columns that differ from their loaded values, and
JSON columns such as `stage_history` as a whole. Everything hard about this program
follows from these lines: a decision is made on a loaded row and written later, and what
is written may be computed from a copy that is out of date.

The frontend is a React application. Nothing it shows is authoritative: every screen
reads a query cache, every write names by hand which parts of the cache it invalidates,
and many screens repeat a guard of the server so that a button can say why it is
disabled. What is hard there is what is out of date: an answer that was in flight when
something changed, a form that was opened on a row that has moved, a guard that is no
longer the server's.

### Inventory

| component | state | operations | hard parts | what makes it correct |
|---|---|---|---|---|
| Loop orchestrator (`core/orchestrator.py`, `routers/loop_runs.py`) | `LoopRun` row, its module, assignments, exposure events | seven stages as tasks; approve, reject, force-measure | overlapping approvals, stale copies across awaits, failure and crash mid-stage | targeted once; a rejection with the last word is final; a closed run stays closed; it always moves on; the report is true |
| Task runner (`core/task_runner.py`) | scheduled coroutines | submit | an escaped exception is only logged; tasks die with the process | a running run has a task |
| Boot (`main.py`) | none | fail orphaned runs | crash between two commits | no run wedged at running |
| Training (`routers/training.py`, `training/`) | modules, assignments | create, edit, review, start, complete | completion racing expiry; review beside the run's own gate; origin checked days later | an outcome is final and scored once |
| Risk engine (`core/risk_engine.py`) | score columns of `Employee`, `RiskEvent` trail | apply, recompute, revoke, select targets | rails, lost updates, recompute after commit | the score is what the trail says |
| Contests (`routers/employees.py`) | contest columns of `RiskEvent` | contest, resolve | two commits in one request | answered once; a withdrawal reaches the score |
| Approvals queue (`routers/approvals.py`) | audit trail as the store of endorsements | approve, endorse, reject, request revision | read-then-commit; the direct route beside it | held for two means released by another |
| Reports, simulations (`routers/reports.py`, `simulations.py`) | `PhishingReport`, `SimulationTarget` | submit, push, dismiss; launch, outcome, complete | count-then-insert cap; pending tested before write | credit capped; an outcome counts once |
| Remediation (`remediation/`, `routers/remediation.py`) | plans, gaps, control gaps | plan, decide, dispute, resolve | counter on a loaded value; two deciders | a blocked plan is never delivered; one decision |
| Incident risks (`routers/incident_risks.py`) | risks, subjects | edit, subjects, assign, auto-train, review, close, reopen | an await of a model, and days of review, between test and effect | a closed risk obliges nobody; a person's work is not lost; closing and reopening leave a reason |
| Policies and findings (`routers/policy.py`) | policies, rules, versions, findings | register, review rules, update finding, auto-train | the same await; concurrent updates | the same for findings; versions append-only |
| Finding-to-training pipeline (`training/pipeline.py`, `assignment.py`) | written modules with the people they are for | match, write, assign | several roads to one assignment | nobody owes one module twice |
| GRC watch (`platform/grc_watch.py`, `routers/intel.py`) | matches | timer scan, requested scan | two scans at once | one match per pair |
| Sandbox (`routers/sandbox*.py`, `sandbox/`) | jobs, children, verdict | submit, password, re-analyse, worker queue, report | no lease, late reports, queue in memory only | a verdict rests on the latest evidence that ran |
| Migrations (`database.py`) | schema revision | adopt, upgrade | crash between create and stamp | every boot adopts the same revision |
| Approval workspace (`pages/ApprovalDetail.tsx`, `features/approvals/`, `features/loops/detail/gate.ts`) | the editor's text, the row as fetched, a decision under way | edit, save, decide, retry by hand | baselines that move under an editor; lost answers | offers what the server takes; nobody's edit is undone |
| Risk and finding screens (`features/incident-risks/`, `features/policy/`) | dialogs | offer, fill in, submit | copies of the server's tables; a dialog on a row that moves | offers what the server takes; a reason stays with its decision |
| Loop screens (`components/loop/derive.ts`, `features/loops/detail/nextAction.ts`) | none | derive pictures and sentences from a row | rules of the orchestrator repeated | what they say is so |
| Client cache and session (`lib/api/`, `lib/auth/`, `lib/hooks/useLoopStream.ts`, `app/providers.tsx`) | cached answers, fetches, the session | fetch, retry, poll, invalidate, sign in and out | answers and refusals of an older session; fetches joined or dropped; silence | own data only; own change seen; polled views catch up |
| Views, accounts, audit, assistant, integrations, seed, the rest of the frontend | read models or fixed data | reads | none that interleave | |

How they interact: reports, feeds and the sandbox hand-off create a threat and call
`start_loop`. The approvals queue delegates to `loop_runs.approve_training` and
`reject_training`. The training router calls the orchestrator back
(`on_assignment_completed`). Orchestrator, training, reports and simulations all call
`risk_engine.apply_event` in their own transaction. Simulations call the remediation
engine. Findings and incident risks go through `training/pipeline.py`, and their modules
come back through `review_module`.

In the browser, `mutations.ts` decides which of the views of `queries.ts` are fetched
again; `useLoopStream` does the same on a message of `core/events.py`; a 401 on any request
goes through `client.ts` to `AuthProvider` and ends the session.

`PROJECT.json` lists the hazards line by line, with the property that covers each or the
reason there is none.

## 2. The modules

| module | models | role |
|---|---|---|
| `LoopRun` | `core/orchestrator.py`, `routers/loop_runs.py`, start/complete/review of `routers/training.py`, recovery of `main.py`, the in-process task runner | one loop run, its tasks and the requests on it |
| `TrainingGate` | nothing in particular | what the loop promises, with no session, task or stage |
| `LoopSerial` | | why a run is in order: the inductive invariants behind the proofs, in named parts |
| `LoopGate` | | `LoopRun` seen as an implementation of `TrainingGate`: the refinement mapping |
| `MCLoopRun` | | root of the loop's runs |
| `LoopRun_proofs`, `LoopSerial_proofs`, `LoopGate_proofs` | | theorems about `LoopRun`; the refinement |
| `RiskLedger` | `core/risk_engine.py`, contests of `routers/employees.py`, the callers that send signals | one employee's score and the trail behind it |
| `MCRiskLedger` | | weights for TLC; root of its runs |
| `RiskLedger_proofs` | | theorems about `RiskLedger` |
| `LoopScreens` | `components/loop/derive.ts`, `features/loops/detail/nextAction.ts` | what the screens say of a run, over the states of `LoopRun` |
| `LoopScreens_proofs` | | theorems about `LoopScreens` |
| `ApprovalDesk` | `routers/approvals.py`, the direct route of `routers/loop_runs.py`, `pages/ApprovalDetail.tsx` with `features/approvals`, `edit_module` | the gate of one run as several people work it |
| `ApprovalDesk_proofs` | | theorems about `ApprovalDesk` |
| `Obligations` | `routers/incident_risks.py`, the findings of `routers/policy.py`, `training/pipeline.py`, `training/assignment.py`, `review_module`, the screens of risks and findings | one origin of training, from its creation to its closing and back |
| `Obligations_proofs` | | theorems about `Obligations` |
| `ClientCache` | `lib/api`, `lib/auth`, `lib/hooks/useLoopStream.ts`, `app/providers.tsx`, `features/pipeline/api.ts` | one view of the server's data and one mutation of it in one browser |
| `ClientCache_proofs` | | theorems about `ClientCache` |
| `MCApprovalDesk`, `MCObligations`, `MCClientCache` | | roots of their runs |

### LoopRun

*State.* `status`, `hist`, `summary` are columns of the run; `module` is the status of
its training module; `asg` its assignments, named by the task that created them and the
employee, so that a double assignment is visible; `exposures` and `charges` what was
charged to employees; `rejected` is a history variable. `pc` with `memHist`, `memStatus`,
`memTargets` is the tasks with the copies their sessions hold; `op` with `seenHist`,
`seenModule`, `seenAsg` is the requests with what they loaded.

*stage_history* is the set of its `<<stage, status>>` entries: names, times and texts are
left out, and so is the order of entries, which no code reads.

*Tasks.* One action runs from one commit or await to the next. Tasks are interrupted
only where the code awaits (`Suspended`): between two commits without an await
(`MidStretch`) no other task runs, but requests do. `TaskCommit` says what a session
does: a column that differs from its loaded value is written, another is not. Each `try`
block may take its `except` branch (`Fail`), with whatever was pending in the session:
exposures or assignments of some of the selected employees are committed with the
failure. `TaskDies` is the other way out: a refused flush makes the commit of the
`except` branch raise as well, so the task ends with nothing written. The verdict of the
analyser, whom `select_targets` picks and whom the artifact reached are free choices.

*Requests.* A `Read` action loads and tests, a `Commit` action writes. A completion has
a third step, the hook after its commit. `RequestDies` rolls back.

*Boot.* `Restart` ends all tasks and requests and settles a running run as
`_recover_orphaned_runs` does.

*Init* is the state `start_loop` leaves: INGEST completed, the pipeline submitted.

### TrainingGate

A person's approval, or the demo setting, stands between the generated module and any
employee; each employee has one duty whose outcome is final; the report is taken once,
when every duty is settled, and counts exactly the completed ones. `LoopGate` maps a
run to it: the phase from status, history and tasks, the duty of an employee from the
assignment any task gave them, the report from `measure_summary`.

### RiskLedger

*State.* `emp` is the three score columns; `trail` the `RiskEvent` rows (`asked` is a
history field: what the signal requested before the rails); each session has the row as
`loaded`, its working copy `mem`, and `pending` events. `ApplyEvent` is `apply_event`;
`CommitSignals` the caller's commit, which is one event for reports and simulations and
two for a completed quiz (`Follows`). A resolution takes two commits with a recompute
between them, as in the code. A column goes back only if the session changed it
(`WriteBack`). An answer is a `Verdict`: whether anything is left of its text once it is
stripped, and whether it withdraws the event. `resolve_risk_event_contest` stores the
stripped text and later asks whether it is empty, so an answer of blanks withdraws and yet
leaves the contest open for the next (`LoadResolution`, `CommitResolution`).

*Numbers.* One unit is the tenth of a point `clamp` rounds to. A weight scaled by a quiz
score is rounded to the nearest unit, so statements about deltas are exact up to that
rounding.

*Init* is an employee with an empty trail as `recompute_score` leaves them. (The demo
seed sets the composite by hand, with a labelled event for the difference, and leaves the
halves at their column defaults; those rows are not modelled.)

### LoopScreens

Operators only, no state: `Position` is the one place `summariseRuns` counts a run at,
`CountedReleased` its gate tally, `NextAction` the sentence of the run page, as functions
of `status`, `hist` and `summary`. The properties compare them with what the model knows
and the row does not say: where the run's tasks are (`pc`), who was charged, whether a
person approved. Durations, waiting times and colours are left out.

### ApprovalDesk

*State.* `status`, `content` (the module's text, numbered as typed) and `trail` (the
`approval.*` audit rows) are the server's; `released` is a history variable. A `desk` is an
analyst's screen: status and text as last fetched, the editor's text, what is under way.
`req` is the decisions the server works on.

*Steps.* The editor starts from the module as first fetched (`Open`), later fetches move
only what it is compared with (`Refetch`). `Press` sends; a save may be stored or not, and
its answer may be lost either way (`SaveModule`), and approve-with-edits goes on to a
decision only after an answer. `ReadDecision` is `record_decision` up to the reads of run
and endorsements, `CommitDecision` and `RefuseDecision` the rest; `TurnedAway` is the early
409 and 422. `Over` gives the screen back whether or not the answer arrived, so a recorded
decision can be sent again. `ReadDirect` and `CommitDirect` are
`POST /loop-runs/{id}/approve` and `/reject`, which look at no endorsement and leave no
audit row. Two screens send a rejection with no comment: the command center's rows always
(`row_reject`), the run page's gate panel when its optional comment was left empty
(`page_reject`). The server turns both away (`Unexplained`). The draft a browser keeps
between visits is left out, and so are the comments, beyond whether one was sent.

### Obligations

*State.* One origin, of either kind: `status`, whether it carries a closure stamp, how
often it was reopened with a reason; a risk's `subject` rows with the training they hold;
`module` and whom each was written for; `owes`, the open assignments; `call`, whom
auto-train waits on a model for; the page's `shown` status and the `dialog` open on it.

*Steps.* A handler that does not await is one step. `auto_train` is three: with a match
it assigns at once, without one it tests the origin and waits (`AutoTrainAsks`), and the
module arrives later or never. `ApproveModule` is `review_module`, which looks at the
origin again (`_origin_is_terminal`). `AssignFree` is the shared helper, `AssignRisk` the
risk's own endpoint, which skips subjects that hold training and looks at nothing else.
Each request comes with or without a reason; what the guards let through is written down
(`Reasoned`, `Moved`).

*Screens.* `Offers` and `OffersAutoTrain` say when a button can be pressed, by the status the
page shows: a risk's assign, attach, close, reopen, review and auto-train, a finding's
status, assign and auto-train. A dialog opens from its button, `Ready` is when its own button
can be pressed, `Submit` what it sends, `Accepted` whether the server takes that. A refetch
(`Refetch`) moves `shown`. The finding's status dialog, which opens bare or on one of two
presets, then starts over if the list of moves changed; the other dialogs have no such reset
and stay as they are, even when the button they were opened with is gone (`Outlived`).

*What the model shows besides its properties.* A subject's standing never leaves
`assigned` unless it was seeded further along, because completing training does not write
it, so `review_subject` refuses everybody attached later. Reopening a risk does not clear
the training its subjects hold, so its own assign then skips them. People attached after
auto-train asked are not in the written module's list. Overlap of handlers without an
await is not modelled: the duplicates of `assignment.py:38` under two overlapping requests
are named in the hazards.

### ClientCache

*State.* `pair` is the mutation and the view of a behaviour, reduced to what matters: is
the view's key covered by what the mutation invalidates, does it poll, does the socket
invalidate it, is it one the code forgets. `Init` takes every pair of the tables
`LoopMutations` .. `DemoMutations` and `StaffReads`, `OwnReads` in which the mutation
writes what the view reads. `session`, `issued`, `ended` are tokens; `cache`, `fetch`,
`write` the query, its request and the mutation, each with the token it was made under;
`stray` the requests nobody waits for any more; `owed` the person's latest change they
were told of.

*Steps.* A fetch is asked, answered or refused, and lands; it may fail at any point and is
tried again `MAX_RETRIES` times with whatever token is then in storage. `queryClient.clear()`
forgets requests without aborting them. `Invalidated` is `invalidateQueries` as the library
does it: the entry is marked, a fetch of an observed view is replaced, one of an unobserved
or first-time view is left to finish (`LeftRunning`). `WriteFails` covers the answer that
was lost after the commit. `StreamEvent` is a `loop_update`.

*The tables* are read off the source by hand: `StaffReads` and `OwnReads` say what the answer
behind each key of `qk` shows, the mutation tables what each handler writes by the time it
answers and which keys its hook invalidates. Not in them are the views no mutation writes
(capabilities, identity, the simulation templates) and `qk.intel.stats`, which nobody queries.
A new control gap is written by `reset_demo` alone: no behaviour a mutation reports is in
`CONTROL_ANSWERS`.

*Forgotten* lists the pairs the code neither invalidates nor polls:

* a simulation's outcomes or a forced measurement, and the people screens, the approval
  workspace and the executive page, which show the scores they move; a simulation, and the
  coverage gaps it counts;
* training handed out (review of a module, assignment, auto-train, the actions on a risk), and
  the executive page, which counts assignments;
* the extraction of a policy's rules, and the policy library, whose rows show
  `extraction_status`;
* what happens to a finding, and the page of the intelligence item it came from; an
  assessment of that item, and the finding's page;
* a new module or a refresh of the intelligence sources, and the audit page with its filter;
* a decision in the studio, and the approval workspace; an employee's own report, and their
  profile; a course that was mapped, and its integration's page.

They catch up on focus or a new visit. `mutations.ts:4-8` says that every mutation names
exactly the caches it changes; these are the pairs where it does not. `OwnChangeIsSeen`
starts from every pair of the tables, so it fails for one that is missing from the list, and
`MCClientCache` makes TLC evaluate that no pair is listed in vain.

*Left out*: pausing of timers in a background tab, two tabs that share a session,
downloads. A late 401 of an old token signs the new session out; the
model does so too. `queries.ts` stops polling a sandbox job once it has settled, although a
worker's report may amend it, so the job's page is not counted among the polled views.

## 3. The runs

| run | instance | shows |
|---|---|---|
| `loop_serial` | 2 employees, 1 request at a time, all endpoints, both demo settings, 1 restart | typing; scored once; running means a task; the report stands; closed stays closed; outcomes final; every stage ends; unless the process dies, somebody is always left to measure and the last answer closes the run; refinement of `TrainingGate`; the screens draw, count and describe the run as it is |
| `loop_overruled` | 1 employee, 2 requests in flight, 2 resumed tasks, all endpoints, both demo settings, 1 restart, 1 database error | a rejection with the last word is never undone, whatever was submitted before it |
| `loop_concurrent` | 1 employee, 2 requests in flight, 2 resumed tasks, 1 database error; all endpoints but `reject` | targeted once; stages in order; no stage lost from the history; `OneTargetRun` of section 5 |
| `loop_rejected` | 1 request, `approve` and `review` | **violation**: see below |
| `loop_wedged` | 2 requests, `approve` only | **violation**: see below |
| `ledger_serial` | scale 0..4, baseline 2, 1 session, all signals, 3 events, 1 restart, 1 failed session | typing; the score is the trail; an answer with words is final; withdrawals land |
| `ledger_shared` | the same scale, 2 sessions, 3 kinds of signal, 2 events before the last session starts | no exaggeration; training never moves `behaviour_risk` |
| `ledger_halves` | 1 session, signals only | **violation**: see below |
| `desk` | 2 analysts, 1 decision at a time, both routes, 1 text typed, 3 entries on the trail before the last request | typing; two people for a held run; the trail tells the run; recorded once; refused only for a reason |
| `desk_overwrite` | 2 analysts, the queue only, 1 text | **violation**: see below |
| `obligations` | 2 people, one of them away, 2 modules, 1 reopening; risks and findings | typing; nothing for closed origins; closing by the book; owed once; work is kept; offered is accepted; the reason fits |
| `client` | 2 sign-ins, 2 changes on the server, 2 retries; every pair | typing; own data; own change seen; polled views catch up |

*Why these bounds.* The double-targeting hazard needs two tasks of one run, hence two
resumed tasks and two requests, and one employee to be targeted twice. A rejection that races an approval needs the same. The report and the
last-answer hazards need two assignments with different outcomes, hence two employees. A
restart and an error are each interesting at every point, once. Two measure tasks are the
two that can race; a finished one gives its identifier back, so submissions are not
bounded. On the 0..4 scale a click (3) from the baseline (2) meets the upper rail and two
reports meet the lower one, which is what the ledger properties are about. `MaxCrashes`,
`MaxErrors` and `MaxEvents` are bounds on counters of the environment, and nothing else
is bounded in the loop and the ledger. At the desk, the two-person rule needs two people,
a trail of three lets one endorse, the other endorse and one of them release, or a revision
come between, and one typed text is enough to be undone. One module of the
catalogue and one that is written are enough for a second module to reach somebody who holds
the first (with two written ones, 3.0 million states and four minutes, nothing changes); a
person who is away is the one the helper must skip; the second reopening repeats the first. In the
browser, the hazards are an answer or refusal of the previous session, hence two sign-ins,
and an answer between two changes, hence two versions; `MAX_RETRIES` is the code's own
value. `MaxTexts`, `MaxTrail`, `MaxModules`, `MaxReopened`, `MaxSignIns` and `MaxVersion`
are the bounds. Deadlock is not checked because runs end: a closed run whose people have
answered has nothing left to do, and a full trail takes no further signal.

*Fairness* (`FairSpec`): weak fairness of the tasks' steps, because the event loop keeps
running what is ready, and of a request's commit once it has read, because the thread
pool finishes what it began. Nothing obliges anybody to send a request, and a task may be
unlucky at every choice. Liveness is therefore stated only about what tasks owe: a
running run stops running, and after the last answer the run closes.

In `ClientCache`, weak fairness of `Poll`, because `refetchInterval` is a timer, and strong
fairness of `ServerAnswers` and `AnswerLands`: a request may be lost again and again, but of
those sent for ever one is answered and its answer arrives. `PolledCatchesUp` further
assumes that the view stays open under a session that lasts.

*One request at a time* (`loop_serial`, `ledger_serial`, `desk`) still lets requests and tasks
interleave at every commit. Some of the statements do fail when two requests overlap; the
hazards list names each. In short:

* a completion loaded before force-measure commits over its expiry (`SettledOnce`,
  `OutcomeStays`): with one slot these two are about repeated forcing, crashes, the `except`
  branch and the endpoints' own guards;
* a stale approval reopens a closed run (`ClosedStays`), or one whose first task has ended
  (`RunningHasTask`, see `loop_wedged`);
* with three requests, a rejection that overlaps an approval restores a history without
  TARGET and a third request's task targets again (`TargetedOnce`);
* two sessions lose an update of the score (`ScoreIsTheTrail`), or undo a withdrawal
  (`WithdrawalLands`), or answer one contest twice (`OneAnswer`);
* at the desk, the endorsements are read without a lock: `TwoPeople`, `RecordedOnce` and
  `TrailTellsTheRun` all fail with two decisions in flight. The direct route is in the run, and
  `TwoPeople` speaks of releases through the queue only because that route never looks at
  endorsements.

*Rejections.* That nobody is assigned anything once a rejection is on record,
`NothingAfterReject`, is false in more than one way: the studio's review (`loop_rejected`); an
approval that was read before the rejection and commits after it, which sets status and module
back; a rejection that commits when the resumed task has already looked at the gate.
`RejectionStands` is what the re-check of `orchestrator.py:277-284` does promise, and the run
that checks it leaves no endpoint, overlap, crash or error out: once the module is rejected,
the run has left the gate, no approval is still to be committed and no task is past its look
(`Overruled`), nobody is charged or assigned any more, and that stays so. The run's status and
the module's are both tested there; either test alone suffices.

*After a restart* between the last completion's commit and its hook, nothing is left to
measure the run. `Awaited` and `LastAnswerCloses` are therefore about processes that have not
died, and `Awaited` about no refused flush either.

*Of the ledger*: `OneAnswer` speaks of answers with words. The test at `routers/employees.py:148`
is on the stored, stripped text, and the schema asks for one character only, so "This contest is
already resolved" does not hold of an answer of blanks, which may even have withdrawn the event.
`WithdrawalLands` follows the score through any series of signals and withdrawals and compares
it with the events that still stand. It excludes what really does part the two: a rail that
was met by what was left at some time (`Comfortable`), and a crash or failure, for between the
two commits of a resolution it leaves the withdrawn event in the score. `NeverExaggerates`
is about one event and does not see a lost update; it says what survives one.

### What the violations say

* **`loop_rejected`.** The comment at `core/orchestrator.py:278-280` promises that a
  rejected module never reaches an employee. `review_module` rejects the module of a run
  that waits for approval without moving the run; `approve_training` tests the run only
  and sets the module back to approved.
* **`loop_wedged`.** Two approvals pass the same test. When the first one's task has
  already failed, or finished TRAIN, the second writes `running` over it, and its task
  returns because TARGET is on record. `main.py:40-42` says no run is left wedged at
  running; this one is, until a restart.
* **`ledger_halves`.** `core/risk_engine.py:171-174` rails each half so that they keep
  adding up to the score. Railing them apart is why they stop: a click cut at the rail
  for `behaviour_risk` alone leaves the halves short of the score that was not cut.

* **`desk_overwrite`.** `features/approvals/draft.ts:93` says `editsDiffer` tells "whether
  an analyst has actually changed anything". The editor's text is set once, the baseline it
  is compared with follows every refetch; after a colleague's save, a screen that typed
  nothing is dirty, is offered approve-with-edits instead of approve, and saves the older
  text over the newer one.

More disagreements are exceptions of a passing property, each named in its comment:

* the command center's rows and the run page's gate panel send rejections without the comment
  the server asks for (`RefusedForAReason`);
* the preset buttons of a finding open the dialog on moves that may not be legal, and every
  dialog but the status dialog outlives its button when a refetch changes the row: assign, close
  and reopen can then be pressed and are answered 409, though `FindingStatusDialog.tsx:7-8`
  says the product ships no dead ends (`OfferedIsAccepted`);
* a risk's own assign gives a module to a person who owes it already (`OwedOnce`), and sets a
  subject without training, who may be completed or reviewed by then, back to assigned
  (`SubjectsKeepTheirWork`);
* a mutation leaves views alone that it changed (`OwnChangeIsSeen`, the list *Forgotten* above);
* an answer of blanks leaves a contest open (`OneAnswer`).

## 4. Properties and mutants

Each property of a passing run has a mutant in `PROJECT.json`: an operator that stands
just before the definition it replaces, with the bug a careless edit would make. They are
never used by the specification.

## 5. Theorems

Every safety property of the passing runs, invariant or action property, is a theorem, and
so is the refinement. `OneAtATime` and `OneSession` say that two requests (decisions,
sessions) do not overlap; each is stated only where the property fails without it.

| theorem | says | assumes |
|---|---|---|
| `Typing` (`LoopRun_proofs`) | `Spec => []TypeOK` | `LoopRunAssumption` |
| `Alone`, `NobodyTwice` | `Spec => []OneTargetRun`, `[]TargetedOnce` | `"reject" \notin Handlers` |
| `OneWriterAtATime` (`LoopSerial_proofs`) | `Spec => []OverlapInv` | `"reject" \notin Handlers` |
| `StagesInOrderOverlapping`, `HistoryIsKeptOverlapping` | `Spec => []StageOrder`, `HistoryKept` | `"reject" \notin Handlers` |
| `Serial` | `Spec => []SerialInv` | `OneAtATime` |
| `ChargedOnce`, `ReportStaysTrue`, `NobodyTwiceSerially`, `StagesInOrder` | `Spec => []SettledOnce`, `[]ReportStands`, `[]TargetedOnce`, `[]StageOrder` | `OneAtATime` |
| `HistoryIsKept`, `ClosedForGood`, `OutcomesAreFinal` | `Spec => HistoryKept`, `ClosedStays`, `OutcomeStays` | `OneAtATime` |
| `NeverWedged` | `Spec => [](errors = 0 => RunningHasTask)` | `OneAtATime` |
| `LookedAfter` | `Spec => []Awaited` | `OneAtATime` |
| `NothingHandedOutAfterReject` | `Spec => RejectionStands` | `LoopRunAssumption` |
| `DrawnTruly` (`LoopScreens_proofs`) | `Spec => [](errors = 0 => DrawnWhereItWorks)` | `OneAtATime` |
| `ReleasedByPeople`, `SentencesAreTrue` | `Spec => []ReleasedByAPerson`, `[]SentenceIsTrue` | `OneAtATime` |
| `RunImplementsGate` (`LoopGate_proofs`) | `Spec => ImplementsGate` | `OneAtATime`, `MaxErrors = 0` |
| `LedgerTyping`, `NothingExaggerated` (`RiskLedger_proofs`) | `Spec => []TypeOK`, `[]NeverExaggerates` | `RiskLedgerAssumption` |
| `BehaviourMovesOnEvidence` | `Spec => BehaviourIsEvidence` | the same |
| `ScoreAddsUp`, `WithdrawalIsComplete` | `Spec => []ScoreIsTheTrail`, `[]WithdrawalLands` | the same, and `OneSession` |
| `AnsweredOnce` | `Spec => OneAnswer` | the same, and `OneSession` |
| `DeskTyping`, `RefusedWithReason` (`ApprovalDesk_proofs`) | `Spec => []TypeOK`, `RefusedForAReason` | `ApprovalDeskAssumption` |
| `TwoPeopleRelease`, `RecordedOnlyOnce`, `TrailIsTheRecord` | `Spec => []TwoPeople`, `[]RecordedOnce`, `[]TrailTellsTheRun` | the same, and `OneAtATime` |
| `ObligationTyping`, `OwedOnlyOnce`, `ReasonsFit`, `NoDeadEnds` (`Obligations_proofs`) | `Spec => []TypeOK`, `[]OwedOnce`, `[]ReasonFitsTheFinding`, `[]OfferedIsAccepted` | `ObligationsAssumption` |
| `ByTheBook`, `ClosedMeansClosed`, `WorkIsKept` | `Spec => ClosedByTheBook`, `NothingForTheClosed`, `SubjectsKeepTheirWork` | the same |
| `ClientTyping`, `NobodyElsesData` (`ClientCache_proofs`) | `Spec => []TypeOK`, `[]OwnData` | `ClientAssumption` |
| `OwnChangeDelivered` | `Spec => []OwnChangeIsSeen` | the same, and `Accounted` |

They hold for any number of employees, requests and tasks, any number of restarts and
errors, any scale and weights, any number of analysts, texts, people, modules, sign-ins and
retries. The loop's theorems all assume `LoopRunAssumption` besides what the table says.

**What the assumptions of the loop stand for.** Section 3 lists what overlapping requests
break, so `OneAtATime` is not a convenience; it removes no interleaving between a request
and the tasks, each of which still comes between a request's read and its commit.
`errors` counts two things, requests that roll back and tasks that die of a refused flush.
A dead task is what leaves a run at running, waiting for nobody, or drawn where nothing
works, hence `errors = 0` in `NeverWedged`, `LookedAfter` and `DrawnTruly` (a restart is
allowed in the first and last; `Awaited` has both conditions in it), and `MaxErrors = 0` in the refinement, whose phases do not
know the state such a run is left in. `Awaited` needs `crashes = 0` because
a restart between the last completion and its hook strands the run.

**Why `TargetedOnce` holds when requests overlap.** By itself it is not inductive: nothing
in it says that the second task will be refused. `OneTargetRun` adds the reasons, each a
named part:

* `OnlyPipelinePrepares`, `AloneBeforeGate`: until the pipeline reaches the gate nobody
  can approve or force, so there is no other task;
* `TargetOnRecord`: either TARGET is in `stage_history`, or nobody is past it, no
  measurement is queued, and nobody holds an assignment or exposure;
* `CopiesAgree`: every copy of the history a live task may write back agrees with the row
  on whether TARGET is there, so no write can erase it;
* `OneHolder`: at most one task holds anything, which is `TargetedOnce`;
* `DutiesExist`: requests only touch assignments that exist.

The step from `hist` without TARGET to `hist` with it is taken by one task in one
stretch, test and commit together, and `TargetOnRecord` says nobody else is past it. The
assumption that rejections are left out is needed: `CommitReject` rewrites the history
from what it loaded, which breaks `CopiesAgree` and, with three requests, the theorem.

`OverlapInv` goes on from there to the whole history. `OneWriter`: among any number of
tasks at most one holds a copy it will write, its copy is the row, and where it is in its
code says which history that is. The rest says why no second writer begins:
an approval that comes too late (`GateOnRecord`), or a measurement that does
(`StopOnRecord`), finds on record the stage its task would start with.

**Why a run served one request at a time is in order.** `SerialInv` describes the run as
its source reads. `OneWorker`: at most one task is at work, its copy is the row and the row
says running. `StatusFits`: where nobody works, the history fits the status. `ApprovalStands`
and `LetThrough`: what a resumed task relies on still holds when it starts.
`PeopleFit`: nobody is touched before TARGET, and all who are belong to one task.
`MeasureFits`: a measurement is on the way only when everybody has settled.
`RequestFits`: what the request in flight has loaded is still so, which is where
`OneAtATime` enters: no task ever writes what a request has read between its read and its
commit. Each of the properties is a part of it or a consequence, and the action properties
follow step by step.

**Why a rejection stands, however requests overlap.** `Overruled` is kept by every step, for
three reasons. What would undo it is a decision still under way or a task past the gate, and it
says there is none: an approval that is read now finds the run away from the gate, and a task
that starts finds it rejected (`TargetRefused`). Nobody brings the run back to the gate but the
pipeline, which does so once, before any module could be rejected: `NothingToDecide` says that
until it has stored a module no request holds a decision about one. And what the remaining
requests write is about people who have an assignment already (`DutiesExist`), so nobody is
handed anything. Neither lemma assumes anything of requests.

**Why the run implements the gate.** Every step is taken to a step of `TrainingGate` or to
one that changes neither phase, duties nor report. `SerialInv` makes the mapping work:
`PeopleFit` makes the duty of an employee a function of the rows of one task,
`OneWorker` makes "past the gate" a fact about that task, `MeasureFits` makes the
report final when it is taken.

**Why the ledger's theorems hold.** `recompute_score` is a sum over the trail, and the sum
is a recursion over a finite set. The library's induction theorems take the predicate as an
operator, which the provers cannot instantiate. `MinimalSet` states the same principle with
sets: of any set of finite sets some contain no other
(`FS_StrictSubsetOrderingWellFounded`, `WFMin`). Applied to the set of counterexamples it
shows that the recursion behind `MapThenSumSet` has a solution (`AllSettled`), that a sum is
an integer (`SumInt`), that any element may be taken out first (`SumAny`) and that nothing
but the deltas counts (`SumSame`). From there: `LedgerInv` puts rows, copies and sums on the
rails. `EvidenceInv` says what stands behind a session's change of `behaviour_risk`: an event it will
insert, or a withdrawal, which nothing takes back. `SerialInv` says what the copy of the one
session at work is worth: until a withdrawal, its score is the baseline plus the trail plus
what it will insert. `Smooth`, the part for `WithdrawalLands`, says the same of the events left
after any withdrawals (`LeftAppend`, `LeftSame`), as long as every such sum is on the rails:
`ComfortBefore` carries that condition back to the trail before a step, and by `ComfortNow` the
clamp of `recompute_score` then changes nothing. `SumsStay` carries both over steps that leave the
trail alone. `ScoreIsTheTrail`, `OneAnswer` and `WithdrawalLands` are false for two
sessions: one update of the score is lost, or both answers are committed.

**Why the desk's theorems hold.** `ReadIsCurrent` says that with one decision in flight
(`OneAtATime`) nothing is added to the trail between a decision's read and its commit, so
`ends` still is the length of the trail; then `Refuses` decides on what is there, and the
released run keeps it, because nothing is read once the run has left the gate. `RecordedOnce`
needs `Undecided` as well: no approval or rejection is on the trail while the run waits.
`TrailTellsTheRun` reads the newest decision off the trail, which exists because each step
that extends the trail keeps one (`NewestStands`), and adds that what moved a run through the
queue is the last entry and bears its releaser's name (`LastMoved`). Without `OneAtATime` all three are false.
`RefusedForAReason` needs no invariant but typing: it compares what `Press` lets a
screen send with what each refusal of the server tests.

**Why the obligations' theorems hold.** `IInv` is `TypeOK`, `OwedOnce`, `NoRowNoLink` (who is
not attached holds nothing), `ShowsOrigin` (a page shows a status of its kind, and
only a finding's has the status dialog) and `ReasonFitsTheFinding`. `OwedOnce` is what makes typing inductive: the helper adds to nobody
who owes, and the risk's assign only to a subject without a link, whom it then links, so no
count passes two. The three action properties follow step by step from `IInv`.
`OfferedIsAccepted` adds `Listed`: the move the status dialog has selected is on the list for
the status on show, or is its preset. For the other dialogs it compares `Offers`, which let the
button be pressed, with the routers' guards at the moment the page is up to date; where the
button is gone, the dialog has `Outlived` it. By `ServedOrShown` a step is one the server
takes or touches the screen only, so what a dialog sends needs no proof of its own.

**Why the client's theorems hold.** `OwnFetch` says that a fetch the cache will take was made
under the current session, whatever the token in storage was when it was retried, since every
sign-in forgets the fetches before it. For `OwnChangeIsSeen`, `SeenInv` adds that an answer
already on its way is not older than what the person was told, because `Invalidated`
replaces it. `Accounted` says of the tables that every pair is covered, polled or forgotten; it
is a fact about finite tables that the run decides, as it starts from every pair; it is a
hypothesis of `OwnChangeDelivered` because the provers do not evaluate the tables.

**What the proofs changed.** The first attempt at `SentencesAreTrue` failed because two arms
of `NextAction` overlapped, where `nextAction.ts` returns at the first that applies; the arms
are now exclusive. `SerialInv` and `OverlapInv` were model-checked on the instances of
`loop_serial` and of `loop_concurrent` (without `reject`) before they were proved, the
ledger's invariants on those of `ledger_serial` and `ledger_shared`; they are proved, so no
run repeats them, and each run checks what follows from them.

**Only model-checked**: liveness, since fairness and `ENABLED` are outside the prover
(`StageEnds`, `LastAnswerCloses`, `PolledCatchesUp`); and the four violations, which are
counterexamples.

## 6. Not modelled, and the plan

Static analysers, scoring and rendering of the sandbox engine are sequential functions
over file contents; AI providers are external; views, seeds, texts, charts and lists keep no
state that matters here. `CeleryTaskRunner.submit` only raises. `current_stage`, texts
and times are left out of `LoopRun`. Most of the TypeScript is of this kind: two thirds of
it are markup, translations and layout, and of the rest the modules take the parts in which
something can be stale, refused or lost.

Reports and simulations are modelled as the signals they send to `RiskLedger` and as
entries of the tables of `ClientCache`; their own status columns, the remediation engine,
the GRC watch, sandbox jobs, policy rules with their versions and the migration ladder are
not modelled. In the order in which they would add most:

1. `Remediation`: `plan_for`, the human gate, disputes, the gap counter.
2. `SandboxJob`: queue, worker queue without a lease, late reports, containers above a job.
3. `SignalSources`: reports with their cap, simulations and their outcomes, composed with
   `RiskLedger`.
4. Overlapping requests in `Obligations`, as `LoopRun` and `ApprovalDesk` have them.
5. Proofs: assumptions weaker than one request at a time where the property allows it, such
   as overlapping completions of different people; what still holds of a run that has lost
   a task to a refused flush.
