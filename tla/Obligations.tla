----------------------------- MODULE Obligations -----------------------------
(***************************************************************************)
(* How a claim about people becomes training they owe, and stops being     *)
(* one: an incident risk (routers/incident_risks.py) or a policy finding   *)
(* (routers/policy.py), the finding-to-training pipeline they share        *)
(* (training/pipeline.py, training/assignment.py), the review of modules   *)
(* it writes (routers/training.py), and the screens these are worked from  *)
(* (frontend/src: features/incident-risks, features/policy,                *)
(* pages/PolicyFindingDetail.tsx).                                         *)
(*                                                                         *)
(* A behaviour follows one origin.  A handler is one step, except where    *)
(* auto-train waits for a model to write a module.                         *)
(***************************************************************************)
EXTENDS Naturals, FiniteSets

CONSTANTS
    People,       \* the employees
    Away,         \* those not active: on leave or gone
    MaxModules,   \* bound: modules, the first of the catalogue, the rest written
    MaxReopened   \* bound: times the origin is reopened

ASSUME ObligationsAssumption ==
    /\ Away \subseteq People
    /\ MaxModules \in Nat \ {0} /\ MaxReopened \in Nat

VARIABLES
    kind,      \* "risk" or "finding", for the whole behaviour
    status,    \* of the origin
    stamped,   \* whether it carries who closed it, when, and the reason given
    reopened,  \* reopenings on record, each with its reason
    subject,   \* the risk's row on each employee: standing, and training held
    module,    \* the training modules: status, and whom one was written for
    owes,      \* open assignments, by module and employee
    call,      \* whom auto-train waits on a model for, {} when it does not
    shown,     \* the status the origin's page shows
    dialog     \* the dialog open on that page

origin  == <<kind, status, stamped, reopened>>
pipes   == <<module, owes, call>>
screen  == <<shown, dialog>>
vars == <<kind, status, stamped, reopened, subject, module, owes, call, shown, dialog>>

Modules == 1..MaxModules

RiskStatuses == {"draft", "open", "assigned", "in_progress", "awaiting_review",
                 "closed", "reopened"}
FindingStatuses == {"open", "in_review", "remediation_planned", "training_assigned",
                    "resolved", "accepted_risk", "false_positive"}

\* CLOSED, and TERMINAL_FINDING_STATUSES: no obligation is raised from here.
Terminal == IF kind = "risk" THEN {"closed"}
            ELSE {"resolved", "accepted_risk", "false_positive"}

Live == status \notin Terminal

Detached  == [standing |-> "none", link |-> 0]
Attached  == [standing |-> "assigned", link |-> 0]
Standings == {"none", "assigned", "in_progress", "completed", "reviewed", "failed"}

AnyStatus == RiskStatuses \cup FindingStatuses

\* The page's dialogs.  on: whom a review is about; preset, move: the status
\* dialog's choice; from: the status on show when the reason was written,
\* "nowhere" before.
Whiches == {"none", "status", "assign", "attach", "close", "reopen", "review"}
Shut    == [which |-> "none", on |-> {}, preset |-> "none", move |-> "none", from |-> "nowhere"]
Dialog  == [which : Whiches, on : SUBSET People, preset : FindingStatuses \cup {"none"},
            move : FindingStatuses \cup {"none"}, from : AnyStatus \cup {"nowhere"}]

TypeOK ==
    /\ kind \in {"risk", "finding"}
    /\ status \in IF kind = "risk" THEN RiskStatuses ELSE FindingStatuses
    /\ stamped \in BOOLEAN /\ reopened \in 0..MaxReopened
    /\ subject \in [People -> [standing : Standings, link : 0..MaxModules]]
    /\ module \in [Modules -> [status : {"absent", "pending_review", "approved", "rejected"},
                               named : SUBSET People]]
    /\ owes \in [Modules -> [People -> 0..2]]
    /\ call \in SUBSET People
    /\ shown \in AnyStatus /\ dialog \in Dialog

-----------------------------------------------------------------------------
(* Statuses.                                                               *)

RiskMoves ==
    [draft           |-> {"open"},
     open            |-> {"assigned", "in_progress"},
     assigned        |-> {"in_progress", "awaiting_review"},
     in_progress     |-> {"assigned", "awaiting_review"},
     awaiting_review |-> {"in_progress"},
     closed          |-> {},
     reopened        |-> {"assigned", "in_progress", "awaiting_review"}]

FindingMoves ==
    [open                |-> FindingStatuses \ {"open"},
     in_review           |-> FindingStatuses \ {"in_review"},
     remediation_planned |-> {"in_review", "training_assigned", "resolved", "accepted_risk"},
     training_assigned   |-> {"in_review", "remediation_planned", "resolved", "accepted_risk"},
     resolved            |-> {"open"},
     accepted_risk       |-> {"open", "in_review"},
     false_positive      |-> {"open"}]

\* Mutant of AfterAssigning: a finding takes the status of a risk.
AfterAssigningRisk == IF Live THEN "assigned" ELSE status

\* Where the origin stands once somebody was assigned: a live finding says so,
\* a risk only if it was not further along.
AfterAssigning ==
    IF kind = "finding" THEN (IF Live THEN "training_assigned" ELSE status)
    ELSE IF status \in {"draft", "open", "reopened"} THEN "assigned" ELSE status

\* PATCH of a risk: closing and reopening have endpoints of their own.
PatchRisk ==
    /\ kind = "risk"
    /\ status' \in RiskMoves[status]
    /\ UNCHANGED <<kind, stamped, reopened, subject, pipes>>

CloseAccepted(reason) == kind = "risk" /\ status \notin {"closed", "draft"} /\ reason

CloseRisk(reason) ==
    /\ CloseAccepted(reason)
    /\ status' = "closed" /\ stamped' = reason
    /\ UNCHANGED <<kind, reopened, subject, pipes>>

ReopenAccepted(reason) == kind = "risk" /\ status = "closed" /\ reason

\* One more reopening on record, if it was given a reason.
Reasoned(reason) ==
    /\ reopened' = IF reason THEN reopened + 1 ELSE reopened
    /\ reopened' <= MaxReopened

ReopenRisk(reason) ==
    /\ ReopenAccepted(reason)
    /\ status' = "reopened" /\ stamped' = FALSE /\ Reasoned(reason)
    /\ UNCHANGED <<kind, subject, pipes>>

\* Mutant of MoveAccepted: only closing asks for a reason.
MoveUnreasoned(to, reason) ==
    /\ kind = "finding"
    /\ to \in FindingMoves[status]
    /\ to \in Terminal => reason

\* A move the server takes; closing and reopening need a reason.
MoveAccepted(to, reason) ==
    /\ kind = "finding"
    /\ to \in FindingMoves[status]
    /\ to \in Terminal \/ ~Live => reason

\* The stamp and the reason are written with the status.
Moved(to, reason) ==
    /\ status' = to
    /\ stamped' = (to \in Terminal /\ reason)
    /\ Reasoned(~Live /\ to \notin Terminal /\ reason)

MoveFinding(to, reason) ==
    /\ MoveAccepted(to, reason)
    /\ Moved(to, reason)
    /\ UNCHANGED <<kind, subject, pipes>>

-----------------------------------------------------------------------------
(* Who is attached, and what they are given.                               *)

\* The employees the origin names: the attached ones, or those of the finding.
Named == IF kind = "risk" THEN {p \in People : subject[p].standing # "none"} ELSE People

AttachAccepted == kind = "risk" /\ Live

\* Mutant of AddSubjects: the list that was posted is written over the rows.
AddSubjectsAfresh(ps) ==
    /\ AttachAccepted
    /\ subject' = [p \in People |-> IF p \in ps THEN Attached ELSE subject[p]]
    /\ UNCHANGED <<origin, pipes>>

\* Additive: who is attached already is left as they are.
AddSubjects(ps) ==
    /\ AttachAccepted
    /\ subject' = [p \in People |-> IF p \in ps \ Named THEN Attached ELSE subject[p]]
    /\ UNCHANGED <<origin, pipes>>

TrainingAccepted == Live /\ Named # {}

\* Mutant of Free: nobody looks at what is open already.
FreeAnyhow(m, ps) == {p \in ps \ Away : owes[m][p] < 2}

\* Whom the shared helper assigns a module to; the rest it skips.
Free(m, ps) == {p \in ps \ Away : owes[m][p] = 0}

Owing(m, ps) == [owes EXCEPT ![m] = [p \in People |-> IF p \in ps THEN @[p] + 1 ELSE @[p]]]

\* Module m is assigned through the helper, subjects without training are
\* linked to it, and the origin moves.
AssignFree(m, ps) ==
    LET new == Free(m, ps)
    IN  /\ owes' = Owing(m, new)
        /\ subject' = [p \in People |->
                         IF kind = "risk" /\ p \in new \cap Named /\ subject[p].link = 0
                         THEN [subject[p] EXCEPT !.link = m] ELSE subject[p]]
        /\ status' = IF new = {} THEN status ELSE AfterAssigning

\* POST auto-train, when an approved module matches.
AutoTrainMatched(m) ==
    /\ TrainingAccepted
    /\ module[m].status = "approved"
    /\ AssignFree(m, Named)
    /\ UNCHANGED <<kind, stamped, reopened, module, call>>

\* ... and when none does: a model is asked, and the handler waits.
AutoTrainAsks ==
    /\ TrainingAccepted
    /\ call = {}
    /\ call' = Named
    /\ UNCHANGED <<origin, subject, module, owes>>

\* The module written goes to review with the people named when it was asked
\* for.
AutoTrainAnswered(m) ==
    /\ call # {}
    /\ module[m].status = "absent"
    /\ \A n \in 1..(m - 1) : module[n].status # "absent"
    /\ module' = [module EXCEPT ![m] = [status |-> "pending_review", named |-> call]]
    /\ call' = {}
    /\ UNCHANGED <<origin, subject, owes>>

\* The process stops while it waits: nothing was written.
AutoTrainLost ==
    /\ call # {}
    /\ call' = {}
    /\ UNCHANGED <<origin, subject, module, owes>>

\* Mutant of ApproveModule: the origin is not looked at again.
ApproveUnasked(m) ==
    /\ module[m].status = "pending_review"
    /\ module' = [module EXCEPT ![m].status = "approved"]
    /\ AssignFree(m, module[m].named)
    /\ UNCHANGED <<kind, stamped, reopened, call>>

\* Approving a written module completes the assignment it was written for,
\* unless its origin has been closed since (_origin_is_terminal).
ApproveModule(m) ==
    /\ module[m].status = "pending_review"
    /\ module' = [module EXCEPT ![m].status = "approved"]
    /\ IF Live THEN AssignFree(m, module[m].named)
       ELSE UNCHANGED <<owes, subject, status>>
    /\ UNCHANGED <<kind, stamped, reopened, call>>

RejectModule(m) ==
    /\ module[m].status = "pending_review"
    /\ module' = [module EXCEPT ![m].status = "rejected"]
    /\ UNCHANGED <<origin, subject, owes, call>>

\* POST assign on a risk: a subject that holds training is skipped, and what
\* is open elsewhere is not looked at.
AssignRisk(m, ps) ==
    LET new == {p \in (ps \cap Named) \ Away : subject[p].link = 0}
    IN  /\ kind = "risk" /\ TrainingAccepted
        /\ module[m].status = "approved"
        /\ owes' = Owing(m, new)
        /\ subject' = [p \in People |->
                         IF p \in new THEN [standing |-> "assigned", link |-> m] ELSE subject[p]]
        /\ status' = IF new = {} THEN status ELSE AfterAssigning
        /\ UNCHANGED <<kind, stamped, reopened, module, call>>

\* POST assign-training on a finding, for employees picked by hand.
AssignFinding(m, ps) ==
    /\ kind = "finding" /\ TrainingAccepted
    /\ module[m].status = "approved"
    /\ AssignFree(m, ps)
    /\ UNCHANGED <<kind, stamped, reopened, module, call>>

\* The employee completes the training, or it expires.  Nothing flows back.
Discharge(m, p) ==
    /\ owes[m][p] > 0
    /\ owes' = [owes EXCEPT ![m][p] = @ - 1]
    /\ UNCHANGED <<origin, subject, module, call>>

ReviewAccepted(p) == subject[p].standing \notin {"none", "assigned"}

ReviewSubject(p) ==
    /\ ReviewAccepted(p)
    /\ \E s \in {"reviewed", "failed"} : subject' = [subject EXCEPT ![p].standing = s]
    /\ UNCHANGED <<origin, pipes>>

-----------------------------------------------------------------------------
(* What the origin's page lets be pressed, by the status it shows.         *)

Looks(live) == shown \notin Terminal <=> live

\* The auto-train button, on both pages.
OffersAutoTrain == Looks(TRUE) /\ Named # {}

\* The button of a dialog: whyCannot... on the risk's page; on the finding's
\* the status dialog is always there, and training while it looks open.
Offers(which, p) ==
    CASE which = "status" -> kind = "finding"
      [] which = "assign" -> Looks(TRUE) /\ (kind = "risk" => Named # {})
      [] which = "attach" -> kind = "risk" /\ Looks(TRUE)
      [] which = "close"  -> kind = "risk" /\ shown \notin {"closed", "draft"}
      [] which = "reopen" -> kind = "risk" /\ shown = "closed"
      [] which = "review" ->
             kind = "risk" /\ p \in Named /\ Looks(TRUE) /\ subject[p].standing # "assigned"

-----------------------------------------------------------------------------
(* The dialogs.  The finding's status dialog is opened bare or by one of   *)
(* two buttons, and starts over when the moves it lists change; the others *)
(* stay as they are through a refetch.                                     *)

Presets == {"accepted_risk", "false_positive"}

\* What the list offers: the client's copy of the server's table.
LegalMoves(from) ==
    CASE from \in {"open", "in_review"} -> FindingStatuses \ {from}
      [] from = "remediation_planned" ->
             {"in_review", "training_assigned", "resolved", "accepted_risk"}
      [] from = "training_assigned" ->
             {"in_review", "remediation_planned", "resolved", "accepted_risk"}
      [] from = "accepted_risk" -> {"open", "in_review"}
      [] OTHER -> {"open"}

\* Mutant of RequiresNote: only closing asks for a reason.
RequiresNoteToClose(from, to) == to \in {"resolved", "accepted_risk", "false_positive"} /\ to # from

RequiresNote(from, to) == {from, to} \cap {"resolved", "accepted_risk", "false_positive"} # {}

\* The status dialog as it opens: the preset, or the first move of the list.
Fresh(preset, on) ==
    [which |-> "status", on |-> {}, preset |-> preset, from |-> "nowhere",
     move |-> IF preset # "none" THEN preset
              ELSE IF on = "open" THEN "in_review"
              ELSE IF on \in Terminal \cup {"in_review"} THEN "open"
              ELSE "in_review"]

IsOpen == dialog.which # "none"

Unserved == <<origin, subject, pipes>>

OpenStatus ==
    /\ ~IsOpen /\ Offers("status", {})
    /\ \E preset \in {"none"} \cup (Presets \ {shown}) : dialog' = Fresh(preset, shown)
    /\ UNCHANGED <<Unserved, shown>>

OpenOther ==
    /\ ~IsOpen
    /\ \E which \in Whiches \ {"none", "status"}, p \in People :
           /\ Offers(which, p)
           /\ dialog' = [Shut EXCEPT !.which = which, !.on = IF which = "review" THEN {p} ELSE {}]
    /\ UNCHANGED <<Unserved, shown>>

PickMove ==
    /\ dialog.which = "status"
    /\ \E to \in LegalMoves(shown) : dialog' = [dialog EXCEPT !.move = to]
    /\ UNCHANGED <<Unserved, shown>>

\* The notes of the remaining dialogs may be left empty.
WriteReason ==
    /\ dialog.which \in {"status", "close", "reopen"}
    /\ dialog' = [dialog EXCEPT !.from = shown]
    /\ UNCHANGED <<Unserved, shown>>

CloseDialog ==
    /\ IsOpen
    /\ dialog' = Shut
    /\ UNCHANGED <<Unserved, shown>>

\* Mutant of Refetch: an open status dialog outlives the list it was opened on.
RefetchQuietly ==
    /\ shown' = status
    /\ UNCHANGED <<Unserved, dialog>>

\* The page fetches the origin again.
Refetch ==
    /\ shown' = status
    /\ dialog' = IF dialog.which = "status" /\ shown # status
                 THEN Fresh(dialog.preset, status) ELSE dialog
    /\ UNCHANGED Unserved

\* The dialog's button can be pressed: training needs somebody to pick.
Ready ==
    CASE dialog.which = "none" -> FALSE
      [] dialog.which = "status" -> RequiresNote(shown, dialog.move) => dialog.from # "nowhere"
      [] dialog.which \in {"close", "reopen"} -> dialog.from # "nowhere"
      [] dialog.which = "assign" -> Named # {}
      [] OTHER -> TRUE

\* What it sends; the page is told to fetch again, which Refetch is.  A
\* refusal is shown in the dialog, which stays open.
Submit ==
    /\ Ready
    /\ CASE dialog.which = "status" -> MoveFinding(dialog.move, dialog.from # "nowhere")
         [] dialog.which = "close"  -> CloseRisk(dialog.from # "nowhere")
         [] dialog.which = "reopen" -> ReopenRisk(dialog.from # "nowhere")
         [] dialog.which = "review" -> \E p \in People : dialog.on = {p} /\ ReviewSubject(p)
         [] dialog.which = "attach" -> \E ps \in SUBSET People : AddSubjects(ps)
         [] dialog.which = "assign" ->
                \E ps \in SUBSET People, m \in Modules : AssignRisk(m, ps) \/ AssignFinding(m, ps)
    /\ dialog' = Shut /\ shown' = shown

\* The server takes what the open dialog sends.
Accepted ==
    CASE dialog.which = "status" -> MoveAccepted(dialog.move, dialog.from # "nowhere")
      [] dialog.which = "close"  -> CloseAccepted(dialog.from # "nowhere")
      [] dialog.which = "reopen" -> ReopenAccepted(dialog.from # "nowhere")
      [] dialog.which = "review" -> \A p \in dialog.on : ReviewAccepted(p)
      [] dialog.which = "attach" -> AttachAccepted
      [] OTHER -> TrainingAccepted

-----------------------------------------------------------------------------
\* An origin as created, or a seeded risk under way; some people owe the
\* catalogue's module already, for a reason of its own.
Init ==
    /\ \/ /\ kind = "risk" /\ status \in {"draft", "open"}
          /\ subject = [p \in People |-> Detached]
       \/ /\ kind = "risk" /\ status = "assigned"
          /\ subject \in [People -> [standing : {"in_progress", "completed"}, link : {0}]]
       \/ /\ kind = "finding" /\ status = "open"
          /\ subject = [p \in People |-> Detached]
    /\ stamped = FALSE /\ reopened = 0
    /\ module = [m \in Modules |->
                   [status |-> IF m = 1 THEN "approved" ELSE "absent", named |-> {}]]
    /\ owes \in [Modules -> [People -> 0..1]]
    /\ \A m \in Modules, p \in People : owes[m][p] = 1 => m = 1 /\ p \notin Away
    /\ call = {}
    /\ shown = status /\ dialog = Shut

Pipeline(m) ==
    \/ AutoTrainMatched(m) \/ AutoTrainAnswered(m)
    \/ ApproveModule(m) \/ RejectModule(m)

\* Requests of anybody, and what follows from them later.
Served ==
    \/ PatchRisk
    \/ \E reason \in BOOLEAN :
           \/ CloseRisk(reason) \/ ReopenRisk(reason)
           \/ \E to \in FindingStatuses : MoveFinding(to, reason)
    \/ \E ps \in SUBSET People :
           \/ AddSubjects(ps)
           \/ \E m \in Modules : AssignRisk(m, ps) \/ AssignFinding(m, ps)
    \/ AutoTrainAsks \/ AutoTrainLost
    \/ \E m \in Modules : Pipeline(m) \/ \E p \in People : Discharge(m, p)
    \/ \E p \in People : ReviewSubject(p)

Next ==
    \/ Served /\ UNCHANGED screen
    \/ OpenStatus \/ OpenOther \/ PickMove \/ WriteReason \/ CloseDialog
    \/ Refetch \/ Submit

Spec == Init /\ [][Next]_vars

-----------------------------------------------------------------------------
(* What the pipeline promises.                                             *)

\* Generation and review may take days: still nobody is given work for an
\* origin that was closed meanwhile (_origin_is_terminal, auto_train_risk,
\* auto_train_finding).
NothingForTheClosed ==
    [][(\E m \in Modules, p \in People : owes'[m][p] > owes[m][p]) => Live]_vars

\* An origin leaves its closed statuses by a reopening that was given a
\* reason, never as a side effect of training, and the closure stamp, with the
\* reason it was closed for, comes and goes with them (update_finding,
\* close_incident_risk, reopen_incident_risk, review_module).
ClosedByTheBook ==
    [][(status \in Terminal) # (status' \in Terminal) =>
          /\ stamped' = (status' \in Terminal)
          /\ status \in Terminal => reopened' = reopened + 1]_vars

\* "No duplicate open assignment for the same module": an employee owes one
\* module twice only where the risk's own assign, which looks at the subject
\* row alone, gave it (assign_module_to_employees, assign_required_training).
OwedOnce ==
    \A m \in Modules, p \in People :
        owes[m][p] > 1 => kind = "risk" /\ subject[p].link = m

\* What a subject holds is left alone: posting a list again, a second module
\* approved for the same risk or another auto-train neither points the row
\* elsewhere nor sets back a person who got further (add_subjects,
\* review_module, _skip_reason).
SubjectsKeepTheirWork ==
    [][\A p \in People :
          /\ subject[p].link # 0 => subject'[p].link = subject[p].link
          /\ subject[p].standing \notin {"none", "assigned"} /\ subject'[p].standing = "assigned"
                => subject[p].link = 0 /\ subject'[p].link # 0]_vars

\* A dialog that outlived the button it was opened with.
Outlived ==
    \/ dialog.which \in {"assign", "attach", "close", "reopen"} /\ ~Offers(dialog.which, {})
    \/ dialog.which = "review" /\ \E p \in dialog.on : ~Offers("review", p)

\* "This product does not ship dead ends": while the origin stands as the page
\* shows it, the server takes what the page's buttons and its open dialog send.
\* Two exceptions the code has: the status dialog's presets, which are selected
\* whether the list holds them or not, and a dialog other than the status
\* dialog, which stays open and enabled after a refetch has taken the button it
\* was opened with away (whyCannot..., the dialogs, against the routers).
OfferedIsAccepted ==
    shown = status =>
        /\ OffersAutoTrain => TrainingAccepted
        /\ Ready => \/ Accepted
                    \/ dialog.which = "status" /\ dialog.move = dialog.preset
                    \/ Outlived

\* "A note written for one decision must not be carried into a different one":
\* the reason in the status dialog was written on the status it shows
\* (FindingStatusDialog's reset).
ReasonFitsTheFinding ==
    dialog.which = "status" => dialog.from \in {"nowhere", shown}
=============================================================================
