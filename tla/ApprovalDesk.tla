---------------------------- MODULE ApprovalDesk ----------------------------
(***************************************************************************)
(* The human gate of one run as a set of people work it: the decision      *)
(* endpoint of routers/approvals.py over the audit trail, the older routes *)
(* of routers/loop_runs.py beside it, and the screens analysts decide from *)
(* (frontend/src: pages/ApprovalDetail.tsx with features/approvals, the    *)
(* queue rows of pages/CommandCenter.tsx, the gate of features/loops).     *)
(*                                                                         *)
(* A screen shows what the server last told it and keeps text of its own.  *)
(* A decision takes two steps on the server, the reads and the commit.     *)
(***************************************************************************)
EXTENDS Naturals, Sequences, FiniteSets

CONSTANTS
    Analysts,   \* people with permission to decide
    Slots,      \* decision requests the server works on at a time
    Routes,     \* which endpoints people use: "queue", "direct"
    MaxTexts,   \* bound: module texts typed after the generated one
    MaxTrail    \* bound: entries of the trail before a new request starts

ASSUME ApprovalDeskAssumption ==
    /\ Routes \subseteq {"queue", "direct"}
    /\ MaxTexts \in Nat /\ MaxTrail \in Nat
    /\ "nobody" \notin Analysts

VARIABLES
    status,     \* LoopRun.status, from the gate on
    content,    \* the module's text: 0 as generated, else the n-th typed
    trail,      \* the approval.* rows of the audit trail, oldest first
    released,   \* history: who moved the run off the gate, and by which route
    texts,      \* texts typed so far
    desk,       \* each analyst's review screen
    req         \* decisions the server is working on

server == <<status, content, trail, released>>
screens == <<texts, desk>>
vars == <<status, content, trail, released, texts, desk, req>>

Texts    == 0..MaxTexts
Statuses == {"awaiting_approval", "running", "failed"}
Acts     == {"endorse", "request_revision", "approve", "reject"}
Entry    == [act : Acts, by : Analysts]

\* What a screen may have under way: a module save, or a decision.
Saves     == {"save", "approve_with_edits"}
Decisions == {"approve", "second_approval", "request_revision", "reject",
               "row_reject", "page_reject"}
Asked     == {"nothing"} \cup Saves \cup Decisions

\* Rejections without the comment the server asks for, from the two screens
\* that let them be sent: a row of the command center, which has no field for
\* one, and the gate of the run page, whose field says it is optional.
Unexplained == {"row_reject", "page_reject"}

\* status and text as last fetched, the editor's text, what is under way and
\* the text it carries.
Desk == [status : Statuses, text : Texts, edits : Texts, asked : Asked, body : Texts]

NoReq == [by |-> "nobody", kind |-> "nothing", direct |-> FALSE, ends |-> 0]
Req   == [by : Analysts, kind : Decisions \ Unexplained, direct : BOOLEAN, ends : Nat]

Opened == [status |-> status, text |-> content, edits |-> content,
           asked |-> "nothing", body |-> 0]

TypeOK ==
    /\ status \in Statuses /\ content \in Texts /\ texts \in Texts
    /\ trail \in Seq(Entry)
    /\ released \in [by : Analysts \cup {"nobody"}, via : {"none", "queue", "direct"}]
    /\ desk \in [Analysts -> Desk]
    /\ req \in [Slots -> Req \cup {NoReq}]

-----------------------------------------------------------------------------
(* The trail.                                                              *)

\* Who endorsed, among the first n entries.
EndorsersIn(n) == {trail[i].by : i \in {j \in 1..n : j <= Len(trail) /\ trail[j].act = "endorse"}}

Standing == {"approve", "reject", "request_revision"}

\* The newest decision on the trail, which the run page names (gateFrom).
GateFrom ==
    LET named == {i \in 1..Len(trail) : trail[i].act \in Standing}
    IN  IF named = {} THEN [act |-> "none", by |-> "nobody"]
        ELSE trail[CHOOSE i \in named : \A j \in named : j <= i]

-----------------------------------------------------------------------------
(* A screen.                                                               *)

\* editsDiffer: whether the editor's text differs from the module as fetched.
Dirty(a) == desk[a].edits # desk[a].text

Busy(a) == desk[a].asked # "nothing"

\* The workspace is opened: the editor starts from the module as fetched, and
\* later fetches leave its text alone.  A draft kept in the browser from an
\* earlier visit is left out.
Open(a) ==
    /\ ~Busy(a)
    /\ desk' = [desk EXCEPT ![a] = Opened]
    /\ UNCHANGED <<server, texts, req>>

\* The workspace's query is fetched again: on focus, or after an invalidation.
Refetch(a) ==
    /\ desk' = [desk EXCEPT ![a].status = status, ![a].text = content]
    /\ UNCHANGED <<server, texts, req>>

TypeText(a) ==
    /\ desk[a].status = "awaiting_approval"
    /\ texts < MaxTexts
    /\ texts' = texts + 1
    /\ desk' = [desk EXCEPT ![a].edits = texts + 1]
    /\ UNCHANGED <<server, req>>

CancelEdit(a) ==
    /\ ~Busy(a)
    /\ desk' = [desk EXCEPT ![a].edits = desk[a].text]
    /\ UNCHANGED <<server, texts, req>>

\* What the panel lets the analyst press, by what the screen shows.
Offered(a, kind) ==
    /\ ~Busy(a)
    /\ desk[a].status = "awaiting_approval"
    /\ kind = "approve" => ~Dirty(a)
    /\ kind = "approve_with_edits" => Dirty(a)

\* The panel of the workspace, which asks for a comment before it rejects or
\* requests a revision; the gate of the run page and the row of the command
\* center, which do not.
Press(a, kind) ==
    /\ "queue" \in Routes
    /\ Offered(a, kind)
    /\ desk' = [desk EXCEPT ![a].asked = kind,
                            ![a].body = IF kind \in Saves THEN desk[a].edits ELSE 0]
    /\ UNCHANGED <<server, texts, req>>

Decide(a) ==
    \E kind \in {"approve_with_edits"} \cup Decisions : Press(a, kind)

SaveEdits(a) ==
    /\ ~Busy(a) /\ Dirty(a)
    /\ desk' = [desk EXCEPT ![a].asked = "save", ![a].body = desk[a].edits]
    /\ UNCHANGED <<server, texts, req>>

\* A decision is over on the screen.  Answered or not, it was what it was on
\* the server, and the analyst may press again.
Over(a) == desk' = [desk EXCEPT ![a].asked = "nothing", ![a].body = 0]

\* PATCH /training/modules/{id}: no version is compared.  On the way to an
\* approval the decision follows, unless the save failed or seemed to.
SaveModule(a) ==
    /\ desk[a].asked \in Saves
    /\ content' \in {content, desk[a].body}
    /\ \/ Over(a)
       \/ /\ desk[a].asked = "approve_with_edits" /\ content' = desk[a].body
          /\ desk' = [desk EXCEPT ![a].asked = "approve", ![a].body = 0]
    /\ UNCHANGED <<status, trail, released, texts, req>>

-----------------------------------------------------------------------------
(* The decision endpoint.                                                  *)

\* Mutant of ReadDecision: the gate is left to the delegates, and a revision
\* request has none.
ReadDecisionAny(s, a) ==
    /\ req[s] = NoReq
    /\ \A t \in Slots : req[t].direct \/ req[t].by # a
    /\ desk[a].asked \in Decisions \ Unexplained
    /\ Len(trail) < MaxTrail
    /\ desk[a].asked # "request_revision" => status = "awaiting_approval"
    /\ req' = [req EXCEPT ![s] = [by |-> a, kind |-> desk[a].asked, direct |-> FALSE,
                                  ends |-> Len(trail)]]
    /\ UNCHANGED <<server, screens>>

\* The run and its endorsements are read; ends is how much trail was there.
ReadDecision(s, a) ==
    /\ req[s] = NoReq
    /\ \A t \in Slots : req[t].direct \/ req[t].by # a
    /\ desk[a].asked \in Decisions \ Unexplained
    /\ Len(trail) < MaxTrail
    /\ status = "awaiting_approval"
    /\ req' = [req EXCEPT ![s] = [by |-> a, kind |-> desk[a].asked, direct |-> FALSE,
                                  ends |-> Len(trail)]]
    /\ UNCHANGED <<server, screens>>

\* 409: the run has left the gate; 422: a rejection without a comment.
TurnedAway(a) ==
    /\ desk[a].asked \in Decisions
    /\ \A t \in Slots : req[t].direct \/ req[t].by # a
    /\ status # "awaiting_approval" \/ desk[a].asked \in Unexplained
    /\ Over(a)
    /\ UNCHANGED <<server, texts, req>>

Others(s) == EndorsersIn(req[s].ends) \ {req[s].by}

\* Mutant of Own: an endorsement does not count against its author.
NotOwn(s) == FALSE /\ req[s].by \in EndorsersIn(req[s].ends)

Own(s) == req[s].by \in EndorsersIn(req[s].ends)

\* Mutant of Refuses: a held run is released by nobody.
RefusesHeld(s) ==
    \/ req[s].kind = "second_approval" /\ Own(s)
    \/ req[s].kind = "approve" /\ EndorsersIn(req[s].ends) # {}

\* Two people: nobody endorses twice, nor releases alone what they held.
Refuses(s) ==
    \/ req[s].kind = "second_approval" /\ Own(s)
    \/ req[s].kind = "approve" /\ Own(s) /\ Others(s) = {}

\* The trail's name for a decision.
ActOf(kind) == IF kind = "second_approval" THEN "endorse" ELSE kind

\* Mutant of After: a rejected run takes the status of its module.
AfterReview(kind) ==
    CASE kind = "approve" -> "running" [] kind = "reject" -> "rejected" [] OTHER -> status

\* Where a decision leaves the run; the delegates write it unconditionally.
After(kind) ==
    CASE kind = "approve" -> "running" [] kind = "reject" -> "failed" [] OTHER -> status

Moved(s, via) ==
    /\ status' = After(req[s].kind)
    /\ released' = IF req[s].kind \in {"approve", "reject"}
                   THEN [by |-> req[s].by, via |-> via] ELSE released
    /\ req' = [req EXCEPT ![s] = NoReq]
    /\ UNCHANGED <<content, texts>>

Working(s) == req[s].by # "nobody" /\ ~req[s].direct

\* Mutant of CommitDecision: a rejection leaves no audit row.
CommitUnrecorded(s) ==
    /\ Working(s)
    /\ ~Refuses(s)
    /\ Moved(s, "queue")
    /\ trail' = IF req[s].kind = "reject" THEN trail
                ELSE Append(trail, [act |-> ActOf(req[s].kind), by |-> req[s].by])
    /\ Over(req[s].by)

\* The audit row and the change it describes, in one transaction.
CommitDecision(s) ==
    /\ Working(s)
    /\ ~Refuses(s)
    /\ Moved(s, "queue")
    /\ trail' = Append(trail, [act |-> ActOf(req[s].kind), by |-> req[s].by])
    /\ Over(req[s].by)

RefuseDecision(s) ==
    /\ Working(s)
    /\ Refuses(s)
    /\ req' = [req EXCEPT ![s] = NoReq]
    /\ Over(req[s].by)
    /\ UNCHANGED <<server, texts>>

\* POST /loop-runs/{id}/approve and /reject: no endorsement, no audit row.
ReadDirect(s, a) ==
    /\ "direct" \in Routes
    /\ req[s] = NoReq
    /\ status = "awaiting_approval"
    /\ \E kind \in {"approve", "reject"} :
           req' = [req EXCEPT ![s] = [by |-> a, kind |-> kind, direct |-> TRUE, ends |-> 0]]
    /\ UNCHANGED <<server, screens>>

CommitDirect(s) ==
    /\ req[s].direct
    /\ Moved(s, "direct")
    /\ UNCHANGED <<trail, desk>>

-----------------------------------------------------------------------------
Init ==
    /\ status = "awaiting_approval" /\ content = 0 /\ trail = <<>>
    /\ released = [by |-> "nobody", via |-> "none"]
    /\ texts = 0
    /\ desk = [a \in Analysts |-> Opened]
    /\ req = [s \in Slots |-> NoReq]

Serve(a) == SaveModule(a) \/ TurnedAway(a) \/ \E s \in Slots : ReadDecision(s, a)

Finish(s) == CommitDecision(s) \/ RefuseDecision(s) \/ CommitDirect(s)

Next ==
    \/ \E a \in Analysts :
           \/ Open(a) \/ Refetch(a)
           \/ TypeText(a) \/ CancelEdit(a) \/ SaveEdits(a) \/ Decide(a)
           \/ Serve(a)
           \/ \E s \in Slots : ReadDirect(s, a)
    \/ \E s \in Slots : Finish(s)

Spec == Init /\ [][Next]_vars

-----------------------------------------------------------------------------
(* What the desk promises.                                                 *)

\* "A second approver has to be a different person": a run somebody held is
\* released through the queue only by a person another one endorsed it for
\* (record_decision).
TwoPeople ==
    status = "running" /\ released.via = "queue" =>
        LET ends == EndorsersIn(Len(trail))
        IN  ends # {} => ends \ {released.by} # {}

\* The run page reads the decision off the trail: what it names is what moved
\* the run, and a run still at the gate has no approval or rejection there
\* (record_decision's one transaction, gateFrom).
TrailTellsTheRun ==
    /\ status = "awaiting_approval" => GateFrom.act \in {"none", "request_revision"}
    /\ released.via = "queue" =>
           /\ GateFrom.by = released.by
           /\ GateFrom.act = IF status = "running" THEN "approve" ELSE "reject"

\* A decision whose answer was lost is sent again by hand: still nobody
\* endorses twice, and nothing is recorded once the run has left the gate.
RecordedOnce ==
    /\ \A i, j \in 1..Len(trail) :
           trail[i] = trail[j] /\ trail[i].act # "request_revision" => i = j
    /\ \A i \in 1..Len(trail) : trail[i].act \in {"approve", "reject"} => i = Len(trail)

\* The screens offer what the server accepts, with two exceptions the code has:
\* while the run is at the gate a decision is refused for its author's own
\* endorsement, or because the command center or the run page let it be sent
\* without the comment a rejection needs, and for nothing else (DecisionPanel,
\* ApprovalGatePanel and the queue rows against record_decision).
RefusedForAReason ==
    [][\A a \in Analysts :
          /\ desk[a].asked \in Decisions /\ desk'[a].asked = "nothing" /\ trail' = trail
          /\ status = "awaiting_approval"
          => \/ desk[a].asked \in Unexplained
             \/ a \in EndorsersIn(Len(trail))]_vars

\* Texts are numbered as they are typed.  "Whether an analyst has actually
\* changed anything": a desk that typed nothing does not put an older text
\* back over a colleague's (editsDiffer, saveModule).
NobodyUndoesAnEdit == [][content' >= content]_vars
=============================================================================
