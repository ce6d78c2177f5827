------------------------- MODULE ApprovalDesk_proofs -------------------------
(***************************************************************************)
(* Proofs about ApprovalDesk: its type invariant, and, where the server    *)
(* works on one decision at a time, that a run somebody held for a second  *)
(* person is not released through the queue by one person, for any number  *)
(* of analysts, texts and decisions.  With two decisions at a time TLC     *)
(* finds it false.                                                         *)
(***************************************************************************)
EXTENDS ApprovalDesk, SequenceTheorems, TLAPS

-----------------------------------------------------------------------------
(* Types.                                                                  *)

ServerType ==
    /\ status \in Statuses /\ content \in Texts
    /\ trail \in Seq(Entry)
    /\ released \in [by : Analysts \cup {"nobody"}, via : {"none", "queue", "direct"}]

ReqType == req \in [Slots -> Req \cup {NoReq}]

ScreenType == texts \in Texts /\ desk \in [Analysts -> Desk]

LEMMA TypeParts == TypeOK <=> ServerType /\ ReqType /\ ScreenType
BY DEF TypeOK, ServerType, ReqType, ScreenType

\* A request under way was made by an analyst, for a decision the server knows.
LEMMA RequestType ==
    ASSUME ReqType, NEW s \in Slots, req[s].by # "nobody"
    PROVE  /\ req[s] \in Req /\ req[s].by \in Analysts /\ req[s].ends \in Nat
           /\ req[s].kind \in Decisions \ Unexplained
BY DEF ReqType, Req, NoReq

LEMMA OverType ==
    ASSUME ScreenType, NEW a \in Analysts, Over(a)
    PROVE  desk' \in [Analysts -> Desk]
<1>1. "nothing" \in Asked /\ 0 \in Texts
  BY ApprovalDeskAssumption DEF Asked, Texts
<1>2. QED
  BY <1>1 DEF ScreenType, Over, Desk

LEMMA MovedType ==
    ASSUME ServerType, ReqType, NEW s \in Slots, req[s].by # "nobody",
           NEW via \in {"queue", "direct"}, Moved(s, via)
    PROVE  /\ status' \in Statuses
           /\ released' \in [by : Analysts \cup {"nobody"}, via : {"none", "queue", "direct"}]
           /\ ReqType'
<1>1. req[s].by \in Analysts /\ req[s].kind \in Decisions \ Unexplained
  BY RequestType
<1>2. status' \in Statuses
  BY <1>1 DEF Moved, After, ServerType, Statuses, Decisions
<1>3. released' \in [by : Analysts \cup {"nobody"}, via : {"none", "queue", "direct"}]
  BY <1>1 DEF Moved, ServerType
<1>4. ReqType'
  BY DEF Moved, ReqType
<1>5. QED
  BY <1>2, <1>3, <1>4

LEMMA TypeInit == Init => TypeOK
BY ApprovalDeskAssumption DEF Init, TypeOK, Statuses, Texts, Entry, Desk, Opened, Asked, Saves,
   Decisions

LEMMA TypeNext == TypeOK /\ [Next]_vars => TypeOK'
<1> SUFFICES ASSUME ServerType, ReqType, ScreenType, [Next]_vars
             PROVE  ServerType' /\ ReqType' /\ ScreenType'
  BY TypeParts, PTL
<1>1. ASSUME NEW a \in Analysts, Open(a) \/ Refetch(a) \/ TypeText(a) \/ CancelEdit(a)
                                 \/ SaveEdits(a) \/ Decide(a)
      PROVE  ServerType' /\ ReqType' /\ ScreenType'
  <2>1. UNCHANGED <<server, req>>
    BY <1>1 DEF Open, Refetch, TypeText, CancelEdit, SaveEdits, Decide, Press
  <2>2. ServerType' /\ ReqType'
    BY <2>1 DEF server, ServerType, ReqType
  <2>3. ScreenType'
    <3>1. CASE Open(a)
      <4>1. Opened \in Desk
        BY ApprovalDeskAssumption DEF Opened, ServerType, Desk, Asked, Texts
      <4>2. QED
        BY <3>1, <4>1 DEF Open, ScreenType
    <3>2. CASE Refetch(a)
      BY <3>2 DEF Refetch, ScreenType, ServerType, Desk
    <3>3. CASE TypeText(a)
      BY <3>3, ApprovalDeskAssumption DEF TypeText, ScreenType, Desk, Texts
    <3>4. CASE CancelEdit(a)
      BY <3>4 DEF CancelEdit, ScreenType, Desk
    <3>5. CASE SaveEdits(a)
      BY <3>5 DEF SaveEdits, ScreenType, Desk, Asked, Saves
    <3>6. CASE Decide(a)
      <4>1. PICK kind \in {"approve_with_edits"} \cup Decisions : Press(a, kind)
        BY <3>6 DEF Decide
      <4>2. kind \in Asked
        BY DEF Asked, Saves
      <4>3. (IF kind \in Saves THEN desk[a].edits ELSE 0) \in Texts
        BY ApprovalDeskAssumption DEF ScreenType, Desk, Texts
      <4>4. QED
        BY <4>1, <4>2, <4>3 DEF Press, ScreenType, Desk
    <3>7. QED
      BY <1>1, <3>1, <3>2, <3>3, <3>4, <3>5, <3>6
  <2>4. QED
    BY <2>2, <2>3
<1>2. ASSUME NEW a \in Analysts, SaveModule(a) PROVE ServerType' /\ ReqType' /\ ScreenType'
  <2>1. UNCHANGED <<status, trail, released, texts, req>> /\ content' \in Texts
    BY <1>2 DEF SaveModule, ServerType, ScreenType, Desk
  <2>2. desk' \in [Analysts -> Desk]
    <3>1. CASE Over(a)
      BY <3>1, OverType
    <3>2. CASE ~Over(a)
      BY <1>2, <3>2, ApprovalDeskAssumption DEF SaveModule, ScreenType, Desk, Asked, Decisions, Texts
    <3>3. QED
      BY <3>1, <3>2
  <2>3. QED
    BY <2>1, <2>2 DEF ServerType, ReqType, ScreenType
<1>3. ASSUME NEW a \in Analysts, TurnedAway(a) PROVE ServerType' /\ ReqType' /\ ScreenType'
  BY <1>3, OverType DEF TurnedAway, server, ServerType, ReqType, ScreenType
<1>4. ASSUME NEW a \in Analysts, NEW s \in Slots, ReadDecision(s, a)
      PROVE  ServerType' /\ ReqType' /\ ScreenType'
  <2>1. UNCHANGED <<server, screens>>
    BY <1>4 DEF ReadDecision
  <2>2. ReqType'
    BY <1>4 DEF ReadDecision, ReqType, Req, ServerType
  <2>3. QED
    BY <2>1, <2>2 DEF server, screens, ServerType, ScreenType
<1>5. ASSUME NEW a \in Analysts, NEW s \in Slots, ReadDirect(s, a)
      PROVE  ServerType' /\ ReqType' /\ ScreenType'
  <2>1. UNCHANGED <<server, screens>>
    BY <1>5 DEF ReadDirect
  <2>2. ReqType'
    BY <1>5 DEF ReadDirect, ReqType, Req, Decisions, Unexplained
  <2>3. QED
    BY <2>1, <2>2 DEF server, screens, ServerType, ScreenType
<1>6. ASSUME NEW s \in Slots, CommitDecision(s) PROVE ServerType' /\ ReqType' /\ ScreenType'
  <2>1. req[s].by # "nobody" /\ Moved(s, "queue") /\ Over(req[s].by)
    BY <1>6 DEF CommitDecision, Working
  <2>2. req[s].by \in Analysts /\ req[s].kind \in Decisions \ Unexplained
    BY <2>1, RequestType
  <2>3. [act |-> ActOf(req[s].kind), by |-> req[s].by] \in Entry
    BY <2>2 DEF ActOf, Entry, Acts, Decisions, Unexplained
  <2>4. trail' \in Seq(Entry)
    BY <1>6, <2>3 DEF CommitDecision, ServerType
  <2>5. QED
    BY <2>1, <2>2, <2>4, MovedType, OverType DEF Moved, ServerType, ScreenType
<1>7. ASSUME NEW s \in Slots, RefuseDecision(s) PROVE ServerType' /\ ReqType' /\ ScreenType'
  <2>1. req[s].by \in Analysts
    BY <1>7, RequestType DEF RefuseDecision, Working
  <2>2. QED
    BY <1>7, <2>1, OverType DEF RefuseDecision, server, ServerType, ReqType, ScreenType
<1>8. ASSUME NEW s \in Slots, CommitDirect(s) PROVE ServerType' /\ ReqType' /\ ScreenType'
  <2>1. req[s].by # "nobody"
    BY <1>8, ApprovalDeskAssumption DEF CommitDirect, ReqType, Req, NoReq
  <2>2. QED
    BY <1>8, <2>1, MovedType DEF CommitDirect, Moved, ServerType, ScreenType
<1>9. CASE UNCHANGED vars
  BY <1>9 DEF vars, server, screens, ServerType, ReqType, ScreenType
<1>10. QED
  BY <1>1, <1>2, <1>3, <1>4, <1>5, <1>6, <1>7, <1>8, <1>9 DEF Next, Serve, Finish

\* What the run, its trail, the screens and the requests under way can be.
THEOREM DeskTyping == Spec => []TypeOK
BY TypeInit, TypeNext, PTL DEF Spec

-----------------------------------------------------------------------------
(* Two people.                                                             *)

\* The server works on one decision at a time.
OneAtATime == \A s, t \in Slots : s = t

\* A decision being worked on read a run at the gate and all of its trail.
ReadIsCurrent ==
    \A s \in Slots : Working(s) => status = "awaiting_approval" /\ req[s].ends = Len(trail)

\* An entry that is no endorsement leaves the endorsers as they were.
LEMMA EndorsersStay ==
    ASSUME trail \in Seq(Entry), NEW e \in Entry, e.act # "endorse", trail' = Append(trail, e)
    PROVE  EndorsersIn(Len(trail))' = EndorsersIn(Len(trail))
<1>1. Len(trail) \in Nat /\ Len(trail') = Len(trail) + 1
  OBVIOUS
<1>2. \A i \in 1..Len(trail) : trail'[i] = trail[i]
  OBVIOUS
<1>3. trail'[Len(trail) + 1] = e
  OBVIOUS
<1>4. QED
  BY <1>1, <1>2, <1>3 DEF EndorsersIn

\* Who may release a run, given who endorsed it.
LEMMA ReleasedByTwo ==
    ASSUME NEW ends, NEW by, ~(by \in ends /\ ends \ {by} = {}), ends # {}
    PROVE  ends \ {by} # {}
OBVIOUS

LEMMA TwoInit == Init => TwoPeople /\ ReadIsCurrent
BY DEF Init, TwoPeople, ReadIsCurrent, Working, NoReq

LEMMA TwoNext ==
    OneAtATime /\ TypeOK /\ TwoPeople /\ ReadIsCurrent /\ [Next]_vars => TwoPeople' /\ ReadIsCurrent'
<1> SUFFICES ASSUME OneAtATime, TypeOK, TwoPeople, ReadIsCurrent, [Next]_vars
             PROVE  TwoPeople' /\ ReadIsCurrent'
  OBVIOUS
<1>1. CASE UNCHANGED <<status, trail, released, req>>
  BY <1>1 DEF TwoPeople, ReadIsCurrent, Working, EndorsersIn
<1>2. ASSUME NEW a \in Analysts, NEW s \in Slots, ReadDecision(s, a)
      PROVE  TwoPeople' /\ ReadIsCurrent'
  <2>1. UNCHANGED <<status, trail, released>> /\ status = "awaiting_approval"
    BY <1>2 DEF ReadDecision, server
  <2>2. TwoPeople'
    BY <2>1 DEF TwoPeople
  <2>3. req'[s].ends = Len(trail)
    BY <1>2 DEF ReadDecision, TypeOK
  <2>4. QED
    BY <2>1, <2>2, <2>3 DEF ReadIsCurrent, OneAtATime
<1>3. ASSUME NEW a \in Analysts, NEW s \in Slots, ReadDirect(s, a)
      PROVE  TwoPeople' /\ ReadIsCurrent'
  <2>1. UNCHANGED <<status, trail, released>>
    BY <1>3 DEF ReadDirect, server
  <2>2. TwoPeople'
    BY <2>1 DEF TwoPeople, EndorsersIn
  <2>3. req'[s].direct
    BY <1>3 DEF ReadDirect, TypeOK
  <2>4. QED
    BY <2>2, <2>3 DEF ReadIsCurrent, Working, OneAtATime
<1>4. ASSUME NEW s \in Slots, CommitDecision(s) PROVE TwoPeople' /\ ReadIsCurrent'
  <2>1. Working(s) /\ ~Refuses(s) /\ Moved(s, "queue")
        /\ trail' = Append(trail, [act |-> ActOf(req[s].kind), by |-> req[s].by])
    BY <1>4 DEF CommitDecision
  <2>2. req'[s] = NoReq
    BY <2>1 DEF Moved, TypeOK
  <2>3. ReadIsCurrent'
    BY <2>2 DEF ReadIsCurrent, Working, NoReq, OneAtATime
  <2>4. status = "awaiting_approval" /\ req[s].ends = Len(trail)
    BY <2>1 DEF ReadIsCurrent
  <2>5. CASE req[s].kind = "approve"
    <3>1. req[s].by \in Analysts
      BY <2>1, RequestType, TypeParts DEF Working
    <3>2. [act |-> ActOf(req[s].kind), by |-> req[s].by] \in Entry
          /\ ActOf(req[s].kind) = "approve"
      BY <2>5, <3>1 DEF ActOf, Entry, Acts
    <3>3. EndorsersIn(Len(trail))' = EndorsersIn(Len(trail))
      BY <2>1, <3>2, EndorsersStay DEF TypeOK
    <3>4. released'.by = req[s].by
      BY <2>1, <2>5 DEF Moved
    <3>5. ~(req[s].by \in EndorsersIn(Len(trail)) /\ EndorsersIn(Len(trail)) \ {req[s].by} = {})
      BY <2>1, <2>4, <2>5 DEF Refuses, Own, Others
    <3>6. TwoPeople'
      BY <3>3, <3>4, <3>5, ReleasedByTwo DEF TwoPeople
    <3>7. QED
      BY <2>3, <3>6
  <2>6. CASE req[s].kind # "approve"
    <3>1. status' # "running"
      BY <2>1, <2>4, <2>6 DEF Moved, After
    <3>2. QED
      BY <2>3, <3>1 DEF TwoPeople
  <2>7. QED
    BY <2>5, <2>6
<1>5. ASSUME NEW s \in Slots, RefuseDecision(s) PROVE TwoPeople' /\ ReadIsCurrent'
  <2>1. UNCHANGED <<status, trail, released>> /\ req'[s] = NoReq
    BY <1>5 DEF RefuseDecision, server, TypeOK
  <2>2. TwoPeople'
    BY <2>1 DEF TwoPeople, EndorsersIn
  <2>3. QED
    BY <2>1, <2>2 DEF ReadIsCurrent, Working, NoReq, OneAtATime
<1>6. ASSUME NEW s \in Slots, CommitDirect(s) PROVE TwoPeople' /\ ReadIsCurrent'
  <2>1. req'[s] = NoReq /\ Moved(s, "direct") /\ UNCHANGED trail
    BY <1>6 DEF CommitDirect, Moved, TypeOK
  <2>2. released'.via = "direct" \/ UNCHANGED <<status, released>>
    BY <2>1 DEF Moved, After
  <2>3. TwoPeople'
    BY <2>1, <2>2 DEF TwoPeople, EndorsersIn
  <2>4. QED
    BY <2>1, <2>3 DEF ReadIsCurrent, Working, NoReq, OneAtATime
<1>7. ASSUME NEW a \in Analysts,
             \/ Open(a) \/ Refetch(a) \/ TypeText(a) \/ CancelEdit(a) \/ SaveEdits(a) \/ Decide(a)
             \/ SaveModule(a) \/ TurnedAway(a)
      PROVE  UNCHANGED <<status, trail, released, req>>
  BY <1>7 DEF Open, Refetch, TypeText, CancelEdit, SaveEdits, Decide, Press, SaveModule,
     TurnedAway, server
<1>8. CASE UNCHANGED vars
  BY <1>1, <1>8 DEF vars, server
<1>9. QED
  BY <1>1, <1>2, <1>3, <1>4, <1>5, <1>6, <1>7, <1>8 DEF Next, Serve, Finish

\* A run somebody held for a second person is released through the queue only
\* by a person another one endorsed it for, while decisions are worked on one
\* at a time.
THEOREM TwoPeopleRelease == OneAtATime => (Spec => []TwoPeople)
<1> SUFFICES ASSUME OneAtATime PROVE Spec => []TwoPeople
  OBVIOUS
<1>1. TypeOK /\ TwoPeople /\ ReadIsCurrent /\ [Next]_vars => TwoPeople' /\ ReadIsCurrent'
  BY TwoNext
<1>2. QED
  BY <1>1, TwoInit, DeskTyping, PTL DEF Spec

-----------------------------------------------------------------------------
(* The record.                                                             *)

\* A run at the gate has no approval or rejection on its trail.
Undecided ==
    status = "awaiting_approval" =>
        \A i \in 1..Len(trail) : trail[i].act \notin {"approve", "reject"}

LEMMA RecordInit == Init => RecordedOnce /\ Undecided /\ ReadIsCurrent
BY DEF Init, RecordedOnce, Undecided, ReadIsCurrent, Working, NoReq

\* One more entry: it repeats nothing, and comes last if it decides.
LEMMA RecordOneMore ==
    ASSUME OneAtATime, TypeOK, RecordedOnce, Undecided, ReadIsCurrent,
           NEW s \in Slots, CommitDecision(s)
    PROVE  RecordedOnce' /\ Undecided'
<1> DEFINE e == [act |-> ActOf(req[s].kind), by |-> req[s].by]
<1> DEFINE n == Len(trail)
<1>1. Working(s) /\ ~Refuses(s) /\ Moved(s, "queue") /\ trail' = Append(trail, e)
  BY DEF CommitDecision
<1>2. status = "awaiting_approval" /\ req[s].ends = n
  BY <1>1 DEF ReadIsCurrent
<1>3. req[s].by \in Analysts /\ req[s].kind \in Decisions \ Unexplained
  BY <1>1, RequestType, TypeParts DEF Working
<1>4. e \in Entry /\ trail \in Seq(Entry)
  BY <1>3 DEF TypeOK, ActOf, Entry, Acts, Decisions, Unexplained
<1>5. /\ n \in Nat /\ Len(trail') = n + 1 /\ trail'[n + 1] = e
      /\ \A i \in 1..n : trail'[i] = trail[i]
  BY <1>1, <1>4
<1>6. \A i \in 1..n : trail[i].act \notin {"approve", "reject"}
  BY <1>2 DEF Undecided
<1>7. e.act = "endorse" => \A i \in 1..n : trail[i] # e
  <2>1. SUFFICES ASSUME e.act = "endorse", NEW i \in 1..n, trail[i] = e PROVE FALSE
    OBVIOUS
  <2>2. req[s].kind = "second_approval"
    BY <1>3, <2>1 DEF ActOf, Decisions
  <2>3. trail[i].act = "endorse" /\ trail[i].by = req[s].by
    BY <2>1
  <2>4. req[s].by \in EndorsersIn(n)
    BY <1>5, <2>3 DEF EndorsersIn
  <2>5. QED
    BY <1>1, <1>2, <2>2, <2>4 DEF Refuses, Own
<1>8. e.act \in {"endorse", "approve", "reject", "request_revision"}
  BY <1>4 DEF Entry, Acts
<1>9. \A i \in 1..n : trail[i] = e => e.act = "request_revision"
  BY <1>6, <1>7, <1>8
<1>10. \A i, j \in 1..n : trail[i] = trail[j] /\ trail[i].act # "request_revision" => i = j
  BY DEF RecordedOnce
<1> HIDE DEF e, n
<1>11. \A i, j \in 1..(n + 1) :
           trail'[i] = trail'[j] /\ trail'[i].act # "request_revision" => i = j
  <2>1. SUFFICES ASSUME NEW i \in 1..(n + 1), NEW j \in 1..(n + 1),
                        trail'[i] = trail'[j], trail'[i].act # "request_revision"
                 PROVE  i = j
    OBVIOUS
  <2>2. (i \in 1..n \/ i = n + 1) /\ (j \in 1..n \/ j = n + 1)
    BY <1>5
  <2>3. CASE i \in 1..n /\ j \in 1..n
    BY <1>5, <1>10, <2>1, <2>3
  <2>4. CASE i \in 1..n /\ j = n + 1
    BY <1>5, <1>9, <2>1, <2>4
  <2>5. CASE i = n + 1 /\ j \in 1..n
    BY <1>5, <1>9, <2>1, <2>5
  <2>6. QED
    BY <2>2, <2>3, <2>4, <2>5
<1>12. \A i \in 1..(n + 1) : trail'[i].act \in {"approve", "reject"} => i = n + 1
  BY <1>5, <1>6
<1>13. RecordedOnce'
  BY <1>5, <1>11, <1>12 DEF RecordedOnce
<1>14. Undecided'
  <2>1. SUFFICES ASSUME status' = "awaiting_approval" PROVE e.act \notin {"approve", "reject"}
    BY <1>5, <1>6 DEF Undecided
  <2>2. req[s].kind \notin {"approve", "reject"}
    BY <1>1, <2>1 DEF Moved, After
  <2>3. QED
    BY <2>2 DEF e, ActOf
<1>15. QED
  BY <1>13, <1>14

LEMMA RecordNext ==
    ASSUME OneAtATime, TypeOK, RecordedOnce, Undecided, ReadIsCurrent, [Next]_vars
    PROVE  RecordedOnce' /\ Undecided'
<1>1. CASE UNCHANGED <<status, trail>>
  BY <1>1 DEF RecordedOnce, Undecided
<1>2. ASSUME NEW s \in Slots, CommitDecision(s) PROVE RecordedOnce' /\ Undecided'
  BY <1>2, RecordOneMore
<1>3. ASSUME NEW s \in Slots, CommitDirect(s) PROVE RecordedOnce' /\ Undecided'
  <2>1. UNCHANGED trail /\ (status' = status \/ status' # "awaiting_approval")
    BY <1>3 DEF CommitDirect, Moved, After
  <2>2. QED
    BY <2>1 DEF RecordedOnce, Undecided
<1>4. ASSUME NEW a \in Analysts,
             \/ Open(a) \/ Refetch(a) \/ TypeText(a) \/ CancelEdit(a) \/ SaveEdits(a) \/ Decide(a)
             \/ SaveModule(a) \/ TurnedAway(a)
             \/ \E s \in Slots : ReadDecision(s, a) \/ ReadDirect(s, a)
      PROVE  UNCHANGED <<status, trail>>
  BY <1>4 DEF Open, Refetch, TypeText, CancelEdit, SaveEdits, Decide, Press, SaveModule,
     TurnedAway, ReadDecision, ReadDirect, server
<1>5. ASSUME NEW s \in Slots, RefuseDecision(s) PROVE UNCHANGED <<status, trail>>
  BY <1>5 DEF RefuseDecision, server
<1>6. CASE UNCHANGED vars
  BY <1>1, <1>6 DEF vars, server
<1>7. QED
  BY <1>1, <1>2, <1>3, <1>4, <1>5, <1>6 DEF Next, Serve, Finish

\* However often a decision is sent again, nobody is recorded as endorsing
\* twice, and nothing is recorded after an approval or a rejection, while
\* decisions are worked on one at a time.
THEOREM RecordedOnlyOnce == OneAtATime => (Spec => []RecordedOnce)
<1> SUFFICES ASSUME OneAtATime PROVE Spec => []RecordedOnce
  OBVIOUS
<1>1. TypeOK /\ RecordedOnce /\ Undecided /\ ReadIsCurrent /\ [Next]_vars
        => RecordedOnce' /\ Undecided'
  BY RecordNext
<1>2. TypeOK /\ TwoPeople /\ ReadIsCurrent /\ [Next]_vars => TwoPeople' /\ ReadIsCurrent'
  BY TwoNext
<1>3. QED
  BY <1>1, <1>2, RecordInit, TwoInit, DeskTyping, PTL DEF Spec

-----------------------------------------------------------------------------
(* The trail tells the run.                                                *)

\* Where on the trail somebody decided.
Named == {i \in 1..Len(trail) : trail[i].act \in Standing}

\* The newest of them.  That there is one is an induction over the trail: it
\* is carried by the steps that extend it.
NewestStands == Named = {} \/ \E i \in Named : \A j \in Named : j <= i

\* What moved the run off the gate is the last entry of the trail, and its
\* author the last to decide.
LastMoved ==
    /\ status = "awaiting_approval" => released.via = "none"
    /\ released.via = "queue" =>
           /\ status \in {"running", "failed"}
           /\ Len(trail) > 0
           /\ trail[Len(trail)] = [act |-> IF status = "running" THEN "approve" ELSE "reject",
                                   by |-> released.by]

\* The page names the newest decision.
LEMMA GateFromNewest ==
    ASSUME NEW i \in Named, \A j \in Named : j <= i
    PROVE  GateFrom = trail[i]
<1> DEFINE k == CHOOSE x \in Named : \A j \in Named : j <= x
<1>1. k \in Named /\ \A j \in Named : j <= k
  OBVIOUS
<1>2. k <= i /\ i <= k /\ k \in Int /\ i \in Int
  BY <1>1 DEF Named
<1>3. k = i
  BY <1>2
<1>4. QED
  BY <1>3 DEF GateFrom, Named

LEMMA TellsTheRun ==
    ASSUME TypeOK, NewestStands, LastMoved, Undecided
    PROVE  TrailTellsTheRun
<1>1. ASSUME status = "awaiting_approval"
      PROVE  GateFrom.act \in {"none", "request_revision"}
  <2>1. CASE Named = {}
    BY <2>1 DEF GateFrom, Named
  <2>2. CASE Named # {}
    <3>1. PICK i \in Named : \A j \in Named : j <= i
      BY <2>2 DEF NewestStands
    <3>2. GateFrom = trail[i]
      BY <3>1, GateFromNewest
    <3>3. trail[i].act = "request_revision"
      BY <1>1, <3>1 DEF Undecided, Named, Standing
    <3>4. QED
      BY <3>2, <3>3
  <2>3. QED
    BY <2>1, <2>2
<1>2. ASSUME released.via = "queue"
      PROVE  /\ GateFrom.by = released.by
             /\ GateFrom.act = IF status = "running" THEN "approve" ELSE "reject"
  <2> DEFINE n == Len(trail)
  <2>1. /\ n \in Nat /\ n > 0
        /\ trail[n].act = (IF status = "running" THEN "approve" ELSE "reject")
        /\ trail[n].by = released.by
    BY <1>2 DEF LastMoved, TypeOK
  <2>2. n \in Named /\ \A j \in Named : j <= n
    BY <2>1 DEF Named, Standing
  <2>3. GateFrom = trail[n]
    BY <2>2, GateFromNewest
  <2>4. QED
    BY <2>1, <2>3
<1>3. QED
  BY <1>1, <1>2 DEF TrailTellsTheRun

LEMMA TellsInit == Init => NewestStands /\ LastMoved
<1> SUFFICES ASSUME Init PROVE NewestStands /\ LastMoved
  OBVIOUS
<1>1. Len(trail) = 0
  BY DEF Init
<1>2. Named = {}
  BY <1>1 DEF Named
<1>3. QED
  BY <1>2 DEF Init, NewestStands, LastMoved

\* One more entry, by the decision being worked on.
LEMMA TellsOneMore ==
    ASSUME TypeOK, NewestStands, LastMoved, ReadIsCurrent, NEW s \in Slots, CommitDecision(s)
    PROVE  NewestStands' /\ LastMoved'
<1> DEFINE e == [act |-> ActOf(req[s].kind), by |-> req[s].by]
<1> DEFINE n == Len(trail)
<1>1. Working(s) /\ Moved(s, "queue") /\ trail' = Append(trail, e)
      /\ status = "awaiting_approval"
  BY DEF CommitDecision, ReadIsCurrent
<1>2. req[s].by \in Analysts /\ req[s].kind \in Decisions \ Unexplained
  BY <1>1, RequestType, TypeParts DEF Working
<1>3. e \in Entry /\ trail \in Seq(Entry)
  BY <1>2 DEF TypeOK, ActOf, Entry, Acts, Decisions, Unexplained
<1>4. /\ n \in Nat /\ Len(trail') = n + 1 /\ trail'[n + 1] = e
      /\ \A i \in 1..n : trail'[i] = trail[i]
  BY <1>1, <1>3
<1>5. NewestStands'
  <2>1. \A i : i \in Named' <=> i \in Named \/ (i = n + 1 /\ e.act \in Standing)
    <3> HIDE DEF e
    <3> QED
      BY <1>4 DEF Named
  <2>2. \A i \in Named : i \in Int /\ i <= n
    BY <1>4 DEF Named
  <2>3. CASE e.act \in Standing
    <3>1. n + 1 \in Named' /\ \A j \in Named' : j <= n + 1
      BY <1>4, <2>1, <2>2, <2>3
    <3>2. QED
      BY <3>1 DEF NewestStands
  <2>4. CASE e.act \notin Standing
    <3>1. Named' = Named
      BY <2>1, <2>4
    <3>2. QED
      BY <3>1 DEF NewestStands
  <2>5. QED
    BY <2>3, <2>4
<1>6. LastMoved'
  <2>1. CASE req[s].kind \in {"approve", "reject"}
    <3>1. /\ released' = [by |-> req[s].by, via |-> "queue"]
          /\ status' = IF req[s].kind = "approve" THEN "running" ELSE "failed"
      BY <1>1, <2>1 DEF Moved, After
    <3>2. e = [act |-> IF status' = "running" THEN "approve" ELSE "reject", by |-> released'.by]
      BY <2>1, <3>1 DEF ActOf
    <3> HIDE DEF e
    <3>3. trail'[Len(trail')] = e /\ Len(trail') > 0
      BY <1>4
    <3>4. QED
      BY <3>1, <3>2, <3>3 DEF LastMoved
  <2>2. CASE req[s].kind \notin {"approve", "reject"}
    <3>1. released' = released /\ status' = status
      BY <1>1, <2>2 DEF Moved, After
    <3>2. QED
      BY <1>1, <3>1 DEF LastMoved
  <2>3. QED
    BY <2>1, <2>2
<1>7. QED
  BY <1>5, <1>6

LEMMA TellsNext ==
    ASSUME TypeOK, NewestStands, LastMoved, ReadIsCurrent, [Next]_vars
    PROVE  NewestStands' /\ LastMoved'
<1>1. CASE UNCHANGED <<status, trail, released>>
  BY <1>1 DEF NewestStands, Named, LastMoved
<1>2. ASSUME NEW s \in Slots, CommitDecision(s) PROVE NewestStands' /\ LastMoved'
  BY <1>2, TellsOneMore
<1>3. ASSUME NEW s \in Slots, CommitDirect(s) PROVE NewestStands' /\ LastMoved'
  <2>1. UNCHANGED trail /\ Moved(s, "direct")
    BY <1>3 DEF CommitDirect
  <2>2. CASE req[s].kind \in {"approve", "reject"}
    <3>1. released'.via = "direct" /\ status' # "awaiting_approval"
      BY <2>1, <2>2 DEF Moved, After
    <3>2. QED
      BY <2>1, <3>1 DEF NewestStands, Named, LastMoved
  <2>3. CASE req[s].kind \notin {"approve", "reject"}
    BY <1>1, <2>1, <2>3 DEF Moved, After
  <2>4. QED
    BY <2>2, <2>3
<1>4. ASSUME NEW a \in Analysts,
             \/ Open(a) \/ Refetch(a) \/ TypeText(a) \/ CancelEdit(a) \/ SaveEdits(a) \/ Decide(a)
             \/ SaveModule(a) \/ TurnedAway(a)
             \/ \E s \in Slots : ReadDecision(s, a) \/ ReadDirect(s, a)
      PROVE  UNCHANGED <<status, trail, released>>
  BY <1>4 DEF Open, Refetch, TypeText, CancelEdit, SaveEdits, Decide, Press, SaveModule,
     TurnedAway, ReadDecision, ReadDirect, server
<1>5. ASSUME NEW s \in Slots, RefuseDecision(s) PROVE UNCHANGED <<status, trail, released>>
  BY <1>5 DEF RefuseDecision, server
<1>6. CASE UNCHANGED vars
  BY <1>1, <1>6 DEF vars, server
<1>7. QED
  BY <1>1, <1>2, <1>3, <1>4, <1>5, <1>6 DEF Next, Serve, Finish

\* What the run page names is what moved the run, and a run at the gate has no
\* approval or rejection on its trail, while decisions are worked on one at a
\* time; the older routes may move it too, and leave no entry.
THEOREM TrailIsTheRecord == OneAtATime => (Spec => []TrailTellsTheRun)
<1> SUFFICES ASSUME OneAtATime PROVE Spec => []TrailTellsTheRun
  OBVIOUS
<1>1. TypeOK /\ NewestStands /\ LastMoved /\ ReadIsCurrent /\ [Next]_vars
        => NewestStands' /\ LastMoved'
  BY TellsNext
<1>2. TypeOK /\ RecordedOnce /\ Undecided /\ ReadIsCurrent /\ [Next]_vars
        => RecordedOnce' /\ Undecided'
  BY RecordNext
<1>3. TypeOK /\ TwoPeople /\ ReadIsCurrent /\ [Next]_vars => TwoPeople' /\ ReadIsCurrent'
  BY TwoNext
<1>4. TypeOK /\ NewestStands /\ LastMoved /\ Undecided => TrailTellsTheRun
  BY TellsTheRun
<1>5. QED
  BY <1>1, <1>2, <1>3, <1>4, TellsInit, RecordInit, TwoInit, DeskTyping, PTL DEF Spec

-----------------------------------------------------------------------------
(* Refusals.                                                               *)

\* Who had endorsed when a request was read has endorsed.
LEMMA EndorsersGrow ==
    ASSUME trail \in Seq(Entry), NEW n \in Nat
    PROVE  EndorsersIn(n) \subseteq EndorsersIn(Len(trail))
<1>1. Len(trail) \in Nat
  OBVIOUS
<1>2. \A j \in 1..n : j <= Len(trail) => j \in 1..Len(trail)
  BY <1>1
<1>3. QED
  BY <1>1, <1>2 DEF EndorsersIn

\* While the run is at the gate a decision a screen offers is refused only for
\* its author's own endorsement, or because the run page or the command center
\* sent a rejection without a comment, however many decisions are worked on at
\* a time and whichever routes are used.
THEOREM RefusedWithReason == Spec => RefusedForAReason
<1> DEFINE Reason ==
      \A a \in Analysts :
          /\ desk[a].asked \in Decisions /\ desk'[a].asked = "nothing" /\ trail' = trail
          /\ status = "awaiting_approval"
          => desk[a].asked \in Unexplained \/ a \in EndorsersIn(Len(trail))
<1>1. ASSUME TypeOK, Next PROVE Reason
  <2> SUFFICES ASSUME NEW a \in Analysts, desk[a].asked \in Decisions,
                      desk'[a].asked = "nothing", trail' = trail, status = "awaiting_approval"
               PROVE  desk[a].asked \in Unexplained \/ a \in EndorsersIn(Len(trail))
    OBVIOUS
  <2>0. desk \in [Analysts -> Desk] /\ trail \in Seq(Entry)
    BY <1>1 DEF TypeOK
  <2>n. desk[a].asked \notin {"nothing"} \cup Saves
    BY DEF Decisions, Saves
  <2>1. ASSUME NEW b \in Analysts,
               Open(b) \/ Refetch(b) \/ TypeText(b) \/ CancelEdit(b) \/ SaveEdits(b) \/ Decide(b)
        PROVE  FALSE
    <3>1. CASE b # a
      <4>1. desk'[a] = desk[a]
        BY <2>0, <2>1, <3>1 DEF Open, Refetch, TypeText, CancelEdit, SaveEdits, Decide, Press
      <4>2. QED
        BY <2>n, <4>1
    <3>2. CASE b = a
      <4>1. Refetch(a) \/ TypeText(a)
        BY <2>1, <2>n, <3>2 DEF Open, CancelEdit, SaveEdits, Decide, Press, Offered, Busy
      <4>2. desk'[a].asked = desk[a].asked
        BY <2>0, <4>1 DEF Refetch, TypeText, Desk
      <4>3. QED
        BY <2>n, <4>2
    <3>3. QED
      BY <3>1, <3>2
  <2>2. ASSUME NEW b \in Analysts, SaveModule(b) PROVE FALSE
    <3>1. b # a
      BY <2>2, <2>n DEF SaveModule
    <3>2. desk'[a] = desk[a]
      BY <2>0, <2>2, <3>1 DEF SaveModule, Over
    <3>3. QED
      BY <2>n, <3>2
  <2>3. ASSUME NEW b \in Analysts, TurnedAway(b) PROVE desk[a].asked \in Unexplained
    <3>1. b = a
      BY <2>0, <2>3, <2>n DEF TurnedAway, Over
    <3>2. QED
      BY <2>3, <3>1 DEF TurnedAway
  <2>4. ASSUME NEW s \in Slots, RefuseDecision(s) PROVE a \in EndorsersIn(Len(trail))
    <3>1. req[s].by = a
      BY <2>0, <2>4, <2>n DEF RefuseDecision, Over
    <3>2. req[s].ends \in Nat
      BY <1>1, <2>4, RequestType, TypeParts DEF RefuseDecision, Working
    <3>3. a \in EndorsersIn(req[s].ends)
      BY <2>4, <3>1 DEF RefuseDecision, Refuses, Own
    <3>4. QED
      BY <2>0, <3>2, <3>3, EndorsersGrow
  <2>5. ASSUME NEW s \in Slots, CommitDecision(s) PROVE FALSE
    <3>1. Len(trail') = Len(trail) + 1 /\ Len(trail) \in Nat
      BY <2>0, <2>5 DEF CommitDecision
    <3>2. QED
      BY <3>1
  <2>6. ASSUME UNCHANGED desk PROVE FALSE
    BY <2>6, <2>n
  <2>7. ASSUME NEW s \in Slots, NEW b \in Analysts,
               ReadDecision(s, b) \/ ReadDirect(s, b) \/ CommitDirect(s)
        PROVE  FALSE
    BY <2>6, <2>7 DEF ReadDecision, ReadDirect, CommitDirect, screens
  <2>8. QED
    BY <1>1, <2>1, <2>2, <2>3, <2>4, <2>5, <2>7 DEF Next, Serve, Finish
<1>2. TypeOK /\ [Next]_vars =>
        [\A a \in Analysts :
            /\ desk[a].asked \in Decisions /\ desk'[a].asked = "nothing" /\ trail' = trail
            /\ status = "awaiting_approval"
            => \/ desk[a].asked \in Unexplained
               \/ a \in EndorsersIn(Len(trail))]_vars
  BY <1>1
<1>3. QED
  BY <1>2, DeskTyping, PTL DEF Spec, RefusedForAReason

=============================================================================
