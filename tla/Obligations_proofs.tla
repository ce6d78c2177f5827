------------------------- MODULE Obligations_proofs -------------------------
(***************************************************************************)
(* Proofs about Obligations: its types, and what a closed origin may count *)
(* on, for any number of employees, modules and reopenings.                *)
(*                                                                         *)
(* Typing needs OwedOnce: nobody can owe a module three times because the  *)
(* second time went through a subject row that held no training, and holds *)
(* it from then on.  That in turn needs that only attached people hold     *)
(* training.                                                               *)
(***************************************************************************)
EXTENDS Obligations, TLAPS

\* Who is not attached holds no training.
NoRowNoLink == \A p \in People : subject[p].standing = "none" => subject[p].link = 0

OriginType ==
    /\ kind \in {"risk", "finding"}
    /\ status \in IF kind = "risk" THEN RiskStatuses ELSE FindingStatuses
    /\ stamped \in BOOLEAN /\ reopened \in 0..MaxReopened

Row     == [standing : Standings, link : 0..MaxModules]
ModType == [status : {"absent", "pending_review", "approved", "rejected"},
            named : SUBSET People]

SubjectType == subject \in [People -> Row]
ModuleType  == module \in [Modules -> ModType]
OwesType    == owes \in [Modules -> [People -> 0..2]]
ScreenType  == shown \in AnyStatus /\ dialog \in Dialog
CallType    == call \in SUBSET People

LEMMA TypeParts ==
    TypeOK <=> /\ OriginType /\ SubjectType /\ ModuleType /\ OwesType
               /\ CallType /\ ScreenType
BY DEF TypeOK, OriginType, SubjectType, ModuleType, OwesType, CallType, ScreenType,
       Row, ModType

-----------------------------------------------------------------------------
(* What each step leaves alone.                                            *)

\* A step is a request that is served, or the page's own; what a dialog sends
\* is served like anybody's.
LEMMA ServedOrShown ==
    ASSUME OriginType, ScreenType, [Next]_vars
    PROVE  Served \/ UNCHANGED Unserved
<1>1. CASE UNCHANGED vars
  BY <1>1 DEF vars, Unserved, origin, pipes
<1>2. CASE OpenStatus \/ OpenOther \/ PickMove \/ WriteReason \/ CloseDialog \/ Refetch
  BY <1>2 DEF OpenStatus, OpenOther, PickMove, WriteReason, CloseDialog, Refetch
<1>3. CASE Submit
  <2>1. ASSUME MoveFinding(dialog.move, dialog.from # "nowhere") PROVE Served
    <3>1. dialog.move \in FindingStatuses
      BY <2>1 DEF MoveFinding, MoveAccepted, FindingMoves, FindingStatuses, OriginType
    <3>2. (dialog.from # "nowhere") \in BOOLEAN
      OBVIOUS
    <3>3. QED
      BY <2>1, <3>1, <3>2, Zenon DEF Served
  <2>2. ASSUME CloseRisk(dialog.from # "nowhere") \/ ReopenRisk(dialog.from # "nowhere")
        PROVE  Served
    <3>1. (dialog.from # "nowhere") \in BOOLEAN
      OBVIOUS
    <3>2. QED
      BY <2>2, <3>1, Zenon DEF Served
  <2>3. ASSUME \/ \E p \in People : dialog.on = {p} /\ ReviewSubject(p)
               \/ \E ps \in SUBSET People : AddSubjects(ps)
               \/ \E ps \in SUBSET People, m \in Modules :
                     AssignRisk(m, ps) \/ AssignFinding(m, ps)
        PROVE  Served
    BY <2>3 DEF Served
  <2>4. dialog.which \in Whiches \ {"none"}
    BY <1>3 DEF Submit, Ready, ScreenType, Dialog
  <2>5. QED
    <3>2. CASE dialog.which = "status"
      BY <1>3, <2>1, <3>2 DEF Submit
    <3>3. CASE dialog.which \in {"close", "reopen"}
      BY <1>3, <2>2, <3>3 DEF Submit
    <3>4. CASE dialog.which \in {"review", "attach", "assign"}
      BY <1>3, <2>3, <3>4 DEF Submit
    <3>5. QED
      BY <2>4, <3>2, <3>3, <3>4 DEF Whiches
<1>4. QED
  BY <1>1, <1>2, <1>3 DEF Next

\* The steps that move the origin, and how.
LEMMA OriginMoves ==
    ASSUME OriginType, ScreenType, [Next]_vars
    PROVE  /\ kind' = kind
           /\ \/ UNCHANGED <<status, stamped, reopened>>
              \/ /\ kind = "risk" /\ status' \in RiskMoves[status]
                 /\ UNCHANGED <<stamped, reopened>>
              \/ \E r \in BOOLEAN : CloseRisk(r)
              \/ \E r \in BOOLEAN : ReopenRisk(r)
              \/ \E to \in FindingStatuses, r \in BOOLEAN : MoveFinding(to, r)
              \/ /\ Live /\ status' \in {status, AfterAssigning}
                 /\ UNCHANGED <<stamped, reopened>>
<1>1. CASE UNCHANGED Unserved
  BY <1>1 DEF Unserved, origin
<1>2. CASE PatchRisk
  BY <1>2 DEF PatchRisk
<1>3. ASSUME NEW r \in BOOLEAN, CloseRisk(r) \/ ReopenRisk(r)
             \/ \E to \in FindingStatuses : MoveFinding(to, r)
      PROVE  kind' = kind
  BY <1>3 DEF CloseRisk, ReopenRisk, MoveFinding
<1>6. ASSUME NEW ps \in SUBSET People, AddSubjects(ps)
      PROVE  UNCHANGED origin
  BY <1>6 DEF AddSubjects
<1>7. ASSUME NEW ps \in SUBSET People, NEW m \in Modules,
             AssignRisk(m, ps) \/ AssignFinding(m, ps)
      PROVE  /\ Live /\ status' \in {status, AfterAssigning}
             /\ UNCHANGED <<kind, stamped, reopened>>
  BY <1>7 DEF AssignRisk, AssignFinding, AssignFree, TrainingAccepted
<1>8. CASE AutoTrainAsks \/ AutoTrainLost
  BY <1>8 DEF AutoTrainAsks, AutoTrainLost, origin
<1>9. ASSUME NEW m \in Modules, AutoTrainMatched(m) \/ ApproveModule(m)
      PROVE  /\ \/ UNCHANGED status
                \/ Live /\ status' \in {status, AfterAssigning}
             /\ UNCHANGED <<kind, stamped, reopened>>
  BY <1>9 DEF AutoTrainMatched, ApproveModule, AssignFree, TrainingAccepted
<1>10. ASSUME NEW m \in Modules, AutoTrainAnswered(m) \/ RejectModule(m)
       PROVE  UNCHANGED origin
  BY <1>10 DEF AutoTrainAnswered, RejectModule
<1>11. ASSUME NEW p \in People,
              ReviewSubject(p) \/ \E m \in Modules : Discharge(m, p)
       PROVE  UNCHANGED origin
  BY <1>11 DEF Discharge, ReviewSubject
<1>12. CASE Served
  <2>1. CASE \E r \in BOOLEAN : CloseRisk(r) \/ ReopenRisk(r)
                               \/ \E to \in FindingStatuses : MoveFinding(to, r)
    BY <1>3, <2>1
  <2>2. CASE ~\E r \in BOOLEAN : CloseRisk(r) \/ ReopenRisk(r)
                                \/ \E to \in FindingStatuses : MoveFinding(to, r)
    BY <1>2, <1>6, <1>7, <1>8, <1>9, <1>10, <1>11, <1>12, <2>2 DEF Served, Pipeline, origin
  <2>3. QED
    BY <2>1, <2>2
<1>13. QED
  BY <1>1, <1>12, ServedOrShown

\* Training neither closes an origin nor reopens one.
LEMMA AssigningKeepsLive ==
    ASSUME OriginType, Live
    PROVE  /\ AfterAssigning \notin Terminal
           /\ AfterAssigning \in IF kind = "risk" THEN RiskStatuses ELSE FindingStatuses
BY DEF OriginType, Live, AfterAssigning, Terminal, RiskStatuses, FindingStatuses

LEMMA RiskMovesStayOpen ==
    ASSUME OriginType, kind = "risk"
    PROVE  RiskMoves[status] \subseteq RiskStatuses \ {"closed"}
BY DEF OriginType, RiskMoves, RiskStatuses

LEMMA OriginStep == ASSUME OriginType, ScreenType, [Next]_vars PROVE OriginType'
<1> USE ObligationsAssumption
<1>1. kind' = kind
  BY OriginMoves
<1>2. CASE UNCHANGED <<status, stamped, reopened>>
  BY <1>1, <1>2 DEF OriginType
<1>3. CASE kind = "risk" /\ status' \in RiskMoves[status] /\ UNCHANGED <<stamped, reopened>>
  BY <1>1, <1>3, RiskMovesStayOpen DEF OriginType
<1>4. ASSUME NEW r \in BOOLEAN, CloseRisk(r) \/ ReopenRisk(r) PROVE OriginType'
  <2>1. kind = "risk" /\ status' \in {"closed", "reopened"}
    BY <1>4 DEF CloseRisk, ReopenRisk, CloseAccepted, ReopenAccepted
  <2>2. stamped' \in BOOLEAN
    BY <1>4, Zenon DEF CloseRisk, ReopenRisk
  <2>3. reopened' \in 0..MaxReopened
    BY <1>4 DEF CloseRisk, ReopenRisk, Reasoned, OriginType
  <2>4. QED
    BY <1>1, <2>1, <2>2, <2>3 DEF OriginType, RiskStatuses
<1>5. ASSUME NEW to \in FindingStatuses, NEW r \in BOOLEAN, MoveFinding(to, r)
      PROVE  OriginType'
  <2>1. kind = "finding" /\ status' = to
    BY <1>5 DEF MoveFinding, MoveAccepted, Moved
  <2>2. stamped' \in BOOLEAN
    BY <1>5 DEF MoveFinding, Moved
  <2>3. reopened' \in 0..MaxReopened
    BY <1>5 DEF MoveFinding, Moved, Reasoned, OriginType
  <2>4. QED
    BY <1>1, <2>1, <2>2, <2>3 DEF OriginType
<1>6. CASE Live /\ status' \in {status, AfterAssigning} /\ UNCHANGED <<stamped, reopened>>
  BY <1>1, <1>6, AssigningKeepsLive DEF OriginType
<1>7. QED
  BY <1>2, <1>3, <1>4, <1>5, <1>6, OriginMoves

-----------------------------------------------------------------------------
(* The origin alone.                                                       *)

LEMMA OriginInit == Init => OriginType
<1>1. Init => \/ kind = "risk" /\ status \in {"draft", "open", "assigned"}
              \/ kind = "finding" /\ status = "open"
  BY DEF Init
<1>2. Init => stamped \in BOOLEAN
  BY Zenon DEF Init
<1>3. Init => reopened \in 0..MaxReopened
  BY ObligationsAssumption DEF Init
<1>4. QED
  BY <1>1, <1>2, <1>3 DEF OriginType, RiskStatuses, FindingStatuses

LEMMA BookStep ==
    ASSUME OriginType, ScreenType, [Next]_vars, (status \in Terminal) # (status' \in Terminal)
    PROVE  /\ stamped' = (status' \in Terminal)
           /\ status \in Terminal => reopened' = reopened + 1
<1>1. CASE UNCHANGED <<status, stamped, reopened>>
  BY <1>1
<1>2. CASE kind = "risk" /\ status' \in RiskMoves[status] /\ UNCHANGED <<stamped, reopened>>
  BY <1>2, RiskMovesStayOpen DEF Terminal, RiskMoves, OriginType, RiskStatuses
<1>3. ASSUME NEW r \in BOOLEAN, CloseRisk(r)
      PROVE  /\ stamped' = (status' \in Terminal)
             /\ status \in Terminal => reopened' = reopened + 1
  <2>1. status' \in Terminal /\ status \notin Terminal
    BY <1>3, OriginMoves DEF CloseRisk, CloseAccepted, Terminal
  <2>2. stamped' = TRUE
    BY <1>3 DEF CloseRisk, CloseAccepted
  <2>3. QED
    BY <2>1, <2>2, Zenon
<1>4. ASSUME NEW r \in BOOLEAN, ReopenRisk(r)
      PROVE  /\ stamped' = (status' \in Terminal)
             /\ status \in Terminal => reopened' = reopened + 1
  <2>1. status' \notin Terminal
    BY <1>4, OriginMoves DEF ReopenRisk, ReopenAccepted, Terminal
  <2>2. stamped' = FALSE /\ reopened' = reopened + 1
    BY <1>4 DEF ReopenRisk, ReopenAccepted, Reasoned
  <2>3. (status' \in Terminal) = FALSE
    BY <2>1
  <2>4. QED
    BY <2>2, <2>3, Zenon
<1>5. ASSUME NEW to \in FindingStatuses, NEW r \in BOOLEAN, MoveFinding(to, r)
      PROVE  /\ stamped' = (status' \in Terminal)
             /\ status \in Terminal => reopened' = reopened + 1
  <2>1. r
    BY <1>5, OriginMoves DEF MoveFinding, MoveAccepted, Moved, Terminal, Live
  <2>2. status' = to /\ stamped' = (to \in Terminal)
    BY <1>5, <2>1 DEF MoveFinding, Moved
  <2>3. status \in Terminal => ~Live /\ to \notin Terminal
    BY <2>2, OriginMoves DEF Live, Terminal
  <2>4. status \in Terminal => reopened' = reopened + 1
    BY <1>5, <2>1, <2>3 DEF MoveFinding, Moved, Reasoned
  <2>5. QED
    BY <2>2, <2>4, OriginMoves DEF Terminal
<1>6. CASE Live /\ status' \in {status, AfterAssigning} /\ UNCHANGED <<stamped, reopened>>
  BY <1>6, AssigningKeepsLive, OriginMoves DEF Live, Terminal
<1>7. QED
  BY <1>1, <1>2, <1>3, <1>4, <1>5, <1>6, OriginMoves

-----------------------------------------------------------------------------
(* Rows and assignments.                                                   *)

Inv == TypeOK /\ OwedOnce /\ NoRowNoLink

\* The steps that touch subject rows or open assignments.
LEMMA WorkMoves ==
    ASSUME OriginType, ScreenType, [Next]_vars
    PROVE  \/ UNCHANGED <<subject, owes>>
           \/ \E ps \in SUBSET People : AddSubjects(ps)
           \/ \E m \in Modules, ps \in SUBSET People : AssignRisk(m, ps)
           \/ \E m \in Modules : \E ps : Live /\ AssignFree(m, ps) /\ kind' = kind
           \/ \E m \in Modules, p \in People : Discharge(m, p)
           \/ \E p \in People : ReviewSubject(p)
<1>1. CASE UNCHANGED Unserved
  BY <1>1 DEF Unserved, pipes
<1>2. CASE \/ PatchRisk
           \/ \E r \in BOOLEAN : CloseRisk(r) \/ ReopenRisk(r)
                                 \/ \E to \in FindingStatuses : MoveFinding(to, r)
  BY <1>2 DEF PatchRisk, CloseRisk, ReopenRisk, MoveFinding, pipes
<1>3. CASE AutoTrainAsks \/ AutoTrainLost
  BY <1>3 DEF AutoTrainAsks, AutoTrainLost
<1>4. ASSUME NEW m \in Modules, NEW ps \in SUBSET People, AssignFinding(m, ps)
      PROVE  Live /\ AssignFree(m, ps) /\ kind' = kind
  BY <1>4 DEF AssignFinding, TrainingAccepted
<1>5. ASSUME NEW m \in Modules, AutoTrainMatched(m)
      PROVE  Live /\ AssignFree(m, Named) /\ kind' = kind
  BY <1>5 DEF AutoTrainMatched, TrainingAccepted
<1>6. ASSUME NEW m \in Modules, ApproveModule(m)
      PROVE  \/ UNCHANGED <<subject, owes>>
             \/ Live /\ AssignFree(m, module[m].named) /\ kind' = kind
  BY <1>6 DEF ApproveModule
<1>7. ASSUME NEW m \in Modules, AutoTrainAnswered(m) \/ RejectModule(m)
      PROVE  UNCHANGED <<subject, owes>>
  BY <1>7 DEF AutoTrainAnswered, RejectModule
<1>8. CASE Served
  BY <1>2, <1>3, <1>4, <1>5, <1>6, <1>7, <1>8 DEF Served, Pipeline
<1>9. QED
  BY <1>1, <1>8, ServedOrShown

\* What a step may do to the row on one person.
RowMoves(p) ==
    /\ subject'[p] \in Row
    /\ subject'[p].standing = "none" => subject'[p].link = 0
    /\ subject[p].link # 0 => subject'[p].link = subject[p].link
    /\ subject[p].standing \notin {"none", "assigned"} /\ subject'[p].standing = "assigned"
          => subject[p].link = 0 /\ subject'[p].link # 0

LEMMA Rows ==
    ASSUME Inv
    PROVE  /\ SubjectType /\ OwesType /\ OriginType /\ ScreenType
           /\ MaxModules \in Nat /\ Modules = 1..MaxModules
           /\ \A p \in People : /\ subject[p] \in Row
                                /\ subject[p].standing = "none" => subject[p].link = 0
BY TypeParts, ObligationsAssumption DEF Inv, Modules, SubjectType, NoRowNoLink

LEMMA AssignFreeRows ==
    ASSUME Inv, NEW m \in Modules, NEW ps, AssignFree(m, ps)
    PROVE  /\ subject' = [p \in People |-> subject'[p]]
           /\ \A p \in People : RowMoves(p)
<1> DEFINE given(p) == kind = "risk" /\ p \in Free(m, ps) \cap Named /\ subject[p].link = 0
<1>1. subject' = [p \in People |-> IF given(p) THEN [subject[p] EXCEPT !.link = m]
                                   ELSE subject[p]]
  BY DEF AssignFree
<1>2. ASSUME NEW p \in People PROVE RowMoves(p)
  <2>1. CASE ~given(p)
    BY <1>1, <2>1, Rows DEF RowMoves
  <2>2. CASE given(p)
    <3>1. subject'[p] = [standing |-> subject[p].standing, link |-> m]
      BY <1>1, <2>2, Rows DEF Row
    <3>2. subject[p].standing \in Standings \ {"none"} /\ m \in 0..MaxModules /\ m # 0
      BY <2>2, Rows DEF Named, Row
    <3>3. QED
      BY <2>2, <3>1, <3>2, Rows DEF RowMoves, Row
  <2>3. QED
    BY <2>1, <2>2
<1>3. QED
  BY <1>1, <1>2

LEMMA RowsStep ==
    ASSUME Inv, [Next]_vars
    PROVE  /\ subject' = [p \in People |-> subject'[p]]
           /\ \A p \in People : RowMoves(p)
<1>1. CASE UNCHANGED subject
  BY <1>1, Rows DEF SubjectType, RowMoves
<1>2. ASSUME NEW ps \in SUBSET People, AddSubjects(ps)
      PROVE  /\ subject' = [p \in People |-> subject'[p]]
             /\ \A p \in People : RowMoves(p)
  <2>1. kind = "risk" /\ subject' = [p \in People |-> IF p \in ps \ Named THEN Attached
                                                      ELSE subject[p]]
    BY <1>2 DEF AddSubjects, AttachAccepted
  <2>2. \A p \in People \ Named : subject[p].standing = "none"
    BY <2>1 DEF Named
  <2>3. Attached \in Row /\ Attached.standing = "assigned"
    BY Rows DEF Attached, Row, Standings
  <2>4. ASSUME NEW p \in People PROVE RowMoves(p)
    BY <2>1, <2>2, <2>3, Rows DEF RowMoves
  <2>5. QED
    BY <2>1, <2>4
<1>3. ASSUME NEW m \in Modules, NEW ps \in SUBSET People, AssignRisk(m, ps)
      PROVE  /\ subject' = [p \in People |-> subject'[p]]
             /\ \A p \in People : RowMoves(p)
  <2> DEFINE new == {p \in (ps \cap Named) \ Away : subject[p].link = 0}
  <2>1. subject' = [p \in People |->
                      IF p \in new THEN [standing |-> "assigned", link |-> m] ELSE subject[p]]
    BY <1>3 DEF AssignRisk
  <2>2. m \in 0..MaxModules /\ m # 0
    BY Rows
  <2>3. ASSUME NEW p \in People PROVE RowMoves(p)
    BY <2>1, <2>2, Rows DEF RowMoves, Row, Standings
  <2>4. QED
    BY <2>1, <2>3
<1>4. ASSUME NEW m \in Modules, NEW ps, AssignFree(m, ps)
      PROVE  /\ subject' = [p \in People |-> subject'[p]]
             /\ \A p \in People : RowMoves(p)
  BY <1>4, AssignFreeRows
<1>5. ASSUME NEW q \in People, ReviewSubject(q)
      PROVE  /\ subject' = [p \in People |-> subject'[p]]
             /\ \A p \in People : RowMoves(p)
  <2>1. PICK st \in {"reviewed", "failed"} : subject' = [subject EXCEPT ![q].standing = st]
    BY <1>5 DEF ReviewSubject
  <2>2. subject'[q] = [standing |-> st, link |-> subject[q].link]
    BY <2>1, Rows DEF SubjectType, Row
  <2>3. \A p \in People \ {q} : subject'[p] = subject[p]
    BY <2>1, Rows DEF SubjectType
  <2>4. ASSUME NEW p \in People PROVE RowMoves(p)
    BY <2>2, <2>3, Rows DEF RowMoves, Row, Standings
  <2>5. QED
    BY <2>1, <2>4, Rows DEF SubjectType
<1>6. ASSUME NEW m \in Modules, NEW p \in People, Discharge(m, p)
      PROVE  UNCHANGED subject
  BY <1>6 DEF Discharge
<1>7. QED
  BY <1>1, <1>2, <1>3, <1>4, <1>5, <1>6, WorkMoves, Rows

\* One more time for some people, unless they owe it twice already.
LEMMA OwingType ==
    ASSUME OwesType, NEW m \in Modules, NEW ps, \A p \in People \cap ps : owes[m][p] < 2
    PROVE  /\ Owing(m, ps) \in [Modules -> [People -> 0..2]]
           /\ \A n \in Modules, p \in People :
                 Owing(m, ps)[n][p] = IF n = m /\ p \in ps THEN owes[n][p] + 1 ELSE owes[n][p]
<1> DEFINE f == [p \in People |-> IF p \in ps THEN owes[m][p] + 1 ELSE owes[m][p]]
<1>1. Owing(m, ps) = [owes EXCEPT ![m] = f]
  BY DEF Owing
<1>2. \A p \in People : owes[m][p] \in 0..2
  BY DEF OwesType
<1>3. f \in [People -> 0..2]
  BY <1>2
<1> HIDE DEF f
<1>4. Owing(m, ps)[m] = f /\ \A n \in Modules \ {m} : Owing(m, ps)[n] = owes[n]
  BY <1>1 DEF OwesType
<1>5. QED
  BY <1>1, <1>3, <1>4 DEF OwesType, f

\* What a person owes moves by one: down, or up by one of two roads.
LEMMA OwesStep ==
    ASSUME Inv, [Next]_vars
    PROVE  /\ OwesType'
           /\ \A n \in Modules, p \in People :
                 \/ owes'[n][p] <= owes[n][p]
                 \/ Live /\ owes[n][p] = 0 /\ owes'[n][p] = 1
                 \/ /\ Live /\ kind = "risk" /\ subject[p].link = 0 /\ subject'[p].link = n
                    /\ owes'[n][p] = owes[n][p] + 1
<1> DEFINE Goal ==
         /\ OwesType'
         /\ \A n \in Modules, p \in People :
               \/ owes'[n][p] <= owes[n][p]
               \/ Live /\ owes[n][p] = 0 /\ owes'[n][p] = 1
               \/ /\ Live /\ kind = "risk" /\ subject[p].link = 0 /\ subject'[p].link = n
                  /\ owes'[n][p] = owes[n][p] + 1
<1>0. \A n \in Modules, p \in People : owes[n][p] \in 0..2
  BY Rows DEF OwesType
<1>1. CASE UNCHANGED owes
  BY <1>0, <1>1, Rows DEF OwesType
<1>2. ASSUME NEW m \in Modules, NEW ps \in SUBSET People, AssignRisk(m, ps)
      PROVE  Goal
  <2> DEFINE new == {p \in (ps \cap Named) \ Away : subject[p].link = 0}
  <2>1. /\ kind = "risk" /\ Live /\ owes' = Owing(m, new)
        /\ subject' = [p \in People |->
                        IF p \in new THEN [standing |-> "assigned", link |-> m] ELSE subject[p]]
    BY <1>2 DEF AssignRisk, TrainingAccepted
  <2>2. \A p \in People \cap new : owes[m][p] < 2
    BY <1>0, Rows DEF Inv, OwedOnce
  <2>3. \A p \in People : p \in new => subject[p].link = 0 /\ subject'[p].link = m
    BY <2>1
  <2> HIDE DEF new
  <2>4. QED
    BY <1>0, <2>1, <2>2, <2>3, OwingType, Rows DEF OwesType
<1>3. ASSUME NEW m \in Modules, NEW ps, Live, AssignFree(m, ps)
      PROVE  Goal
  <2>1. owes' = Owing(m, Free(m, ps))
    BY <1>3 DEF AssignFree
  <2>2. \A p \in People \cap Free(m, ps) : owes[m][p] = 0
    BY DEF Free
  <2>3. QED
    BY <1>0, <1>3, <2>1, <2>2, OwingType, Rows DEF OwesType
<1>4. ASSUME NEW m \in Modules, NEW q \in People, Discharge(m, q)
      PROVE  Goal
  <2>1. owes' = [owes EXCEPT ![m][q] = owes[m][q] - 1] /\ owes[m][q] > 0
    BY <1>4 DEF Discharge
  <2>2. \A n \in Modules, p \in People :
            owes'[n][p] = IF n = m /\ p = q THEN owes[n][p] - 1 ELSE owes[n][p]
    BY <2>1, Rows DEF OwesType
  <2>3. owes' \in [Modules -> [People -> 0..2]]
    BY <1>0, <2>1, Rows DEF OwesType
  <2>4. QED
    BY <1>0, <2>1, <2>2, <2>3 DEF OwesType
<1>5. ASSUME \/ \E ps \in SUBSET People : AddSubjects(ps)
             \/ \E p \in People : ReviewSubject(p)
      PROVE  UNCHANGED owes
  BY <1>5 DEF AddSubjects, ReviewSubject, pipes
<1>6. QED
  BY <1>1, <1>2, <1>3, <1>4, <1>5, WorkMoves, Rows

-----------------------------------------------------------------------------
(* Modules, the waiting call and the dialog.                               *)

LEMMA NamedPeople == Named \subseteq People
BY DEF Named

LEMMA ModuleStep ==
    ASSUME OriginType, ScreenType, ModuleType, CallType, [Next]_vars
    PROVE  ModuleType' /\ CallType'
<1>1. CASE UNCHANGED Unserved
  BY <1>1 DEF Unserved, pipes, ModuleType, CallType
<1>2. CASE \/ PatchRisk
           \/ \E r \in BOOLEAN : CloseRisk(r) \/ ReopenRisk(r)
                                 \/ \E to \in FindingStatuses : MoveFinding(to, r)
  BY <1>2 DEF PatchRisk, CloseRisk, ReopenRisk, MoveFinding, pipes, ModuleType, CallType
<1>3. ASSUME NEW ps \in SUBSET People, AddSubjects(ps)
      PROVE  UNCHANGED <<module, call>>
  BY <1>3 DEF AddSubjects, pipes
<1>4. ASSUME NEW ps \in SUBSET People, NEW m \in Modules, AssignRisk(m, ps) \/ AssignFinding(m, ps)
      PROVE  UNCHANGED <<module, call>>
  BY <1>4 DEF AssignRisk, AssignFinding
<1>5. CASE AutoTrainAsks \/ AutoTrainLost
  BY <1>5, NamedPeople DEF AutoTrainAsks, AutoTrainLost, ModuleType, CallType
<1>6. ASSUME NEW m \in Modules, AutoTrainAnswered(m)
      PROVE  ModuleType' /\ CallType'
  <2>1. /\ module' = [module EXCEPT ![m] = [status |-> "pending_review", named |-> call]]
        /\ call' = {}
    BY <1>6 DEF AutoTrainAnswered
  <2>2. [status |-> "pending_review", named |-> call] \in ModType
    BY DEF ModType, CallType
  <2>3. QED
    BY <2>1, <2>2 DEF ModuleType, CallType
<1>7. ASSUME NEW m \in Modules, AutoTrainMatched(m) PROVE UNCHANGED <<module, call>>
  BY <1>7 DEF AutoTrainMatched
<1>8. ASSUME NEW m \in Modules, ApproveModule(m) \/ RejectModule(m)
      PROVE  ModuleType' /\ CallType'
  <2>1. PICK st \in {"approved", "rejected"} :
            module' = [module EXCEPT ![m].status = st] /\ call' = call
    BY <1>8 DEF ApproveModule, RejectModule
  <2>2. module[m] \in ModType
    BY DEF ModuleType
  <2>3. [module[m] EXCEPT !.status = st] \in ModType
    BY <2>2 DEF ModType
  <2>4. QED
    BY <2>1, <2>3 DEF ModuleType, CallType
<1>9. ASSUME NEW p \in People, ReviewSubject(p) \/ \E m \in Modules : Discharge(m, p)
      PROVE  UNCHANGED <<module, call>>
  BY <1>9 DEF ReviewSubject, Discharge, pipes
<1>10. CASE Served
  BY <1>2, <1>3, <1>4, <1>5, <1>6, <1>7, <1>8, <1>9, <1>10
     DEF Served, Pipeline, ModuleType, CallType
<1>11. QED
  BY <1>1, <1>10, ServedOrShown

\* What the status dialog opens on.
FirstMove(preset, on) ==
    IF preset # "none" THEN preset
    ELSE IF on = "open" THEN "in_review"
    ELSE IF on \in Terminal \cup {"in_review"} THEN "open" ELSE "in_review"

LEMMA FreshIs ==
    ASSUME NEW preset, NEW on
    PROVE  Fresh(preset, on) = [which |-> "status", on |-> {}, preset |-> preset,
                                move |-> FirstMove(preset, on), from |-> "nowhere"]
BY Zenon DEF Fresh, FirstMove

LEMMA FreshType ==
    ASSUME NEW preset \in FindingStatuses \cup {"none"}, NEW on
    PROVE  Fresh(preset, on) \in Dialog
<1>1. FirstMove(preset, on) \in FindingStatuses \cup {"none"}
  BY DEF FindingStatuses, FirstMove
<1>2. "nowhere" \in AnyStatus \cup {"nowhere"} /\ "status" \in Whiches /\ {} \in SUBSET People
  BY DEF Whiches
<1>3. QED
  BY <1>1, <1>2, FreshIs, Zenon DEF Dialog

LEMMA LegalMovesType == \A from : LegalMoves(from) \subseteq FindingStatuses
BY DEF LegalMoves, FindingStatuses

LEMMA ShutType == Shut \in Dialog /\ Shut.which = "none"
<1>1. /\ "none" \in Whiches /\ {} \in SUBSET People
      /\ "none" \in FindingStatuses \cup {"none"} /\ "nowhere" \in AnyStatus \cup {"nowhere"}
  BY DEF Whiches
<1>2. QED
  BY <1>1, Zenon DEF Shut, Dialog

\* The page shows a status of its origin, and offers the status dialog on a
\* finding only.
ShowsOrigin ==
    /\ shown \in IF kind = "risk" THEN RiskStatuses ELSE FindingStatuses
    /\ dialog.which = "status" => kind = "finding"

LEMMA ScreenStep ==
    ASSUME OriginType, ScreenType, ShowsOrigin, ReasonFitsTheFinding, [Next]_vars
    PROVE  ScreenType' /\ ShowsOrigin' /\ ReasonFitsTheFinding'
<1>0. kind' = kind
  BY OriginMoves
<1>1. CASE UNCHANGED screen
  BY <1>0, <1>1 DEF screen, ScreenType, ShowsOrigin, ReasonFitsTheFinding
<1>2. ASSUME shown' = shown, dialog' \in Dialog,
             dialog'.which = "status" => kind = "finding" /\ dialog'.from \in {"nowhere", shown}
      PROVE  ScreenType' /\ ShowsOrigin' /\ ReasonFitsTheFinding'
  BY <1>0, <1>2 DEF ScreenType, ShowsOrigin, ReasonFitsTheFinding
<1>3. CASE OpenStatus
  <2>1. PICK preset \in {"none"} \cup (Presets \ {shown}) :
            dialog' = Fresh(preset, shown) /\ shown' = shown /\ kind = "finding"
    BY <1>3 DEF OpenStatus, Offers
  <2>2. preset \in FindingStatuses \cup {"none"}
    BY DEF Presets, FindingStatuses
  <2>3. QED
    BY <1>2, <2>1, <2>2, FreshType, FreshIs
<1>4. CASE OpenOther
  <2>1. PICK which \in Whiches \ {"none", "status"}, p \in People :
            /\ dialog' = [Shut EXCEPT !.which = which, !.on = IF which = "review" THEN {p} ELSE {}]
            /\ shown' = shown
    BY <1>4 DEF OpenOther
  <2> DEFINE on == IF which = "review" THEN {p} ELSE {}
  <2>2. dialog' = [which |-> which, on |-> on, preset |-> "none", move |-> "none",
                   from |-> "nowhere"]
    BY <2>1 DEF Shut
  <2>3. on \in SUBSET People
    OBVIOUS
  <2> HIDE DEF on
  <2>4. dialog' \in Dialog
    BY <2>2, <2>3, Zenon DEF Dialog
  <2>5. QED
    BY <1>2, <2>1, <2>2, <2>4
<1>5. CASE PickMove
  <2>1. PICK to \in FindingStatuses : dialog' = [dialog EXCEPT !.move = to] /\ shown' = shown
    BY <1>5, LegalMovesType DEF PickMove
  <2>2. dialog' \in Dialog
    BY <2>1, Zenon DEF Dialog, ScreenType
  <2>3. dialog'.which = dialog.which /\ dialog'.from = dialog.from
    BY <2>1 DEF Dialog, ScreenType
  <2>4. QED
    BY <1>2, <2>1, <2>2, <2>3 DEF ShowsOrigin, ReasonFitsTheFinding
<1>6. CASE WriteReason
  <2>1. dialog' = [dialog EXCEPT !.from = shown] /\ shown' = shown
    BY <1>6 DEF WriteReason
  <2>2. dialog'.from = shown /\ dialog'.which = dialog.which
    BY <2>1 DEF Dialog, ScreenType
  <2>3. dialog' \in Dialog
    BY <2>1, Zenon DEF Dialog, ScreenType
  <2>4. QED
    BY <1>2, <2>1, <2>2, <2>3 DEF ShowsOrigin
<1>7. CASE CloseDialog \/ Submit
  BY <1>2, <1>7, ShutType DEF CloseDialog, Submit
<1>8. CASE Refetch
  <2>1. shown' = status /\ status \in (IF kind = "risk" THEN RiskStatuses ELSE FindingStatuses)
    BY <1>8 DEF Refetch, OriginType
  <2>2. shown' \in AnyStatus
    BY <2>1 DEF AnyStatus
  <2>3. CASE dialog.which = "status" /\ shown # status
    <3>1. dialog.preset \in FindingStatuses \cup {"none"}
      BY DEF ScreenType, Dialog
    <3>2. dialog' = Fresh(dialog.preset, status)
      BY <1>8, <2>3 DEF Refetch
    <3>3. dialog' \in Dialog /\ dialog'.from = "nowhere"
      BY <3>1, <3>2, FreshType, FreshIs
    <3>4. QED
      BY <1>0, <2>1, <2>2, <2>3, <3>3 DEF ScreenType, ShowsOrigin, ReasonFitsTheFinding
  <2>4. CASE ~(dialog.which = "status" /\ shown # status)
    BY <1>0, <1>8, <2>1, <2>2, <2>4 DEF Refetch, ScreenType, ShowsOrigin, ReasonFitsTheFinding
  <2>5. QED
    BY <2>3, <2>4
<1>9. CASE UNCHANGED vars
  BY <1>1, <1>9 DEF vars, screen
<1>10. QED
  BY <1>1, <1>3, <1>4, <1>5, <1>6, <1>7, <1>8, <1>9 DEF Next

-----------------------------------------------------------------------------
(* Together.                                                               *)

IInv == Inv /\ ShowsOrigin /\ ReasonFitsTheFinding

LEMMA WorkInit ==
    ASSUME Init
    PROVE  SubjectType /\ ModuleType /\ OwesType /\ CallType /\ OwedOnce /\ NoRowNoLink
<1> USE ObligationsAssumption
<1>1. Detached \in Row /\ Detached.link = 0
  BY DEF Detached, Row, Standings
<1>2. ASSUME subject = [p \in People |-> Detached]
      PROVE  SubjectType /\ NoRowNoLink
  BY <1>1, <1>2 DEF SubjectType, NoRowNoLink
<1>3. ASSUME subject \in [People -> [standing : {"in_progress", "completed"}, link : {0}]]
      PROVE  SubjectType /\ NoRowNoLink
  BY <1>3 DEF SubjectType, NoRowNoLink, Row, Standings
<1>4. SubjectType /\ NoRowNoLink
  BY <1>2, <1>3 DEF Init
<1>5. ModuleType
  <2>1. \A st \in {"approved", "absent"} : [status |-> st, named |-> {}] \in ModType
    BY DEF ModType
  <2>2. module = [m \in Modules |->
                    [status |-> IF m = 1 THEN "approved" ELSE "absent", named |-> {}]]
    BY DEF Init
  <2>3. QED
    BY <2>1, <2>2 DEF ModuleType
<1>6. owes \in [Modules -> [People -> 0..1]] /\ call = {}
  BY DEF Init
<1>7. \A m \in Modules, p \in People : owes[m][p] \in 0..1
  BY <1>6
<1>8. OwesType
  BY <1>6, <1>7 DEF OwesType
<1>9. OwedOnce
  BY <1>7 DEF OwedOnce
<1>10. QED
  BY <1>4, <1>5, <1>6, <1>8, <1>9 DEF CallType

LEMMA IInvInit == Init => IInv
<1> SUFFICES ASSUME Init PROVE IInv
  OBVIOUS
<1>1. dialog = Shut
  BY DEF Init
<1>2. ScreenType /\ ShowsOrigin /\ ReasonFitsTheFinding
  <2>1. shown = status /\ OriginType
    BY OriginInit DEF Init
  <2>2. QED
    BY <1>1, <2>1, ShutType DEF OriginType, ScreenType, AnyStatus, ShowsOrigin,
       ReasonFitsTheFinding
<1>3. QED
  BY <1>2, OriginInit, WorkInit, TypeParts DEF IInv, Inv

LEMMA IInvStep == IInv /\ [Next]_vars => IInv'
<1> SUFFICES ASSUME IInv, [Next]_vars PROVE IInv'
  OBVIOUS
<1> USE DEF IInv, Inv
<1>1. OriginType' /\ ModuleType' /\ CallType'
  BY TypeParts, OriginStep, ModuleStep
<1>2. ScreenType' /\ ShowsOrigin' /\ ReasonFitsTheFinding'
  BY TypeParts, ScreenStep
<1>3. SubjectType' /\ NoRowNoLink'
  BY RowsStep DEF RowMoves, SubjectType, NoRowNoLink
<1>4. OwesType'
  BY OwesStep
<1>5. OwedOnce'
  <2>1. SUFFICES ASSUME NEW m \in Modules, NEW p \in People, owes'[m][p] > 1
                 PROVE  kind' = "risk" /\ subject'[p].link = m
    BY DEF OwedOnce, Modules
  <2>2. m # 0 /\ kind' = kind
    BY Rows, TypeParts, OriginMoves
  <2>3. owes[m][p] \in 0..2
    BY Rows DEF OwesType
  <2>4. CASE owes'[m][p] <= owes[m][p]
    <3>1. owes[m][p] > 1
      BY <1>4, <2>1, <2>3, <2>4 DEF OwesType, Modules
    <3>2. kind = "risk" /\ subject[p].link = m
      BY <3>1 DEF OwedOnce
    <3>3. QED
      BY <2>2, <3>2, RowsStep DEF RowMoves
  <2>5. QED
    BY <2>1, <2>2, <2>4, OwesStep
<1>6. TypeOK'
  BY <1>1, <1>2, <1>3, <1>4 DEF TypeOK, OriginType, SubjectType, ModuleType, OwesType,
     CallType, ScreenType, Row, ModType, Modules
<1>7. QED
  BY <1>2, <1>3, <1>5, <1>6

\* For any number of employees, modules and reopenings, every variable keeps
\* its type; in particular nobody ever owes one module three times.
THEOREM ObligationTyping == Spec => []TypeOK
<1>1. IInv => TypeOK
  BY DEF IInv, Inv
<1>2. QED
  BY <1>1, IInvInit, IInvStep, PTL DEF Spec

\* For any number of employees, modules and reopenings: a risk or finding
\* leaves its closed statuses only by a reopening that was given a reason, and
\* is closed only with its stamp and a reason (update_finding,
\* close_incident_risk, reopen_incident_risk, review_module).
THEOREM ByTheBook == Spec => ClosedByTheBook
<1>1. ASSUME IInv, [Next]_vars
      PROVE  [(status \in Terminal) # (status' \in Terminal) =>
                 /\ stamped' = (status' \in Terminal)
                 /\ status \in Terminal => reopened' = reopened + 1]_vars
  BY <1>1, BookStep, TypeParts DEF IInv, Inv
<1>2. QED
  BY <1>1, IInvInit, IInvStep, PTL DEF Spec, ClosedByTheBook

\* An employee owes a module twice only where the risk's own assign gave it
\* (assign_module_to_employees, assign_required_training).
THEOREM OwedOnlyOnce == Spec => []OwedOnce
<1>1. IInv => OwedOnce
  BY DEF IInv, Inv
<1>2. QED
  BY <1>1, IInvInit, IInvStep, PTL DEF Spec

\* The reason in the status dialog was written on the status it shows
\* (FindingStatusDialog's reset on a change of the moves it lists).
THEOREM ReasonsFit == Spec => []ReasonFitsTheFinding
<1>1. IInv => ReasonFitsTheFinding
  BY DEF IInv
<1>2. QED
  BY <1>1, IInvInit, IInvStep, PTL DEF Spec

\* However long generation and review take, nobody is given work for an origin
\* that is closed (_origin_is_terminal, auto_train_risk, auto_train_finding).
THEOREM ClosedMeansClosed == Spec => NothingForTheClosed
<1>1. ASSUME IInv, [Next]_vars
      PROVE  [(\E m \in Modules, p \in People : owes'[m][p] > owes[m][p]) => Live]_vars
  <2>1. SUFFICES ASSUME NEW m \in Modules, NEW p \in People, owes'[m][p] > owes[m][p]
                 PROVE  Live
    OBVIOUS
  <2>2. owes[m][p] \in 0..2 /\ owes'[m][p] \in 0..2
    BY <1>1, OwesStep, Rows DEF IInv, OwesType, Modules
  <2>3. QED
    BY <1>1, <2>1, <2>2, OwesStep DEF IInv
<1>2. QED
  BY <1>1, IInvInit, IInvStep, PTL DEF Spec, NothingForTheClosed

\* What a subject holds is left alone (add_subjects, review_module,
\* _skip_reason): a row that points to training keeps it, and a person who got
\* further is set back only when given their first.
THEOREM WorkIsKept == Spec => SubjectsKeepTheirWork
<1>1. ASSUME IInv, [Next]_vars
      PROVE  [\A p \in People :
                /\ subject[p].link # 0 => subject'[p].link = subject[p].link
                /\ subject[p].standing \notin {"none", "assigned"} /\ subject'[p].standing = "assigned"
                      => subject[p].link = 0 /\ subject'[p].link # 0]_vars
  BY <1>1, RowsStep DEF IInv, RowMoves
<1>2. QED
  BY <1>1, IInvInit, IInvStep, PTL DEF Spec, SubjectsKeepTheirWork

-----------------------------------------------------------------------------
(* What the pages offer.                                                   *)

\* The status dialog's move is one of those listed for the status on show, or
\* the preset it was opened with.
Listed ==
    dialog.which = "status" => dialog.move \in LegalMoves(shown) \cup {dialog.preset}

\* The move the status dialog opens on.
LEMMA FreshListed ==
    ASSUME kind = "finding", NEW on \in FindingStatuses, NEW preset
    PROVE  /\ Fresh(preset, on).preset = preset
           /\ Fresh(preset, on).move \in LegalMoves(on) \cup {preset}
<1>1. CASE preset # "none"
  BY <1>1, FreshIs DEF FirstMove
<1>2. CASE preset = "none"
  <2>1. CASE on \in {"open", "in_review"}
    BY <1>2, <2>1, FreshIs DEF FirstMove, LegalMoves, FindingStatuses, Terminal
  <2>2. CASE on \in {"remediation_planned", "training_assigned"}
    BY <1>2, <2>2, FreshIs DEF FirstMove, LegalMoves, Terminal
  <2>3. CASE on \in {"resolved", "accepted_risk", "false_positive"}
    BY <1>2, <2>3, FreshIs DEF FirstMove, LegalMoves, Terminal
  <2>4. QED
    BY <2>1, <2>2, <2>3 DEF FindingStatuses
<1>3. QED
  BY <1>1, <1>2

LEMMA ListedStep ==
    ASSUME IInv, Listed, [Next]_vars
    PROVE  Listed'
<1>0. /\ shown \in IF kind = "risk" THEN RiskStatuses ELSE FindingStatuses
      /\ dialog \in Dialog /\ (dialog.which = "status" => kind = "finding")
      /\ status \in IF kind = "risk" THEN RiskStatuses ELSE FindingStatuses
  BY TypeParts DEF IInv, Inv, ScreenType, ShowsOrigin, OriginType
<1>1. CASE UNCHANGED screen
  BY <1>1 DEF screen, Listed
<1>2. CASE OpenStatus
  <2>1. PICK preset \in {"none"} \cup (Presets \ {shown}) :
            dialog' = Fresh(preset, shown) /\ shown' = shown /\ kind = "finding"
    BY <1>2 DEF OpenStatus, Offers
  <2>2. shown \in FindingStatuses
    BY <1>0, <2>1
  <2>3. QED
    BY <2>1, <2>2, FreshListed DEF Listed
<1>3. CASE OpenOther
  BY <1>3 DEF OpenOther, Shut, Listed
<1>4. CASE PickMove
  <2>1. PICK to \in LegalMoves(shown) : dialog' = [dialog EXCEPT !.move = to] /\ shown' = shown
    BY <1>4 DEF PickMove
  <2>2. dialog'.move = to
    BY <1>0, <2>1 DEF Dialog
  <2>3. QED
    BY <2>1, <2>2 DEF Listed
<1>5. CASE WriteReason
  <2>1. dialog' = [dialog EXCEPT !.from = shown] /\ shown' = shown
    BY <1>5 DEF WriteReason
  <2>2. /\ dialog'.which = dialog.which /\ dialog'.move = dialog.move
        /\ dialog'.preset = dialog.preset
    BY <1>0, <2>1 DEF Dialog
  <2>3. QED
    BY <2>1, <2>2 DEF Listed
<1>6. CASE CloseDialog \/ Submit
  <2>1. dialog' = Shut
    BY <1>6, Zenon DEF CloseDialog, Submit
  <2>2. QED
    BY <2>1 DEF Shut, Listed
<1>7. CASE Refetch
  <2>1. shown' = status
    BY <1>7 DEF Refetch
  <2>2. CASE dialog.which = "status" /\ shown # status
    <3>1. dialog' = Fresh(dialog.preset, status)
      BY <1>7, <2>2 DEF Refetch
    <3>2. kind = "finding" /\ status \in FindingStatuses
      BY <1>0, <2>2
    <3>3. QED
      BY <2>1, <3>1, <3>2, FreshListed DEF Listed
  <2>3. CASE ~(dialog.which = "status" /\ shown # status)
    BY <1>7, <2>1, <2>3 DEF Refetch, Listed
  <2>4. QED
    BY <2>2, <2>3
<1>8. CASE UNCHANGED vars
  BY <1>1, <1>8 DEF vars, screen
<1>9. QED
  BY <1>1, <1>2, <1>3, <1>4, <1>5, <1>6, <1>7, <1>8 DEF Next

\* What the status dialog may submit on the status the finding has, the
\* server's own table holds, with the reason the server asks for.
LEMMA ReadyIsAccepted ==
    ASSUME OriginType, Listed, kind = "finding", dialog.which = "status",
           Ready, shown = status, dialog.move # dialog.preset
    PROVE  MoveAccepted(dialog.move, dialog.from # "nowhere")
<1>1. status \in FindingStatuses
  BY DEF OriginType
<1>2. dialog.move \in LegalMoves(status)
  BY DEF Listed
<1>3. LegalMoves(status) = FindingMoves[status]
  <2>1. CASE status \in {"open", "in_review"}
    BY <2>1 DEF LegalMoves, FindingMoves
  <2>2. CASE status \in {"remediation_planned", "training_assigned"}
    BY <2>2 DEF LegalMoves, FindingMoves
  <2>3. CASE status \in {"resolved", "accepted_risk", "false_positive"}
    BY <2>3 DEF LegalMoves, FindingMoves
  <2>4. QED
    BY <1>1, <2>1, <2>2, <2>3 DEF FindingStatuses
<1>4. dialog.move \in Terminal \/ ~Live => dialog.from # "nowhere"
  BY DEF Ready, RequiresNote, Terminal, Live
<1>5. QED
  BY <1>2, <1>3, <1>4 DEF MoveAccepted

\* A dialog the page would still open is one the server still takes.
LEMMA OfferedDialog ==
    ASSUME dialog \in Dialog, shown = status, Ready, ~Outlived, dialog.which # "status"
    PROVE  Accepted
<1>1. dialog.which \in {"assign", "attach", "close", "reopen", "review"}
  BY DEF Ready, Dialog, Whiches
<1>2. CASE dialog.which = "assign"
  <2>1. Named # {} /\ Live
    BY <1>2 DEF Ready, Outlived, Offers, Looks, Live
  <2>2. QED
    BY <1>2, <2>1 DEF Accepted, TrainingAccepted
<1>3. CASE dialog.which = "attach"
  BY <1>3 DEF Accepted, Outlived, Offers, Looks, AttachAccepted, Live
<1>4. CASE dialog.which \in {"close", "reopen"}
  BY <1>4 DEF Accepted, Outlived, Offers, Ready, CloseAccepted, ReopenAccepted
<1>5. CASE dialog.which = "review"
  <2>1. ASSUME NEW p \in dialog.on PROVE ReviewAccepted(p)
    BY <1>5, <2>1 DEF Outlived, Offers, Named, ReviewAccepted
  <2>2. QED
    BY <1>5, <2>1 DEF Accepted
<1>6. QED
  BY <1>1, <1>2, <1>3, <1>4, <1>5

\* While the origin stands as its page shows it, the server takes what the
\* page's buttons and its open dialog send, the presets and a dialog that
\* outlived its button excepted.
THEOREM NoDeadEnds == Spec => []OfferedIsAccepted
<1>1. Init => Listed
  BY DEF Init, Listed, Shut
<1>2. IInv /\ Listed /\ [Next]_vars => Listed'
  BY ListedStep
<1>3. IInv /\ Listed => OfferedIsAccepted
  <2> SUFFICES ASSUME IInv, Listed, shown = status
               PROVE  /\ OffersAutoTrain => TrainingAccepted
                      /\ Ready => \/ Accepted
                                  \/ dialog.which = "status" /\ dialog.move = dialog.preset
                                  \/ Outlived
    BY DEF OfferedIsAccepted
  <2>1. OffersAutoTrain => TrainingAccepted
    BY DEF OffersAutoTrain, Looks, TrainingAccepted, Live
  <2>2. OriginType /\ dialog \in Dialog /\ (dialog.which = "status" => kind = "finding")
    BY TypeParts DEF IInv, Inv, ScreenType, ShowsOrigin
  <2>3. ASSUME Ready, dialog.which = "status", dialog.move # dialog.preset PROVE Accepted
    BY <2>2, <2>3, ReadyIsAccepted DEF Accepted
  <2>4. ASSUME Ready, dialog.which # "status", ~Outlived PROVE Accepted
    BY <2>2, <2>4, OfferedDialog
  <2>5. QED
    BY <2>1, <2>3, <2>4
<1>4. QED
  BY <1>1, <1>2, <1>3, IInvInit, IInvStep, PTL DEF Spec

=============================================================================
