----------------------------- MODULE RiskLedger -----------------------------
(***************************************************************************)
(* The risk score of one employee and the trail of events behind it        *)
(* (core/risk_engine.py), as the sessions that move it see them: signals   *)
(* from simulations, reports and training, the employee's contest of an    *)
(* event, and the analyst's answer, which may withdraw it                  *)
(* (routers/employees.py).                                                 *)
(*                                                                         *)
(* A session loads the Employee row, works on its copy and commits the     *)
(* columns whose value it changed; nothing locks the row.  One unit of the *)
(* score stands for the tenth of a point clamp rounds to, and what a       *)
(* signal asks for is taken in those units: the recorded delta may differ  *)
(* from the weight by the half unit that rounding takes or gives.          *)
(***************************************************************************)
EXTENDS Integers, Sequences, FiniteSetsExt

CONSTANTS
    Top,          \* the upper rail (100.0)
    Base,         \* baseline_for(employee)
    Change,       \* per kind of signal, what it may ask the score to move by
    Sessions,     \* requests in flight at once
    Activities,   \* what they do, a subset of AllActivities
    MaxEvents,    \* bound on the length of the trail
    MaxCrashes,   \* bound on process restarts
    MaxErrors     \* bound on sessions that fail and roll back

AllActivities == {"signal", "contest", "resolve"}

BEHAVIOUR_EVENTS  == {"click", "report", "sensor", "exposure"}
ENGAGEMENT_EVENTS == {"completed", "comprehension", "failed", "ignored"}
Kinds == BEHAVIOUR_EVENTS \cup ENGAGEMENT_EVENTS

ASSUME RiskLedgerAssumption ==
    /\ Top \in Nat
    /\ Base \in 0..Top
    /\ Change \in [Kinds -> SUBSET Int]
    /\ Activities \subseteq AllActivities
    /\ MaxEvents \in Nat
    /\ MaxCrashes \in Nat
    /\ MaxErrors \in Nat

Row    == [score : 0..Top, behaviour : 0..Top, credit : Int]
Event  == [kind : Kinds, asked : Int, delta : Int, contested : BOOLEAN,
           answered : BOOLEAN, revoked : BOOLEAN]

\* An answer is a text and a flag.  All that is ever asked of a text is whether
\* anything is left of it once it is stripped of blanks.
Verdict   == [said : BOOLEAN, revoke : BOOLEAN]
NoVerdict == [said |-> FALSE, revoke |-> FALSE]

Ops    == {"idle", "signal", "contest", "resolve", "revoked", "summed"}

VARIABLES
    emp,         \* the score columns of the Employee row
    trail,       \* its RiskEvent rows, oldest first (asked: history)
    op,          \* per session: what it is doing,
    loaded,      \* the Employee row it loaded,
    mem,         \* its working copy of that row,
    pending,     \* the events it will insert,
    about,       \* the event it contests or answers,
    verdict,     \* and the answer it was sent
    crashes, errors

sess == <<op, loaded, mem, pending, about, verdict>>
env  == <<crashes, errors>>
vars == <<emp, trail, sess, env>>

-----------------------------------------------------------------------------

\* Mutant of Clamp: no upper rail.
ClampLow(s) == IF s < 0 THEN 0 ELSE s

Clamp(s) == IF s < 0 THEN 0 ELSE IF s > Top THEN Top ELSE s

\* Mutant of Applied: the difference is taken from the other column.
AppliedToBehaviour(row, change) == Clamp(row.score + change) - row.behaviour

\* apply_event: the delta on record is the one applied, after the rails.
Applied(row, change) == Clamp(row.score + change) - row.score

Moved(row, kind, change) ==
    LET d == Applied(row, change) IN
    [score     |-> row.score + d,
     behaviour |-> IF kind \in BEHAVIOUR_EVENTS
                   THEN Clamp(row.behaviour + d) ELSE row.behaviour,
     credit    |-> IF kind \in BEHAVIOUR_EVENTS
                   THEN row.credit ELSE row.credit + d]

\* Mutant of NewEvent: the delta on record is the one requested.
RequestedEvent(row, kind, change) ==
    [kind |-> kind, asked |-> change, delta |-> change,
     contested |-> FALSE, answered |-> FALSE, revoked |-> FALSE]

NewEvent(row, kind, change) ==
    [kind |-> kind, asked |-> change, delta |-> Applied(row, change),
     contested |-> FALSE, answered |-> FALSE, revoked |-> FALSE]

Total(ids) == MapThenSumSet(LAMBDA i : trail[i].delta, ids)

Live(kinds) == {i \in DOMAIN trail : ~trail[i].revoked /\ trail[i].kind \in kinds}

\* Mutant of Recomputed: what was withdrawn still counts towards the score.
RecomputedOverAll ==
    [score     |-> Clamp(Base + Total(DOMAIN trail)),
     behaviour |-> Clamp(Base + Total(Live(BEHAVIOUR_EVENTS))),
     credit    |-> Total(Live(ENGAGEMENT_EVENTS))]

\* recompute_score
Recomputed ==
    [score     |-> Clamp(Base + Total(Live(Kinds))),
     behaviour |-> Clamp(Base + Total(Live(BEHAVIOUR_EVENTS))),
     credit    |-> Total(Live(ENGAGEMENT_EVENTS))]

\* Mutant of WriteBack: the whole row is written.
WriteAll(r) == emp' = mem[r]

\* A commit writes the columns that differ from the loaded ones, no other.
WriteBack(r) ==
    emp' = [c \in DOMAIN emp |->
               IF mem[r][c] = loaded[r][c] THEN emp[c] ELSE mem[r][c]]

Blank == [score |-> 0, behaviour |-> 0, credit |-> 0]

\* Session r goes on with operation o on event i, holding row and sent v.
Hold(r, o, row, i, v) ==
    /\ op' = [op EXCEPT ![r] = o]
    /\ loaded' = [loaded EXCEPT ![r] = row]
    /\ mem' = [mem EXCEPT ![r] = row]
    /\ pending' = [pending EXCEPT ![r] = <<>>]
    /\ about' = [about EXCEPT ![r] = i]
    /\ verdict' = [verdict EXCEPT ![r] = v]

Close(r) == Hold(r, "idle", Blank, 0, NoVerdict)

Idle(r, activity) == op[r] = "idle" /\ activity \in Activities

-----------------------------------------------------------------------------
LoadEmployee(r) ==
    /\ Idle(r, "signal")
    /\ Len(trail) < MaxEvents
    /\ Hold(r, "signal", emp, 0, NoVerdict)
    /\ UNCHANGED <<emp, trail, env>>

\* One signal a session; a completion sends a second for its quiz.
Follows(p, kind) ==
    IF p = <<>> THEN kind \notin {"comprehension", "failed"}
    ELSE p[Len(p)].kind = "completed" /\ kind \in {"comprehension", "failed"}

ApplyEvent(r) ==
    /\ op[r] = "signal"
    /\ \E kind \in Kinds : \E change \in Change[kind] :
          /\ Follows(pending[r], kind)
          /\ pending' = [pending EXCEPT ![r] = Append(@, NewEvent(mem[r], kind, change))]
          /\ mem' = [mem EXCEPT ![r] = Moved(mem[r], kind, change)]
    /\ UNCHANGED <<emp, trail, op, loaded, about, verdict, env>>

CommitSignals(r) ==
    /\ op[r] = "signal"
    /\ pending[r] # <<>>
    /\ pending[r][Len(pending[r])].kind # "completed"
    /\ trail' = trail \o pending[r]
    /\ WriteBack(r)
    /\ Close(r)
    /\ UNCHANGED env

LoadContest(r) ==
    /\ Idle(r, "contest")
    /\ \E i \in DOMAIN trail :
          /\ ~trail[i].revoked /\ ~trail[i].contested
          /\ Hold(r, "contest", Blank, i, NoVerdict)
    /\ UNCHANGED <<emp, trail, env>>

CommitContest(r) ==
    /\ op[r] = "contest"
    /\ trail' = [trail EXCEPT ![about[r]].contested = TRUE]
    /\ Close(r)
    /\ UNCHANGED <<emp, env>>

\* Mutant of LoadResolution: a contest may be answered again.
LoadAnyResolution(r) ==
    /\ Idle(r, "resolve")
    /\ \E i \in DOMAIN trail, v \in Verdict :
          /\ trail[i].contested
          /\ Hold(r, "resolve", emp, i, v)
    /\ UNCHANGED <<emp, trail, env>>

\* An answer of blanks on record does not count as one.  The employee is
\* loaded here, before the answer is committed.
LoadResolution(r) ==
    /\ Idle(r, "resolve")
    /\ \E i \in DOMAIN trail, v \in Verdict :
          /\ trail[i].contested /\ ~trail[i].answered
          /\ Hold(r, "resolve", emp, i, v)
    /\ UNCHANGED <<emp, trail, env>>

\* First commit: the answer, and the withdrawal if that is what it is.
CommitResolution(r) ==
    /\ op[r] = "resolve"
    /\ trail' = [trail EXCEPT ![about[r]].answered = verdict[r].said,
                              ![about[r]].revoked = @ \/ verdict[r].revoke]
    /\ \/ verdict[r].revoke /\ Hold(r, "revoked", loaded[r], 0, NoVerdict)
       \/ ~verdict[r].revoke /\ Close(r)
    /\ UNCHANGED <<emp, env>>

SumTrail(r) ==
    /\ op[r] = "revoked"
    /\ mem' = [mem EXCEPT ![r] = Recomputed]
    /\ op' = [op EXCEPT ![r] = "summed"]
    /\ UNCHANGED <<emp, trail, loaded, pending, about, verdict, env>>

\* Second commit: the recomputed row.
CommitRecompute(r) ==
    /\ op[r] = "summed"
    /\ WriteBack(r)
    /\ Close(r)
    /\ UNCHANGED <<trail, env>>

\* A session fails: what it did not commit is rolled back.
SessionFails(r) ==
    /\ op[r] # "idle"
    /\ errors < MaxErrors
    /\ errors' = errors + 1
    /\ Close(r)
    /\ UNCHANGED <<emp, trail, crashes>>

Restart ==
    /\ crashes < MaxCrashes
    /\ crashes' = crashes + 1
    /\ op' = [r \in Sessions |-> "idle"]
    /\ loaded' = [r \in Sessions |-> Blank]
    /\ mem' = [r \in Sessions |-> Blank]
    /\ pending' = [r \in Sessions |-> <<>>]
    /\ about' = [r \in Sessions |-> 0]
    /\ verdict' = [r \in Sessions |-> NoVerdict]
    /\ UNCHANGED <<emp, trail, errors>>

-----------------------------------------------------------------------------
\* An employee nothing is on record about, as recompute_score leaves them.
Init ==
    /\ emp = [score |-> Base, behaviour |-> Base, credit |-> 0]
    /\ trail = <<>>
    /\ op = [r \in Sessions |-> "idle"]
    /\ loaded = [r \in Sessions |-> Blank]
    /\ mem = [r \in Sessions |-> Blank]
    /\ pending = [r \in Sessions |-> <<>>]
    /\ about = [r \in Sessions |-> 0]
    /\ verdict = [r \in Sessions |-> NoVerdict]
    /\ crashes = 0
    /\ errors = 0

Signal(r)  == LoadEmployee(r) \/ ApplyEvent(r) \/ CommitSignals(r)
Contest(r) == LoadContest(r) \/ CommitContest(r)
Resolve(r) ==
    \/ LoadResolution(r) \/ CommitResolution(r) \/ SumTrail(r) \/ CommitRecompute(r)

Next ==
    \/ \E r \in Sessions : Signal(r) \/ Contest(r) \/ Resolve(r) \/ SessionFails(r)
    \/ Restart

Spec == Init /\ [][Next]_vars
-----------------------------------------------------------------------------
\* Scores stay on the rails; every row and copy has a value the code can give.
TypeOK ==
    /\ emp \in Row
    /\ trail \in Seq(Event)
    /\ op \in [Sessions -> Ops]
    /\ loaded \in [Sessions -> Row]
    /\ mem \in [Sessions -> Row]
    /\ pending \in [Sessions -> Seq(Event)]
    /\ about \in [Sessions -> Nat]
    /\ verdict \in [Sessions -> Verdict]
    /\ crashes \in Nat
    /\ errors \in Nat

Quiet == \A r \in Sessions : op[r] = "idle"

\* Between sessions the score is the baseline plus the deltas on record,
\* exactly, however often it hit a rail (apply_event), as long as nothing was
\* withdrawn.
ScoreIsTheTrail ==
    Quiet /\ (\A i \in DOMAIN trail : ~trail[i].revoked)
        => emp.score = Base + Total(DOMAIN trail)

\* The trail never says more than happened: a recorded delta lies between
\* nothing and what the signal asked for (apply_event).
NeverExaggerates ==
    \A i \in DOMAIN trail :
        LET e == trail[i] IN (0 <= e.delta /\ e.delta <= e.asked)
                             \/ (e.asked <= e.delta /\ e.delta <= 0)

\* "This contest is already resolved": once an answer of any words is on
\* record, neither it nor what it decided changes again
\* (resolve_risk_event_contest).  An answer of blanks is no answer to this: the
\* next one is taken, after a withdrawal too.
OneAnswer ==
    [][\A i \in DOMAIN trail :
          trail[i].answered
              => trail'[i].answered /\ trail'[i].revoked = trail[i].revoked]_vars

\* Behaviour and training credit add up to the score beside them
\* (apply_event; test_the_two_halves_reconcile_with_the_composite).
HalvesReconcile == Quiet => emp.score = Clamp(emp.behaviour + emp.credit)

\* Until something is withdrawn, behaviour_risk moves only when evidence of
\* behaviour is put on record: no training session's copy overwrites it.
BehaviourIsEvidence ==
    [][(emp'.behaviour # emp.behaviour /\ \A i \in DOMAIN trail' : ~trail'[i].revoked)
         => \E i \in DOMAIN trail' \ DOMAIN trail : trail'[i].kind \in BEHAVIOUR_EVENTS]_vars

Withdrawn == {i \in DOMAIN trail : trail[i].revoked}

\* Whatever was withdrawn, and when, what was left did not sum to off the rails.
Comfortable ==
    \A n \in 0..Len(trail) : \A w \in SUBSET Withdrawn : Base + Total((1..n) \ w) \in 0..Top

\* "So the number stops resting on it": after any run of signals, contests and
\* withdrawals the score is the baseline plus the deltas of the events that
\* still stand, exactly, unless a rail or a failed request came between
\* (resolve_risk_event_contest, recompute_score).
WithdrawalLands ==
    Quiet /\ errors = 0 /\ crashes = 0 /\ Comfortable => emp.score = Base + Total(Live(Kinds))
=============================================================================
