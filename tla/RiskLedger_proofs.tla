-------------------------- MODULE RiskLedger_proofs --------------------------
(***************************************************************************)
(* What TLAPS proves of RiskLedger for every weight, rail and baseline.    *)
(* A withdrawal recomputes the row from a sum over the trail; that the sum *)
(* is a number, and what it is, is shown first, by induction over the      *)
(* finite sets of events: a set of counterexamples would have a smallest   *)
(* one.                                                                    *)
(***************************************************************************)
EXTENDS RiskLedger, SequenceTheorems, FiniteSetTheorems, TLAPS

-----------------------------------------------------------------------------
\* What Total adds up, of any trail t.
SumOf(t, ids) == MapThenSumSet(LAMBDA i : t[i].delta, ids)

\* The element a sum over s starts with.
Pick(s) == CHOOSE x \in s : TRUE

\* The recursion behind a sum over the set u.
Sums(h, t, u) ==
    h = [s \in SUBSET u |-> IF s = {} THEN 0 ELSE t[Pick(s)].delta + h[s \ {Pick(s)}]]

\* MapThenSumSet is that recursion, as the community module writes it.
LEMMA SumIsChosen ==
    ASSUME NEW t, NEW u
    PROVE SumOf(t, u) = (CHOOSE h : Sums(h, t, u))[u]
  BY DEF SumOf, MapThenSumSet, MapThenFoldSet, Sums, Pick

\* Induction over the subsets of a finite set: of those in a set T of them some
\* contain no other.
LEMMA MinimalSet ==
    ASSUME NEW S, IsFiniteSet(S), NEW T \in SUBSET (SUBSET S), T # {}
    PROVE  \E x \in T : \A y \in T : ~(y \subseteq x /\ y # x)
  <1> DEFINE R == StrictSubsetOrdering(S)
  <1>1. IsWellFoundedOn(R, SUBSET S)
    BY FS_StrictSubsetOrderingWellFounded, FS_FiniteSubsetsOfFinite
  <1>2. \E x \in T : \A y \in T : ~(<<y, x>> \in R)
    <2> HIDE DEF R
    <2> QED BY <1>1, WFMin
  <1> QED BY <1>2 DEF StrictSubsetOrdering

\* What one step of that recursion gives, from a function g of smaller sums.
OneMore(g, t, s) == IF s = {} THEN 0 ELSE t[Pick(s)].delta + g[s \ {Pick(s)}]

\* The recursion has a solution up to s, and all of them say the same of s.
Settled(t, S, s) ==
    /\ \E h : Sums(h, t, s)
    /\ \A u \in SUBSET S : \A h : s \subseteq u /\ Sums(h, t, u) => h[s] = SumOf(t, s)

LEMMA PickSmaller ==
    ASSUME NEW s, s # {}
    PROVE  Pick(s) \in s /\ s \ {Pick(s)} \subseteq s /\ s \ {Pick(s)} # s
  BY DEF Pick

LEMMA SumsAt ==
    ASSUME NEW h, NEW t, NEW u, Sums(h, t, u), NEW s \in SUBSET u
    PROVE  h[s] = OneMore(h, t, s)
  BY DEF Sums, OneMore

LEMMA SumFromSmaller ==
    ASSUME NEW t, NEW S, NEW s \in SUBSET S, \E h : Sums(h, t, s),
           \A y \in SUBSET S : y \subseteq s /\ y # s => Settled(t, S, y)
    PROVE  SumOf(t, s)
             = IF s = {} THEN 0 ELSE t[Pick(s)].delta + SumOf(t, s \ {Pick(s)})
  <1> DEFINE g == CHOOSE h : Sums(h, t, s)
  <1>1. Sums(g, t, s) /\ SumOf(t, s) = g[s]
    BY SumIsChosen
  <1> HIDE DEF g
  <1>2. g[s] = OneMore(g, t, s)
    BY <1>1, SumsAt
  <1>3. ASSUME s # {} PROVE g[s \ {Pick(s)}] = SumOf(t, s \ {Pick(s)})
    BY <1>1, <1>3, PickSmaller DEF Settled
  <1> QED BY <1>1, <1>2, <1>3 DEF OneMore

LEMMA AllSettled ==
    ASSUME NEW t, NEW S, IsFiniteSet(S)
    PROVE  \A s \in SUBSET S : Settled(t, S, s)
  <1> DEFINE Bad == {s \in SUBSET S : ~Settled(t, S, s)}
  <1> SUFFICES ASSUME Bad # {} PROVE FALSE
    OBVIOUS
  <1>1. PICK x \in Bad : \A y \in Bad : ~(y \subseteq x /\ y # x)
    <2>1. Bad \in SUBSET (SUBSET S)
      OBVIOUS
    <2> HIDE DEF Bad
    <2> QED BY <2>1, MinimalSet
  <1>2. x \in SUBSET S /\ ~Settled(t, S, x)
    BY <1>1
  <1>3. \A y \in SUBSET S : y \subseteq x /\ y # x => Settled(t, S, y)
    BY <1>1
  <1> HIDE DEF Bad
  <1> DEFINE h == [s \in SUBSET x |->
                     IF s = x
                     THEN IF x = {} THEN 0 ELSE t[Pick(x)].delta + SumOf(t, x \ {Pick(x)})
                     ELSE SumOf(t, s)]
  <1>4. ASSUME NEW s \in SUBSET x PROVE h[s] = OneMore(h, t, s)
    <2>1. CASE s = x
      BY <2>1, PickSmaller DEF OneMore
    <2>2. CASE s # x
      <3>1. Settled(t, S, s) /\ \A y \in SUBSET S : y \subseteq s /\ y # s => Settled(t, S, y)
        BY <1>2, <1>3, <2>2
      <3>2. SumOf(t, s) = IF s = {} THEN 0 ELSE t[Pick(s)].delta + SumOf(t, s \ {Pick(s)})
        <4>1. s \in SUBSET S /\ \E f : Sums(f, t, s)
          BY <1>2, <3>1 DEF Settled
        <4> QED BY <3>1, <4>1, SumFromSmaller
      <3>3. s # {} => /\ s \ {Pick(s)} \in SUBSET x /\ s \ {Pick(s)} # x
                      /\ h[s \ {Pick(s)}] = SumOf(t, s \ {Pick(s)})
        BY <2>2, PickSmaller
      <3>4. h[s] = SumOf(t, s)
        BY <2>2
      <3> HIDE DEF h
      <3> QED BY <3>2, <3>3, <3>4 DEF OneMore
    <2> QED BY <2>1, <2>2
  <1>5. h = [s \in SUBSET x |-> OneMore(h, t, s)]
    <2>1. h = [s \in SUBSET x |-> h[s]]
      OBVIOUS
    <2> HIDE DEF h
    <2> QED BY <1>4, <2>1
  <1> HIDE DEF h
  <1>6. Sums(h, t, x)
    BY <1>5 DEF Sums, OneMore
  <1>7. SumOf(t, x) = IF x = {} THEN 0 ELSE t[Pick(x)].delta + SumOf(t, x \ {Pick(x)})
    BY <1>2, <1>3, <1>6, SumFromSmaller
  <1>8. ASSUME NEW u \in SUBSET S, NEW f, x \subseteq u, Sums(f, t, u)
        PROVE  f[x] = SumOf(t, x)
    <2>1. f[x] = OneMore(f, t, x)
      BY <1>8, SumsAt
    <2>2. x # {} => f[x \ {Pick(x)}] = SumOf(t, x \ {Pick(x)})
      BY <1>2, <1>3, <1>8, PickSmaller DEF Settled
    <2> QED BY <1>7, <2>1, <2>2 DEF OneMore
  <1> QED BY <1>2, <1>6, <1>8 DEF Settled

\* A sum over a finite set is an element's delta and the sum over the rest.
LEMMA SumStep ==
    ASSUME NEW t, NEW s, IsFiniteSet(s)
    PROVE  SumOf(t, s)
             = IF s = {} THEN 0 ELSE t[Pick(s)].delta + SumOf(t, s \ {Pick(s)})
  <1>1. s \in SUBSET s /\ \A y \in SUBSET s : Settled(t, s, y)
    BY AllSettled
  <1>2. \E f : Sums(f, t, s)
    BY <1>1 DEF Settled
  <1> QED BY <1>1, <1>2, SumFromSmaller

LEMMA SumInt ==
    ASSUME NEW t, NEW S, IsFiniteSet(S), \A i \in S : t[i].delta \in Int
    PROVE  \A s \in SUBSET S : SumOf(t, s) \in Int
  <1> DEFINE Bad == {s \in SUBSET S : SumOf(t, s) \notin Int}
  <1> SUFFICES ASSUME Bad # {} PROVE FALSE
    OBVIOUS
  <1>1. PICK x \in Bad : \A y \in Bad : ~(y \subseteq x /\ y # x)
    <2>1. Bad \in SUBSET (SUBSET S)
      OBVIOUS
    <2> HIDE DEF Bad
    <2> QED BY <2>1, MinimalSet
  <1>2. x \in SUBSET S /\ IsFiniteSet(x) /\ SumOf(t, x) \notin Int
    BY <1>1, FS_Subset
  <1>3. SumOf(t, x) = IF x = {} THEN 0 ELSE t[Pick(x)].delta + SumOf(t, x \ {Pick(x)})
    BY <1>2, SumStep
  <1>4. x # {} => x \ {Pick(x)} \notin Bad /\ x \ {Pick(x)} \in SUBSET S
    BY <1>1, PickSmaller
  <1>5. x # {} => SumOf(t, x \ {Pick(x)}) \in Int
    BY <1>4
  <1>6. x # {} => t[Pick(x)].delta \in Int
    BY <1>2, PickSmaller
  <1> QED BY <1>2, <1>3, <1>5, <1>6

\* Any element will do.
LEMMA SumAny ==
    ASSUME NEW t, NEW S, IsFiniteSet(S), \A i \in S : t[i].delta \in Int
    PROVE  \A s \in SUBSET S : \A e \in s : SumOf(t, s) = t[e].delta + SumOf(t, s \ {e})
  <1> DEFINE Bad == {s \in SUBSET S :
                       \E e \in s : SumOf(t, s) # t[e].delta + SumOf(t, s \ {e})}
  <1> SUFFICES ASSUME Bad # {} PROVE FALSE
    OBVIOUS
  <1>1. PICK x \in Bad : \A y \in Bad : ~(y \subseteq x /\ y # x)
    <2>1. Bad \in SUBSET (SUBSET S)
      OBVIOUS
    <2> HIDE DEF Bad
    <2> QED BY <2>1, MinimalSet
  <1>2. PICK e \in x : SumOf(t, x) # t[e].delta + SumOf(t, x \ {e})
    BY <1>1
  <1> DEFINE c == Pick(x)
  <1>3. x \in SUBSET S /\ IsFiniteSet(x) /\ x # {} /\ c \in x
    BY <1>1, <1>2, FS_Subset, PickSmaller
  <1>4. SumOf(t, x) = t[c].delta + SumOf(t, x \ {c})
    BY <1>3, SumStep
  <1>5. c # e
    BY <1>2, <1>4
  <1>6. \A y \in SUBSET S : y \subseteq x /\ y # x
           => \A d \in y : SumOf(t, y) = t[d].delta + SumOf(t, y \ {d})
    BY <1>1
  <1> HIDE DEF c, Bad
  <1>7. /\ x \ {c} \in SUBSET S /\ x \ {c} # x /\ x \ {c} \subseteq x /\ e \in x \ {c}
        /\ x \ {e} \in SUBSET S /\ x \ {e} # x /\ x \ {e} \subseteq x /\ c \in x \ {e}
    BY <1>3, <1>5
  <1>8. SumOf(t, x \ {c}) = t[e].delta + SumOf(t, (x \ {c}) \ {e})
    BY <1>6, <1>7
  <1>9. SumOf(t, x \ {e}) = t[c].delta + SumOf(t, (x \ {e}) \ {c})
    BY <1>6, <1>7
  <1>10. (x \ {e}) \ {c} = (x \ {c}) \ {e} /\ (x \ {e}) \ {c} \in SUBSET S
    BY <1>3
  <1>11. SumOf(t, (x \ {e}) \ {c}) \in Int /\ t[e].delta \in Int /\ t[c].delta \in Int
    BY <1>3, <1>10, SumInt
  <1> DEFINE rest == SumOf(t, (x \ {e}) \ {c})
  <1>12. /\ SumOf(t, x) = t[c].delta + (t[e].delta + rest)
         /\ SumOf(t, x \ {e}) = t[c].delta + rest
    BY <1>4, <1>8, <1>9, <1>10
  <1> HIDE DEF rest
  <1> QED
    <2>1. rest \in Int /\ t[e].delta \in Int /\ t[c].delta \in Int
      BY <1>11 DEF rest
    <2>2. t[c].delta + (t[e].delta + rest) = t[e].delta + (t[c].delta + rest)
      BY <2>1
    <2> QED BY <1>2, <1>12, <2>2

\* A sum looks at nothing but the deltas it adds up.
LEMMA SumSame ==
    ASSUME NEW t, NEW u, NEW S, IsFiniteSet(S), \A i \in S : t[i].delta = u[i].delta
    PROVE  \A s \in SUBSET S : SumOf(t, s) = SumOf(u, s)
  <1> DEFINE Bad == {s \in SUBSET S : SumOf(t, s) # SumOf(u, s)}
  <1> SUFFICES ASSUME Bad # {} PROVE FALSE
    OBVIOUS
  <1>1. PICK x \in Bad : \A y \in Bad : ~(y \subseteq x /\ y # x)
    <2>1. Bad \in SUBSET (SUBSET S)
      OBVIOUS
    <2> HIDE DEF Bad
    <2> QED BY <2>1, MinimalSet
  <1>2. x \in SUBSET S /\ IsFiniteSet(x) /\ SumOf(t, x) # SumOf(u, x)
    BY <1>1, FS_Subset
  <1>3. /\ SumOf(t, x) = IF x = {} THEN 0 ELSE t[Pick(x)].delta + SumOf(t, x \ {Pick(x)})
        /\ SumOf(u, x) = IF x = {} THEN 0 ELSE u[Pick(x)].delta + SumOf(u, x \ {Pick(x)})
    BY <1>2, SumStep
  <1>4. x # {} => x \ {Pick(x)} \notin Bad /\ x \ {Pick(x)} \in SUBSET S
    BY <1>1, PickSmaller
  <1>5. x # {} => SumOf(t, x \ {Pick(x)}) = SumOf(u, x \ {Pick(x)})
    BY <1>4
  <1>6. x # {} => t[Pick(x)].delta = u[Pick(x)].delta
    BY <1>2, PickSmaller
  <1> QED BY <1>2, <1>3, <1>5, <1>6

-----------------------------------------------------------------------------
\* What an event records lies between nothing and what was asked for.
FairEvent(e) ==
    \/ 0 <= e.delta /\ e.delta <= e.asked
    \/ e.asked <= e.delta /\ e.delta <= 0

FairEvents(s) == \A i \in DOMAIN s : FairEvent(s[i])

\* The inductive invariant: rows and copies are on the rails, and no session
\* is about to write a sum or an event that exaggerates.
LedgerInv ==
    /\ emp \in Row
    /\ trail \in Seq(Event)
    /\ op \in [Sessions -> Ops]
    /\ loaded \in [Sessions -> Row]
    /\ mem \in [Sessions -> Row]
    /\ pending \in [Sessions -> Seq(Event)]
    /\ about \in [Sessions -> Nat]
    /\ verdict \in [Sessions -> Verdict]
    /\ crashes \in Nat
    /\ errors \in Nat
    /\ FairEvents(trail)
    /\ \A r \in Sessions : FairEvents(pending[r])

\* The rails: clamping keeps a score on them.
LEMMA ClampRange == ASSUME NEW s \in Int PROVE Clamp(s) \in 0..Top
  BY RiskLedgerAssumption DEF Clamp

\* The delta apply_event records never exceeds the requested one, nor has the
\* opposite sign, whatever the weight.
LEMMA AppliedIsFair ==
    ASSUME NEW row \in Row, NEW change \in Int
    PROVE  /\ Applied(row, change) \in Int
           /\ row.score + Applied(row, change) \in 0..Top
           /\ \/ 0 <= Applied(row, change) /\ Applied(row, change) <= change
              \/ change <= Applied(row, change) /\ Applied(row, change) <= 0
  BY RiskLedgerAssumption DEF Applied, Clamp, Row

\* apply_event takes a row on the rails to one on the rails.
LEMMA MovedRow ==
    ASSUME NEW row \in Row, NEW kind \in Kinds, NEW change \in Int
    PROVE  Moved(row, kind, change) \in Row
  <1> DEFINE d == Applied(row, change)
  <1>1. d \in Int /\ row.score + d \in 0..Top
    BY AppliedIsFair
  <1>2. row.behaviour \in 0..Top /\ row.credit \in Int
    BY DEF Row
  <1>3. row.behaviour + d \in Int /\ row.credit + d \in Int
    BY <1>1, <1>2, RiskLedgerAssumption
  <1>4. Clamp(row.behaviour + d) \in 0..Top
    BY <1>3, ClampRange
  <1> HIDE DEF d
  <1>5. Moved(row, kind, change)
          = [score |-> row.score + d,
             behaviour |-> IF kind \in BEHAVIOUR_EVENTS
                           THEN Clamp(row.behaviour + d) ELSE row.behaviour,
             credit |-> IF kind \in BEHAVIOUR_EVENTS
                        THEN row.credit ELSE row.credit + d]
    BY DEF Moved, d
  <1> QED BY <1>1, <1>2, <1>3, <1>4, <1>5 DEF Row

LEMMA NewEventFair ==
    ASSUME NEW row \in Row, NEW kind \in Kinds, NEW change \in Int
    PROVE  NewEvent(row, kind, change) \in Event /\ FairEvent(NewEvent(row, kind, change))
  <1>1. Applied(row, change) \in Int
    BY AppliedIsFair
  <1>2. NewEvent(row, kind, change) \in Event
    BY <1>1 DEF NewEvent, Event
  <1>3. /\ NewEvent(row, kind, change).delta = Applied(row, change)
        /\ NewEvent(row, kind, change).asked = change
    BY DEF NewEvent
  <1> QED BY <1>2, <1>3, AppliedIsFair DEF FairEvent

LEMMA AppendFair ==
    ASSUME NEW s \in Seq(Event), FairEvents(s), NEW e \in Event, FairEvent(e)
    PROVE  Append(s, e) \in Seq(Event) /\ FairEvents(Append(s, e))
  <1>1. ASSUME NEW i \in DOMAIN Append(s, e) PROVE FairEvent(Append(s, e)[i])
    BY DEF FairEvents
  <1> QED BY <1>1 DEF FairEvents

LEMMA ConcatFair ==
    ASSUME NEW s \in Seq(Event), NEW t \in Seq(Event), FairEvents(s), FairEvents(t)
    PROVE  s \o t \in Seq(Event) /\ FairEvents(s \o t)
  <1>1. ASSUME NEW i \in DOMAIN (s \o t) PROVE FairEvent((s \o t)[i])
    <2>1. i \in 1..(Len(s) + Len(t))
      OBVIOUS
    <2>2. CASE i <= Len(s)
      BY <2>1, <2>2 DEF FairEvents
    <2>3. CASE i > Len(s)
      <3>1. (s \o t)[i] = t[i - Len(s)] /\ i - Len(s) \in DOMAIN t
        BY <2>1, <2>3
      <3> QED BY <3>1 DEF FairEvents
    <2> QED BY <2>1, <2>2, <2>3
  <1> QED BY <1>1 DEF FairEvents

\* A commit leaves a row on the rails, whichever of its columns it writes.
LEMMA WriteBackRow ==
    ASSUME emp \in Row, NEW r \in Sessions, mem[r] \in Row, WriteBack(r)
    PROVE  emp' \in Row
  <1>1. DOMAIN emp = {"score", "behaviour", "credit"}
    BY DEF Row
  <1>2. emp' = [c \in {"score", "behaviour", "credit"} |->
                  IF mem[r][c] = loaded[r][c] THEN emp[c] ELSE mem[r][c]]
    BY <1>1 DEF WriteBack
  <1>3. emp'.score \in 0..Top /\ emp'.behaviour \in 0..Top /\ emp'.credit \in Int
    BY <1>2 DEF Row
  <1>4. emp' = [score |-> emp'.score, behaviour |-> emp'.behaviour, credit |-> emp'.credit]
    BY <1>2
  <1> QED BY <1>3, <1>4 DEF Row

LEMMA NoVerdictType == NoVerdict \in Verdict
  BY DEF NoVerdict, Verdict

LEMMA BlankRow == Blank \in Row
  BY RiskLedgerAssumption DEF Blank, Row

\* What Hold leaves behind.
LEMMA HoldKeeps ==
    ASSUME LedgerInv, NEW r \in Sessions, NEW o \in Ops,
           NEW row \in Row, NEW i \in Nat, NEW v \in Verdict, Hold(r, o, row, i, v),
           emp' \in Row, trail' \in Seq(Event), FairEvents(trail'),
           crashes' \in Nat, errors' \in Nat
    PROVE  LedgerInv'
  <1>1. <<>> \in Seq(Event) /\ FairEvents(<<>>)
    BY DEF FairEvents
  <1>2. pending' = [pending EXCEPT ![r] = <<>>]
    BY DEF Hold
  <1>3. pending' \in [Sessions -> Seq(Event)]
    BY <1>1, <1>2 DEF LedgerInv
  <1>4. ASSUME NEW s \in Sessions PROVE FairEvents(pending'[s])
    BY <1>1, <1>2 DEF LedgerInv
  <1>5. /\ op' \in [Sessions -> Ops]
        /\ loaded' \in [Sessions -> Row] /\ mem' \in [Sessions -> Row]
        /\ about' \in [Sessions -> Nat] /\ verdict' \in [Sessions -> Verdict]
    BY DEF Hold, LedgerInv
  <1> QED BY <1>3, <1>4, <1>5 DEF LedgerInv, FairEvents, FairEvent

LEMMA LedgerInit == Init => LedgerInv
  <1> SUFFICES ASSUME Init PROVE LedgerInv
    OBVIOUS
  <1>1. <<>> \in Seq(Event) /\ FairEvents(<<>>)
    BY DEF FairEvents
  <1>2. emp \in Row
    BY RiskLedgerAssumption DEF Init, Row
  <1> QED BY <1>1, <1>2, BlankRow, NoVerdictType DEF Init, LedgerInv, Ops

LEMMA SignalKeeps ==
    ASSUME LedgerInv, NEW r \in Sessions, Signal(r)
    PROVE  LedgerInv'
  <1>0. /\ 0 \in Nat /\ NoVerdict \in Verdict /\ {"idle", "signal"} \subseteq Ops
        /\ emp \in Row /\ trail \in Seq(Event) /\ FairEvents(trail)
        /\ crashes \in Nat /\ errors \in Nat
    BY NoVerdictType DEF LedgerInv, Ops
  <1>1. CASE LoadEmployee(r)
    <2>1. /\ Hold(r, "signal", emp, 0, NoVerdict)
          /\ emp' = emp /\ trail' = trail /\ crashes' = crashes /\ errors' = errors
      BY <1>1 DEF LoadEmployee, env
    <2> QED BY <1>0, <2>1, HoldKeeps DEF FairEvents
  <1>2. CASE ApplyEvent(r)
    <2>0. PICK kind \in Kinds : \E change \in Change[kind] :
             /\ pending' = [pending EXCEPT ![r] = Append(@, NewEvent(mem[r], kind, change))]
             /\ mem' = [mem EXCEPT ![r] = Moved(mem[r], kind, change)]
      BY <1>2 DEF ApplyEvent
    <2>1. PICK change \in Change[kind] :
             /\ pending' = [pending EXCEPT ![r] = Append(@, NewEvent(mem[r], kind, change))]
             /\ mem' = [mem EXCEPT ![r] = Moved(mem[r], kind, change)]
      BY <2>0
    <2>2. change \in Int /\ mem[r] \in Row /\ pending[r] \in Seq(Event) /\ FairEvents(pending[r])
      BY RiskLedgerAssumption DEF LedgerInv
    <2> DEFINE new == NewEvent(mem[r], kind, change)
               row == Moved(mem[r], kind, change)
    <2>3. row \in Row
      BY <2>2, MovedRow
    <2>4. new \in Event /\ FairEvent(new)
      BY <2>2, NewEventFair
    <2> HIDE DEF new, row
    <2>5. Append(pending[r], new) \in Seq(Event) /\ FairEvents(Append(pending[r], new))
      BY <2>2, <2>4, AppendFair
    <2>6. pending' = [pending EXCEPT ![r] = Append(pending[r], new)]
          /\ mem' = [mem EXCEPT ![r] = row]
      BY <2>1 DEF new, row
    <2>7. pending' \in [Sessions -> Seq(Event)] /\ mem' \in [Sessions -> Row]
      BY <2>3, <2>5, <2>6 DEF LedgerInv
    <2>8. ASSUME NEW s \in Sessions PROVE FairEvents(pending'[s])
      BY <2>5, <2>6 DEF LedgerInv
    <2> QED BY <1>2, <2>7, <2>8 DEF ApplyEvent, LedgerInv, FairEvents, FairEvent, env
  <1>3. CASE CommitSignals(r)
    <2>1. /\ trail' = trail \o pending[r] /\ WriteBack(r)
          /\ Hold(r, "idle", Blank, 0, NoVerdict) /\ crashes' = crashes /\ errors' = errors
      BY <1>3 DEF CommitSignals, Close, env
    <2>2. emp' \in Row
      BY <2>1, WriteBackRow DEF LedgerInv
    <2>3. trail' \in Seq(Event) /\ FairEvents(trail')
      BY <2>1, ConcatFair DEF LedgerInv
    <2> QED BY <1>0, <2>1, <2>2, <2>3, BlankRow, HoldKeeps
  <1> QED BY <1>1, <1>2, <1>3 DEF Signal

\* Contesting an event changes none of its numbers.
LEMMA ContestKeeps ==
    ASSUME LedgerInv, NEW r \in Sessions, Contest(r)
    PROVE  LedgerInv'
  <1>0. /\ 0 \in Nat /\ NoVerdict \in Verdict /\ {"idle", "contest"} \subseteq Ops
        /\ emp \in Row /\ trail \in Seq(Event) /\ FairEvents(trail)
        /\ crashes \in Nat /\ errors \in Nat
    BY NoVerdictType DEF LedgerInv, Ops
  <1>1. CASE LoadContest(r)
    <2>1. PICK i \in DOMAIN trail : Hold(r, "contest", Blank, i, NoVerdict)
      BY <1>1 DEF LoadContest
    <2>2. i \in Nat
      BY <1>0, <2>1
    <2>3. emp' = emp /\ trail' = trail /\ crashes' = crashes /\ errors' = errors
      BY <1>1 DEF LoadContest, env
    <2> QED BY <1>0, <2>1, <2>2, <2>3, BlankRow, HoldKeeps DEF FairEvents
  <1>2. CASE CommitContest(r)
    <2>1. /\ trail' = [trail EXCEPT ![about[r]].contested = TRUE]
          /\ Hold(r, "idle", Blank, 0, NoVerdict)
          /\ emp' = emp /\ crashes' = crashes /\ errors' = errors
      BY <1>2 DEF CommitContest, Close, env
    <2>2. ASSUME NEW i \in DOMAIN trail
          PROVE  trail'[i] \in Event /\ (FairEvent(trail[i]) => FairEvent(trail'[i]))
      <3>1. trail[i] \in Event
        BY <1>0
      <3>2. trail'[i] = trail[i] \/ trail'[i] = [trail[i] EXCEPT !.contested = TRUE]
        BY <1>0, <2>1
      <3> QED BY <3>1, <3>2 DEF Event, FairEvent
    <2>3. trail' \in Seq(Event)
      <3>1. DOMAIN trail' = DOMAIN trail
        BY <2>1
      <3>2. trail \in [1..Len(trail) -> Event] /\ Len(trail) \in Nat
        BY <1>0
      <3>3. trail' \in [1..Len(trail) -> Event]
        BY <2>1, <2>2, <3>1, <3>2
      <3> QED BY <3>2, <3>3, SeqDef
    <2>4. FairEvents(trail')
      BY <1>0, <2>1, <2>2 DEF FairEvents
    <2> QED BY <1>0, <2>1, <2>3, <2>4, BlankRow, HoldKeeps
  <1> QED BY <1>1, <1>2 DEF Contest

LEMMA SessionEndKeeps ==
    ASSUME LedgerInv, Restart \/ \E r \in Sessions : SessionFails(r)
    PROVE  LedgerInv'
  <1>0. /\ 0 \in Nat /\ NoVerdict \in Verdict /\ "idle" \in Ops
        /\ emp \in Row /\ trail \in Seq(Event) /\ FairEvents(trail)
        /\ crashes \in Nat /\ errors \in Nat
    BY NoVerdictType DEF LedgerInv, Ops
  <1>1. CASE \E r \in Sessions : SessionFails(r)
    <2>1. PICK r \in Sessions : SessionFails(r)
      BY <1>1
    <2>2. /\ Hold(r, "idle", Blank, 0, NoVerdict) /\ emp' = emp /\ trail' = trail
          /\ crashes' \in Nat /\ errors' \in Nat
      BY <1>0, <2>1 DEF SessionFails, Close
    <2> QED BY <1>0, <2>2, BlankRow, HoldKeeps DEF FairEvents
  <1>2. CASE Restart
    <2>1. <<>> \in Seq(Event) /\ FairEvents(<<>>)
      BY DEF FairEvents
    <2>2. /\ emp' = emp /\ trail' = trail /\ crashes' \in Nat /\ errors' \in Nat
          /\ \A r \in Sessions : pending'[r] = <<>>
      BY <1>0, <1>2 DEF Restart
    <2>3. \A r \in Sessions : FairEvents(pending'[r])
      BY <2>1, <2>2
    <2> QED BY <1>0, <1>2, <2>1, <2>2, <2>3, BlankRow
        DEF Restart, LedgerInv, FairEvents, FairEvent
  <1> QED BY <1>1, <1>2

\* Every sum over events of the trail is an integer.
LEMMA TotalInt ==
    ASSUME trail \in Seq(Event), NEW kinds
    PROVE  Total(Live(kinds)) \in Int
  <1>1. IsFiniteSet(DOMAIN trail) /\ \A i \in DOMAIN trail : trail[i].delta \in Int
    <2>1. DOMAIN trail = 1..Len(trail) /\ Len(trail) \in Nat
      OBVIOUS
    <2>2. \A i \in DOMAIN trail : trail[i] \in Event
      OBVIOUS
    <2> QED BY <2>1, <2>2, FS_Interval DEF Event
  <1>2. Live(kinds) \in SUBSET DOMAIN trail
    BY DEF Live
  <1>3. SumOf(trail, Live(kinds)) \in Int
    BY <1>1, <1>2, SumInt
  <1> QED BY <1>3 DEF Total, SumOf

\* recompute_score puts the row on the rails, whatever was withdrawn.
LEMMA RecomputedRow ==
    ASSUME trail \in Seq(Event)
    PROVE  Recomputed \in Row
  <1> DEFINE all == Total(Live(Kinds))
             behaviour == Total(Live(BEHAVIOUR_EVENTS))
             credit == Total(Live(ENGAGEMENT_EVENTS))
  <1>1. all \in Int /\ behaviour \in Int /\ credit \in Int
    BY TotalInt
  <1>2. Recomputed = [score |-> Clamp(Base + all), behaviour |-> Clamp(Base + behaviour),
                      credit |-> credit]
    BY DEF Recomputed
  <1> HIDE DEF all, behaviour, credit
  <1>3. Clamp(Base + all) \in 0..Top /\ Clamp(Base + behaviour) \in 0..Top
    BY <1>1, RiskLedgerAssumption, ClampRange
  <1> QED BY <1>1, <1>2, <1>3 DEF Row

\* What the first commit of an answer does to the trail: no number changes,
\* and the event it answers is withdrawn if that is the answer.
LEMMA AnswerOnTrail ==
    ASSUME LedgerInv, NEW r \in Sessions, CommitResolution(r)
    PROVE  /\ trail' \in Seq(Event)
           /\ DOMAIN trail' = DOMAIN trail
           /\ \A i \in DOMAIN trail :
                 /\ trail'[i].kind = trail[i].kind
                 /\ trail'[i].asked = trail[i].asked
                 /\ trail'[i].delta = trail[i].delta
                 /\ i # about[r] => trail'[i] = trail[i]
                 /\ i = about[r] =>
                       /\ trail'[i].answered = verdict[r].said
                       /\ trail'[i].revoked = (trail[i].revoked \/ verdict[r].revoke)
  <1> DEFINE gone(i) == trail[i].revoked \/ verdict[r].revoke
  <1>1. trail' = [trail EXCEPT ![about[r]].answered = verdict[r].said,
                               ![about[r]].revoked = @ \/ verdict[r].revoke]
    BY DEF CommitResolution
  <1>2. /\ trail \in [1..Len(trail) -> Event] /\ Len(trail) \in Nat
        /\ DOMAIN trail = 1..Len(trail) /\ verdict[r].said \in BOOLEAN
    BY DEF LedgerInv, Verdict
  <1>3. DOMAIN trail' = DOMAIN trail
    BY <1>1
  <1>4. ASSUME NEW i \in DOMAIN trail, i = about[r]
        PROVE  trail'[i] = [trail[i] EXCEPT !.answered = verdict[r].said, !.revoked = gone(i)]
    BY <1>1, <1>4 DEF Event
  <1>5. ASSUME NEW i \in DOMAIN trail, i # about[r]
        PROVE  trail'[i] = trail[i]
    BY <1>1, <1>5
  <1>6. ASSUME NEW i \in DOMAIN trail, i = about[r]
        PROVE  /\ trail'[i] \in Event
               /\ trail'[i].kind = trail[i].kind /\ trail'[i].asked = trail[i].asked
               /\ trail'[i].delta = trail[i].delta
               /\ trail'[i].answered = verdict[r].said /\ (trail'[i].revoked = gone(i))
    <2>1. gone(i) \in BOOLEAN
      OBVIOUS
    <2>2. trail[i] \in Event
      BY <1>2
    <2> HIDE DEF gone
    <2> QED BY <1>2, <1>4, <1>6, <2>1, <2>2 DEF Event
  <1>7. \A i \in DOMAIN trail : trail'[i] \in Event
    BY <1>2, <1>5, <1>6
  <1>8. trail' \in [1..Len(trail) -> Event]
    BY <1>1, <1>2, <1>3, <1>7
  <1>9. trail' \in Seq(Event)
    BY <1>2, <1>8, SeqDef
  <1> QED BY <1>3, <1>5, <1>6, <1>9

LEMMA ResolveKeeps ==
    ASSUME LedgerInv, NEW r \in Sessions, Resolve(r)
    PROVE  LedgerInv'
  <1>0. /\ 0 \in Nat /\ NoVerdict \in Verdict
        /\ {"idle", "resolve", "revoked", "summed"} \subseteq Ops
        /\ emp \in Row /\ trail \in Seq(Event) /\ FairEvents(trail)
        /\ crashes \in Nat /\ errors \in Nat /\ loaded[r] \in Row
    BY NoVerdictType DEF LedgerInv, Ops
  <1>1. CASE LoadResolution(r)
    <2>1. PICK i \in DOMAIN trail : \E v \in Verdict : Hold(r, "resolve", emp, i, v)
      BY <1>1 DEF LoadResolution
    <2>2. PICK v \in Verdict : Hold(r, "resolve", emp, i, v)
      BY <2>1
    <2>3. i \in Nat
      BY <1>0, <2>1
    <2>4. emp' = emp /\ trail' = trail /\ crashes' = crashes /\ errors' = errors
      BY <1>1 DEF LoadResolution, env
    <2> QED BY <1>0, <2>2, <2>3, <2>4, HoldKeeps DEF FairEvents
  <1>2. CASE CommitResolution(r)
    <2>1. emp' = emp /\ crashes' = crashes /\ errors' = errors
      BY <1>2 DEF CommitResolution, env
    <2>2. \/ Hold(r, "revoked", loaded[r], 0, NoVerdict)
          \/ Hold(r, "idle", Blank, 0, NoVerdict)
      BY <1>2 DEF CommitResolution, Close
    <2>3. trail' \in Seq(Event)
      BY <1>2, AnswerOnTrail
    <2>4. FairEvents(trail')
      BY <1>0, <1>2, AnswerOnTrail DEF FairEvents, FairEvent
    <2> QED BY <1>0, <2>1, <2>2, <2>3, <2>4, BlankRow, HoldKeeps
  <1>3. CASE SumTrail(r)
    <2>1. Recomputed \in Row
      BY <1>0, RecomputedRow
    <2>2. mem' = [mem EXCEPT ![r] = Recomputed] /\ op' = [op EXCEPT ![r] = "summed"]
      BY <1>3 DEF SumTrail
    <2>3. mem' \in [Sessions -> Row] /\ op' \in [Sessions -> Ops]
      BY <1>0, <2>1, <2>2 DEF LedgerInv
    <2>4. UNCHANGED <<emp, trail, loaded, pending, about, verdict, crashes, errors>>
      BY <1>3 DEF SumTrail, env
    <2> QED BY <2>3, <2>4 DEF LedgerInv, FairEvents, FairEvent
  <1>4. CASE CommitRecompute(r)
    <2>1. /\ WriteBack(r) /\ Hold(r, "idle", Blank, 0, NoVerdict)
          /\ trail' = trail /\ crashes' = crashes /\ errors' = errors
      BY <1>4 DEF CommitRecompute, Close, env
    <2>2. emp' \in Row
      BY <2>1, WriteBackRow DEF LedgerInv
    <2> QED BY <1>0, <2>1, <2>2, BlankRow, HoldKeeps DEF FairEvents
  <1> QED BY <1>1, <1>2, <1>3, <1>4 DEF Resolve

LEMMA LedgerStep == LedgerInv /\ [Next]_vars => LedgerInv'
  <1> SUFFICES ASSUME LedgerInv, [Next]_vars PROVE LedgerInv'
    OBVIOUS
  <1>1. CASE \E r \in Sessions : Signal(r) \/ Contest(r) \/ Resolve(r)
    BY <1>1, SignalKeeps, ContestKeeps, ResolveKeeps
  <1>2. CASE Restart \/ \E r \in Sessions : SessionFails(r)
    BY <1>2, SessionEndKeeps
  <1>3. CASE UNCHANGED vars
    BY <1>3 DEF vars, sess, env, LedgerInv, FairEvents, FairEvent
  <1> QED BY <1>1, <1>2, <1>3 DEF Next

LEMMA LedgerInductive == Spec => []LedgerInv
  BY LedgerInit, LedgerStep, PTL DEF Spec

\* Every score and every copy of one stays between the rails, whatever the
\* weights and whatever is withdrawn (clamp, apply_event, recompute_score).
THEOREM LedgerTyping == Spec => []TypeOK
  <1>1. LedgerInv => TypeOK
    BY DEF LedgerInv, TypeOK
  <1> QED BY <1>1, LedgerInductive, PTL

\* However many sessions work on a stale copy of the row, no event on record
\* exceeds the signal it stands for or points the other way (apply_event).
THEOREM NothingExaggerated == Spec => []NeverExaggerates
  <1>1. LedgerInv => NeverExaggerates
    BY DEF LedgerInv, FairEvents, FairEvent, NeverExaggerates
  <1> QED BY <1>1, LedgerInductive, PTL

-----------------------------------------------------------------------------
\* No event of t has been withdrawn.
Unrevoked(t) == \A i \in DOMAIN t : ~t[i].revoked

\* Evidence stands behind what session r does to behaviour_risk: an event it
\* will insert, or a withdrawal on record.
Evidenced(r) ==
    /\ op[r] = "resolve" => about[r] \in DOMAIN trail
    /\ op[r] \in {"revoked", "summed"} => ~Unrevoked(trail)
    /\ op[r] = "signal" /\ mem[r].behaviour # loaded[r].behaviour
         => \E j \in DOMAIN pending[r] : pending[r][j].kind \in BEHAVIOUR_EVENTS

EvidenceInv == \A r \in Sessions : Evidenced(r)

\* What Hold does to the session, and to the others.
LEMMA HoldAt ==
    ASSUME LedgerInv, NEW r \in Sessions, NEW o, NEW row, NEW i, NEW v,
           Hold(r, o, row, i, v)
    PROVE  /\ op'[r] = o /\ loaded'[r] = row /\ mem'[r] = row
           /\ pending'[r] = <<>> /\ about'[r] = i /\ verdict'[r] = v
           /\ \A s \in Sessions : s # r =>
                 /\ op'[s] = op[s] /\ loaded'[s] = loaded[s] /\ mem'[s] = mem[s]
                 /\ pending'[s] = pending[s] /\ about'[s] = about[s]
                 /\ verdict'[s] = verdict[s]
  BY DEF Hold, LedgerInv

\* The step that changes the trail and the row, seen by the other sessions.
TrailGrows ==
    /\ DOMAIN trail \subseteq DOMAIN trail'
    /\ \A i \in DOMAIN trail : trail[i].revoked => trail'[i].revoked

LEMMA OthersEvidenced ==
    ASSUME EvidenceInv, NEW s \in Sessions, TrailGrows,
           op'[s] = op[s], loaded'[s] = loaded[s], mem'[s] = mem[s],
           pending'[s] = pending[s], about'[s] = about[s]
    PROVE  Evidenced(s)'
  BY DEF EvidenceInv, Evidenced, TrailGrows, Unrevoked

LEMMA ContestOnTrail ==
    ASSUME LedgerInv, NEW r \in Sessions, CommitContest(r)
    PROVE  /\ DOMAIN trail' = DOMAIN trail
           /\ \A i \in DOMAIN trail :
                 /\ trail'[i].kind = trail[i].kind
                 /\ trail'[i].delta = trail[i].delta
                 /\ trail'[i].answered = trail[i].answered
                 /\ trail'[i].revoked = trail[i].revoked
  <1>1. trail' = [trail EXCEPT ![about[r]].contested = TRUE]
    BY DEF CommitContest
  <1>2. ASSUME NEW i \in DOMAIN trail
        PROVE  trail'[i] = trail[i] \/ trail'[i] = [trail[i] EXCEPT !.contested = TRUE]
    BY <1>1
  <1>3. \A i \in DOMAIN trail : trail[i] \in Event
    BY DEF LedgerInv
  <1> QED BY <1>1, <1>2, <1>3 DEF Event

LEMMA SignalsOnTrail ==
    ASSUME LedgerInv, NEW r \in Sessions, CommitSignals(r)
    PROVE  /\ DOMAIN trail \subseteq DOMAIN trail'
           /\ \A i \in DOMAIN trail : trail'[i] = trail[i]
           /\ \A j \in DOMAIN pending[r] :
                 /\ Len(trail) + j \in DOMAIN trail' \ DOMAIN trail
                 /\ trail'[Len(trail) + j] = pending[r][j]
  BY DEF CommitSignals, LedgerInv

\* A session that holds the row as it was loaded has moved nothing yet.
LEMMA HoldEvidenced ==
    ASSUME LedgerInv, EvidenceInv, NEW r \in Sessions, NEW o \in {"idle", "signal", "contest"},
           NEW row, NEW i, NEW v, Hold(r, o, row, i, v), TrailGrows
    PROVE  EvidenceInv'
  <1>1. Evidenced(r)'
    BY HoldAt DEF Evidenced
  <1>2. ASSUME NEW s \in Sessions, s # r PROVE Evidenced(s)'
    BY <1>2, HoldAt, OthersEvidenced
  <1> QED BY <1>1, <1>2 DEF EvidenceInv

LEMMA EvidenceStep == LedgerInv /\ EvidenceInv /\ [Next]_vars => EvidenceInv'
  <1> SUFFICES ASSUME LedgerInv, EvidenceInv, [Next]_vars PROVE EvidenceInv'
    OBVIOUS
  <1>0. trail' = trail => TrailGrows
    BY DEF TrailGrows
  <1>1. ASSUME NEW r \in Sessions, LoadEmployee(r) \/ LoadContest(r) \/ SessionFails(r)
        PROVE  EvidenceInv'
    <2>1. trail' = trail
      BY <1>1 DEF LoadEmployee, LoadContest, SessionFails
    <2>2. \E o \in {"idle", "signal", "contest"} : \E row, i, v : Hold(r, o, row, i, v)
      BY <1>1 DEF LoadEmployee, LoadContest, SessionFails, Close
    <2> QED BY <1>0, <2>1, <2>2, HoldEvidenced
  <1>2. ASSUME NEW r \in Sessions, ApplyEvent(r) PROVE EvidenceInv'
    <2>1. PICK kind \in Kinds : \E change \in Change[kind] :
             /\ pending' = [pending EXCEPT ![r] = Append(@, NewEvent(mem[r], kind, change))]
             /\ mem' = [mem EXCEPT ![r] = Moved(mem[r], kind, change)]
      BY <1>2 DEF ApplyEvent
    <2>2. PICK change \in Change[kind] :
             /\ pending' = [pending EXCEPT ![r] = Append(@, NewEvent(mem[r], kind, change))]
             /\ mem' = [mem EXCEPT ![r] = Moved(mem[r], kind, change)]
      BY <2>1
    <2>3. /\ UNCHANGED <<emp, trail, op, loaded, about>>
          /\ op[r] = "signal" /\ pending[r] \in Seq(Event)
      BY <1>2 DEF ApplyEvent, LedgerInv
    <2> DEFINE new == NewEvent(mem[r], kind, change)
    <2>4. pending'[r] = Append(pending[r], new) /\ mem'[r] = Moved(mem[r], kind, change)
      BY <2>2 DEF LedgerInv
    <2>5. new.kind = kind /\ (kind \notin BEHAVIOUR_EVENTS => mem'[r].behaviour = mem[r].behaviour)
      BY <2>4 DEF NewEvent, Moved
    <2> HIDE DEF new
    <2>6. mem'[r].behaviour # loaded'[r].behaviour
             => \E j \in DOMAIN pending'[r] : pending'[r][j].kind \in BEHAVIOUR_EVENTS
      <3>1. CASE kind \in BEHAVIOUR_EVENTS
        <4>1. Len(pending[r]) + 1 \in DOMAIN pending'[r]
              /\ pending'[r][Len(pending[r]) + 1] = new
          BY <2>3, <2>4
        <4> QED BY <2>5, <3>1, <4>1
      <3>2. CASE kind \notin BEHAVIOUR_EVENTS /\ mem[r].behaviour # loaded[r].behaviour
        <4>1. PICK j \in DOMAIN pending[r] : pending[r][j].kind \in BEHAVIOUR_EVENTS
          BY <2>3, <3>2 DEF EvidenceInv, Evidenced
        <4>2. j \in DOMAIN pending'[r] /\ pending'[r][j] = pending[r][j]
          BY <2>3, <2>4
        <4> QED BY <4>1, <4>2
      <3> QED BY <2>3, <2>5, <3>1, <3>2
    <2>7. Evidenced(r)'
      BY <2>3, <2>6 DEF Evidenced
    <2>8. ASSUME NEW s \in Sessions, s # r PROVE Evidenced(s)'
      <3>1. pending'[s] = pending[s] /\ mem'[s] = mem[s]
        BY <2>2, <2>8 DEF LedgerInv
      <3> QED BY <1>0, <2>3, <3>1, OthersEvidenced
    <2> QED BY <2>7, <2>8 DEF EvidenceInv
  <1>3. ASSUME NEW r \in Sessions, CommitSignals(r) \/ CommitContest(r) PROVE EvidenceInv'
    <2>1. TrailGrows
      BY <1>3, SignalsOnTrail, ContestOnTrail DEF TrailGrows
    <2>2. Hold(r, "idle", Blank, 0, NoVerdict)
      BY <1>3 DEF CommitSignals, CommitContest, Close
    <2> QED BY <2>1, <2>2, HoldEvidenced
  <1>4. ASSUME NEW r \in Sessions, LoadResolution(r) PROVE EvidenceInv'
    <2>1. PICK i \in DOMAIN trail : \E v : Hold(r, "resolve", emp, i, v)
      BY <1>4 DEF LoadResolution
    <2>2. PICK v : Hold(r, "resolve", emp, i, v)
      BY <2>1
    <2>3. trail' = trail
      BY <1>4 DEF LoadResolution
    <2>4. Evidenced(r)'
      BY <2>1, <2>2, <2>3, HoldAt DEF Evidenced
    <2>5. ASSUME NEW s \in Sessions, s # r PROVE Evidenced(s)'
      BY <1>0, <2>2, <2>3, <2>5, HoldAt, OthersEvidenced
    <2> QED BY <2>4, <2>5 DEF EvidenceInv
  <1>5. ASSUME NEW r \in Sessions, CommitResolution(r) PROVE EvidenceInv'
    <2>1. TrailGrows
      BY <1>5, AnswerOnTrail DEF TrailGrows
    <2>2. CASE Hold(r, "idle", Blank, 0, NoVerdict)
      BY <2>1, <2>2, HoldEvidenced
    <2>3. CASE verdict[r].revoke /\ Hold(r, "revoked", loaded[r], 0, NoVerdict)
      <3>1. about[r] \in DOMAIN trail
        BY <1>5 DEF CommitResolution, EvidenceInv, Evidenced
      <3>2. about[r] \in DOMAIN trail' /\ trail'[about[r]].revoked
        BY <1>5, <2>3, <3>1, AnswerOnTrail
      <3>3. Evidenced(r)'
        BY <2>3, <3>2, HoldAt DEF Evidenced, Unrevoked
      <3>4. ASSUME NEW s \in Sessions, s # r PROVE Evidenced(s)'
        BY <2>1, <2>3, <3>4, HoldAt, OthersEvidenced
      <3> QED BY <3>3, <3>4 DEF EvidenceInv
    <2> QED BY <1>5, <2>2, <2>3 DEF CommitResolution, Close
  <1>6. ASSUME NEW r \in Sessions, SumTrail(r) PROVE EvidenceInv'
    <2>1. /\ op[r] = "revoked" /\ op' = [op EXCEPT ![r] = "summed"]
          /\ mem' = [mem EXCEPT ![r] = Recomputed]
          /\ UNCHANGED <<trail, loaded, pending, about>>
      BY <1>6 DEF SumTrail
    <2>2. Evidenced(r)'
      BY <2>1 DEF EvidenceInv, Evidenced, LedgerInv
    <2>3. ASSUME NEW s \in Sessions, s # r PROVE Evidenced(s)'
      <3>1. op'[s] = op[s] /\ mem'[s] = mem[s]
        BY <2>1, <2>3 DEF LedgerInv
      <3> QED BY <1>0, <2>1, <3>1, OthersEvidenced
    <2> QED BY <2>2, <2>3 DEF EvidenceInv
  <1>7. ASSUME NEW r \in Sessions, CommitRecompute(r) PROVE EvidenceInv'
    <2>1. trail' = trail /\ Hold(r, "idle", Blank, 0, NoVerdict)
      BY <1>7 DEF CommitRecompute, Close
    <2> QED BY <1>0, <2>1, HoldEvidenced
  <1>8. CASE Restart
    BY <1>8 DEF Restart, EvidenceInv, Evidenced
  <1>9. CASE UNCHANGED vars
    BY <1>9 DEF vars, sess, EvidenceInv, Evidenced, Unrevoked
  <1> QED BY <1>1, <1>2, <1>3, <1>4, <1>5, <1>6, <1>7, <1>8, <1>9
      DEF Next, Signal, Contest, Resolve

LEMMA EvidenceInductive == Spec => [](LedgerInv /\ EvidenceInv)
  <1>1. Init => EvidenceInv
    BY DEF Init, EvidenceInv, Evidenced
  <1> QED BY <1>1, LedgerInit, LedgerStep, EvidenceStep, PTL DEF Spec

\* A commit changes a column only to what the session made of its copy.
LEMMA WrittenColumn ==
    ASSUME LedgerInv, NEW r \in Sessions, WriteBack(r)
    PROVE  /\ emp'.score = IF mem[r].score = loaded[r].score THEN emp.score ELSE mem[r].score
           /\ emp'.behaviour = IF mem[r].behaviour = loaded[r].behaviour
                               THEN emp.behaviour ELSE mem[r].behaviour
           /\ emp'.credit = IF mem[r].credit = loaded[r].credit
                            THEN emp.credit ELSE mem[r].credit
  <1>1. DOMAIN emp = {"score", "behaviour", "credit"}
    BY DEF LedgerInv, Row
  <1> QED BY <1>1 DEF WriteBack

\* However many sessions hold stale copies of the row, and whatever they
\* commit in between, behaviour_risk moves only with new evidence or after a
\* withdrawal (apply_event, and the columns a commit writes).
THEOREM BehaviourMovesOnEvidence == Spec => BehaviourIsEvidence
  <1> DEFINE Backed ==
        (emp'.behaviour # emp.behaviour /\ \A i \in DOMAIN trail' : ~trail'[i].revoked)
          => \E i \in DOMAIN trail' \ DOMAIN trail : trail'[i].kind \in BEHAVIOUR_EVENTS
  <1>1. LedgerInv /\ EvidenceInv /\ [Next]_vars => [Backed]_vars
    <2> SUFFICES ASSUME LedgerInv, EvidenceInv, Next, emp'.behaviour # emp.behaviour,
                        \A i \in DOMAIN trail' : ~trail'[i].revoked
                 PROVE  \E i \in DOMAIN trail' \ DOMAIN trail :
                            trail'[i].kind \in BEHAVIOUR_EVENTS
      OBVIOUS
    <2>1. PICK r \in Sessions : CommitSignals(r) \/ CommitRecompute(r)
      BY DEF Next, Signal, Contest, Resolve, LoadEmployee, ApplyEvent, LoadContest,
             CommitContest, LoadResolution, CommitResolution, SumTrail, SessionFails, Restart
    <2>2. CASE CommitRecompute(r)
      BY <2>2 DEF CommitRecompute, EvidenceInv, Evidenced, Unrevoked
    <2>3. CASE CommitSignals(r)
      <3>1. mem[r].behaviour # loaded[r].behaviour /\ op[r] = "signal"
        BY <2>3, WrittenColumn DEF CommitSignals
      <3>2. PICK j \in DOMAIN pending[r] : pending[r][j].kind \in BEHAVIOUR_EVENTS
        BY <3>1 DEF EvidenceInv, Evidenced
      <3> QED BY <2>3, <3>2, SignalsOnTrail
    <2> QED BY <2>1, <2>2, <2>3
  <1> QED BY <1>1, EvidenceInductive, PTL DEF Spec, BehaviourIsEvidence

-----------------------------------------------------------------------------
\* The sum of all the deltas of t.
Whole(t) == SumOf(t, DOMAIN t)

LEMMA EventsOf ==
    ASSUME NEW t \in Seq(Event)
    PROVE  IsFiniteSet(DOMAIN t) /\ \A i \in DOMAIN t : t[i] \in Event /\ t[i].delta \in Int
  <1>1. DOMAIN t = 1..Len(t) /\ Len(t) \in Nat /\ \A i \in DOMAIN t : t[i] \in Event
    OBVIOUS
  <1> QED BY <1>1, FS_Interval DEF Event

LEMMA WholeInt ==
    ASSUME NEW t \in Seq(Event)
    PROVE  Whole(t) \in Int
  BY EventsOf, SumInt DEF Whole

\* Two trails with the same deltas have the same sum.
LEMMA WholeSame ==
    ASSUME NEW t \in Seq(Event), NEW u, DOMAIN u = DOMAIN t,
           \A i \in DOMAIN t : u[i].delta = t[i].delta
    PROVE  Whole(u) = Whole(t)
  BY EventsOf, SumSame DEF Whole

\* One more event adds its delta.
LEMMA WholeAppend ==
    ASSUME NEW t \in Seq(Event), NEW e \in Event
    PROVE  Whole(Append(t, e)) = Whole(t) + e.delta
  <1> DEFINE u == Append(t, e)
             n == Len(t) + 1
  <1>1. /\ u \in Seq(Event) /\ n \in DOMAIN u /\ u[n] = e /\ (DOMAIN u) \ {n} = DOMAIN t
        /\ \A i \in DOMAIN t : u[i] = t[i]
    <2>1. u \in Seq(Event) /\ Len(u) = n /\ u[n] = e /\ Len(t) \in Nat
      OBVIOUS
    <2>2. DOMAIN u = 1..n /\ DOMAIN t = 1..Len(t)
      OBVIOUS
    <2>3. \A i \in 1..Len(t) : u[i] = t[i]
      OBVIOUS
    <2> HIDE DEF u
    <2>4. (1..n) \ {n} = 1..Len(t) /\ n \in 1..n
      BY <2>1
    <2> QED BY <2>1, <2>2, <2>3, <2>4
  <1> HIDE DEF u, n
  <1>2. SumOf(u, DOMAIN u) = u[n].delta + SumOf(u, (DOMAIN u) \ {n})
    BY <1>1, EventsOf, SumAny
  <1>3. SumOf(u, DOMAIN t) = SumOf(t, DOMAIN t)
    BY <1>1, EventsOf, SumSame
  <1>4. Whole(u) = e.delta + Whole(t)
    BY <1>1, <1>2, <1>3 DEF Whole
  <1>5. e.delta \in Int /\ Whole(t) \in Int
    BY WholeInt DEF Event
  <1> QED BY <1>4, <1>5 DEF u

\* No event of t is withdrawn.
Fresh(t) == \A i \in DOMAIN t : ~t[i].revoked

\* The events of t that still stand, and their sum.
Standing(t) == {i \in DOMAIN t : ~t[i].revoked /\ t[i].kind \in Kinds}
Left(t)     == SumOf(t, Standing(t))

\* Comfortable, of any trail t.
Comfort(t) ==
    \A n \in 0..Len(t) : \A w \in SUBSET {i \in DOMAIN t : t[i].revoked} :
        Base + SumOf(t, (1..n) \ w) \in 0..Top

LEMMA LeftInt ==
    ASSUME NEW t \in Seq(Event)
    PROVE  Left(t) \in Int
  BY EventsOf, SumInt DEF Left, Standing

\* What stands in two trails that differ in no delta and in no withdrawal.
LEMMA LeftSame ==
    ASSUME NEW t \in Seq(Event), NEW u, DOMAIN u = DOMAIN t,
           \A i \in DOMAIN t : /\ u[i].delta = t[i].delta /\ u[i].kind = t[i].kind
                              /\ u[i].revoked = t[i].revoked
    PROVE  Left(u) = Left(t)
  <1>1. Standing(u) = Standing(t) /\ Standing(t) \in SUBSET DOMAIN t
    BY DEF Standing
  <1> QED BY <1>1, EventsOf, SumSame DEF Left

\* A new event stands, and adds its delta.
LEMMA LeftAppend ==
    ASSUME NEW t \in Seq(Event), NEW e \in Event, ~e.revoked
    PROVE  Left(Append(t, e)) = Left(t) + e.delta
  <1> DEFINE u == Append(t, e)
             n == Len(t) + 1
  <1>1. /\ u \in Seq(Event) /\ u[n] = e /\ DOMAIN u = DOMAIN t \cup {n} /\ n \notin DOMAIN t
        /\ \A i \in DOMAIN t : u[i] = t[i]
    <2>1. u \in Seq(Event) /\ Len(u) = n /\ u[n] = e /\ Len(t) \in Nat
      OBVIOUS
    <2>2. DOMAIN u = 1..n /\ DOMAIN t = 1..Len(t)
      OBVIOUS
    <2>3. \A i \in 1..Len(t) : u[i] = t[i]
      OBVIOUS
    <2> HIDE DEF u
    <2>4. 1..n = (1..Len(t)) \cup {n} /\ n \notin 1..Len(t)
      BY <2>1
    <2> QED BY <2>1, <2>2, <2>3, <2>4
  <1> HIDE DEF u, n
  <1>2. e.kind \in Kinds /\ e.delta \in Int
    BY DEF Event
  <1>3. Standing(u) = Standing(t) \cup {n} /\ n \notin Standing(t)
    BY <1>1, <1>2 DEF Standing
  <1>4. SumOf(u, Standing(u)) = u[n].delta + SumOf(u, Standing(u) \ {n})
    <2>1. Standing(u) \in SUBSET DOMAIN u /\ n \in Standing(u)
      BY <1>3 DEF Standing
    <2> QED BY <1>1, <2>1, EventsOf, SumAny
  <1>5. Standing(u) \ {n} = Standing(t) /\ Standing(t) \in SUBSET DOMAIN t
    BY <1>3 DEF Standing
  <1>6. SumOf(u, Standing(t)) = SumOf(t, Standing(t))
    BY <1>1, <1>5, EventsOf, SumSame
  <1>7. Left(u) = e.delta + Left(t)
    BY <1>1, <1>4, <1>5, <1>6 DEF Left
  <1> QED BY <1>2, <1>7, LeftInt DEF u

\* A trail that has grown and is comfortable always was.
LEMMA ComfortBefore ==
    ASSUME NEW t \in Seq(Event), NEW u \in Seq(Event), Len(t) <= Len(u), Comfort(u),
           \A i \in DOMAIN t : u[i].delta = t[i].delta /\ (t[i].revoked => u[i].revoked)
    PROVE  Comfort(t)
  <1> SUFFICES ASSUME NEW n \in 0..Len(t), NEW w \in SUBSET {i \in DOMAIN t : t[i].revoked}
               PROVE  Base + SumOf(t, (1..n) \ w) \in 0..Top
    BY DEF Comfort
  <1>1. /\ Len(t) \in Nat /\ Len(u) \in Nat
        /\ DOMAIN t = 1..Len(t) /\ DOMAIN u = 1..Len(u)
    OBVIOUS
  <1>2. n \in 0..Len(u) /\ (1..n) \ w \in SUBSET DOMAIN t /\ DOMAIN t \subseteq DOMAIN u
    BY <1>1
  <1>3. w \in SUBSET {i \in DOMAIN u : u[i].revoked}
    BY <1>2
  <1>4. Base + SumOf(u, (1..n) \ w) \in 0..Top
    BY <1>2, <1>3 DEF Comfort
  <1>5. SumOf(t, (1..n) \ w) = SumOf(u, (1..n) \ w)
    BY <1>2, EventsOf, SumSame
  <1> QED BY <1>4, <1>5

\* On a comfortable trail the rails do not touch what is left.
LEMMA ComfortNow ==
    ASSUME NEW t \in Seq(Event), Comfort(t)
    PROVE  Clamp(Base + Left(t)) = Base + Left(t)
  <1> DEFINE w == {i \in DOMAIN t : t[i].revoked}
  <1>1. Len(t) \in 0..Len(t) /\ DOMAIN t = 1..Len(t) /\ \A i \in DOMAIN t : t[i] \in Event
    OBVIOUS
  <1>2. \A i \in DOMAIN t : t[i].kind \in Kinds
    BY <1>1 DEF Event
  <1>3. (1..Len(t)) \ w = Standing(t)
    BY <1>1, <1>2 DEF Standing
  <1>4. Base + SumOf(t, (1..Len(t)) \ w) \in 0..Top
    BY <1>1 DEF Comfort
  <1>5. Base + Left(t) \in 0..Top
    BY <1>3, <1>4 DEF Left
  <1> QED BY <1>5, RiskLedgerAssumption DEF Clamp

\* One session at a time: the next request is served when the last is done.
OneSession == \A r, s \in Sessions : r = s

\* No request failed, and no rail was in reach of what was left.
Smooth == errors = 0 /\ crashes = 0 /\ Comfort(trail)

\* What session r holds is the row, and what it has made of it.
InStep(r) ==
    /\ op[r] \in {"signal", "resolve", "revoked", "summed"} => loaded[r] = emp
    /\ op[r] = "summed" => mem[r] = Recomputed
    /\ op[r] = "resolve" => ~trail[about[r]].answered
    /\ op[r] = "signal" => Fresh(pending[r])
    /\ op[r] = "signal" /\ Unrevoked(trail)
         => mem[r].score = Base + Whole(trail \o pending[r])
    /\ op[r] = "signal" /\ Smooth
         => mem[r].score = Base + Left(trail \o pending[r])

\* With one session at a time the score is the trail's after every commit, not
\* only between sessions, save between the two commits of a withdrawal.
SerialInv ==
    /\ \A r \in Sessions : InStep(r)
    /\ Unrevoked(trail) => emp.score = Base + Whole(trail)
    /\ Smooth /\ (\A r \in Sessions : op[r] \notin {"revoked", "summed"})
         => emp.score = Base + Left(trail)

\* What recompute_score makes of a trail t.
Over(t) ==
    LET left(kinds) == {i \in DOMAIN t : ~t[i].revoked /\ t[i].kind \in kinds} IN
    [score     |-> Clamp(Base + SumOf(t, left(Kinds))),
     behaviour |-> Clamp(Base + SumOf(t, left(BEHAVIOUR_EVENTS))),
     credit    |-> SumOf(t, left(ENGAGEMENT_EVENTS))]

LEMMA RecomputedIs == Recomputed = Over(trail)
  BY DEF Recomputed, Total, Live, SumOf, Over

LEMMA RecomputedSame ==
    ASSUME trail' = trail
    PROVE  Recomputed' = Recomputed
  <1>1. (Recomputed = Over(trail))'
    BY RecomputedIs, PTL
  <1> QED BY <1>1, RecomputedIs

\* A session that moved nothing leaves row and trail as the next will find
\* them.
LEMMA HoldInStep ==
    ASSUME OneSession, LedgerInv, NEW r \in Sessions, NEW o \in {"idle", "signal", "contest"},
           NEW row, NEW i, NEW v, Hold(r, o, row, i, v),
           o = "signal" => row = emp', trail' \in Seq(Event),
           Unrevoked(trail') => emp'.score = Base + Whole(trail'),
           Smooth' => emp'.score = Base + Left(trail')
    PROVE  SerialInv'
<1>1. Fresh(<<>>) /\ trail' \o <<>> = trail'
  BY DEF Fresh
<1>2. /\ op'[r] = o /\ loaded'[r] = row /\ mem'[r] = row /\ pending'[r] = <<>>
  BY HoldAt
<1>3. InStep(r)'
  BY <1>1, <1>2 DEF InStep
<1>4. (\A s \in Sessions : InStep(s))'
  BY <1>3 DEF OneSession
<1>5. QED
  BY <1>4 DEF SerialInv

\* A step that touches neither the row nor the trail, and is no failure, leaves
\* the sums where they were.
LEMMA SumsStay ==
    ASSUME SerialInv, UNCHANGED <<emp, trail, errors, crashes>>,
           \A r \in Sessions : op[r] \notin {"revoked", "summed"}
    PROVE  /\ Unrevoked(trail') => emp'.score = Base + Whole(trail')
           /\ Smooth' => emp'.score = Base + Left(trail')
  BY DEF SerialInv, Smooth

LEMMA SerialSignal ==
    ASSUME OneSession, LedgerInv, SerialInv, NEW r \in Sessions, Signal(r)
    PROVE  SerialInv'
<1>0. /\ trail \in Seq(Event) /\ pending[r] \in Seq(Event) /\ mem[r] \in Row /\ emp \in Row
      /\ InStep(r)
  BY DEF LedgerInv, SerialInv
<1>1. CASE LoadEmployee(r)
  <2>1. /\ Hold(r, "signal", emp, 0, NoVerdict) /\ op[r] = "idle"
        /\ UNCHANGED <<emp, trail, errors, crashes>>
    BY <1>1 DEF LoadEmployee, Idle, env
  <2>2. \A s \in Sessions : op[s] \notin {"revoked", "summed"}
    BY <2>1 DEF OneSession
  <2>3. QED
    BY <1>0, <2>1, <2>2, SumsStay, HoldInStep
<1>2. CASE ApplyEvent(r)
  <2>1. PICK kind \in Kinds : \E change \in Change[kind] :
           /\ pending' = [pending EXCEPT ![r] = Append(@, NewEvent(mem[r], kind, change))]
           /\ mem' = [mem EXCEPT ![r] = Moved(mem[r], kind, change)]
    BY <1>2 DEF ApplyEvent
  <2>2. PICK change \in Change[kind] :
           /\ pending' = [pending EXCEPT ![r] = Append(@, NewEvent(mem[r], kind, change))]
           /\ mem' = [mem EXCEPT ![r] = Moved(mem[r], kind, change)]
    BY <2>1
  <2>3. UNCHANGED <<emp, trail, op, loaded, errors, crashes>> /\ op[r] = "signal"
    BY <1>2 DEF ApplyEvent, env
  <2> DEFINE new == NewEvent(mem[r], kind, change)
             d == Applied(mem[r], change)
             all == trail \o pending[r]
  <2>4. pending'[r] = Append(pending[r], new) /\ mem'[r].score = mem[r].score + d
    BY <2>2 DEF LedgerInv, Moved
  <2>5. change \in Int
    BY RiskLedgerAssumption
  <2>6. new \in Event /\ new.delta = d /\ d \in Int /\ ~new.revoked
    <3>1. new \in Event
      BY <1>0, <2>5, NewEventFair
    <3>2. d \in Int
      BY <1>0, <2>5, AppliedIsFair
    <3>3. new.delta = d /\ ~new.revoked
      BY DEF NewEvent
    <3>4. QED
      BY <3>1, <3>2, <3>3
  <2> HIDE DEF new, d
  <2>7. trail \o Append(pending[r], new) = Append(all, new) /\ all \in Seq(Event)
    BY <1>0, <2>6
  <2>8. trail' \o pending'[r] = Append(all, new)
    BY <2>3, <2>4, <2>7
  <2>9. Unrevoked(trail) => mem'[r].score = Base + Whole(trail' \o pending'[r])
    <3>1. Whole(Append(all, new)) = Whole(all) + d /\ Whole(all) \in Int
      BY <2>6, <2>7, WholeAppend, WholeInt
    <3>2. Unrevoked(trail) => mem[r].score = Base + Whole(all)
      BY <1>0, <2>3 DEF InStep
    <3> HIDE DEF all
    <3>3. QED
      BY <2>4, <2>6, <2>8, <3>1, <3>2, RiskLedgerAssumption
  <2>10. Smooth => mem'[r].score = Base + Left(trail' \o pending'[r])
    <3>1. Left(Append(all, new)) = Left(all) + d /\ Left(all) \in Int
      BY <2>6, <2>7, LeftAppend, LeftInt
    <3>2. Smooth => mem[r].score = Base + Left(all)
      BY <1>0, <2>3 DEF InStep
    <3> HIDE DEF all
    <3>3. QED
      BY <2>4, <2>6, <2>8, <3>1, <3>2, RiskLedgerAssumption
  <2>11. Fresh(pending'[r])
    BY <1>0, <2>3, <2>4, <2>6 DEF Fresh, InStep
  <2>12. Smooth' = Smooth /\ Unrevoked(trail') = Unrevoked(trail)
    BY <2>3 DEF Smooth
  <2>13. InStep(r)'
    BY <1>0, <2>3, <2>9, <2>10, <2>11, <2>12 DEF InStep
  <2>14. (\A s \in Sessions : InStep(s))'
    BY <2>13 DEF OneSession
  <2>15. QED
    BY <2>3, <2>12, <2>14 DEF SerialInv
<1>3. CASE CommitSignals(r)
  <2>1. /\ op[r] = "signal" /\ trail' = trail \o pending[r]
        /\ WriteBack(r) /\ Hold(r, "idle", Blank, 0, NoVerdict)
        /\ UNCHANGED <<errors, crashes>>
    BY <1>3 DEF CommitSignals, Close, env
  <2>2. trail' \in Seq(Event) /\ Len(trail) <= Len(trail')
    BY <1>0, <2>1
  <2>3. Unrevoked(trail') => Unrevoked(trail)
    BY <1>3, SignalsOnTrail DEF Unrevoked
  <2>4. Smooth' => Smooth
    <3>1. \A i \in DOMAIN trail : trail'[i] = trail[i]
      BY <1>3, SignalsOnTrail
    <3>2. Comfort(trail') => Comfort(trail)
      BY <1>0, <2>2, <3>1, ComfortBefore
    <3>3. QED
      BY <2>1, <3>2 DEF Smooth
  <2>5. emp'.score = mem[r].score
    <3>1. loaded[r] = emp
      BY <1>0, <2>1 DEF InStep
    <3>2. QED
      BY <2>1, <3>1, WrittenColumn
  <2>6. Unrevoked(trail') => emp'.score = Base + Whole(trail')
    BY <1>0, <2>1, <2>3, <2>5 DEF InStep
  <2>7. Smooth' => emp'.score = Base + Left(trail')
    BY <1>0, <2>1, <2>4, <2>5 DEF InStep
  <2>8. QED
    BY <2>1, <2>2, <2>6, <2>7, HoldInStep
<1>4. QED
  BY <1>1, <1>2, <1>3 DEF Signal

LEMMA SerialContest ==
    ASSUME OneSession, LedgerInv, LedgerInv', SerialInv, NEW r \in Sessions, Contest(r)
    PROVE  SerialInv'
<1>0. trail \in Seq(Event) /\ trail' \in Seq(Event)
  BY DEF LedgerInv
<1>1. op[r] \in {"idle", "contest"} /\ UNCHANGED <<emp, errors, crashes>>
  BY DEF Contest, LoadContest, CommitContest, Idle, env
<1>2. \A s \in Sessions : op[s] \notin {"revoked", "summed"}
  BY <1>1 DEF OneSession
<1>3. CASE LoadContest(r)
  <2>1. trail' = trail /\ \E i : Hold(r, "contest", Blank, i, NoVerdict)
    BY <1>3 DEF LoadContest
  <2>2. QED
    BY <1>0, <1>1, <1>2, <2>1, SumsStay, HoldInStep
<1>4. CASE CommitContest(r)
  <2>1. Hold(r, "idle", Blank, 0, NoVerdict)
    BY <1>4 DEF CommitContest, Close
  <2>2. Unrevoked(trail') => Unrevoked(trail)
    BY <1>0, <1>4, ContestOnTrail DEF Unrevoked
  <2>3. Whole(trail') = Whole(trail) /\ Left(trail') = Left(trail)
    BY <1>0, <1>4, ContestOnTrail, WholeSame, LeftSame
  <2>4. Smooth' => Smooth
    <3>1. Len(trail) <= Len(trail')
      BY <1>0, <1>4, ContestOnTrail
    <3>2. Comfort(trail') => Comfort(trail)
      BY <1>0, <1>4, <3>1, ContestOnTrail, ComfortBefore
    <3>3. QED
      BY <1>1, <3>2 DEF Smooth
  <2>5. /\ Unrevoked(trail') => emp'.score = Base + Whole(trail')
        /\ Smooth' => emp'.score = Base + Left(trail')
    BY <1>1, <1>2, <2>2, <2>3, <2>4 DEF SerialInv
  <2>6. QED
    BY <1>0, <2>1, <2>5, HoldInStep
<1>5. QED
  BY <1>3, <1>4 DEF Contest

LEMMA SerialResolve ==
    ASSUME OneSession, LedgerInv, LedgerInv', EvidenceInv, SerialInv,
           NEW r \in Sessions, Resolve(r)
    PROVE  SerialInv'
<1>0. /\ trail \in Seq(Event) /\ trail' \in Seq(Event)
      /\ InStep(r) /\ Evidenced(r) /\ UNCHANGED <<errors, crashes>>
  BY DEF LedgerInv, SerialInv, EvidenceInv, Resolve, LoadResolution, CommitResolution,
         SumTrail, CommitRecompute, env
<1>1. CASE LoadResolution(r)
  <2>1. PICK i \in DOMAIN trail : \E v \in Verdict :
           ~trail[i].answered /\ Hold(r, "resolve", emp, i, v)
    BY <1>1 DEF LoadResolution
  <2>2. PICK v \in Verdict : Hold(r, "resolve", emp, i, v)
    BY <2>1
  <2>3. emp' = emp /\ trail' = trail /\ op[r] = "idle"
    BY <1>1 DEF LoadResolution, Idle
  <2>4. op'[r] = "resolve" /\ loaded'[r] = emp /\ about'[r] = i
    BY <2>2, HoldAt
  <2>5. InStep(r)'
    BY <2>1, <2>3, <2>4 DEF InStep
  <2>6. (\A s \in Sessions : InStep(s))'
    BY <2>5 DEF OneSession
  <2>7. \A s \in Sessions : op[s] \notin {"revoked", "summed"}
    BY <2>3 DEF OneSession
  <2>8. QED
    BY <1>0, <2>3, <2>6, <2>7, SumsStay DEF SerialInv
<1>2. CASE CommitResolution(r)
  <2>1. op[r] = "resolve" /\ emp' = emp
    BY <1>2 DEF CommitResolution
  <2>2. about[r] \in DOMAIN trail /\ loaded[r] = emp
    BY <1>0, <2>1 DEF InStep, Evidenced
  <2>3. Unrevoked(trail') => Unrevoked(trail)
    <3>1. \A i \in DOMAIN trail : trail[i].revoked => trail'[i].revoked
      BY <1>2, AnswerOnTrail
    <3>2. QED
      BY <1>2, <3>1, AnswerOnTrail DEF Unrevoked
  <2>4. Whole(trail') = Whole(trail)
    BY <1>0, <1>2, AnswerOnTrail, WholeSame
  <2>5. Unrevoked(trail') => emp'.score = Base + Whole(trail')
    BY <2>1, <2>3, <2>4 DEF SerialInv
  <2>6. CASE ~verdict[r].revoke /\ Hold(r, "idle", Blank, 0, NoVerdict)
    <3>1. \A i \in DOMAIN trail : trail[i].revoked \in BOOLEAN
      BY <1>0, EventsOf DEF Event
    <3>2. \A i \in DOMAIN trail : trail'[i].revoked = trail[i].revoked
      <4>1. ASSUME NEW i \in DOMAIN trail, i = about[r]
            PROVE  trail'[i].revoked = trail[i].revoked
        <5>1. trail'[i].revoked = (trail[i].revoked \/ verdict[r].revoke)
          BY <1>2, <4>1, AnswerOnTrail
        <5>2. QED
          BY <2>6, <3>1, <5>1
      <4>2. QED
        BY <1>2, <4>1, AnswerOnTrail
    <3>3. Left(trail') = Left(trail)
      BY <1>0, <1>2, <3>2, AnswerOnTrail, LeftSame
    <3>4. Len(trail) <= Len(trail')
      BY <1>0, <1>2, AnswerOnTrail
    <3>5. Comfort(trail') => Comfort(trail)
      BY <1>0, <1>2, <3>2, <3>4, AnswerOnTrail, ComfortBefore
    <3>6. \A s \in Sessions : op[s] \notin {"revoked", "summed"}
      BY <2>1 DEF OneSession
    <3>7. Smooth' => emp'.score = Base + Left(trail')
      BY <1>0, <2>1, <3>3, <3>5, <3>6 DEF SerialInv, Smooth
    <3>8. QED
      BY <1>0, <2>5, <2>6, <3>7, HoldInStep
  <2>7. CASE Hold(r, "revoked", loaded[r], 0, NoVerdict)
    <3>1. op'[r] = "revoked" /\ loaded'[r] = loaded[r]
      BY <2>7, HoldAt
    <3>2. InStep(r)'
      BY <2>1, <2>2, <3>1 DEF InStep
    <3>3. (\A s \in Sessions : InStep(s))'
      BY <3>2 DEF OneSession
    <3>4. QED
      BY <2>5, <3>1, <3>3 DEF SerialInv
  <2>8. QED
    BY <1>2, <2>6, <2>7 DEF CommitResolution, Close
<1>3. CASE SumTrail(r)
  <2>1. /\ op[r] = "revoked" /\ op'[r] = "summed" /\ mem'[r] = Recomputed
        /\ UNCHANGED <<emp, trail, loaded>>
    BY <1>3 DEF SumTrail, LedgerInv
  <2>2. Recomputed' = Recomputed
    BY <2>1, RecomputedSame
  <2>3. InStep(r)'
    BY <1>0, <2>1, <2>2 DEF InStep
  <2>4. (\A s \in Sessions : InStep(s))'
    BY <2>3 DEF OneSession
  <2>5. QED
    BY <2>1, <2>4 DEF SerialInv
<1>4. CASE CommitRecompute(r)
  <2>1. /\ op[r] = "summed" /\ trail' = trail /\ WriteBack(r)
        /\ Hold(r, "idle", Blank, 0, NoVerdict)
    BY <1>4 DEF CommitRecompute, Close
  <2>2. ~Unrevoked(trail')
    BY <1>0, <2>1 DEF Evidenced
  <2>3. emp'.score = Recomputed.score
    BY <1>0, <2>1, WrittenColumn DEF InStep
  <2>4. Recomputed.score = Clamp(Base + Left(trail))
    BY RecomputedIs DEF Over, Left, Standing
  <2>5. Smooth' => emp'.score = Base + Left(trail')
    BY <1>0, <2>1, <2>3, <2>4, ComfortNow DEF Smooth
  <2>6. QED
    BY <1>0, <2>1, <2>2, <2>5, HoldInStep
<1>5. QED
  BY <1>1, <1>2, <1>3, <1>4 DEF Resolve

LEMMA SerialStep ==
    ASSUME OneSession
    PROVE  LedgerInv /\ LedgerInv' /\ EvidenceInv /\ SerialInv /\ [Next]_vars => SerialInv'
<1> SUFFICES ASSUME LedgerInv, LedgerInv', EvidenceInv, SerialInv, [Next]_vars
             PROVE  SerialInv'
  OBVIOUS
<1>0. trail \in Seq(Event) /\ errors \in Nat /\ crashes \in Nat
  BY DEF LedgerInv
<1>1. ASSUME NEW r \in Sessions, Signal(r) \/ Contest(r) \/ Resolve(r)
      PROVE  SerialInv'
  BY <1>1, SerialSignal, SerialContest, SerialResolve
<1>2. ASSUME NEW r \in Sessions, SessionFails(r) PROVE SerialInv'
  <2>1. /\ Hold(r, "idle", Blank, 0, NoVerdict) /\ emp' = emp /\ trail' = trail
        /\ errors' = errors + 1
    BY <1>2 DEF SessionFails, Close
  <2>2. (Unrevoked(trail') => emp'.score = Base + Whole(trail')) /\ ~Smooth'
    BY <1>0, <2>1 DEF SerialInv, Smooth
  <2>3. QED
    BY <1>0, <2>1, <2>2, HoldInStep
<1>3. CASE Restart
  <2>1. /\ emp' = emp /\ trail' = trail /\ \A r \in Sessions : op'[r] = "idle"
        /\ crashes' = crashes + 1
    BY <1>3 DEF Restart
  <2>2. (\A r \in Sessions : InStep(r))'
    BY <2>1 DEF InStep
  <2>3. ~Smooth'
    BY <1>0, <2>1 DEF Smooth
  <2>4. QED
    BY <2>1, <2>2, <2>3 DEF SerialInv
<1>4. CASE UNCHANGED vars
  <2>1. UNCHANGED <<emp, trail, op, loaded, mem, pending, about, verdict, errors, crashes>>
    BY <1>4 DEF vars, sess, env
  <2>2. Recomputed' = Recomputed /\ Smooth' = Smooth
    BY <2>1, RecomputedSame DEF Smooth
  <2>3. (\A r \in Sessions : InStep(r))'
    BY <2>1, <2>2 DEF SerialInv, InStep
  <2>4. QED
    BY <2>1, <2>2, <2>3 DEF SerialInv
<1>5. QED
  BY <1>1, <1>2, <1>3, <1>4 DEF Next

LEMMA SerialInductive ==
    ASSUME OneSession
    PROVE  Spec => [](LedgerInv /\ EvidenceInv /\ SerialInv)
<1>1. Init => SerialInv
  <2> SUFFICES ASSUME Init PROVE SerialInv
    OBVIOUS
  <2>1. Whole(trail) = 0 /\ Left(trail) = 0
    <3>1. DOMAIN trail = {} /\ IsFiniteSet({})
      BY FS_EmptySet DEF Init
    <3>2. Standing(trail) = {}
      BY <3>1 DEF Standing
    <3>3. QED
      BY <3>1, <3>2, SumStep DEF Whole, Left
  <2>2. emp.score = Base + Whole(trail) /\ emp.score = Base + Left(trail)
    BY <2>1, RiskLedgerAssumption DEF Init
  <2>3. QED
    BY <2>2 DEF Init, SerialInv, InStep
<1>2. Init => EvidenceInv
  BY DEF Init, EvidenceInv, Evidenced
<1>3. QED
  BY <1>1, <1>2, LedgerInit, LedgerStep, EvidenceStep, SerialStep, PTL DEF Spec

\* Until a withdrawal, and as long as requests do not overlap, the score is
\* the baseline plus everything on record, exactly, however often it hit a
\* rail and whatever session failed (apply_event).
THEOREM ScoreAddsUp ==
    ASSUME OneSession
    PROVE  Spec => []ScoreIsTheTrail
<1>1. SerialInv => ScoreIsTheTrail
  BY DEF SerialInv, ScoreIsTheTrail, Unrevoked, Whole, SumOf, Total
<1>2. QED
  BY <1>1, SerialInductive, PTL

\* As long as requests do not overlap, an answer of any words is the last: no
\* session, however it goes on or fails, changes it or what it decided
\* (resolve_risk_event_contest).
THEOREM AnsweredOnce ==
    ASSUME OneSession
    PROVE  Spec => OneAnswer
<1> DEFINE Lasts ==
      \A i \in DOMAIN trail :
         trail[i].answered => trail'[i].answered /\ trail'[i].revoked = trail[i].revoked
<1>1. LedgerInv /\ EvidenceInv /\ SerialInv /\ [Next]_vars => [Lasts]_vars
  <2> SUFFICES ASSUME LedgerInv, EvidenceInv, SerialInv, Next PROVE Lasts
    OBVIOUS
  <2>1. ASSUME trail' = trail PROVE Lasts
    BY <2>1
  <2>2. ASSUME NEW r \in Sessions, CommitSignals(r) PROVE Lasts
    BY <2>2, SignalsOnTrail
  <2>3. ASSUME NEW r \in Sessions, CommitContest(r) PROVE Lasts
    BY <2>3, ContestOnTrail
  <2>4. ASSUME NEW r \in Sessions, CommitResolution(r) PROVE Lasts
    <3>1. ~trail[about[r]].answered
      BY <2>4 DEF CommitResolution, SerialInv, InStep
    <3>2. \A i \in DOMAIN trail : i # about[r] => trail'[i] = trail[i]
      BY <2>4, AnswerOnTrail
    <3>3. QED
      BY <3>1, <3>2
  <2>5. QED
    BY <2>1, <2>2, <2>3, <2>4 DEF Next, Signal, Contest, Resolve, LoadEmployee, ApplyEvent,
       LoadContest, LoadResolution, SumTrail, CommitRecompute, SessionFails, Restart
<1>2. QED
  BY <1>1, SerialInductive, PTL DEF Spec, OneAnswer

\* As long as requests do not overlap and none fails, the score rests on the
\* events that still stand, however many were put on record, contested and
\* withdrawn in between, and in whatever order, unless what was left summed to
\* off the rails (resolve_risk_event_contest, recompute_score).
THEOREM WithdrawalIsComplete ==
    ASSUME OneSession
    PROVE  Spec => []WithdrawalLands
<1>1. Comfortable <=> Comfort(trail)
  BY DEF Comfortable, Comfort, Withdrawn, Total, SumOf
<1>2. Total(Live(Kinds)) = Left(trail)
  BY DEF Total, Live, Left, Standing, SumOf
<1>3. SerialInv => WithdrawalLands
  BY <1>1, <1>2 DEF SerialInv, Smooth, WithdrawalLands, Quiet
<1>4. QED
  BY <1>3, SerialInductive, PTL
=============================================================================
