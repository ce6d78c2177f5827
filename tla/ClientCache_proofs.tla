-------------------------- MODULE ClientCache_proofs --------------------------
(***************************************************************************)
(* Proofs about ClientCache: its type invariant, and that whoever is       *)
(* signed in sees answers to requests of that session only, for any number *)
(* of sign-ins, changes and retries.                                       *)
(***************************************************************************)
EXTENDS ClientCache, TLAPS

\* What a view and a mutation have to do with each other is three Booleans.
LEMMA PairType == Pairs \subseteq [covered : BOOLEAN, polled : BOOLEAN, streamed : BOOLEAN, excused : BOOLEAN]
<1>1. \A m, v, mutation, key :
          Pair(m, v, mutation, key) \in [covered : BOOLEAN, polled : BOOLEAN, streamed : BOOLEAN, excused : BOOLEAN]
  BY DEF Pair
<1>2. \A ms, ks, rs : PairsOf(ms, ks, rs) \subseteq
          [covered : BOOLEAN, polled : BOOLEAN, streamed : BOOLEAN, excused : BOOLEAN]
  BY <1>1 DEF PairsOf
<1>3. QED
  BY <1>2 DEF Pairs

-----------------------------------------------------------------------------
(* Types.                                                                  *)

\* The counters alone, and the records alone: the provers take one at a time.
CounterType ==
    /\ issued \in 0..MaxSignIns /\ session \in 0..issued /\ ended \subseteq 1..issued
    /\ version \in 0..MaxVersion /\ owed \in 0..version
    /\ stray \subseteq 0..issued

RecordType == cache \in Caches /\ fetch \in Fetches /\ write \in Writes

ScreenType == shown \in BOOLEAN /\ (shown => session # 0)

PairTyped == pair \in [covered : BOOLEAN, polled : BOOLEAN, streamed : BOOLEAN, excused : BOOLEAN]

LEMMA TypeParts == TypeOK <=> CounterType /\ RecordType /\ ScreenType /\ PairTyped
BY Zenon DEF TypeOK, CounterType, RecordType, ScreenType, PairTyped, Versions

\* No answer, no fetch and no mutation are well typed.
LEMMA NothingType ==
    ASSUME issued \in Nat, version \in Nat
    PROVE  Empty \in Caches /\ NoFetch \in Fetches /\ NoWrite \in Writes
<1>1. 0 \in 0..issued /\ 0 \in 0..version /\ 0 \in 0..MAX_RETRIES
  BY ClientAssumption
<1>2. Empty \in Caches
  <2>1. FALSE \in BOOLEAN
    OBVIOUS
  <2>2. QED
    BY <1>1, <2>1, Zenon DEF Empty, Caches
<1>3. NoFetch \in Fetches
  BY <1>1, Zenon DEF NoFetch, Fetches
<1>4. NoWrite \in Writes
  BY <1>1, Zenon DEF NoWrite, Writes
<1>5. QED
  BY <1>2, <1>3, <1>4

\* The records stay well typed while tokens and versions grow.
LEMMA RecordsLast ==
    ASSUME issued \in Nat, version \in Nat, issued' \in Nat, version' \in Nat,
           issued <= issued', version <= version'
    PROVE  Caches \subseteq Caches' /\ Fetches \subseteq Fetches' /\ Writes \subseteq Writes'
<1>1. 0..issued \subseteq 0..issued' /\ 0..version \subseteq 0..version'
  OBVIOUS
<1>2. Caches \subseteq Caches'
  BY <1>1 DEF Caches
<1>3. Fetches \subseteq Fetches'
  BY <1>1 DEF Fetches
<1>4. Writes \subseteq Writes'
  BY <1>1 DEF Writes
<1>5. QED
  BY <1>2, <1>3, <1>4

\* A fetch asked now is well typed, whoever is signed in.
LEMMA AskedType ==
    ASSUME CounterType, NEW tries \in 0..MAX_RETRIES
    PROVE  Asked(tries) \in Fetches
BY ClientAssumption DEF CounterType, Asked, Fetches

\* The tokens of requests nobody waits for were all handed out.
LEMMA ForsakenType == ASSUME CounterType, RecordType PROVE Forsaken \subseteq 0..issued
BY DEF CounterType, RecordType, Fetches, Forsaken

LEMMA CounterNext ==
    ASSUME CounterType, RecordType, Next
    PROVE  CounterType' /\ issued <= issued' /\ version <= version'
<1> USE ClientAssumption, ForsakenType DEF CounterType
<1>1. CASE SignIn \/ Logout
  <2>1. stray' = Forsaken
    BY <1>1 DEF SignIn, Logout, Cleared
  <2>2. CASE SignIn
    BY <2>1, <2>2 DEF SignIn
  <2>3. CASE Logout
    BY <2>1, <2>3 DEF Logout
  <2>4. QED
    BY <1>1, <2>2, <2>3
<1>2. ASSUME NEW token \in Tokens, Expire(token)
      PROVE  CounterType' /\ issued <= issued' /\ version <= version'
  BY <1>2 DEF Expire
<1>3. CASE Mount \/ Unmount \/ Poll \/ Refocus \/ ServerAnswers \/ AnswerLands \/ FetchFails
  <2>1. UNCHANGED <<issued, session, ended, version, owed, stray>>
    BY <1>3 DEF Mount, Unmount, Poll, Refocus, ServerAnswers, AnswerLands, FetchFails
  <2>2. QED
    BY <2>1
<1>4. CASE RefusalLands \/ WriteRefused
  <2>1. session' = 0 /\ UNCHANGED <<issued, ended, version, owed, stray>>
    BY <1>4 DEF RefusalLands, WriteRefused, SessionCleared
  <2>2. QED
    BY <2>1
<1>5. ASSUME NEW token \in 0..MaxSignIns, StrayReturns(token)
      PROVE  CounterType' /\ issued <= issued' /\ version <= version'
  BY <1>5 DEF StrayReturns, SessionCleared
<1>6. CASE Send \/ ServerCommits \/ WriteFails \/ OthersCommit
  BY <1>6 DEF Send, ServerCommits, WriteFails, OthersCommit
<1>7. CASE Acknowledge \/ StreamEvent
  BY <1>7 DEF Acknowledge, StreamEvent, Invalidated, RecordType, Writes
<1>8. QED
  BY <1>1, <1>2, <1>3, <1>4, <1>5, <1>6, <1>7 DEF Next

LEMMA RecordNext ==
    ASSUME CounterType, RecordType, ScreenType, Next
    PROVE  RecordType'
<1>1. CounterType' /\ issued \in Nat /\ version \in Nat /\ issued' \in Nat /\ version' \in Nat
  BY CounterNext, ClientAssumption DEF CounterType
<1>2. Caches \subseteq Caches' /\ Fetches \subseteq Fetches' /\ Writes \subseteq Writes'
  BY <1>1, CounterNext, RecordsLast
<1>3. Empty \in Caches /\ NoFetch \in Fetches /\ NoWrite \in Writes
  BY <1>1, NothingType
<1>4. \A tries \in 0..MAX_RETRIES : Asked(tries) \in Fetches
  BY AskedType
<1>5. 0 \in 0..MAX_RETRIES
  BY ClientAssumption
<1>6. cache' \in Caches'
  <2>1. cache' \in Caches
    <3>1. CASE AnswerLands
      <4>1. FALSE \in BOOLEAN
        OBVIOUS
      <4>2. fetch.by \in 0..issued /\ fetch.version \in 0..version
        BY DEF RecordType, Fetches
      <4>3. QED
        BY <3>1, <4>1, <4>2, Zenon DEF AnswerLands, Caches
    <3>2. CASE Acknowledge \/ StreamEvent
      <4>1. [cache EXCEPT !.invalid = TRUE] \in Caches
        <5>1. TRUE \in BOOLEAN /\ cache \in Caches
          BY DEF RecordType
        <5>2. QED
          BY <5>1, Zenon DEF Caches
      <4>2. cache' = cache \/ cache' = [cache EXCEPT !.invalid = TRUE]
        BY <3>2 DEF Acknowledge, StreamEvent, Invalidated
      <4>3. QED
        BY <4>1, <4>2 DEF RecordType
    <3>3. CASE ~AnswerLands /\ ~Acknowledge /\ ~StreamEvent
      <4>1. cache' = cache \/ cache' = Empty
        BY <3>3 DEF Next, SignIn, Logout, Cleared, Expire, Mount, Unmount, Poll, Refocus,
           ServerAnswers, RefusalLands, FetchFails, StrayReturns, Send, ServerCommits,
           WriteFails, WriteRefused, OthersCommit
      <4>2. QED
        BY <1>3, <4>1 DEF RecordType
    <3>4. QED
      BY <3>1, <3>2, <3>3
  <2>2. QED
    BY <1>2, <2>1
<1>7. fetch' \in Fetches'
  <2>1. fetch' \in Fetches
    <3>1. CASE ServerAnswers
      <4>1. fetch \in Fetches /\ version \in 0..version /\ 0 \in 0..version
        BY <1>1 DEF RecordType
      <4>2. CASE Refused(fetch.by)
        <5>1. fetch' = [fetch EXCEPT !.stage = "refused", !.version = 0]
          BY <3>1, <4>2 DEF ServerAnswers
        <5>2. QED
          BY <4>1, <5>1 DEF Fetches
      <4>3. CASE ~Refused(fetch.by)
        <5>1. fetch' = [fetch EXCEPT !.stage = "answered", !.version = version]
          BY <3>1, <4>3 DEF ServerAnswers
        <5>2. QED
          BY <4>1, <5>1 DEF Fetches
      <4>4. QED
        BY <4>2, <4>3
    <3>2. CASE FetchFails
      <4>1. fetch.tries < MAX_RETRIES => fetch.tries + 1 \in 0..MAX_RETRIES
        BY ClientAssumption DEF RecordType, Fetches
      <4>2. QED
        BY <1>3, <1>4, <3>2, <4>1 DEF FetchFails
    <3>3. CASE ~ServerAnswers /\ ~FetchFails
      <4>1. fetch' = fetch \/ fetch' = NoFetch \/ fetch' = Asked(0)
        BY <3>3 DEF Next, SignIn, Logout, Cleared, Expire, Mount, Unmount, Poll, Refocus,
           AnswerLands, RefusalLands, StrayReturns, Send, ServerCommits, WriteFails,
           WriteRefused, Acknowledge, StreamEvent, Invalidated, OthersCommit
      <4>2. QED
        BY <1>3, <1>4, <1>5, <4>1 DEF RecordType
    <3>4. QED
      BY <3>1, <3>2, <3>3
  <2>2. QED
    BY <1>2, <2>1
<1>8. write' \in Writes'
  <2>1. CASE Send
    BY <2>1, <1>1 DEF Send, CounterType, Writes
  <2>2. CASE ServerCommits
    <3>1. write \in Writes' /\ version + 1 \in 0..version'
      BY <2>2, <1>1, <1>2 DEF ServerCommits, RecordType
    <3>2. QED
      BY <2>2, <3>1 DEF ServerCommits, Writes
  <2>3. CASE ~Send /\ ~ServerCommits
    <3>1. write' = write \/ write' = NoWrite
      BY <2>3 DEF Next, SignIn, Logout, Expire, Mount, Unmount, Poll, Refocus,
         ServerAnswers, AnswerLands, RefusalLands, FetchFails, StrayReturns, WriteFails,
         WriteRefused, Acknowledge, StreamEvent, OthersCommit
    <3>2. QED
      BY <1>2, <1>3, <3>1 DEF RecordType
  <2>4. QED
    BY <2>1, <2>2, <2>3
<1>9. QED
  BY <1>6, <1>7, <1>8 DEF RecordType

\* A screen comes up under a session only, and goes with it.
LEMMA ScreenNext == ASSUME CounterType, ScreenType, Next PROVE ScreenType'
<1>1. CASE SignIn \/ Logout \/ Unmount \/ RefusalLands \/ WriteRefused
  <2>1. shown' = FALSE
    BY <1>1 DEF SignIn, Logout, Unmount, RefusalLands, WriteRefused, SessionCleared
  <2>2. QED
    BY <2>1, Zenon DEF ScreenType
<1>2. CASE Mount
  <2>1. shown' = TRUE /\ session # 0 /\ session' = session
    BY <1>2 DEF Mount
  <2>2. QED
    BY <2>1, Zenon DEF ScreenType
<1>3. ASSUME NEW token \in 0..MaxSignIns, StrayReturns(token) PROVE ScreenType'
  <2>1. UNCHANGED <<session, shown>> \/ shown' = FALSE
    BY <1>3 DEF StrayReturns, SessionCleared
  <2>2. CASE UNCHANGED <<session, shown>>
    BY <2>2, Zenon DEF ScreenType
  <2>3. CASE shown' = FALSE
    BY <2>3, Zenon DEF ScreenType
  <2>4. QED
    BY <2>1, <2>2, <2>3
<1>4. ASSUME NEW token \in Tokens, Expire(token) PROVE ScreenType'
  BY <1>4, Zenon DEF Expire, ScreenType
<1>5. CASE Poll \/ Refocus \/ ServerAnswers \/ AnswerLands \/ FetchFails \/ Send
            \/ ServerCommits \/ WriteFails \/ Acknowledge \/ StreamEvent \/ OthersCommit
  <2>1. UNCHANGED <<shown, session>>
    BY <1>5 DEF Poll, Refocus, ServerAnswers, AnswerLands, FetchFails, Send, ServerCommits,
       WriteFails, Acknowledge, StreamEvent, OthersCommit
  <2>2. QED
    BY <2>1, Zenon DEF ScreenType
<1>6. QED
  BY <1>1, <1>2, <1>3, <1>4, <1>5 DEF Next

LEMMA TypeInit == Init => TypeOK
<1> SUFFICES ASSUME Init PROVE TypeOK
  OBVIOUS
<1>1. CounterType
  BY ClientAssumption DEF Init, CounterType
<1>2. RecordType
  <2>1. issued \in Nat /\ version \in Nat
    BY DEF Init
  <2>2. QED
    BY <2>1, NothingType DEF Init, RecordType
<1>3. ScreenType /\ PairTyped
  BY PairType DEF Init, ScreenType, PairTyped
<1>4. QED
  BY <1>1, <1>2, <1>3, TypeParts

LEMMA TypeNext == TypeOK /\ [Next]_vars => TypeOK'
<1> SUFFICES ASSUME TypeOK, [Next]_vars PROVE TypeOK'
  OBVIOUS
<1>1. CounterType /\ RecordType /\ ScreenType /\ PairTyped
  BY TypeParts
<1>2. CASE Next
  <2>1. CounterType' /\ RecordType' /\ ScreenType'
    BY <1>1, <1>2, CounterNext, RecordNext, ScreenNext
  <2>2. pair' = pair
    BY <1>2 DEF Next, SignIn, Logout, Expire, Mount, Unmount, Poll, Refocus, ServerAnswers,
       AnswerLands, RefusalLands, FetchFails, StrayReturns, Send, ServerCommits, WriteFails,
       WriteRefused, Acknowledge, StreamEvent, OthersCommit
  <2>3. PairTyped'
    BY <1>1, <2>2 DEF PairTyped
  <2>4. QED
    BY <2>1, <2>3, TypeParts, PTL
<1>3. CASE UNCHANGED vars
  <2>1. CounterType' /\ RecordType' /\ ScreenType' /\ PairTyped'
    BY <1>1, <1>3 DEF vars, CounterType, RecordType, ScreenType, PairTyped, Caches, Fetches, Writes
  <2>2. QED
    BY <2>1, TypeParts, PTL
<1>4. QED
  BY <1>2, <1>3

\* The values a browser can be in: the session is a token handed out, a screen
\* is up only under a session, and nothing is newer than the server's data.
THEOREM ClientTyping == Spec => []TypeOK
BY TypeInit, TypeNext, PTL DEF Spec

-----------------------------------------------------------------------------
(* Whose answers the screens show.                                         *)

\* OwnData with what it rests on: a fetch still awaited was asked, or asked
\* again, under the session that will see its answer.
OwnFetch ==
    session # 0 /\ fetch # NoFetch => fetch.by = session

LEMMA OwnNext == TypeOK /\ OwnData /\ OwnFetch /\ [Next]_vars => OwnData' /\ OwnFetch'
<1> SUFFICES ASSUME TypeOK, OwnData, OwnFetch, [Next]_vars PROVE OwnData' /\ OwnFetch'
  OBVIOUS
<1> USE DEF OwnData, OwnFetch
<1>1. CASE SignIn \/ Logout
  BY <1>1 DEF SignIn, Logout, Cleared
<1>2. CASE Mount \/ Poll \/ Refocus
  BY <1>2 DEF Mount, Poll, Refocus, Asked
<1>3. CASE ServerAnswers
  <2>1. fetch # NoFetch
    BY <1>3 DEF ServerAnswers, NoFetch
  <2>2. fetch'.by = fetch.by
    BY <1>3 DEF TypeOK, Fetches, ServerAnswers
  <2>3. QED
    BY <1>3, <2>1, <2>2 DEF ServerAnswers
<1>4. CASE AnswerLands
  <2>1. fetch # NoFetch
    BY <1>4 DEF AnswerLands, NoFetch
  <2>2. QED
    BY <1>4, <2>1 DEF AnswerLands
<1>5. CASE RefusalLands \/ WriteRefused
  BY <1>5 DEF RefusalLands, WriteRefused, SessionCleared
<1>6. CASE FetchFails
  BY <1>6 DEF FetchFails, Asked
<1>7. ASSUME NEW token \in 0..MaxSignIns, StrayReturns(token) PROVE OwnData' /\ OwnFetch'
  BY <1>7 DEF StrayReturns, SessionCleared
<1>8. CASE Acknowledge \/ StreamEvent
  <2>1. cache' # Empty => cache # Empty /\ cache'.by = cache.by
    BY <1>8 DEF TypeOK, Caches, Acknowledge, StreamEvent, Invalidated
  <2>2. session' = session
    BY <1>8 DEF Acknowledge, StreamEvent
  <2>3. fetch' = fetch \/ fetch' = Asked(0)
    BY <1>8 DEF Acknowledge, StreamEvent, Invalidated
  <2>4. QED
    BY <2>1, <2>2, <2>3 DEF Asked
<1>9. ASSUME NEW token \in Tokens, Expire(token) PROVE OwnData' /\ OwnFetch'
  BY <1>9 DEF Expire
<1>10. CASE Unmount \/ Send \/ ServerCommits \/ WriteFails \/ OthersCommit
  BY <1>10 DEF Unmount, Send, ServerCommits, WriteFails, OthersCommit
<1>11. CASE UNCHANGED vars
  BY <1>11 DEF vars
<1>12. QED
  BY <1>1, <1>2, <1>3, <1>4, <1>5, <1>6, <1>7, <1>8, <1>9, <1>10, <1>11 DEF Next

\* Nobody signed in ever sees an answer given to another session, whatever
\* was in flight, retried or refused when the sessions changed.
THEOREM NobodyElsesData == Spec => []OwnData
<1>1. Init => OwnData /\ OwnFetch
  BY DEF Init, OwnData, OwnFetch
<1>2. QED
  BY <1>1, OwnNext, ClientTyping, PTL DEF Spec

-----------------------------------------------------------------------------
(* Whether one's own change is seen.                                       *)

Lax == pair.polled \/ pair.excused

\* OwnChangeIsSeen with what it rests on: an answer on its way that predates
\* the change was dropped when the change was acknowledged.
SeenInv ==
    ~Lax =>
        /\ pair.covered
        /\ cache # Empty /\ ~cache.invalid => owed <= cache.version
        /\ fetch.stage = "answered" => owed <= fetch.version

LEMMA SeenInit == Accounted /\ Init => SeenInv
BY DEF Accounted, Init, Lax, SeenInv, NoFetch

LEMMA PairStays == [Next]_vars => pair' = pair
BY DEF Next, vars, SignIn, Logout, Expire, Mount, Unmount, Poll, Refocus, ServerAnswers,
   AnswerLands, RefusalLands, FetchFails, StrayReturns, Send, ServerCommits, WriteFails,
   WriteRefused, Acknowledge, StreamEvent, OthersCommit

LEMMA SeenNext == TypeOK /\ SeenInv /\ [Next]_vars => SeenInv'
<1> SUFFICES ASSUME TypeOK, SeenInv, [Next]_vars, ~Lax
             PROVE  /\ cache' # Empty /\ ~cache'.invalid => owed' <= cache'.version
                    /\ fetch'.stage = "answered" => owed' <= fetch'.version
  BY PairStays DEF SeenInv, Lax
<1> DEFINE CacheSeen == cache' # Empty /\ ~cache'.invalid => owed' <= cache'.version
<1> DEFINE FetchSeen == fetch'.stage = "answered" => owed' <= fetch'.version
<1>0. /\ pair.covered
      /\ cache # Empty /\ ~cache.invalid => owed <= cache.version
      /\ fetch.stage = "answered" => owed <= fetch.version
  BY DEF SeenInv
<1>1. CASE UNCHANGED <<cache, fetch, owed>>
  BY <1>0, <1>1
<1>2. CASE SignIn \/ Logout
  <2>1. cache' = Empty /\ fetch' = NoFetch
    BY <1>2 DEF SignIn, Logout, Cleared
  <2>2. QED
    BY <2>1 DEF NoFetch
<1>3. CASE Mount \/ Poll \/ Refocus \/ RefusalLands \/ FetchFails
  <2>1. UNCHANGED <<cache, owed>>
    BY <1>3 DEF Mount, Poll, Refocus, RefusalLands, FetchFails
  <2>2. fetch' = fetch \/ fetch'.stage \in {"none", "asked"}
    BY <1>3 DEF Mount, Poll, Refocus, RefusalLands, FetchFails, Asked, NoFetch
  <2>3. QED
    BY <1>0, <2>1, <2>2
<1>4. CASE ServerAnswers
  <2>1. UNCHANGED <<cache, owed>>
    BY <1>4 DEF ServerAnswers
  <2>2. fetch'.stage = "answered" => fetch'.version = version
    BY <1>4 DEF ServerAnswers, TypeOK, Fetches
  <2>3. owed <= version
    BY ClientAssumption DEF TypeOK, Versions
  <2>4. QED
    BY <1>0, <2>1, <2>2, <2>3
<1>5. CASE AnswerLands
  <2>1. cache'.version = fetch.version /\ fetch' = NoFetch /\ owed' = owed
        /\ fetch.stage = "answered"
    BY <1>5 DEF AnswerLands
  <2>2. QED
    BY <1>0, <2>1 DEF NoFetch
<1>6. CASE Acknowledge \/ StreamEvent
  <2>1. Invalidated
    BY <1>0, <1>6 DEF Acknowledge, StreamEvent
  <2>2. cache' = Empty \/ cache'.invalid
    BY <2>1 DEF Invalidated, TypeOK, Caches
  <2>3. CASE LeftRunning
    <3>1. fetch' = fetch /\ owed' = owed
      BY <1>6, <2>1, <2>3 DEF Acknowledge, StreamEvent, Invalidated
    <3>2. QED
      BY <1>0, <2>2, <3>1
  <2>4. CASE ~LeftRunning
    <3>1. fetch' = Asked(0) \/ fetch' = NoFetch
      BY <2>1, <2>4 DEF Invalidated, LeftRunning
    <3>2. QED
      BY <2>2, <3>1 DEF Asked, NoFetch
  <2>5. QED
    BY <2>3, <2>4
<1>7. QED
  BY <1>1, <1>2, <1>3, <1>4, <1>5, <1>6 DEF Next, vars, Expire, Unmount, StrayReturns, Send,
     ServerCommits, WriteFails, WriteRefused, OthersCommit

\* No answer older than an acknowledged change is taken for current, whatever
\* was in flight when the change was acknowledged, save for the pairs the code
\* forgets.  That the list of those is complete speaks of tables without any
\* parameter: the run decides it, for every pair is a behaviour of its own.
THEOREM OwnChangeDelivered == Accounted => (Spec => []OwnChangeIsSeen)
<1>1. TypeOK /\ SeenInv => OwnChangeIsSeen
  BY DEF TypeOK, SeenInv, Lax, OwnChangeIsSeen, Caches, Versions
<1>2. Accounted /\ Init => SeenInv
  BY SeenInit
<1>3. QED
  BY <1>1, <1>2, SeenNext, ClientTyping, PTL DEF Spec
=============================================================================
