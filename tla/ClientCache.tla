----------------------------- MODULE ClientCache -----------------------------
(***************************************************************************)
(* What the analyst's and the employee's browser knows, and how it finds   *)
(* out that it is wrong: the query cache every screen reads from           *)
(* (frontend/src: app/providers.tsx, lib/api/queries.ts), the mutations    *)
(* that name the caches they invalidate (lib/api/mutations.ts,             *)
(* features/pipeline/api.ts), the session (lib/auth/AuthProvider.tsx) and  *)
(* the transport both go through (lib/api/client.ts).                      *)
(*                                                                         *)
(* A behaviour follows one view of the server's data and one mutation of   *)
(* it, made by the same person.  The cache itself is TanStack Query's,     *)
(* modelled as these files use it.                                         *)
(***************************************************************************)
EXTENDS Naturals, Sequences, TLC

CONSTANTS
    MaxSignIns,   \* bound: sign-ins, each with a token of its own
    MaxVersion,   \* bound: changes to the view's data on the server
    MAX_RETRIES   \* attempts after the first for a fetch that got no answer

ASSUME ClientAssumption ==
    /\ MaxSignIns \in Nat \ {0}
    /\ MaxVersion \in Nat /\ MAX_RETRIES \in Nat

VARIABLES
    pair,      \* the mutation and the view of this behaviour: see Pair
    session,   \* the token in localStorage, 0 when signed out
    issued,    \* tokens handed out so far
    ended,     \* tokens the server no longer takes
    version,   \* of the view's data on the server
    cache,     \* the view's last answer in this browser
    shown,     \* whether a mounted component observes the view
    fetch,     \* the fetch whose answer the cache will take
    stray,     \* tokens of requests nobody waits for any more
    write,     \* the mutation under way
    owed       \* the person's own latest change they have been told of

vars == <<pair, session, issued, ended, version, cache, shown, fetch, stray, write, owed>>

Tokens   == 1..MaxSignIns
Versions == 0..MaxVersion

\* What a cache entry, a fetch and a mutation look like at this moment.
Caches  == [by : 0..issued, version : 0..version, invalid : BOOLEAN]
Fetches == [by : 0..issued, stage : {"none", "asked", "answered", "refused"},
            version : 0..version, tries : 0..MAX_RETRIES]
Writes  == [by : 0..issued, stage : {"none", "sent", "committed"}, version : 0..version]

Refused(token) == token = 0 \/ token \in ended

Empty   == [by |-> 0, version |-> 0, invalid |-> FALSE]
NoFetch == [by |-> 0, stage |-> "none", version |-> 0, tries |-> 0]
NoWrite == [by |-> 0, stage |-> "none", version |-> 0]

-----------------------------------------------------------------------------
(* The key factory, qk, and which views poll.  Left out are the views that *)
(* no mutation writes (capabilities, identity, the simulation templates)   *)
(* and the one key nobody queries (intel.stats).                           *)

StaffKey ==
    [analyst_dashboard |-> <<"dashboard", "analyst">>,
     loop_list         |-> <<"loops", "list">>,
     loop              |-> <<"loops", "detail">>,
     approval_queue    |-> <<"approvals", "queue">>,
     approval          |-> <<"approvals", "detail">>,
     approval_history  |-> <<"approvals", "history">>,
     executive_dashboard |-> <<"dashboard", "executive">>,
     threat_list       |-> <<"threats", "list">>,
     threat            |-> <<"threats", "detail">>,
     report_list       |-> <<"reports", "list">>,
     module_list       |-> <<"training", "modules">>,
     module            |-> <<"training", "module">>,
     resources         |-> <<"training", "resources">>,
     resource_topics   |-> <<"training", "resource-topics">>,
     module_resources  |-> <<"training", "module-resources">>,
     simulation_list   |-> <<"simulations", "list">>,
     simulation        |-> <<"simulations", "detail">>,
     employees         |-> <<"employees", "list">>,
     employee          |-> <<"employees", "detail">>,
     departments       |-> <<"departments">>,
     feed              |-> <<"feed">>,
     plan_list         |-> <<"remediation", "plans">>,
     plan              |-> <<"remediation", "plan">>,
     plan_stats        |-> <<"remediation", "stats">>,
     coverage_gaps     |-> <<"remediation", "coverage-gaps">>,
     control_gaps      |-> <<"remediation", "control-gaps">>,
     sandbox_jobs      |-> <<"sandbox", "jobs">>,
     sandbox_job       |-> <<"sandbox", "job">>,
     sandbox_stats     |-> <<"sandbox", "stats">>,
     policies          |-> <<"policy", "policies">>,
     policy            |-> <<"policy", "policy">>,
     findings          |-> <<"policy", "findings">>,
     finding           |-> <<"policy", "finding">>,
     finding_stats     |-> <<"policy", "stats">>,
     watch             |-> <<"policy", "watch">>,
     intel_items       |-> <<"intel", "items">>,
     intel_item        |-> <<"intel", "item">>,
     intel_matches     |-> <<"intel", "matches">>,
     risks             |-> <<"incident-risks", "list">>,
     risk              |-> <<"incident-risks", "detail">>,
     integrations      |-> <<"integrations", "list">>,
     integration       |-> <<"integrations", "detail">>,
     courses           |-> <<"integrations", "courses">>,
     audit             |-> <<"audit", "list">>,
     audit_actions     |-> <<"audit", "actions">>]

OwnKey ==
    [employee_dashboard |-> <<"dashboard", "employee">>,
     my_reports         |-> <<"reports", "mine">>,
     my_training        |-> <<"training", "mine">>,
     assignment         |-> <<"training", "assignment">>,
     me                 |-> <<"employees", "me">>,
     my_plans           |-> <<"remediation", "mine">>,
     my_risks           |-> <<"incident-risks", "mine">>]

\* refetchInterval: POLL_LIVE, POLL_FAST or POLL_QUEUE.  A sandbox job polls
\* until it has settled only, so nothing rests on it here.
PolledViews ==
    {"analyst_dashboard", "employee_dashboard", "loop_list", "loop", "approval_queue",
     "approval_history", "threat_list", "report_list", "my_training",
     "simulation_list", "simulation", "plan_list", "plan_stats", "sandbox_jobs",
     "sandbox_stats", "watch"}

\* The key prefixes a loop_update on the socket invalidates (useLoopStream).
Streamed == {<<"loops">>, <<"dashboard", "analyst">>, <<"approvals">>}

\* What the answer of the handler behind a view shows of the data, as far as
\* some mutation writes it.  The gate is a held run with its module, as the
\* approval workspace shows them; a new threat or plan is a row of its own.
LoopReads ==
    [analyst_dashboard |-> {"run", "report", "simulation", "outcome", "score", "assignment"},
     loop_list         |-> {"run"},
     loop              |-> {"run", "module", "assignment"},
     approval_queue    |-> {"run", "module"},
     approval          |-> {"gate", "score"},
     approval_history  |-> {"audit"},
     executive_dashboard |-> {"score", "assignment", "outcome"},
     threat_list       |-> {"threat", "new_threat"},
     threat            |-> {"threat"},
     report_list       |-> {"report"}]

StudioReads ==
    [module_list      |-> {"module"},
     module           |-> {"module"},
     resources        |-> {"resource"},
     resource_topics  |-> {"resource"},
     module_resources |-> {"resource"},
     simulation_list  |-> {"simulation"},
     simulation       |-> {"simulation", "outcome", "score"}]

PeopleReads ==
    [employees   |-> {"score"},
     employee    |-> {"score"},
     departments |-> {"score"},
     feed        |-> {"feed"}]

\* No behaviour a mutation reports is one that a control answers
\* (CONTROL_ANSWERS): only a reset of the demo writes a control gap.
PlanReads ==
    [plan_list     |-> {"plan", "new_plan"},
     plan          |-> {"plan"},
     plan_stats    |-> {"plan", "new_plan", "gap", "control_gap"},
     coverage_gaps |-> {"gap"},
     control_gaps  |-> {"control_gap"}]

SandboxReads == [sandbox_jobs |-> {"job"}, sandbox_job |-> {"job"}, sandbox_stats |-> {"job"}]

PolicyReads ==
    [policies      |-> {"policy"},
     policy        |-> {"policy", "rule", "finding"},
     findings      |-> {"finding"},
     finding       |-> {"finding", "rule", "intel"},
     finding_stats |-> {"finding"},
     watch         |-> {"watch", "match"}]

IntelReads ==
    [intel_items   |-> {"intel"},
     intel_item    |-> {"intel", "match", "finding"},
     intel_matches |-> {"match"}]

RiskReads ==
    [risks         |-> {"risk"},
     risk          |-> {"risk", "subject"},
     integrations  |-> {"integration"},
     integration   |-> {"integration", "course"},
     courses       |-> {"course"},
     audit         |-> {"audit"},
     audit_actions |-> {"audit"}]

StaffReads ==
    LoopReads @@ StudioReads @@ PeopleReads @@ PlanReads @@ SandboxReads @@ PolicyReads
        @@ IntelReads @@ RiskReads

OwnReads ==
    [employee_dashboard |-> {"score", "assignment", "report"},
     my_reports         |-> {"report"},
     my_training        |-> {"assignment"},
     assignment         |-> {"assignment"},
     me                 |-> {"score"},
     my_plans           |-> {"plan"},
     my_risks           |-> {"risk"}]

-----------------------------------------------------------------------------
(* The mutations: what its handler has written when it answers (the stages *)
(* of a loop that follow are not the mutation's), and the key prefixes its *)
(* onSuccess invalidates.                                                  *)

Mutation(writes, touches) == [writes |-> writes, touches |-> touches]

\* Mutant of LoopMutations: a decision does not reach the audit trail's page.
LoopMutationsUnaudited ==
    [approval_decision |-> Mutation({"run", "gate", "module", "audit"},
        {<<"approvals">>, <<"loops">>, <<"dashboard", "analyst">>, <<"training">>}),
     force_measure |-> Mutation({"run", "assignment", "score"},
        {<<"loops">>, <<"dashboard", "analyst">>})]

LoopMutations ==
    [approval_decision |-> Mutation({"run", "gate", "module", "audit"},
        {<<"approvals">>, <<"loops">>, <<"dashboard", "analyst">>, <<"audit">>, <<"training">>}),
     force_measure |-> Mutation({"run", "assignment", "score"},
        {<<"loops">>, <<"dashboard", "analyst">>})]

IntakeMutations ==
    [submit_threat |-> Mutation({"new_threat", "run"},
        {<<"threats">>, <<"loops">>, <<"dashboard", "analyst">>}),
     push_report |-> Mutation({"report", "new_threat", "run"},
        {<<"reports">>, <<"loops">>, <<"dashboard", "analyst">>}),
     dismiss_report |-> Mutation({"report"}, {<<"reports">>, <<"dashboard", "analyst">>})]

FeedMutations ==
    [push_feed |-> Mutation({"feed", "new_threat", "run"},
        {<<"feed">>, <<"threats">>, <<"loops">>, <<"dashboard", "analyst">>})]

StudioMutations ==
    [create_module |-> Mutation({"module", "audit"}, {<<"training">>}),
     import_resources |-> Mutation({"resource"}, {<<"training">>}),
     update_module |-> Mutation({"module", "gate"}, {<<"training">>, <<"approvals">>})]

ReviewMutations ==
    [review_module |-> Mutation({"module", "gate", "assignment", "risk", "finding", "audit"},
        {<<"training">>, <<"policy">>, <<"incident-risks">>, <<"audit">>})]

SimulationMutations ==
    [create_simulation |-> Mutation({"simulation"}, {<<"simulations">>}),
     simulation_action |-> Mutation({"simulation", "outcome", "score", "new_plan", "gap"},
        {<<"simulations">>, <<"dashboard", "analyst">>}),
     record_outcome |-> Mutation({"simulation", "outcome", "score", "new_plan", "gap"},
        {<<"simulations", "detail">>, <<"dashboard", "analyst">>})]

SandboxMutations ==
    [upload |-> Mutation({"job"}, {<<"sandbox">>}),
     submit_url |-> Mutation({"job"}, {<<"sandbox">>}),
     password |-> Mutation({"job"}, {<<"sandbox", "job">>}),
     reanalyze |-> Mutation({"job"}, {<<"sandbox", "job">>}),
     feedback |-> Mutation({"job"}, {<<"sandbox", "job">>})]

PolicyMutations ==
    [extract_rules |-> Mutation({"policy", "audit"}, {<<"policy", "policy">>, <<"audit">>}),
     review_rule |-> Mutation({"rule", "policy", "audit"}, {<<"policy">>, <<"audit">>}),
     update_finding |-> Mutation({"finding", "audit"}, {<<"policy">>, <<"audit">>}),
     assign_finding_training |-> Mutation({"finding", "assignment", "audit"},
        {<<"policy">>, <<"training">>, <<"audit">>})]

AutoTrainMutations ==
    [auto_train_finding |-> Mutation({"finding", "module", "assignment", "audit"},
        {<<"policy">>, <<"training">>, <<"audit">>}),
     auto_train_risk |-> Mutation({"risk", "subject", "module", "assignment", "audit"},
        {<<"incident-risks">>, <<"training">>, <<"audit">>})]

IntelMutations ==
    [assess_intel |-> Mutation({"intel", "audit"}, {<<"intel">>, <<"audit">>}),
     dismiss_intel |-> Mutation({"intel", "audit"}, {<<"intel">>, <<"audit">>}),
     create_finding_from_intel |-> Mutation({"match", "finding", "audit"},
        {<<"intel">>, <<"policy">>, <<"audit">>}),
     refresh_intel |-> Mutation({"audit"}, {<<"intel">>})]

WatchMutations ==
    [run_watch |-> Mutation({"watch", "match"}, {<<"policy", "watch">>, <<"intel">>})]

RiskMutations ==
    [create_risk |-> Mutation({"risk", "audit"}, {<<"incident-risks">>, <<"audit">>}),
     risk_action |-> Mutation({"risk", "subject", "assignment", "audit"},
        {<<"incident-risks">>, <<"training">>, <<"audit">>}),
     review_subject |-> Mutation({"subject", "audit"}, {<<"incident-risks", "detail">>, <<"audit">>})]

SubjectMutations ==
    [attach_subjects |-> Mutation({"subject", "audit"}, {<<"incident-risks">>, <<"audit">>})]

IntegrationMutations ==
    [integration_action |-> Mutation({"integration", "course", "audit"}, {<<"integrations">>, <<"audit">>}),
     map_course |-> Mutation({"course", "audit"}, {<<"integrations", "courses">>, <<"audit">>})]

PlanMutations ==
    [decide_plan |-> Mutation({"plan", "audit"}, {<<"remediation">>, <<"audit">>}),
     resolve_dispute |-> Mutation({"plan", "audit"}, {<<"remediation">>, <<"audit">>})]

OwnMutations ==
    [submit_report |-> Mutation({"report", "score"},
        {<<"reports">>, <<"dashboard", "employee">>, <<"dashboard", "analyst">>}),
     start_assignment |-> Mutation({"assignment"},
        {<<"training", "assignment">>, <<"training", "mine">>}),
     complete_assignment |-> Mutation({"assignment", "score", "run"},
        {<<"training", "assignment">>, <<"training", "mine">>, <<"dashboard", "employee">>,
         <<"dashboard", "analyst">>, <<"employees", "me">>, <<"loops">>,
         <<"incident-risks", "mine">>}),
     contest_event |-> Mutation({"score", "audit"},
        {<<"employees", "me">>, <<"dashboard", "employee">>, <<"audit">>}),
     dispute_plan |-> Mutation({"plan", "audit"}, {<<"remediation">>, <<"audit">>})]

\* It names no key, and so it names them all.
DemoMutations ==
    [reset_demo |-> Mutation(UNION {StaffReads[v] : v \in DOMAIN StaffReads}, {<<>>})]

StaffMutations ==
    LoopMutations @@ IntakeMutations @@ FeedMutations @@ StudioMutations @@ ReviewMutations
        @@ SimulationMutations @@ SandboxMutations @@ PolicyMutations @@ AutoTrainMutations
        @@ IntelMutations @@ WatchMutations @@ RiskMutations @@ SubjectMutations
        @@ IntegrationMutations @@ PlanMutations @@ DemoMutations

-----------------------------------------------------------------------------
(* Which view a mutation reaches.                                          *)

\* A query key falls under every key it extends (invalidateQueries).
Under(key, prefix) == Len(prefix) <= Len(key) /\ SubSeq(key, 1, Len(prefix)) = prefix

\* What the views a mutation leaves alone still show, though it changed them:
\* the scores a simulation or a forced measurement moves and the gaps in the
\* catalogue a simulation counts; on the executive's page, which an analyst may
\* open, the training anybody hands out; on a page of threat intelligence the
\* finding made from it, and on a finding's page that intelligence; in the
\* policy library the extraction of one policy; the audit rows of a new module
\* and of a refresh of the intelligence sources; the approval workspace of a
\* module decided in the studio; the score an employee's own report earns; and
\* the courses of one integration.
Measured   == {"force_measure", "simulation_action", "record_outcome"}
HandingOut == {"review_module", "assign_finding_training", "auto_train_finding",
               "auto_train_risk", "risk_action"}
OnFindings == {"update_finding", "assign_finding_training", "auto_train_finding",
               "review_module"}

Forgotten ==
    (Measured \X {"approval", "employees", "employee", "departments", "executive_dashboard"})
    \cup ({"simulation_action", "record_outcome"} \X {"coverage_gaps"})
    \cup (HandingOut \X {"executive_dashboard"})
    \cup (OnFindings \X {"intel_item"})
    \cup ({"assess_intel", "dismiss_intel"} \X {"finding"})
    \cup ({"create_module", "refresh_intel"} \X {"audit", "audit_actions"})
    \cup {<<"extract_rules", "policies">>, <<"review_module", "approval">>,
          <<"submit_report", "me">>, <<"map_course", "integration">>}

Pair(m, v, mutation, key) ==
    [covered  |-> \E prefix \in mutation.touches : Under(key, prefix),
     polled   |-> v \in PolledViews,
     streamed |-> \E prefix \in Streamed : Under(key, prefix),
     excused  |-> <<m, v>> \in Forgotten]

ReadersOf(mutation, reads) == {v \in DOMAIN reads : mutation.writes \cap reads[v] # {}}

PairsOf(mutations, keys, reads) ==
    UNION {{Pair(m, v, mutations[m], keys[v]) : v \in ReadersOf(mutations[m], reads)} :
           m \in DOMAIN mutations}

\* Staff and employees work in browsers of their own.
Pairs == PairsOf(StaffMutations, StaffKey, StaffReads) \cup PairsOf(OwnMutations, OwnKey, OwnReads)

\* The list is complete; a run finds a stale view where it is not.
Accounted == \A p \in Pairs : p.covered \/ p.polled \/ p.excused

-----------------------------------------------------------------------------
(* The session, and the fetches of the view.                               *)

Init ==
    /\ pair \in Pairs
    /\ session = 0 /\ issued = 0 /\ ended = {}
    /\ version = 0 /\ cache = Empty /\ shown = FALSE
    /\ fetch = NoFetch /\ stray = {}
    /\ write = NoWrite /\ owed = 0

Asked(tries) == [by |-> session, stage |-> "asked", version |-> 0, tries |-> tries]

\* The library forgets a fetch; the request is not aborted and still answers.
Forsaken == IF fetch = NoFetch THEN stray ELSE stray \cup {fetch.by}

\* Mutant of Cleared: a sign-in keeps what is cached.
ClearedLater ==
    /\ cache' = cache /\ fetch' = NoFetch /\ stray' = Forsaken

\* queryClient.clear(): every answer goes, and nobody waits for those to come.
Cleared ==
    /\ cache' = Empty /\ fetch' = NoFetch /\ stray' = Forsaken

\* login, adoptSession and switchRole, which signs in over another session.
SignIn ==
    /\ issued < MaxSignIns
    /\ issued' = issued + 1 /\ session' = issued + 1
    /\ shown' = FALSE
    /\ Cleared
    /\ UNCHANGED <<pair, ended, version, write, owed>>

Logout ==
    /\ session # 0
    /\ session' = 0 /\ shown' = FALSE
    /\ Cleared
    /\ UNCHANGED <<pair, issued, ended, version, write, owed>>

Expire(token) ==
    /\ token \in 1..issued \ ended
    /\ ended' = ended \cup {token}
    /\ UNCHANGED <<pair, session, issued, version, cache, shown, fetch, stray, write, owed>>

\* Mutant of SessionCleared: nobody tells the provider (onSessionCleared).
SessionClearedQuietly ==
    /\ session' = 0 /\ shown' = shown

\* A 401 on any request clears the credential, whichever token it was sent
\* with; the route guards take the screen away, the cache stays.
SessionCleared ==
    /\ session' = 0 /\ shown' = FALSE

\* A component that observes the view mounts.  What was fetched within
\* staleTime is not fetched again, unless it was invalidated.
Mount ==
    /\ session # 0 /\ ~shown
    /\ shown' = TRUE
    /\ \/ /\ fetch = NoFetch
          /\ fetch' = Asked(0)
       \/ /\ fetch # NoFetch \/ (cache # Empty /\ ~cache.invalid)
          /\ fetch' = fetch
    /\ UNCHANGED <<pair, session, issued, ended, version, cache, stray, write, owed>>

\* Its fetch goes on: no query hands its signal to the transport.
Unmount ==
    /\ shown
    /\ shown' = FALSE
    /\ UNCHANGED <<pair, session, issued, ended, version, cache, fetch, stray, write, owed>>

\* Mutant of Poll: the interval stops once there is an answer, as a settled
\* sandbox job's does.
PollUntilAnswered ==
    /\ pair.polled /\ shown /\ fetch = NoFetch /\ cache = Empty
    /\ fetch' = Asked(0)
    /\ UNCHANGED <<pair, session, issued, ended, version, cache, shown, stray, write, owed>>

\* refetchInterval.
Poll ==
    /\ pair.polled /\ shown /\ fetch = NoFetch
    /\ fetch' = Asked(0)
    /\ UNCHANGED <<pair, session, issued, ended, version, cache, shown, stray, write, owed>>

\* refetchOnWindowFocus and refetchOnReconnect, of a stale answer.
Refocus ==
    /\ shown /\ fetch = NoFetch
    /\ fetch' = Asked(0)
    /\ UNCHANGED <<pair, session, issued, ended, version, cache, shown, stray, write, owed>>

\* The server reads its data, or refuses the token.
ServerAnswers ==
    /\ fetch.stage = "asked"
    /\ fetch' = [fetch EXCEPT !.stage = IF Refused(fetch.by) THEN "refused" ELSE "answered",
                              !.version = IF Refused(fetch.by) THEN 0 ELSE version]
    /\ UNCHANGED <<pair, session, issued, ended, version, cache, shown, stray, write, owed>>

AnswerLands ==
    /\ fetch.stage = "answered"
    /\ cache' = [by |-> fetch.by, version |-> fetch.version, invalid |-> FALSE]
    /\ fetch' = NoFetch
    /\ UNCHANGED <<pair, session, issued, ended, version, shown, stray, write, owed>>

RefusalLands ==
    /\ fetch.stage = "refused"
    /\ SessionCleared
    /\ fetch' = NoFetch
    /\ UNCHANGED <<pair, issued, ended, version, cache, stray, write, owed>>

\* A transport fault or a 5xx: ApiError.retryable, and the token is read anew.
FetchFails ==
    /\ fetch # NoFetch
    /\ fetch' = IF fetch.tries < MAX_RETRIES THEN Asked(fetch.tries + 1) ELSE NoFetch
    /\ UNCHANGED <<pair, session, issued, ended, version, cache, shown, stray, write, owed>>

\* A request nobody waits for comes back: to nothing, or with a 401.
StrayReturns(token) ==
    /\ token \in stray
    /\ stray' = stray \ {token}
    /\ \/ UNCHANGED <<session, shown>>
       \/ Refused(token) /\ SessionCleared
    /\ UNCHANGED <<pair, issued, ended, version, cache, fetch, write, owed>>

-----------------------------------------------------------------------------
(* The mutation, and everybody else's.                                     *)

\* mutate(): sent once, never retried.
Send ==
    /\ session # 0 /\ write = NoWrite
    /\ write' = [by |-> session, stage |-> "sent", version |-> 0]
    /\ UNCHANGED <<pair, session, issued, ended, version, cache, shown, fetch, stray, owed>>

ServerCommits ==
    /\ write.stage = "sent" /\ ~Refused(write.by) /\ version < MaxVersion
    /\ version' = version + 1
    /\ write' = [write EXCEPT !.stage = "committed", !.version = version + 1]
    /\ UNCHANGED <<pair, session, issued, ended, cache, shown, fetch, stray, owed>>

\* The answer is lost, or it is an error: onSuccess never runs, and what was
\* committed stays unknown here.
WriteFails ==
    /\ write # NoWrite
    /\ write' = NoWrite
    /\ UNCHANGED <<pair, session, issued, ended, version, cache, shown, fetch, stray, owed>>

WriteRefused ==
    /\ write.stage = "sent" /\ Refused(write.by)
    /\ write' = NoWrite
    /\ SessionCleared
    /\ UNCHANGED <<pair, issued, ended, version, cache, fetch, stray, owed>>

\* A fetch that invalidateQueries leaves running: that of a view nobody
\* observes, or the first one, which has no answer to fall back on.
LeftRunning == fetch # NoFetch /\ (~shown \/ cache = Empty)

\* Mutant of Invalidated: a fetch under way is joined, not replaced.
InvalidatedJoining ==
    /\ cache' = IF cache = Empty THEN cache ELSE [cache EXCEPT !.invalid = TRUE]
    /\ fetch' = IF shown /\ fetch = NoFetch THEN Asked(0) ELSE fetch
    /\ stray' = stray

\* invalidateQueries: the answer is marked, and an observed view is asked for
\* again, dropping a fetch under way.
Invalidated ==
    /\ cache' = IF cache = Empty THEN cache ELSE [cache EXCEPT !.invalid = TRUE]
    /\ IF shown /\ ~LeftRunning
       THEN fetch' = Asked(0) /\ stray' = Forsaken
       ELSE UNCHANGED <<fetch, stray>>

\* merge: the mutation's own invalidation first, then the caller's onSuccess.
Acknowledge ==
    /\ write.stage = "committed"
    /\ write' = NoWrite
    /\ owed' = IF LeftRunning THEN owed ELSE write.version
    /\ IF pair.covered THEN Invalidated ELSE UNCHANGED <<cache, fetch, stray>>
    /\ UNCHANGED <<pair, session, issued, ended, version, shown>>

\* A loop_update on the socket of any screen of this browser that watches the
\* loop: a run moved, or the message is a late one.  One that is lost is lost.
StreamEvent ==
    /\ session # 0 /\ pair.streamed
    /\ Invalidated
    /\ UNCHANGED <<pair, session, issued, ended, version, shown, write, owed>>

OthersCommit ==
    /\ version < MaxVersion
    /\ version' = version + 1
    /\ UNCHANGED <<pair, session, issued, ended, cache, shown, fetch, stray, write, owed>>

Next ==
    \/ SignIn \/ Logout \/ \E token \in Tokens : Expire(token)
    \/ Mount \/ Unmount \/ Poll \/ Refocus
    \/ ServerAnswers \/ AnswerLands \/ RefusalLands \/ FetchFails
    \/ \E token \in 0..MaxSignIns : StrayReturns(token)
    \/ Send \/ ServerCommits \/ WriteFails \/ WriteRefused \/ Acknowledge
    \/ StreamEvent \/ OthersCommit

\* The interval timer fires; of requests and answers that may get lost again and
\* again, one arrives.
Fairness == WF_vars(Poll) /\ SF_vars(ServerAnswers) /\ SF_vars(AnswerLands)

Spec == Init /\ [][Next]_vars /\ Fairness

-----------------------------------------------------------------------------
(* What the screens may show.                                              *)

TypeOK ==
    /\ pair \in [covered : BOOLEAN, polled : BOOLEAN, streamed : BOOLEAN, excused : BOOLEAN]
    /\ issued \in 0..MaxSignIns /\ session \in 0..issued /\ ended \subseteq 1..issued
    /\ version \in Versions /\ owed \in 0..version
    /\ shown \in BOOLEAN /\ (shown => session # 0)
    /\ cache \in Caches /\ fetch \in Fetches /\ write \in Writes
    /\ stray \subseteq 0..issued

\* "Never let the previous user's cached answers survive a sign-in": whoever is
\* signed in sees answers to requests of that very session, whatever was in
\* flight, retried or refused when sessions changed (AuthProvider, client.ts).
OwnData ==
    session # 0 /\ cache # Empty => cache.by = session

\* After a mutation has succeeded, an answer that predates it is never taken
\* for current: the view is asked for again, or it polls.  The exceptions are
\* the pairs in Forgotten, and a fetch that invalidateQueries leaves running
\* (mutations.ts: "a write succeeded on the server and left the screen showing
\* the old value until somebody reloaded").
OwnChangeIsSeen ==
    cache # Empty /\ ~cache.invalid /\ cache.version < owed => pair.polled \/ pair.excused

\* A polled view left open under a session that lasts catches up with whatever
\* anybody changed, through lost answers and retries (POLL_LIVE, POLL_QUEUE).
PolledCatchesUp ==
    pair.polled =>
        (<>[](shown /\ ~Refused(session)) => <>[](cache.version = version))
=============================================================================
