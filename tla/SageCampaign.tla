---------------------------- MODULE SageCampaign ----------------------------
(***************************************************************************)
(* One SAGE campaign: run_scenario_sequence (toolsandbox_adapter.py) with  *)
(* the transform and result hooks of run_sage_with_registry                *)
(* (sage_run_adapter.py) and the OnlineBirthController (online_birth.py),  *)
(* over the registry of RegistryStore.tla.                                 *)
(*                                                                         *)
(* Scenarios run one after the other in manifest order.  Before one runs   *)
(* its context gets the proved registry tools routed to it; while it runs  *)
(* every call of such a tool is counted in the registry and then logged;   *)
(* after it the result hook writes the selection row and turns each        *)
(* observed shortfall into evidence, and recurring evidence into a new     *)
(* registry entry.  The process may be killed between any two writes; the  *)
(* operator then resumes into a new output directory, with the logs and    *)
(* finished rows of the old one and with the same registry, but with an    *)
(* empty controller.                                                       *)
(***************************************************************************)
EXTENDS RegistryStore, FiniteSets

CONSTANTS
    N,                  \* number of scenarios of the manifest
    Keys,               \* the canonical keys of shortfalls
    GenerationAllowed,  \* the keys whose observations may lead to a birth
    Family,             \* Family[s]: the base task family of scenario s
    Observable,         \* Observable[s]: the keys a result of s may show
    Routes,             \* Routes[s]: the tools the router shows in s
    Suggested,          \* Suggested[k]: suggested_tool_name(k)
    Broader,            \* Broader[k]: BROADER_HELPER_OVERLAPS of k
    Producible,         \* Producible[k]: the names a generator returns for k
    RecurrenceThreshold, MaxRejections,
    RequiredFamilies,   \* RequiredFamilies[k]: 2, or 3 for one planner key
    Repairing,          \* the candidate_repair feature is enabled
    Nothing,            \* no key, no tool
    MaxCrashes,         \* bound: kills of the process
    MaxCalls            \* bound: generated-tool calls in one rollout

Scenarios == 1..N

ASSUME CampaignAssumption ==
    /\ N \in Nat
    /\ GenerationAllowed \subseteq Keys
    /\ DOMAIN Family = Scenarios
    /\ Observable \in [Scenarios -> SUBSET Keys]
    /\ Routes \in [Scenarios -> SUBSET ToolNames]
    /\ Suggested \in [Keys -> ToolNames]
    /\ Broader \in [Keys -> SUBSET ToolNames]
    /\ Producible \in [Keys -> SUBSET ToolNames]
    /\ RecurrenceThreshold \in Nat /\ MaxRejections \in Nat
    /\ RequiredFamilies \in [Keys -> Nat]
    /\ Repairing \in BOOLEAN
    /\ Nothing \notin ToolNames \union Keys
    /\ MaxCrashes \in Nat /\ MaxCalls \in Nat

VARIABLES
    frozen,         \* no generator was given (the same again on a resume)
    \* on disk
    registry,       \* registry_manifest.json
    evidence,       \* capability_observations.jsonl: its <<key, scenario>> pairs
    rejectRows,     \* tool_birth_events.jsonl: rejected candidates by key
    reuseLog,       \* reuse_events.jsonl: its <<scenario, tool>> pairs
    reuseRows,      \* ... and the rows written for the tool's current version
    selectionRows,  \* scenario_tool_selection.jsonl: rows by scenario
    claimed,        \* ... and the called tools of the last of them
    completed,      \* live_result_summary.json: the scenarios that have a row
    \* in memory
    counts, seen, generated, rejected,  \* the OnlineBirthController
    pc, current,        \* the run loop: its phase and its scenario
    visible,            \* the generated tools in the scenario's context
    calls,              \* generated-tool calls of this rollout
    shortfalls,         \* the keys classified in the result, by scenario
    todo,               \* those the hook has still to pass to observe
    key, tool,          \* the key being observed; the tool being recorded
    diagnostic,         \* ... and the diagnostic_only flag of that tool
    \* history
    crashes,        \* kills so far
    interrupted,    \* the scenarios during which one happened
    used,           \* the tools the last attempt at a scenario called
    births          \* what was put into the registry, and for which key

disk       == <<registry, evidence, rejectRows, reuseLog, reuseRows,
                selectionRows, claimed, completed>>
controller == <<counts, seen, generated, rejected>>
loop       == <<pc, current, visible, calls, shortfalls, todo, key, tool,
                diagnostic>>
history    == <<crashes, interrupted, used, births>>
vars       == <<frozen, disk, controller, loop, history>>

Phases == {"idle", "playing", "logging", "hook", "generating", "saving",
           "down", "finished"}

ScenariosOf(pairs, k) == {s \in Scenarios : <<k, s>> \in pairs}
FamiliesOf(pairs, k)  == {Family[s] : s \in ScenariosOf(pairs, k)}

\* Mutant: near-duplicate scenarios count as diversity.
DiverseByScenario(pairs, k) == Cardinality(ScenariosOf(pairs, k)) >= RecurrenceThreshold

\* _cluster_context: whether a birth for k need not be diagnostic.
DiverseIn(pairs, k) ==
    /\ Cardinality(ScenariosOf(pairs, k)) >= RecurrenceThreshold
    /\ Cardinality(FamiliesOf(pairs, k)) >= RequiredFamilies[k]

\* Mutant: one more observation than the threshold is needed.
EligibleLate(k, n) == /\ k \in GenerationAllowed \ generated
                      /\ rejected[k] < MaxRejections
                      /\ n > RecurrenceThreshold

\* The first early returns of observe, after n observations of k.
Eligible(k, n) == /\ k \in GenerationAllowed \ generated
                  /\ rejected[k] < MaxRejections
                  /\ n >= RecurrenceThreshold

\* Mutant: observe does not look the suggested tool up.
ServedByBroaderOnly(k) == Broader[k] \intersect Proved(registry) # {}

\* The early returns of observe that mark a key as served: its suggested
\* helper, or a broader one, is in the registry and proved.
Served(k) == ({Suggested[k]} \union Broader[k]) \intersect Proved(registry) # {}

\* transform: of the tools routed to the scenario, those proved now.
Shown(s) == Routes[s] \intersect Proved(registry)

\* _reuse_log_tools
CalledIn(s) == {t \in ToolNames : <<s, t>> \in reuseLog}

-----------------------------------------------------------------------------
Init ==
    /\ frozen \in BOOLEAN
    /\ registry \in [ToolNames -> {NoEntry, Accepted(FALSE),
            [Accepted(FALSE) EXCEPT !.hash = "absent"],
            [Accepted(FALSE) EXCEPT !.hash = "mismatch"]}]
    /\ evidence = {} /\ reuseLog = {} /\ completed = {}
    /\ rejectRows = [k \in Keys |-> 0]
    /\ reuseRows = [t \in ToolNames |-> 0]
    /\ selectionRows = [s \in Scenarios |-> 0]
    /\ claimed = [s \in Scenarios |-> {}]
    /\ counts = [k \in Keys |-> 0] /\ rejected = [k \in Keys |-> 0]
    /\ seen = {} /\ generated = {}
    /\ pc = "idle" /\ current = 0 /\ visible = {} /\ calls = 0
    /\ shortfalls = [s \in Scenarios |-> {}] /\ todo = {}
    /\ key = Nothing /\ tool = Nothing /\ diagnostic = FALSE
    /\ crashes = 0 /\ interrupted = {} /\ births = {}
    /\ used = [s \in Scenarios |-> {}]

\* The head of the loop and transform: the first scenario without a row gets
\* the routed tools that are proved now.  When transform raises, the scenario
\* is run without any (scenario_transform_failed).
StartScenario ==
    /\ pc = "idle"
    /\ \E s \in Scenarios \ completed :
        /\ \A r \in Scenarios \ completed : s <= r
        /\ current' = s
        /\ visible' \in {Shown(s), {}}
        /\ used' = [used EXCEPT ![s] = {}]
    /\ pc' = "playing"
    /\ calls' = 0
    /\ UNCHANGED <<disk, controller, shortfalls, todo, key, tool, diagnostic,
                   crashes, interrupted, births>>

\* record_reuse of transform, first write: the registry, unless it is frozen.
CallTool(t) ==
    /\ pc = "playing" /\ t \in visible /\ calls < MaxCalls
    /\ registry' = IF frozen THEN registry ELSE RecordReuse(registry, t)
    /\ used' = [used EXCEPT ![current] = @ \union {t}]
    /\ calls' = calls + 1
    /\ tool' = t
    /\ pc' = "logging"
    /\ UNCHANGED <<evidence, rejectRows, reuseLog, reuseRows, selectionRows,
                   claimed, completed, controller, current, visible, shortfalls,
                   todo, key, diagnostic, crashes, interrupted, births>>

\* record_reuse of transform, second write: the reuse event.
LogReuse ==
    /\ pc = "logging"
    /\ reuseLog' = reuseLog \union {<<current, tool>>}
    /\ reuseRows' = [reuseRows EXCEPT ![tool] = @ + 1]
    /\ tool' = Nothing
    /\ pc' = "playing"
    /\ UNCHANGED <<registry, evidence, rejectRows, selectionRows, claimed,
                   completed, controller, current, visible, calls, shortfalls,
                   todo, key, diagnostic, history>>

\* The rollout ends, with whatever result, and after_result begins: it takes
\* the called tools from reuse_events.jsonl (those it remembers are among
\* them), writes the selection row and classifies the shortfalls (only when
\* there is a controller).  The order it observes them in is left open.
FinishPlay ==
    /\ pc = "playing"
    /\ selectionRows' = [selectionRows EXCEPT ![current] = @ + 1]
    /\ claimed' = [claimed EXCEPT ![current] = CalledIn(current)]
    /\ \E found \in SUBSET Observable[current] :
        /\ todo' = IF frozen THEN {} ELSE found
        /\ shortfalls' = [shortfalls EXCEPT ![current] = todo']
    /\ visible' = {}
    /\ pc' = "hook"
    /\ UNCHANGED <<registry, evidence, rejectRows, reuseLog, reuseRows, completed,
                   controller, current, calls, key, tool, diagnostic, history>>

\* observe, up to its early returns.  The observation is logged and counted
\* before anything else; what follows depends on the counts it changed.
Observe(k) ==
    /\ pc = "hook" /\ k \in todo
    /\ todo' = todo \ {k}
    /\ evidence' = evidence \union {<<k, current>>}
    /\ seen' = seen \union {<<k, current>>}
    /\ counts' = [counts EXCEPT ![k] = @ + 1]
    /\ generated' = IF Eligible(k, counts'[k]) /\ Served(k)
                    THEN generated \union {k} ELSE generated
    /\ IF Eligible(k, counts'[k]) /\ ~Served(k)
       THEN pc' = "generating" /\ key' = k
       ELSE UNCHANGED <<pc, key>>
    /\ UNCHANGED <<registry, rejectRows, reuseLog, reuseRows, selectionRows,
                   claimed, completed, rejected, current, visible, calls,
                   shortfalls, tool, diagnostic, history>>

\* The rest of observe when the generator raises or the last validation fails.
Reject ==
    /\ pc = "generating"
    /\ rejected' = [rejected EXCEPT ![key] = @ + 1]
    /\ rejectRows' = [rejectRows EXCEPT ![key] = @ + 1]
    /\ key' = Nothing
    /\ pc' = "hook"
    /\ UNCHANGED <<registry, evidence, reuseLog, reuseRows, selectionRows, claimed,
                   completed, counts, seen, generated, current, visible, calls,
                   shortfalls, todo, tool, diagnostic, history>>

\* ... and when a candidate is accepted, up to its row in tool_birth_events.
\* A generated candidate is made diagnostic when the evidence is not diverse;
\* a repaired one keeps the flag the generator gave it.
Accept ==
    /\ pc = "generating"
    /\ tool' \in Producible[key]
    /\ \E flag \in BOOLEAN, repaired \in BOOLEAN :
        /\ repaired => Repairing
        /\ diagnostic' = (flag \/ (~repaired /\ ~DiverseIn(seen, key)))
    /\ generated' = generated \union {key}
    /\ pc' = "saving"
    /\ UNCHANGED <<disk, counts, seen, rejected, current, visible, calls,
                   shortfalls, todo, key, history>>

\* store.put of the accepted tool.
Save ==
    /\ pc = "saving"
    /\ registry' = Put(registry, tool, Accepted(diagnostic))
    /\ reuseRows' = [reuseRows EXCEPT ![tool] = 0]
    /\ births' = births \union {[key |-> key, name |-> tool,
                                 version |-> registry'[tool].version,
                                 diagnostic_only |-> diagnostic,
                                 process |-> crashes]}
    /\ key' = Nothing /\ tool' = Nothing
    /\ pc' = "hook"
    /\ UNCHANGED <<evidence, rejectRows, reuseLog, selectionRows, claimed,
                   completed, controller, current, visible, calls, shortfalls,
                   todo, diagnostic, crashes, interrupted, used>>

\* Mutant: the row is written before the hook has done its work.
CompleteBeforeHook ==
    /\ pc = "hook"
    /\ completed' = completed \union {current}
    /\ pc' = "idle"
    /\ UNCHANGED <<registry, evidence, rejectRows, reuseLog, reuseRows,
                   selectionRows, claimed, controller, current, visible, calls,
                   shortfalls, todo, key, tool, diagnostic, history>>

\* Mutant: the loop does not go on to the next scenario.
CompleteAndStay ==
    /\ pc = "hook" /\ todo = {}
    /\ completed' = completed \union {current}
    /\ UNCHANGED <<registry, evidence, rejectRows, reuseLog, reuseRows,
                   selectionRows, claimed, controller, loop, history>>

\* The hook returns, and the row goes into the live summary.
CompleteScenario ==
    /\ pc = "hook" /\ todo = {}
    /\ completed' = completed \union {current}
    /\ pc' = "idle"
    /\ UNCHANGED <<registry, evidence, rejectRows, reuseLog, reuseRows,
                   selectionRows, claimed, controller, current, visible, calls,
                   shortfalls, todo, key, tool, diagnostic, history>>

\* No scenario is left: the summaries are written and the run ends.
FinishCampaign ==
    /\ pc = "idle" /\ completed = Scenarios
    /\ pc' = "finished"
    /\ UNCHANGED <<disk, controller, current, visible, calls, shortfalls, todo,
                   key, tool, diagnostic, history>>

\* The process is killed: what is in memory is gone.
Crash ==
    /\ pc \notin {"down", "finished"} /\ crashes < MaxCrashes
    /\ crashes' = crashes + 1
    /\ interrupted' = IF pc = "idle" THEN interrupted ELSE interrupted \union {current}
    /\ counts' = [k \in Keys |-> 0] /\ rejected' = [k \in Keys |-> 0]
    /\ seen' = {} /\ generated' = {}
    /\ pc' = "down" /\ visible' = {} /\ calls' = 0 /\ todo' = {}
    /\ key' = Nothing /\ tool' = Nothing /\ diagnostic' = FALSE
    /\ UNCHANGED <<frozen, disk, current, shortfalls, used, births>>

\* The operator starts the campaign again from the old output directory:
\* its *.jsonl logs and finished rows are taken over.
Resume ==
    /\ pc = "down"
    /\ pc' = "idle"
    /\ UNCHANGED <<frozen, disk, controller, current, visible, calls, shortfalls, todo,
                   key, tool, diagnostic, history>>

Terminated == pc = "finished" /\ UNCHANGED vars

Step ==
    /\ \/ StartScenario \/ (\E t \in ToolNames : CallTool(t)) \/ LogReuse
       \/ FinishPlay \/ (\E k \in Keys : Observe(k)) \/ Reject \/ Accept \/ Save
       \/ CompleteScenario \/ FinishCampaign
    /\ UNCHANGED frozen

Next == Step \/ Crash \/ Resume \/ Terminated

Spec == Init /\ [][Next]_vars

\* A process that is not killed keeps executing; nothing makes an operator
\* resume, so Resume has no fairness.
FairSpec == Spec /\ WF_vars(Step)

-----------------------------------------------------------------------------
\* The values of the variables.
TypeOK ==
    /\ frozen \in BOOLEAN /\ registry \in Manifests
    /\ evidence \subseteq Keys \X Scenarios
    /\ rejectRows \in [Keys -> Nat]
    /\ reuseLog \subseteq Scenarios \X ToolNames
    /\ reuseRows \in [ToolNames -> Nat]
    /\ selectionRows \in [Scenarios -> Nat]
    /\ claimed \in [Scenarios -> SUBSET ToolNames]
    /\ completed \subseteq Scenarios
    /\ counts \in [Keys -> Nat] /\ rejected \in [Keys -> Nat]
    /\ seen \subseteq Keys \X Scenarios /\ generated \subseteq Keys
    /\ pc \in Phases /\ current \in 0..N /\ visible \subseteq ToolNames
    /\ calls \in Nat /\ shortfalls \in [Scenarios -> SUBSET Keys]
    /\ todo \subseteq Keys
    /\ key \in Keys \union {Nothing} /\ tool \in ToolNames \union {Nothing}
    /\ diagnostic \in BOOLEAN
    /\ crashes \in Nat /\ interrupted \subseteq Scenarios
    /\ used \in [Scenarios -> SUBSET ToolNames]
    /\ births \subseteq [key : Keys, name : ToolNames, version : Nat \ {0},
                         diagnostic_only : BOOLEAN, process : Nat]

\* A tool was born from evidence, on disk, of its shortfall in at least
\* RecurrenceThreshold scenarios, and, unless it is diagnostic-only, in
\* RequiredFamilies base families (observe and _cluster_context), however
\* often the process was killed.
ClaimsNeedDiverseEvidence ==
    \A b \in births :
        /\ Cardinality(ScenariosOf(evidence, b.key)) >= RecurrenceThreshold
        /\ \/ b.diagnostic_only
           \/ Cardinality(FamiliesOf(evidence, b.key)) >= RequiredFamilies[b.key]

\* A key gets one tool in a campaign, although the controller that remembers
\* it is lost in a crash: a restarted one finds the tool in the registry,
\* unless the generator gave it another name than the one suggested.
OneBirthPerKey ==
    \A a, b \in births :
        a.key = b.key /\ a # b /\ a.process <= b.process =>
            /\ a.process < b.process
            /\ a.name \notin {Suggested[a.key]} \union Broader[a.key]

\* A generator is asked for a key's tool only while it has been rejected less
\* than MaxRejections times by this process.
RejectionBudget ==
    \A k \in Keys : rejectRows[k] <= MaxRejections * (crashes + 1)

\* The reuse count of a tool is that of the events logged for its current
\* version, but for one call per crash, which was counted and not logged
\* (and the call being recorded now).
ReuseCountsMatchLog ==
    ~frozen =>
        \A t \in ToolNames : registry[t] # NoEntry =>
            /\ reuseRows[t] <= registry[t].reuse_count
            /\ registry[t].reuse_count
                 <= reuseRows[t] + crashes + (IF pc = "logging" THEN 1 ELSE 0)

\* A scenario that will not be run again after a crash has its selection row
\* and all its evidence on disk: the row of the summary is the last thing
\* written.  If no crash happened in it the selection row is the only one, and
\* names exactly the tools its rollout called (after_result).
CompletedIsRecorded ==
    \A s \in completed :
        /\ selectionRows[s] >= 1
        /\ \A k \in shortfalls[s] : <<k, s>> \in evidence
        /\ s \notin interrupted => selectionRows[s] = 1 /\ claimed[s] = used[s]

\* Without a crash no recurring shortfall is dropped: between two scenarios
\* its key is served or was tried and rejected.
RecurrenceIsAnswered ==
    crashes = 0 /\ pc = "idle" =>
        \A k \in GenerationAllowed :
            Cardinality({s \in completed : k \in shortfalls[s]})
                >= RecurrenceThreshold /\ RecurrenceThreshold > 0
            => k \in generated \/ rejected[k] >= 1 \/ MaxRejections = 0

\* An entry whose code is not the one that was accepted is never proved
\* again, by whatever save, until a newly validated version replaces it.
TamperedStaysUnproved ==
    [][\A t \in ToolNames :
        /\ registry[t] # NoEntry /\ registry[t].hash = "mismatch"
        /\ t \in Proved(registry)'
        => registry'[t].version > registry[t].version]_vars

\* A frozen campaign leaves the registry as it found it.
FrozenRegistry == [][frozen => registry' = registry]_vars

\* A process that is not killed comes to the end of its manifest.
RunsToEnd == (pc # "down") ~> (pc \in {"down", "finished"})
=============================================================================
