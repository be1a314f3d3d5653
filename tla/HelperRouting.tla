---------------------------- MODULE HelperRouting ----------------------------
(***************************************************************************)
(* Which generated helpers a scenario is offered, and how that depends on  *)
(* what became of the helpers in earlier runs: routing_scorer.py and       *)
(* toolsandbox_integration.py (sage_ts/runtime), the selection rows of     *)
(* sage_run_adapter.py, the helper contribution summary of                 *)
(* helper_contribution.py that a protocol run publishes, and the promotion *)
(* gate (registry/promotion_gate.py) that reads it.                        *)
(*                                                                         *)
(* A run routes the registry's entries for one scenario after the other.   *)
(* Its summary says how often each helper was shown and called; the next   *)
(* process that routes reads the newest usable summary, once, and hides    *)
(* helpers that were mostly shown in vain.  Processes may be killed and    *)
(* resumed, and other campaigns publish into the same directory.           *)
(*                                                                         *)
(* Names and texts are abstracted to what the router finds in them: a      *)
(* scenario is a record of tokens, strata and tools, a helper's contract   *)
(* one of triggers, strata and tools.                                      *)
(***************************************************************************)
EXTENDS RegistryStore, FiniteSets, Sequences

CONSTANTS
    N,                  \* number of scenarios of the manifest
    Task,               \* Task[s]: scenario s as the router sees it
    Contract,           \* Contract[t]: the ToolSpec of t as the router sees it
    Producers,          \* the base tools that search, get or find
    EvidenceRouting,    \* the evidence_routing feature is enabled
    Requests,           \* the kinds of run with the --routing-evidence-mode they are given
    ForcedTool,         \* SAGE_DIAGNOSTIC_FORCE_TOOL_NAME, or Nothing
    Nothing,
    OtherLog,           \* the selection log of a run of another campaign
    FirstRegistry,      \* the manifest the first run finds
    MaxBundle,          \* DEFAULT_MAX_RUNTIME_BUNDLE_SIZE
    RiskThreshold,      \* the showings that make a rate: 3
    FairChanceLimit,    \* FAIR_CHANCE_MAX_VISIBLE_WITHOUT_CALLS
    MaxRuns, MaxKills,  \* bounds: fresh runs, and kills (each is resumed once)
    MaxOthers           \* bound: summaries of other campaigns

Scenarios == 1..N

\* A row of a selection log, of this manifest or of another one.
LogRow == [scenario : Nat, visible : SUBSET ToolNames, called : SUBSET ToolNames]

ASSUME RoutingAssumption ==
    /\ N \in Nat /\ MaxBundle \in Nat
    /\ RiskThreshold \in Nat /\ FairChanceLimit \in Nat
    /\ DOMAIN Task = Scenarios /\ DOMAIN Contract = ToolNames
    /\ EvidenceRouting \in BOOLEAN
    /\ \A t \in ToolNames : Contract[t].rank \in Nat    \* the order of the names
    /\ \A t, u \in ToolNames : Contract[t].rank = Contract[u].rank => t = u
    /\ Nothing \notin ToolNames /\ FirstRegistry \in Manifests
    /\ IsFiniteSet(ToolNames) /\ OtherLog \in Seq(LogRow)
    /\ Requests \subseteq {"online", "frozen"} \X {"default", "auto", "disabled", "pinned"}
    /\ MaxRuns \in Nat /\ MaxKills \in Nat /\ MaxOthers \in Nat

-----------------------------------------------------------------------------
(* The score of a helper for a scenario.  `e` is the evidence about it: in  *)
(* how many scenarios it was visible, called, visible and unused, and       *)
(* whether those that called it went worse than the control (`loss`).       *)

Selector == "search_filter_ranking_helper"
Derived  == "derived_value_calculator"
State    == "state_precondition_helper"
Composite == "composite_workflow_helper"
Canonical == "canonicalizer"
Abstention == "validation_abstention_helper"

Triggered(t, s) == Contract[t].positive \cap Task[s].tokens # {}
FamilyFits(t, s) == Contract[t].families \cap Task[s].strata # {}
LeadsOn(t) == Contract[t].required \cup Contract[t].preserves # {}

\* The reasons not to score at all, whatever else speaks for the helper.
Suppressed(t, s) ==
    LET c == Contract[t]
    IN  \/ c.negative \cap Task[s].tokens # {}
        \/ c.recencyAction /\ ~Task[s].recency
        \/ c.family \in {Selector, Composite} /\ Task[s].insufficient /\ LeadsOn(t)
        \/ /\ c.family = Derived /\ Task[s].insufficient
           /\ c.required # {} /\ ~c.guard
        \/ c.family = Composite /\ c.selectedRecord /\ ~Task[s].action

\* _is_fair_chance_candidate: a helper born from evidence that nobody has called.
FairChance(t, entry, e) ==
    /\ EvidenceRouting
    /\ ~entry.diagnostic_only /\ Contract[t].clustered
    /\ entry.reuse_count = 0
    /\ e.called = 0 /\ e.visible < FairChanceLimit

\* _cluster_fit_reason
ClusterFits(t, s) ==
    \/ Triggered(t, s) \/ FamilyFits(t, s)
    \/ /\ Contract[t].family = State /\ Contract[t].aboutState
       /\ "direct_state_precondition_service_enablement" \in Task[s].strata

Points(condition, n) == IF condition THEN n ELSE 0

Score(t, s, entry, e) ==
    LET c == Contract[t]
    IN  Points(Triggered(t, s), 4)
          + Points(FamilyFits(t, s), 3)
          + Points(ClusterFits(t, s), IF FairChance(t, entry, e) THEN 3 ELSE 1)
          + Points(/\ c.triggers \cap Task[s].strata # {}
                   /\ Triggered(t, s) \/ FamilyFits(t, s), 2)
          + Points(LeadsOn(t), 1)
          + Points(c.abstains, 1)

\* _blocked_by_adoption_risk: shown often and mostly not called, unless there is
\* a reason to try it nevertheless.
AtRisk(t, s, entry, e) ==
    LET c      == Contract[t]
        score  == Score(t, s, entry, e)
        strong == score >= 7
    IN  /\ EvidenceRouting /\ score >= 3
        /\ ~(FairChance(t, entry, e) /\ ClusterFits(t, s))
        /\ e.visible >= RiskThreshold /\ 2 * e.unused > e.visible
        /\ ~(Triggered(t, s) /\ strong /\ e.called > 0 /\ ~e.loss)
        /\ ~(/\ c.family = Selector /\ c.takesRecords
             /\ (c.required \cup c.preserves) \cap Producers # {}
             /\ Triggered(t, s) \/ FamilyFits(t, s)
             /\ strong /\ ~(e.called > 0 /\ e.loss))

-----------------------------------------------------------------------------
(* What decides below a score of 3: the rules for single names, and where a  *)
(* helper was born.                                                          *)

\* family_strata of _provisional_birth_family_visibility
FamilyStrata(family) ==
    CASE family = Canonical -> {"temporal_reminder_date_canonicalization",
                                "holiday_calendar_business_day_logic"}
      [] family = Derived -> {"temporal_reminder_date_canonicalization",
                              "record_filtering_ranking_latest_selection",
                              "holiday_calendar_business_day_logic",
                              "contact_message_search_disambiguation",
                              "stock_market_numeric_normalization"}
      [] family = Selector -> {"contact_message_search_disambiguation",
                               "record_filtering_ranking_latest_selection"}
      [] family = State -> {"direct_state_precondition_service_enablement"}
      [] family = Composite -> {"generic_multi_tool_composition"}
      [] family = Abstention -> {"insufficient_information_clarification"}
      [] OTHER -> {}

\* _provisional_birth_family_visibility
Provisional(t, s) ==
    LET c == Contract[t]
    IN  \/ c.triggers \cap Task[s].strata # {}
        \/ Task[s].strata \cap c.birthStrata \cap FamilyStrata(c.family) # {}
        \/ c.birthFamily = Task[s].family

\* registry_entry_visibility_reason, after the score: a name with a rule of its
\* own is shown where that rule says so, a contract that names triggers or
\* families has had its chance, the others are shown near their birth.
Policy(t, s) ==
    LET c == Contract[t]
        open == c.positive = {} /\ c.families = {}
    IN  \/ /\ c.named /\ s \in c.shows
           /\ c.family = State => open
        \/ /\ ~c.named /\ c.family # State /\ Provisional(t, s)
           /\ \/ c.family \in {Selector, Canonical}
              \/ open /\ ~(c.family = Derived /\ c.required # {})

-----------------------------------------------------------------------------
(* route_registry_entries                                                    *)

\* The base tools a helper prepares for, and whether one of them is enough.
Downstream(t) ==
    LET c     == Contract[t]
        picks == c.downstreamKey /\ c.family \in {Composite, Selector}
        first == IF picks THEN c.preserves
                 ELSE IF c.emits # {} THEN c.emits ELSE c.required
        tools == IF first = {} THEN c.preserves ELSE first
        searched == IF c.family = Selector THEN (tools \cup c.preserves) \cap Producers ELSE {}
    IN  [tools |-> IF searched # {} THEN searched ELSE tools,
         any   |-> \/ picks \/ c.emits # {} \/ searched # {}
                   \/ c.family = Derived /\ Cardinality(first) > 1]

\* blocked_by_missing_downstream_original_tool
Lacks(t, s) ==
    LET d == Downstream(t)
    IN  /\ d.tools # {} /\ ~(Task[s].insufficient /\ Contract[t].guard)
        /\ IF d.any THEN d.tools \cap Task[s].tools = {} ELSE ~(d.tools \subseteq Task[s].tools)

\* The decision about one entry, before the budget.
Visible(t, s, entry, e) ==
    LET score == Score(t, s, entry, e)
    IN  /\ HasCurrentProof(entry) /\ ~Suppressed(t, s)
        /\ \/ /\ t = ForcedTool
              /\ AtRisk(t, s, entry, e) \/ (score < 3 /\ Contract[t].polluting)
           \/ /\ ~AtRisk(t, s, entry, e)
              /\ score >= 3 \/ Policy(t, s)
              /\ ~Lacks(t, s)

\* The order of the bundle: best score first, then by name.  E gives the evidence
\* about every helper.
Before(t, u, s, entries, E) ==
    LET a == Score(t, s, entries[t], E[t])
        b == Score(u, s, entries[u], E[u])
    IN  a > b \/ (a = b /\ Contract[t].rank < Contract[u].rank)

Candidates(s, entries, E) ==
    {t \in ToolNames : entries[t] # NoEntry /\ Visible(t, s, entries[t], E[t])}

\* The bundle of a scenario; inject_registry_tools_into_context puts all of it
\* before the base tools.
Routed(s, entries, E) ==
    LET shown == Candidates(s, entries, E)
    IN  {t \in shown : Cardinality({u \in shown : Before(u, t, s, entries, E)}) < MaxBundle}

-----------------------------------------------------------------------------
VARIABLES
    registry,   \* registry_manifest.json
    runs,       \* the options of every run, and its paired_comparison.json
    root,       \* the logs and results in the run root of the last one
    published,  \* the files under artifacts/summaries, in the order of their mtime
    main,       \* what the last run is doing
    known,      \* its process has read the evidence ...
    evidence,   \* ... in this file; 0: there is none
    at,         \* the scenario it plays
    shown,      \* generated_tools_visible of that scenario
    frozen,     \* history: what frozen runs with the default evidence mode offered
    kills, others   \* history: counted against the bounds

process == <<main, known, evidence, at, shown>>
bounded == <<kills, others>>
vars == <<registry, runs, root, published, process, frozen, bounded>>

run == Len(runs)
Here == runs[run]
NoShowing == [visible |-> 0, called |-> 0, unused |-> 0, loss |-> FALSE]
EmptyRoot == [snapshot |-> FirstRegistry, log |-> <<>>, calls |-> {}, done |-> {},
              losses |-> {}, killed |-> FALSE]
Phases == {"idle", "playing", "routed", "played", "logged", "compared", "gate"}

\* build_helper_contribution_summary: the row of a helper.  The log may hold a
\* scenario twice.
ShownIn(log, t)  == {log[i].scenario : i \in {j \in 1..Len(log) : t \in log[j].visible}}
CalledIn(log, t) == {log[i].scenario : i \in {j \in 1..Len(log) : t \in log[j].called}}

\* Mutant: the rows of the log are counted.
RowsOf(log, losses, t) ==
    LET rows == {j \in 1..Len(log) : t \in log[j].visible}
        used == {j \in 1..Len(log) : t \in log[j].called}
    IN  [visible |-> Cardinality(rows), called |-> Cardinality(used),
         unused |-> Cardinality(rows \ used), loss |-> t \in losses]

RowOf(log, losses, t) ==
    [visible |-> Cardinality(ShownIn(log, t)), called |-> Cardinality(CalledIn(log, t)),
     unused |-> Cardinality(ShownIn(log, t) \ CalledIn(log, t)), loss |-> t \in losses]

\* What paired_comparison.json in the run root of a summary says at the moment.
Comparison(p) == IF p.origin = 0 THEN p.verdict ELSE runs[p.origin].verdict

\* Mutant: the comparison beside the summary is not read.
UsableIfWhole(i) == ~published[i].torn

\* _read_helper_contribution_summary: whole, and not of a run with exceptions.
Usable(i) == ~published[i].torn /\ Comparison(published[i]) # "raised"

Newest ==
    LET found == {i \in 1..Len(published) : Usable(i)}
    IN  IF found = {} THEN 0 ELSE CHOOSE i \in found : \A j \in found : j <= i

\* Mutant: "default" is "auto" for every kind of run.
ModeOfDiscovery(kind, requested) == IF requested = "default" THEN "auto" ELSE requested

\* _resolve_routing_evidence_mode
Mode(kind, requested) ==
    IF requested # "default" THEN requested
    ELSE IF kind = "frozen" THEN "disabled" ELSE "auto"

\* _latest_helper_contribution_summary
Latest ==
    CASE Mode(Here.kind, Here.requested) = "disabled" -> 0
      [] Mode(Here.kind, Here.requested) = "pinned"   -> IF Usable(Here.pinned) THEN Here.pinned ELSE 0
      [] OTHER -> Newest

Evidence(i) ==
    [t \in ToolNames |->
        IF i = 0 THEN NoShowing ELSE RowOf(published[i].log, published[i].losses, t)]

-----------------------------------------------------------------------------
Init ==
    /\ registry = FirstRegistry
    /\ runs = <<>> /\ root = EmptyRoot /\ published = <<>>
    /\ main = "idle" /\ known = FALSE /\ evidence = 0
    /\ at = 0 /\ shown = {}
    /\ frozen = {} /\ kills = 0 /\ others = 0

\* A process ends; what it has in memory is gone.
Idle == /\ main' = "idle" /\ known' = FALSE /\ evidence' = 0
        /\ at' = 0 /\ shown' = {}

Started == Cardinality({r \in 1..run : runs[r].fresh})

\* main up to the candidate arm.  A killed run may be resumed, with its options and
\* before another run is started; its logs and results are copied to the new root.
\* Nothing reads the old root again.
StartRun ==
    /\ main = "idle"
    /\ \E fresh \in BOOLEAN, request \in Requests :
       \E pin \in IF request[2] = "pinned" THEN 1..Len(published) ELSE {0} :
        /\ IF fresh THEN Started < MaxRuns
           ELSE root.killed /\ <<Here.kind, Here.requested>> = request /\ Here.pinned = pin
        /\ runs' = Append(runs, [kind |-> request[1], requested |-> request[2], pinned |-> pin,
                                 fresh |-> fresh, verdict |-> "none", raised |-> {}])
        /\ root' = [(IF fresh THEN EmptyRoot ELSE root) EXCEPT !.snapshot = registry,
                                                               !.killed = FALSE]
    /\ main' = "playing"
    /\ UNCHANGED <<registry, published, known, evidence, at, shown, frozen, bounded>>

Unplayed == Scenarios \ root.done
NextUp == CHOOSE s \in Unplayed : \A u \in Unplayed : s <= u

\* observe, at the end of after_result of an online run: a tool may be born
\* (SageCampaign says when), before the result is on disk.
Birth ==
    /\ main = "logged" /\ Here.kind = "online"
    /\ \E t \in ToolNames : registry[t] = NoEntry
                             /\ registry' = Put(registry, t, Accepted(FALSE))
    /\ UNCHANGED <<runs, root, published, process, frozen, bounded>>

\* lru_cache: the first routing of a process reads the evidence and keeps it.
Asked == IF known THEN evidence ELSE Latest

\* transform: the registry is loaded and routed.
Route ==
    /\ main = "playing" /\ Unplayed # {}
    /\ evidence' = Asked
    /\ known' = TRUE
    /\ at' = NextUp
    /\ shown' = Routed(at', registry, Evidence(evidence'))
    /\ main' = "routed"
    /\ frozen' = IF Here.kind = "frozen" /\ Here.requested = "default"
                 THEN frozen \cup {[scenario |-> at', entries |-> registry, visible |-> shown']}
                 ELSE frozen
    /\ UNCHANGED <<registry, runs, root, published, bounded>>

\* The play: the agent calls some of the helpers, record_reuse logs it and counts
\* it in the registry if the run is online.
Play ==
    /\ main = "routed"
    /\ \E called \in SUBSET shown :
        /\ root' = [root EXCEPT !.calls = @ \cup {<<at, t>> : t \in called}]
        /\ registry' = IF Here.kind = "frozen" THEN registry
                       ELSE [t \in ToolNames |->
                                IF t \in called THEN RecordReuse(registry, t)[t]
                                ELSE registry[t]]
    /\ main' = "played"
    /\ UNCHANGED <<runs, published, known, evidence, at, shown, frozen, bounded>>

\* after_result: the selection row.  Its calls come from the log of the run root.
LogSelection ==
    /\ main = "played"
    /\ root' = [root EXCEPT !.log = Append(@,
           [scenario |-> at, visible |-> shown,
            called |-> {t \in ToolNames : <<at, t>> \in root.calls}])]
    /\ main' = "logged"
    /\ UNCHANGED <<registry, runs, published, known, evidence, at, shown, frozen, bounded>>

\* The result and the live summary.
Finish ==
    /\ main = "logged"
    /\ root' = [root EXCEPT !.done = @ \cup {at}]
    /\ main' = "playing" /\ at' = 0 /\ shown' = {}
    /\ UNCHANGED <<registry, runs, published, known, evidence, frozen, bounded>>

\* What write_helper_contribution_summary makes of the run.
Summary(torn) ==
    [origin |-> run, verdict |-> "none", torn |-> torn, log |-> root.log,
     losses |-> root.losses, raised |-> Here.raised]

\* compare_runs, and paired_comparison.json: exceptions of the candidate's plays, and
\* of the control's (0) as well, and the helpers whose calls made it worse.  (They
\* are settled by the plays; nobody reads them before.)
Compare ==
    /\ main = "playing" /\ Unplayed = {}
    /\ Started < MaxRuns    \* nobody would read the summary of the last run
    /\ \E raised \in {{}} \cup {{s} : s \in {0} \cup Scenarios},
          losses \in {{}} \cup {{t} : t \in {u \in ToolNames : CalledIn(root.log, u) # {}}} :
        /\ raised = {} \/ losses = {}    \* bound: one kind of trouble in a run
        /\ runs' = [runs EXCEPT ![run].raised = raised,
                                ![run].verdict = IF raised = {} THEN "clean" ELSE "raised"]
        /\ root' = [root EXCEPT !.losses = losses]
    /\ main' = "compared"
    /\ UNCHANGED <<registry, published, known, evidence, at, shown, frozen, bounded>>

\* The contribution summary, and its copy under artifacts/summaries.
Publish ==
    /\ main = "compared"
    /\ published' = Append(published, Summary(FALSE))
    /\ main' = "gate"
    /\ UNCHANGED <<registry, runs, root, known, evidence, at, shown, frozen, bounded>>

\* The gate, which a run with exceptions fails; then the manifest from before the
\* run comes back (ProtocolRun has its steps).
Gate ==
    /\ main = "gate" /\ Idle
    /\ \E passed \in BOOLEAN :
        /\ passed => Here.verdict = "clean"
        /\ registry' = IF passed THEN registry ELSE root.snapshot
    /\ UNCHANGED <<runs, root, published, frozen, bounded>>

\* The process is killed, perhaps while the summary is copied.  (The last run is
\* not: it is there to read what the others left.)
Kill ==
    /\ main # "idle" /\ kills < MaxKills /\ Started < MaxRuns
    /\ kills' = kills + 1 /\ Idle
    /\ root' = [root EXCEPT !.killed = TRUE]
    /\ \/ UNCHANGED published
       \/ main = "compared" /\ published' = Append(published, Summary(TRUE))
    /\ UNCHANGED <<registry, runs, frozen, others>>

\* Another campaign publishes the summary of a run of its own.  (The other steps of
\* a run do not look at the directory.)
AnotherSummary ==
    /\ main \in {"idle", "playing"} /\ others < MaxOthers
    /\ others' = others + 1
    /\ published' = Append(published,
            [origin |-> 0, verdict |-> "clean", torn |-> FALSE, losses |-> {}, raised |-> {},
             log |-> OtherLog])
    /\ UNCHANGED <<registry, runs, root, process, frozen, kills>>

AllRunsOver ==
    /\ Started = MaxRuns /\ (main = "idle" \/ (main = "playing" /\ Unplayed = {}))
    /\ UNCHANGED vars

Next == StartRun \/ Route \/ Play \/ LogSelection \/ Birth \/ Finish \/ Compare
        \/ Publish \/ Gate \/ Kill \/ AnotherSummary \/ AllRunsOver

Spec == Init /\ [][Next]_vars

-----------------------------------------------------------------------------
(* registry/promotion_gate.py, which another program runs on a registry and a *)
(* contribution summary.                                                     *)

\* Mutant: the rate of unused showings is not looked at.
PromotableIfCalled(t, entry, i) ==
    LET c == Contract[t]
        p == published[i]
        row == RowOf(p.log, p.losses, t)
    IN  /\ HasCurrentProof(entry) /\ ~entry.diagnostic_only /\ c.clustered
        /\ row.called > 0 /\ ~row.loss

\* evaluate_promotion_entry.  A failure memory and the incidents with side effects,
\* which only make it stricter, are left out.
Promotable(t, entry, i) ==
    LET c == Contract[t]
        p == published[i]
        row == RowOf(p.log, p.losses, t)
    IN  /\ HasCurrentProof(entry) /\ ~entry.diagnostic_only /\ c.clustered
        /\ c.positive # {} /\ c.negative # {} /\ c.abstains
        /\ c.required \cap c.effects \subseteq c.preserves
        /\ row.called > 0 /\ ~row.loss
        /\ 2 * row.unused <= row.visible
        /\ (ShownIn(p.log, t) \cup CalledIn(p.log, t)) \cap p.raised = {}

-----------------------------------------------------------------------------
Raised == SUBSET ({0} \cup Scenarios)
Run == [kind : {"online", "frozen"}, requested : {"default", "auto", "disabled", "pinned"},
        pinned : Nat, fresh : BOOLEAN, verdict : {"none", "clean", "raised"}, raised : Raised]
Root == [snapshot : Manifests, log : Seq(LogRow), calls : SUBSET (Scenarios \X ToolNames),
         done : SUBSET Scenarios, losses : SUBSET ToolNames, killed : BOOLEAN]
Published == [origin : Nat, verdict : {"none", "clean"}, torn : BOOLEAN, log : Seq(LogRow),
              losses : SUBSET ToolNames, raised : Raised]
Offered == [scenario : Scenarios, entries : Manifests, visible : SUBSET ToolNames]

\* Types of the state.
TypeOK ==
    /\ registry \in Manifests /\ root \in Root
    /\ runs \in Seq(Run) /\ run <= MaxRuns + MaxKills
    /\ published \in Seq(Published)
    /\ main \in Phases /\ known \in BOOLEAN /\ evidence \in 0..Len(published)
    /\ at \in {0} \cup Scenarios /\ shown \subseteq ToolNames
    /\ frozen \subseteq Offered
    /\ kills \in 0..MaxKills /\ others \in 0..MaxOthers

\* Helpers are never judged by a run in which a play ended with an exception,
\* whatever was killed or published in between: the comparison that tells so is on
\* disk before the summary is (_summary_has_runtime_exceptions takes a missing one
\* for a clean one).
EvidenceIsOfCleanRuns ==
    evidence # 0 =>
        LET p == published[evidence]
        IN  Comparison(p) = "clean" /\ (p.origin # 0 => runs[p.origin].raised = {})

\* A helper is hidden for adoption risk only if it was shown in as many different
\* scenarios as the rate needs and left unused in most of them.  Scenarios that are
\* played again after a kill leave two rows in the log and must not count twice.
BlocksRestOnScenarios ==
    evidence # 0 =>
        LET log == published[evidence].log
        IN  \A t \in ToolNames, s \in Scenarios :
               /\ registry[t] # NoEntry
               /\ AtRisk(t, s, registry[t], Evidence(evidence)[t])
               => /\ Cardinality(ShownIn(log, t)) >= RiskThreshold
                  /\ 2 * Cardinality(ShownIn(log, t) \ CalledIn(log, t))
                        > Cardinality(ShownIn(log, t))

\* A frozen run with the default evidence mode is decided by its registry alone: two
\* such plays of a scenario with the same manifest offer the same helpers, in one
\* run, across a kill and a resume, and whatever was published between them.
FrozenRunsRouteByTheRegistry ==
    \A a, b \in frozen :
        a.scenario = b.scenario /\ a.entries = b.entries => a.visible = b.visible

\* The promotion gate and the router agree: a helper that the gate would promote on
\* a summary is in no scenario hidden for adoption risk by the same summary
\* (MAX_VISIBLE_NOT_CALLED_RATE and the rate in _blocked_by_adoption_risk are two
\* constants of two files).
PromotedAreNotAtRisk ==
    \A i \in 1..Len(published), t \in ToolNames :
        ~published[i].torn /\ registry[t] # NoEntry /\ Promotable(t, registry[t], i)
            => \A s \in Scenarios : ~AtRisk(t, s, registry[t], Evidence(i)[t])
=============================================================================
