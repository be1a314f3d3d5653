# A TLA+ model of ToolSandbox-SAGE

The repository has two halves. `tool_sandbox/` is an interactive benchmark: a
simulated user, an agent and an execution environment exchange messages, tool
calls change a small simulated phone (contacts, messages, reminders, settings),
and the trajectory is scored afterwards against milestones and minefields.
`src/sage_ts/` (with `scripts/`) runs sequences of such scenarios while a
controller watches the trajectories, generates helper tools for recurring
inadequacies, validates and registers them, and injects them into later
scenarios.

This directory holds TLA+ modules for the parts whose correctness depends on
sequences of steps, and for the catalogue of benchmark scenarios itself, the TLC
configurations that check them on small instances, and TLAPS proofs, for instances of
any size, about most of them. Paths below are relative to the repository;
`PROJECT.json` gives, for every definition that models code, the lines it
stands for.

Contents: 1 the system, 2 the modules, 3 the runs, 4 fairness, 5 what is proved,
6 where the code and its documentation disagree, 7 what is not modelled,
8 the plan.


## 1. The system

### 1.1 The sandbox

**Execution context** (`tool_sandbox/common/execution_context.py`).
*State*: one dataframe per namespace (SANDBOX, SETTING, CONTACT, MESSAGING,
REMINDER), every row tagged with a `sandbox_message_index`; which tools are
allowed; an interactive console; one global current context.
*Operations*: `add_to_database`, `remove_from_database`, `update_database`,
`get_database` at an index, `get_all_history_snapshots`, deep copies and the
`new_context` manager.
*Hard*: tables are sparse. A snapshot is only stored when something is written
at an index; reads fall back to an earlier one, and an all-null *headguard* row
is what makes an empty snapshot visible. All of it is index arithmetic over long
sequences of legal calls.
*Correct when*: reading message *i* gives the world as of message *i*, for ever;
no read sees a later state; a removal removes exactly what it should.

**Rollout** (`tool_sandbox/common/scenario.py`, `tool_sandbox/roles/`).
*State*: the SANDBOX rows (sender, recipient, tool call, exception, trace,
`conversation_active`), the context above.
*Operations*: `Scenario.play` dispatches on the recipient of the last message;
the agent and the user answer with text or tool calls; the execution environment
runs the calls.
*Hard*: the agent may ask for several calls at once. They are executed in every
order, on deep copies of the context, to find out whether they depend on each
other; responses, traces and the context that is kept must be of one order. What
a tool does outside the context (a reuse callback that writes to disk) is not
undone. The loop ends by a flag on the last row or by a number of messages; a turn may
add none, as a model can answer with an empty list of calls.
*Correct when*: every request gets one answer, with its own trace; the state is
the one the answers describe; an accepted batch really is independent of order;
a conversation ends once; every rollout terminates, unless a model answers with empty
lists for ever.

**Phone tools** (`tool_sandbox/tools/`). *State*: rows of the context. *Operations*:
setting toggles with the low-battery rule, contacts (`contact.py`: add; modify,
which removes and adds; remove; search), messages (`messaging.py`: send needs
exactly one `self` contact and cellular service), reminders, and
`end_conversation`. *Hard*: two writes per modification, on a versioned table,
within a batch that is tried in every order. *Correct when*: low battery mode
excludes the services; identifiers stay unique and there is one `self`; a
modification is one in place; what a batch answers is what the tables hold.

**Scenarios** (`tool_sandbox/scenarios/`). *State*: none; a catalogue of starting
contexts, tools offered and denied, milestones with their edges and exclusion
lists, minefields. *Hard*: each is written by hand, and is only ever played in the
few orders that a language model happens to choose. *Correct when*: every scenario
can be done with what it offers; every legal order scores in full; leaving something
out, or changing something unasked, does not; what is withheld cannot be found out.

**Evaluation** (`tool_sandbox/common/evaluation.py`). *State*: milestones in a
DAG, guardrail constraints derived from it, a similarity cache. *Operations*:
`__attrs_post_init__`, `compute_mapping_and_similarity` with its pruned
depth-first search. *Hard*: similarities depend on earlier assignments, through
guardrails and references; the pruning must stay admissible. *Correct when*: the
mapping is a legal matching and no other has a larger sum; side effects between
milestones cost the score.

### 1.2 SAGE

**Tool registry** (`src/sage_ts/registry/`). *State*: `registry_manifest.json`.
*Operations*: `load_entries`, `save_entries` (temporary file and `os.replace`,
filling in missing code hashes), `put` (next version), `record_reuse`;
`has_current_validation_proof` decides what may be shown. *Hard*: every
operation is read-modify-write without a lock, and saving one entry rewrites all.
*Correct when*: an entry whose code was changed is never shown again before it is
validated again; reuse counts mean something.

**Run loop and run adapter** (`src/sage_ts/adapters/toolsandbox_adapter.py`,
`sage_run_adapter.py`). *State*: `live_result_summary.json` and the `*.jsonl`
logs of an output directory. *Operations*: `run_scenario_sequence` with resume;
per scenario `transform` (visible tools), the rollout with `record_reuse`, and
`after_result` (selection row, classification, observation). *Hard*: a kill
between any two of these writes, and a resume that replays some of them.
*Correct when*: what is marked complete is recorded completely; logs and registry
agree; nothing recurring is dropped; a frozen run writes nothing.

**Online birth controller** (`src/sage_ts/orchestration/online_birth.py`).
*State*, in memory only: observation counts, scenarios seen, generated keys,
rejections. *Operations*: `observe`, from counting to generating, validating,
repairing and registering. *Hard*: the memory is lost in a restart, while the
registry stays; diversity counts base families, recurrence counts observations.
*Correct when*: births rest on recurring, diverse evidence, or are flagged
diagnostic; a key is served once; a failing generator is not asked for ever.

**Generation, adequacy, validation** (`generation/`, `adequacy/`, `validation/`).
Model calls and stateless checks; their verdicts are inputs of the controller.

**Routing and injection** (`runtime/`). *State*: the evidence read once per process
from the newest published helper summary. *Operations*: score every proved entry for
a scenario, hide those at risk, keep the best few. *Hard*: the evidence is written by
earlier runs and by other campaigns, while runs are killed and resumed. *Correct
when*: one process routes by one body of evidence, of a run that ended cleanly; a
frozen run depends on its registry alone; the bundle holds the best candidates.

**Response cache** (`cache/openai_response_cache.py`). *State*: a database of answers
by request key, files of an older layout, and an environment configured once per arm
and once per scenario. *Correct when*: nobody is answered from another arm, scenario
or model.

**Control baseline cache** (`evaluation/control_baseline_cache.py`). *State*: record
files and an append-only index. *Operations*: plan which scenarios of the control arm
are answered by means over earlier plays, collect the plays of this run, write a
control directory with both. *Hard*: plan and synthesis look at two times; resumes
carry rows of other runs; records and index are two writes. *Correct when*: a record
stands for one play under its label; a baseline is the mean of enough plays that are
compatible with the run; the candidate is compared with a complete control.

**Protocol run** (`scripts/run_sage_protocol.py`). *State*: the run directory, the
registry snapshot, one status file per arm. *Operations*: preflight checks, the
control and candidate arm in sequence or as two processes polled through their
status files, comparison, gate, restore. *Hard*: the status files and the
restored manifest are truncated and rewritten in place; arms fail, main
processes are killed while their children live on; each run starts from what the
previous one left. *Correct when*: the gate judges finished arms; a failed gate
takes back its own run's births and nobody else's; every run ends.

**Reporting** (`evaluation/`, `dashboard/`, `campaign/`, most of `scripts/`). Reads
finished runs. Two of its outputs come back: the helper contribution summary
(`evaluation/helper_contribution.py`), which routing and the promotion gate read, and
the outcome score (`evaluation/outcome_score.py`), which a run is compared by.

### 1.3 How they interact

```
                    baseline records, response cache
                        ^ collect │ plan, answers
                        │         v
 run_sage_protocol ── starts ──> control arm, candidate arm (processes or in turn)
   │  snapshot / gate / restore               │
   │        v                                 v
   │  registry_manifest.json <── put, record_reuse ── run_scenario_sequence
   │                                          │ transform │ after_result
   v                         routed helpers ──┘           └──> observe (controller)
 helper summary ── evidence of later runs ──> │
                                              v
                       Scenario.play: user <-> agent <-> execution environment
                                              v
         phone tools ──> ExecutionContext tables ──> MilestoneMatcher, outcome score
```

`ProtocolRun` models the top line; `ControlBaseline` what runs leave for the control
arms of later ones, `HelperRouting` what they leave for the candidate's routing;
`SageCampaign` over `RegistryStore` is one candidate arm, `Rollout` one scenario of
it, `PhoneTools` over `ExecutionContext` the tables below, and `ScenarioPlay` over
`MilestoneMatcher` the scoring of the scenarios there are. Each module abstracts what
it does not own: `SageCampaign` sees a rollout as a number of generated-tool calls and
a set of shortfalls; `ProtocolRun` sees an arm as loads and saves of a manifest that
contains births of runs; `HelperRouting` sees a birth as an entry that is put.

## 2. The modules

### ExecutionContext, WorldHistory

`ExecutionContext` keeps, for each namespace other than SANDBOX, the set `heads`
of indices with a headguard and the rows stored at each index, and `maxIndex` for
the number of messages. The writing operations are actions, one for each outcome:
`AddToDatabase`, `RemoveFromDatabase`, `RemoveNothing` (the `NoDataError` path,
which has created the snapshot before it raises), `UpdateDatabase`, and
`AddMessages`, which moves the index. `MostRecentSnapshot`, `MaybeCreateSnapshot`
and `GetDatabase` are the three functions all of them rest on, branch by branch,
including the "first available" branch and the -1 of a table without rows.

`WorldHistory` is the abstract specification: a dense array of worlds, of which
only the last changes, and which a message boundary copies. It contains the one
irregularity of the code (`Revert`, section 6). `HistorySpec` is the refinement:
the dense world at *i* is what `GetDatabase` returns for *i*.

The initial states are those of `__init__`: a headguard at index 0 in every
table, and rows at 0 in SETTING. The benchmark's base scenarios
(`scenarios/base_scenarios.py:56-213`) fill CONTACT, MESSAGING and REMINDER only
after their first messages are in, so in a real scenario these three tables have
lost their headguard when the agent starts: the states the irregularity needs are
the ordinary ones.

### Rollout

`Scenario.play` with one action per `respond` that can be dispatched
(`AgentRespond`, `UserRespond`, `ExecutionRespond`), `Prepare` for the console
imports, `ModelFails` for the exceptions that end a rollout, and `Finish` for the
loop condition. `RunsInAllOrders` is
`respond_to_messages_set_all_order_permutations`: every order of the batch run on
a copy; `Keep` is the order that is kept, the first one when all succeed, the first
failing one otherwise.
`WithTraces` pairs traces with responses by counting the successful ones, and
`TracesMatch` is the assertion that ends the rollout when traces are left over.

Texts and arguments are abstracted to on or off; the language models answer
whatever their role accepts: a text, or a list of calls, which may be empty. An empty
list adds no message, and the same role has the next turn (`MayAddNothing` says when). The tools are the setting toggles, a tool that always
raises, one that returns and writes to stderr, a generated helper with its reuse
callback, and `end_conversation`.

### PhoneTools

`PhoneTools` EXTENDS `ExecutionContext` and puts the contact, reminder, message and
cellular tools on its tables. `TableAfter` is one call, with the steps it makes
(`Modified` is a removal and an addition, and a removal that raises has still restated
the snapshot); `Returns` is when it does not raise. `CallTools` is a batch: all its
orders on copies (`Outcomes`, each of them `RunInOrder`), one kept (`RunAllOrders`).
`Told` is, beside it, what an answer says has happened. The initial tables are those
of the base scenario, whose CONTACT and REMINDER tables have no headguard when the
agent starts. When a removal brings an earlier snapshot back, which section 6
describes, `reverted` is set and the model stops: the properties are about all other
histories.

### MilestoneMatcher

A problem (milestones, edges, constraints, snapshots) is an initial state;
`AddGuardrails` is `__attrs_post_init__`, `Match` the search. `Search` is `_dfs`, as a
function from the number of milestones that are left to a function of the branch;
`BestFound` is its loop over the heap (`Heap`, `Top`), with its bound (`Prunes`). `Likeness`, the similarity of a milestone to a snapshot,
is a parameter: arbitrary numbers from a table in its own run, what the constraints
say in `ScenarioPlay`. Guardrails are computed and evaluated as in the code, with
their dependence on the mapping built so far. The search is compared with the set of
all matchings (`Orders`, `Places`). `WellPosed` is what the search needs of a problem:
the graph has no cycle, and the milestone a constraint refers to comes before the
constrained one (otherwise `calculate_similarity` raises a `KeyError`).

### ScenarioLanguage, the four catalogues, ScenarioPlay

`ScenarioLanguage` has the parts a scenario is made of: the kinds of constraint
(`snapshot_similarity` on traces, messages and settings, `addition_similarity`,
`removal_similarity`, `update_similarity`), milestones,
minefields, and the base scenarios' settings. `SingleToolCallScenarios`,
`MultipleToolCallScenarios`, `MultipleUserTurnScenarios` and
`InsufficientInformationScenarios` are the files of `tool_sandbox/scenarios/`: one
definition for each scenario that has milestones of its own, with the variants that
only change words standing for one another. Of a target row the model keeps what
tells it from the other rows of its database.

`ScenarioPlay` plays every scenario of the catalogue. `TaskOf` derives from the
milestones the calls an agent makes that does what is asked; `CarryOut` makes those
that are due, in any order and in batches, `Tell` tells the user, `TurnOn` turns on a
service. Once per play the agent may stray: `AskBack`, `Look`, `Fumble`, `TooEarly`,
`Unasked`, `StepOnMine`, `GiveUp`. Then `Evaluate` runs the matcher on the trail, for
the milestones and for the minefields, and the outcome score of
`evaluation/outcome_score.py` (`OutcomeChecks`) beside it.

### RegistryStore, SageCampaign

`RegistryStore` has the operations of the store as functions from manifest to
manifest. The part of a validation proof that no operation changes is one field;
the code hash, which saving may fill in, is modelled with its three cases (agrees,
does not agree, missing).

`SageCampaign` is one output directory's run loop with its hooks and the
controller. One action is one write to disk, or the computation between two of
them, so `Crash` can fall between any two:

| code | actions |
| --- | --- |
| head of `run_scenario_sequence`, `transform` | `StartScenario` |
| `record_reuse` of `transform`: registry, then event | `CallTool`, `LogReuse` |
| end of the rollout, selection row, classification | `FinishPlay` |
| `observe` up to its early returns | `Observe` |
| the rest of `observe` | `Reject`, `Accept`, `Save` |
| return of the hook, row of the live summary | `CompleteScenario` |
| end of the manifest | `FinishCampaign` |
| kill, resume | `Crash`, `Resume` |

On disk and in memory are separate groups of variables; `Crash` empties the
second. `Resume` keeps registry, logs and finished rows, as the resume option and
the runbook's commands do. `frozen` is a run without a generator. The classifier,
the generator and the validation enter as any value they can give: any subset of
the scenario's observable keys, any producible tool, accepted or rejected,
diagnostic or not, repaired (if enabled) or not. One call is counted once here;
that a batch may count it several times is `Rollout`'s subject.

### ProtocolRun

Several runs, one after the other, on one registry directory. The main process
goes through `preflight`, the arms (`control` then `candidate`, or `polling` two
child processes), `gate`, and `restoring`, `copying` when the gate failed. Every
in-place write is two steps, with the file torn in between (`Report` and
`Reported`, `Restore` and `Restored`); the registry's own saves are one
(`os.replace`). `Load` and `Save` are the two halves of a candidate's
read-modify-write. `ReadTornStatus` is the `json.loads` of a status file that is
being rewritten: the exception makes the main process exit, and exiting waits for
the children. A manifest is the set of runs whose births it contains, or absent,
or torn. `Kill` ends a main process and the arms it plays itself; child processes
live on and may overlap with the next run.

### ResponseCache, ControlBaseline

`ResponseCache` has the keys, modes, reads and writes of the cache of completions as
operators. An answer is the situation it was given in, so that who is served can be
compared with what was asked. `ControlBaseline` is a sequence of protocol runs with
what they keep: the records and index of the baseline cache, the answers of the
response cache, and the control directories that later runs resume from.

| code | actions |
| --- | --- |
| plan of the control arm, strict mode, parallel or not | `StartRun` |
| `run_scenario_sequence` of the control arm, with resume | `BeginControl`, `PlayControl`, `FinishControl` |
| `_resume_arm_dir` of any earlier root | `Resumable`, `ResumesFrom` |
| `collect_run`: record file, index line | `WriteRecord`, `IndexRecord`, `FinishCollecting` |
| `write_synthetic_control_run` | `FinishSynthesis` |
| candidate arm, comparison | `PlayCandidate`, `FinishCandidate`, `FinishRun` |
| another model or code; a kill at any write | `Change`, `Kill` |

A kill may tear the live summary, the synthetic summary and the last index line.

Any earlier root may be resumed: the code looks neither at the options of its run nor at
the model and code it was played with. So a row may have come through several runs, and
a record is labelled with the last of them. The history variable `lineage` has the runs
that rows may have come through; `SameCode` and `PlayedThroughout` say of them what
nothing but the operator sees to, and the properties say what holds without and what
only with it.

### HelperRouting

The routing of `runtime/` with the loop it is part of. `Score` and the operators
before it are `routing_scorer.py` on scenarios and contracts abstracted to sets of
tokens, strata and tools; `AtRisk`, `Candidates` and `Routed` hide, admit and cut to
the budget. A run goes `StartRun`, then `Route`, `Play`, `LogSelection`, `Birth` (if
online) and `Finish` for each scenario, then `Compare`, `Publish`, `Gate`; `Kill` falls
between any two, and a resumed run carries log and results over. `Latest` is the
evidence a process reads at its first routing: nothing, the pinned summary, or the
newest usable one of those published by runs of this campaign and of others
(`AnotherSummary`). `Promotable` is the promotion gate on a published summary.

### The proof modules

`PhoneToolsProofs` (its first part is about `ExecutionContext`, which `PhoneTools`
EXTENDS), `RolloutProofs`, `MilestoneMatcherProofs`, `ScenarioPlayProofs` (which takes an
instance of the former for the matcher of a play), `SageCampaignProofs` (with the lemmas
about the store), `HelperRoutingProofs`, `ControlBaselineProofs` and `ProtocolRunProofs`.
Each EXTENDS the module it is about; the lemmas go from the data up to the actions, and
the theorems are at the end. Section 5 is their summary.

Definitions marked *Mutant* in the modules are not part of any specification.
Each is an operation with one plausible slip (a dropped guard, a wrong boundary,
a missing reset, a swapped order); put in the place of the real one it makes the
property named with it in `PROJECT.json` fail.


## 3. The runs

| run | question | instance | states |
| --- | --- | --- | --- |
| `execution_context` | do the sparse tables implement the dense history, is the past immutable, is the inductive invariant one | one table, two rows, four indices | 873 |
| `phone_tools` | unique identifiers, one self, in-place modification, which accepted batches depend on their order | 24 calls on the base scenario's tables, batches of up to 2, 8 messages | 17 545 |
| `rollout` | which order of a batch is kept, who is answered with which trace, low battery mode, end and length of the conversation, termination | 6 kinds of call, batches of 0 to 3, 5 messages | 244 111 |
| `rollout_reuse_inflated` | is a helper call logged once (it is not) | helper calls, batches of up to 2 | violation |
| `milestone_matcher` | is the pruned search optimal, is its result a matching, are side effects scored | 2 milestones over 3 snapshots, 3 over 2, 1 over 2; all similarities in {0, 1/2, 1} | 105 084 |
| `scenario_play` | is every scenario of the benchmark doable, fairly scored, and tight | the whole catalogue, batches of up to 2, one stray per play | 28 883 |
| `sage_campaign` | evidence behind births, agreement of logs and registry, completeness, frozen runs, termination | 3 scenarios (2 near duplicates), 3 keys, 2 tools, 1 kill | 546 938 |
| `campaign_repair` | the same evidence with candidate repair enabled (it does not hold) | as above | violation |
| `control_baseline` | whose plays and answers a control arm is made of, whatever root was resumed | 2 scenarios, 4 runs, baselines of 2 records, two of 1 change, 1 failure and 1 kill | 2 848 120 |
| `helper_routing` | whose evidence routes a run, and what it hides, admits and promotes | 2 scenarios, 3 helpers (one born), bundle of 1, 2 runs, 1 kill, 1 other campaign | 574 401 |
| `protocol_runs` | gate, restore, lasting births, termination | 2 runs, 1 save and 1 report per arm, 1 kill | 564 124 |
| `protocol_follow_ups` | does a follow-up start clean (it does not after an aborted run) | 2 runs, no kill | violation |

Why these bounds are enough to meet the interesting cases:

- *execution_context*: a headguard is lost at one boundary, a row is added and
  removed at the next, and a read asks for a third: four indices are one more than
  this needs. Operations on different tables do not interact, so one table is
  enough for the run, and the theorems hold for any number of them.
- *phone_tools*: the indices leave room for three calls, in three batches or in two;
  they name entries of the base scenario, one that a first call added and one that is
  not there; two calls are the smallest batch with an order.
- *rollout*: three calls are the smallest batch in which the failing order is
  neither the first nor the last; five messages allow a batch, its answers
  and one more turn, and the end of the conversation within a batch.
- *milestone_matcher*: two milestones over three snapshots are the smallest case
  in which a guardrail forces a worse early choice; three milestones give chain,
  join and fork. Similarities need a value that is neither 0 nor 1 for the bound
  to matter.
- *scenario_play*: nothing of the catalogue is left out. Batches of two reach every
  order of every two calls; one stray per play is what each property is about.
- *sage_campaign*: three scenarios are the smallest campaign in which recurrence (2)
  is reached without diversity (scenarios 1 and 2 share a family) and then with
  it; the second tool makes broader helpers and unexpected names possible; one
  kill at every point, including between an accepted candidate and its save. The
  registry starts with every combination of missing, proved, unhashed and
  tampered entries.
- *control_baseline*: two runs give the two records of a baseline, a third gets its row
  from it, and a fourth carries that row over by a resume and records it; or two runs of
  the new code record what they carried over from a root of the old one, and the next
  is given their mean. `MaxMishaps` lets two of the change, the failure and the kill
  happen in one behaviour, in any combination and order. All three together, and
  the other modes of the two caches, are left to the theorems. Of the modes, `strict`
  differs from `use-if-eligible` in that it ends a run whose plan is incomplete before its
  first step, and collects nothing; the others do not look the cache up. The exceptions
  that the properties name (`SameCode`, `PlayedThroughout`) are needed in this instance:
  replaced by `TRUE`, one at a time, TLC finds the property violated, but for the one on
  the runs of a baseline's records, which needs longer chains of resumes than four runs.
- *helper_routing*: evidence needs one run that writes and one that reads; a kill and
  its resume make a third process. Two showings make a rate, so one run of two
  scenarios can put a helper at risk, and so can the same scenario twice if it were
  counted twice. The helper that is born meets a bundle that is full.
- *protocol_runs*: two runs are what "follow-up" needs; with one save each, a lost
  update needs an orphaned candidate, which one kill provides.

Three constants of `ScenarioPlay` name exceptions, so that the rest can be checked:
`OrderSensitive`, `Unfinished` and `Leaky` are the scenarios with a flaw of their own
(section 6), each set as small as TLC lets it be.

Deadlock is checked where the system should not stop by itself. `Rollout` stops
when a rollout is done or failed, `MilestoneMatcher` and `ScenarioPlay` when they have
their results, and `PhoneTools` when no batch fits its last indices; their
configurations switch the check off. `SageCampaign`, `ProtocolRun`,
`ControlBaseline` and `HelperRouting` name their final states (`Terminated`,
`AllRunsOver`), so that any other state without a step is an error.

What the properties say is stated with each of them in the modules. The ones that
carry most: `HistorySpec` and `HistoryImmutable` (any sequence of operations on any
table), `ResponsesExplainSettings`, `AnswersExplainTheWorld` and
`AcceptedBatchesCommute` (a batch in all its orders), `MatchIsOptimal` (pruning against
enumeration), `GoodPlaysScoreFull`, `CreditIsEarned` and `EveryTaskCanBeDone`
(every legal play of every scenario), `RecordsAreOfControlPlays` and
`BaselinesMatchTheRun` (rows that wander through caches and resumes),
`EvidenceIsOfCleanRuns` and `BlocksRestOnScenarios` (what one run tells the next),
`ClaimsNeedDiverseEvidence`
and `OneBirthPerKey` (across a kill), `ReuseCountsMatchLog` and
`CompletedIsRecorded` (two files, a kill between them), `GateFollowsBothArms`,
`FailedGateRestores` and `PassedBirthsStay` (several processes on one file, over
several runs).

The type invariants of `ExecutionContext` (a part of `IInv`) and `ProtocolRun` are in
the configurations. Those of the other modules, and `RejectionBudget` and
`FrozenRegistry` of `SageCampaign`, are proved (section 5) after TLC had found them to
hold of the same instances; they follow from single guards and types, and the runs spend
their time on the others.

`OneBirthPerKey` is weaker than one might expect, for a reason: that a generator
uses the suggested name is only asked for in its prompt
(`generation/tool_generator.py:53`). If it uses another one, a resumed campaign
does not find the tool under the suggested name and generates it again; the
property allows just that case.


## 4. Fairness

- `Rollout`: weak fairness of the steps other than the turns of a model that may answer
  with an empty list (`FairSpec`). `play` is one thread in a `while` loop, and those steps
  always get it further; nothing obliges a model to add a message. `Terminates` allows
  for a rollout that stays at such a turn, and for no other.
- `ScenarioPlay`: weak fairness of `OnTask`, the steps of an agent that does its task.
  It is an assumption about the agent, not about the code: `EveryTaskCanBeDone` asks
  what a capable agent can achieve with the tools it is offered. Straying has none.
- `SageCampaign`: weak fairness of `Step`, the steps of a process that runs. Nothing
  obliges an operator to resume, so `Resume` has none and `RunsToEnd` ends in
  "finished or down". `Crash` has none.
- `ProtocolRun`: weak fairness of `MainStep` and of every `ArmStep(r, a)`: processes
  that are alive keep executing. `StartRun` and `Kill` have none. A model call that
  never returns is outside the model: the code sets no timeout on one.

Without fairness nothing is claimed to happen. No strong fairness is used.


## 5. What is proved

TLAPS checks every proof to the last leaf, for all values of the constants. The bounds
are constants too, so the theorems hold for every bound. The assumptions are named in
the modules, and TLC evaluates them on the runs of these modules:

| assumption | says |
| --- | --- |
| `ConstantsAssumption` | the bound is a natural number; every namespace has initial rows |
| `PhoneAssumption` | the four namespaces; rows are typed; the identifiers of base rows are unique and none of the new ones, and at most one base contact is self; the settings are one row; a call gives the fields its tool takes |
| `RolloutAssumption` | natural bounds; a call is a tool with on or off |
| `ProblemsAssumption` | every problem is `WellPosed`, and its similarities lie between 0 and `Unit` |
| `ScenariosAssumption` | the milestones, and the minefields, of every scenario can be searched (`CanBeSearched`) |
| `MinefieldsAssumption` | a minefield is a single call, by its message or by its trace, and refers to no milestone; all those of `insufficient_information_scenarios.py`, the only file that has any, are such |
| `MaxBatchAssumption` | a batch has at least one call |
| `NoEntryAssumption` | the marker for "no entry" is not an entry |
| `CampaignAssumption` | the types of the parameters; natural bounds |
| `BaselineAssumption` | a baseline needs at least one record; the manifest names no scenario twice |
| `RoutingAssumption` | finitely many tools, whose names are ordered; the types of the parameters |
| `ProtocolAssumption` | natural bounds; the markers for "absent" and "torn" differ from each other and from every set of runs |

All of them are invariants of the usual kind: a strengthening `IInv` is shown to hold
initially and to be kept by every action, and what a reader wants to know follows from
it. Each `IInv` was given to TLC as an invariant first, but for that of the matcher,
which speaks of all sequences; TLC has its consequence, `MatchIsOptimal`.

### Execution context (`PhoneToolsProofs`, first part)

This part rests on `ConstantsAssumption` alone, not on what `PhoneTools` assumes.

`Invariance`: `Spec => []IInv`, with

    IInv == TypeOK /\ \A ns \in Namespaces : WellFormed(dbs[ns], CurrentIndex)

`WellFormed` says that index 0 has a headguard, that nothing is stored beyond the
current index, and `HeadguardLostOnlyWhenEmpty`: if a headguarded index precedes
one without headguard that has rows, then there are no rows up to the first. The
first two conjuncts make every read find a latest snapshot. The third is needed
because the branch on -1 asks whether the *whole history* is empty, not whether the
current snapshot is: without it a step from an unguarded snapshot could not be
mapped to the dense history, and `Revert` would have to be allowed anywhere.

From it follow `TypeCorrect`, `Causality` (`NoSnapshotFromTheFuture`),
`HeadguardsKept`, `PastIsImmutable` (`HistoryImmutable`) and `Implementation`
(`HistorySpec`). The argument goes through reads: `LatestExists` and `ReadLatest`
say what a read returns, `ReadBack` what it returns after a write at the current
index, `CommitCarriesOver` after a commit. `OperationsAreWrites` and `StepForms`
reduce the four operations to one form of write and the message boundary to one
form of commit, so that each obligation is proved twice and not five times.

### Protocol runs (`ProtocolRunProofs`)

`Invariance`: `Spec => []IInv` with

- `TypeOK` and `SavesLeft` (an arm that has loaded the entries has a write left,
  which is what keeps `saves` in its type);
- `VerdictsFollow`: a verdict is only given to a run whose arms have both completed
  and complete arms stay complete; a run that has not reached its gate has none.
  `GateFollowsBothArms` is one of its conjuncts, but needs the others: in sequence,
  that the control arm is complete while the candidate plays;
- and, while no main process has been killed, `OnlyOwnArms` (only arms of the
  current run are alive, and only while its main process waits for them),
  `NothingStale` (the manifest, the copy of it, and the entries a candidate has
  loaded all contain the births of every run that passed), and `Restoring` (the
  copy is the manifest the run started with, until it has been put back).

`OnlyOwnArms` is what excludes lost updates: entries loaded by a candidate cannot
be written over a manifest that another run has changed. A kill breaks it, since
the children of the killed process go on; hence the condition `kills = 0` of
`FailedGateRestores` and `PassedBirthsStay`.

From it follow `TypeCorrect`, `GateJudgesFinishedArms` (with or without kills),
`FailedGatesRestore` and `BirthsStay`, for any number of runs, saves, reports and
kills.

### Phone tools (`PhoneToolsProofs`, second part)

`PhoneInvariance`: the tables are sound at the index where the next message writes
(`SoundTables`: well formed as in the first part; contacts and reminders with
identifiers that have been used, each once; at most one self), unless an earlier snapshot
came back. The exception is the finding of section 6, and is needed: after it two
entries can share an identifier.

`EntriesAreUnique` is one consequence. Another, `AnswersAreTrue`, is the action property
`AnswersExplainTheWorld`: the world after a batch is the one its answers tell, in the
order in which they are given. The proof goes from writes to calls to orders. The facts
about `Written` of the first part say what one addition, removal or update
shows to a read (`AddingShows`, `RemovingShows`, `UpdatingShows`); a modification is two
of them. `CallIsTold` puts these together for every tool and outcome, the failing
removal that restates the snapshot included. `OrderIsTold` carries it along an order of
the batch: both the run and the tale are recursive functions, whose existence is shown
first, and which agree after every call, as no least one exists where they do not.
`FirstOfIsOne` finds the order that is kept, and `MessagesChangeNothing` takes the tables
over the message boundary.

`AcceptedOrdersAgree` is the action property `AcceptedBatchesCommute`, for batches of any
size. It does not exchange neighbours: `Leaves` gives, without an order, what a *set* of
requests leaves of a world (each old entry with all the fields its modifications give it,
less the removed ones, with the new ones; the messages; the setting switched or not), and
`ToldInAnyOrder` shows that the tale of any order ends with it. The step is
`LeavesOneMore`: one more answer turns what the requests so far leave into what they and
its own leave. This is where clashes would show. Modifications of one entry must agree on
their fields (`Agreeing`, for `EntriesModified`), no entry that is changed or removed may
be one the batch adds (`AddedAreOther`), and a message must find the sender and the
recipients it would have found first (`MessageUndisturbed`). That requests succeed in
every order gives what this needs without a further condition: each succeeds as the first
(`EachSucceedsAlone`), so an entry it names was there before the batch, and no addition or
modification that claims self can stand beside a message without a clash. Switching the setting
twice would fail the second time, *because* the settings are one row, which
`PhoneSettled` keeps as a second inductive invariant. Together with
`AnswersAreTrue` for each order, all of them leave the same, and the first order,
which is the one of the message (`FirstIsAsAsked`), is the one that is kept.

### Rollout (`RolloutProofs`)

`IInv` adds to the four safety invariants the type invariant and two facts.
`MessagesAreOrderly`: who speaks to whom, and that a response names an earlier call by
its row, and repeats it. `RequestsAreAnswered`: a call that is not among the last
messages has one answer. `EveryRequestAnsweredOnce` counts these answers, and
`TracesBelongToTheirCalls` needs the rows that responses name.

The weight is in the batch, for any number of calls. `RunsInAllOrders` is a recursion
over how many calls have been made; `RunsBuildUp` shows that it defines something,
`RunsAreRuns` that it yields, for every order, a run as `IsRun` describes it: each
request answered once, good settings, one trace for each call that returned.
`FirstOfIsOne` is that one of finitely many orders comes first. `TracesFitTheRun` is the
reason for the traces: where their number passes the assertion, no call that returned is
among those with an exception, and the *n*-th trace is that of the *n*-th success.
`LastBlock` says what the environment finds at the end of the conversation.

From it `LowBatteryIsRespected`, `TracesAreTheirOwn`, `AnsweredOnce`, `EndsOnce`,
`TypeCorrect`; and `SettingsAreExplained`, the action property `ResponsesExplainSettings`.
For that `RunsAreExplained` says of each order that its responses account for the
settings it leaves, the calls that failed and the noisy ones (an exception, and nothing
changed) included; `ReplaysAreReplay` identifies this account with `Replay`.

### Milestone matching (`MilestoneMatcherProofs`)

`PruningIsSafe`: for every well-posed problem, whatever its graph and its similarities,
the search returns a matching, and no other has a larger sum. Similarities depend on
where earlier milestones were matched, so the argument is not that of a sum of
independent terms:

- `SimilaritiesAgree`: what an assignment is worth depends only on the places of the
  milestones it is guarded against, and `GuardedComeBefore`: these are matched before
  it, in every plan. So two plans that agree up to a point agree on what they are worth
  up to there (`SumsAgree`), and extending a branch leaves its sum what it was.
- `IsBest(r, b, k)`: `r` completes the branch `b`, its sum is that of its mapping, no
  matching that begins as `b` does has a larger one, and it exceeds that of `b` by at
  most `Unit` for each of the `k` milestones left. The last conjunct is what makes
  `Prunes` harmless (`OneMorePop`), whatever the order of the heap; the order only
  matters in that one element always comes first (`TopIsThere`).
- `SearchStepIsBest`: if the level below returns best completions, so does this one,
  for any matching that begins as the branch does goes on with an element of the heap.
  `SearchIsBest` is the induction over the levels.

`PlacedIsMatching` and `MatchingIsPlaced` say that the plans of these lemmas are the
orders and places of the docstring.

`SearchFindsLikeness` is a lower bound for the use in a play: where no milestone refers to
another, the search finds at least what any one milestone is like at any one snapshot. It
compares the result with the matching that puts all milestones there, in which no
guardrail can fail.

### Plays (`ScenarioPlayProofs`)

`ForbiddenActsCount`: for every catalogue within `MinefieldsAssumption` and
`ScenariosAssumption`, and for every play of it, `ForbiddenCallsNullify`. `IInv` carries
a forbidden call from the step that makes it to the score. `HasTripped`: a message of the
trail is the call that some minefield forbids (`MineTrips`; the trail only grows,
`TrailsGrow`). `MatchingMinefields`: from the second evaluation on, the matcher has the
problem of the minefields and *this* trail, with its own guardrails, and its result is
above 0. The step of `Match` rests on `SearchFindsTheCall`: the problem is well posed
(`MinefieldGraph`, `LikenessOfMinefield`), the call is fully like its minefield, and
`SearchFindsLikeness` applies. The matcher in `ScenarioPlay` and the one the proofs are
about are two instances of `MilestoneMatcher`; `SameSearch` and `SameGuardrails` identify
them. With several minefields, the call counts whatever order their chain puts them in.

### Campaigns (`SageCampaignProofs`)

The lemmas about the store: saving fills in hashes and changes nothing else, counting a
reuse changes one count, `Put` raises a version, and what is proved stays proved through
all three.

`IInv` of the campaign relates what the controller remembers to what is on disk. The
parts a reader may not expect: `MemoryIsRecorded` (an observation counts once, and is of a
completed scenario or of the one whose hook runs), `CandidateIsDue` (the checks of
`observe` still hold when a candidate is saved), `BirthsAreRemembered` (what makes
`OneBirthPerKey` inductive: births of this process are in `generated`),
`CallsAreCounted` (registry and log differ by the call at hand and one per kill),
`RowsAreWritten` and `ShortfallsAreObserved` (the order of the writes of the hook).

From it follow the properties of the run `sage_campaign`, each for any number of
scenarios, keys, tools and kills: `ClaimsAreDiverse` (its property says
`ClaimsNeedDiverseEvidence`; where candidates are repaired only `BirthsRecur`, its
recurrence half, is true, and that one is proved without the condition), `OneToolPerKey`,
`CountsMatchLog`, `CompletionIsLast`, `NothingDropped`, `TamperedToolsStay`, and
`GeneratorBudget` and `FrozenLeavesRegistry`.

### Baselines (`ControlBaselineProofs`)

`IInv` says where every row, record and answer comes from, however runs are resumed. A
row may have come through several runs; the `Origin` of a run is its plan, its model and
code, and those of its lineage. `RowsAreExplained`: a row is one play, by this model and
code if the lineage has no other; or it is a mean of records, which this run's plan asked
for, under its own labels, if no plan of the lineage did. `RecordsStandForPlays` says the
same of a record and the origin of the run that collected it. `OriginsStay` and
`ResumesAreOrderly` carry this through chains of resumes, and `WhatOriginsSay` leads from
origins to `SameCode` and `PlayedThroughout`, in which the properties are put.
`IndexIsOfRecords` and `AnswersFitTheirKeys` are about the index and the answers, and
`PlansStayValid` bridges the two times at which the cache is looked at: records are only
added, so what was eligible stays so (`BaselinesLast`).

From it `RecordsAreTrue`, `BaselinesFit`, `ControlComplete`, `AnswersInContext` and
`ResumedPlaysAreKept`, for any sequence of runs and any choice of roots.

### Routing (`HelperRoutingProofs`)

`IInv` fixes the order of what a run publishes (`ComparisonsComeFirst`: a summary is
published after its run was compared, which is final), what a process may know
(`DisabledMeansNone`, `PinsExist`), and what is offered (`OffersAreProved`,
`OffersFitTheBudget`). From it `EvidenceIsClean`, `FrozenRouting`, `OffersAreSound` and
`FrozenLeavesRegistry`.

Three theorems are about the operators, for every log. `BlocksRest`: the rate that hides
a helper is over distinct scenarios. `ReplaysCountOnce`: the second row of a replayed
scenario changes no number. `PromotedNotAtRisk`: the thresholds of the promotion gate and
of the router leave no helper that one admits and the other hides.

### What is only model-checked

- Liveness (`Terminates`, `RunsToEnd`, `EveryRunEnds`, `EveryTaskCanBeDone`): beyond what
  the provers at hand do with fairness.
- The other invariants of `ScenarioPlay` (`GoodPlaysScoreFull`, `CreditIsEarned`,
  `OutcomeIgnoresTheRoute`, `InformationIsWithheld`). They are about the milestones, tools
  and minefields that the scenarios of the catalogue list, and are false of other
  catalogues, and of some of its scenarios (section 6). The catalogue is finite, and
  TLC plays all of it.
- The three properties that do not hold (section 6).


## 6. Where the code and its documentation disagree

Three have a run whose property TLC violates; the texts quoted are in `PROJECT.json`.

1. **Reuse events are counted once per order tried** (`rollout_reuse_inflated`).
   The environment tries the orders of a batch on copies of the context, but the
   reuse callback of a generated helper writes to disk.
2. **Candidate repair drops the diagnostic flag** (`campaign_repair`).
   `online_birth.py:424` replaces the candidate after 371-385 have set the flag.
3. **A follow-up can start from an aborted run's births** (`protocol_follow_ups`).
   The registry is restored after a failed gate, and only then.

The following were met while modelling and are written into the models, as a named
exception, a variable or the condition of a property, rather than checked by a run of
their own.

*The sandbox*

- A headguard can be lost: `execution_context.py:128` promises that it makes an empty
  snapshot representable, but `_maybe_create_snapshot` (527) restates nothing for a
  table without any row, so crossing a message boundary with an empty table drops it.
  From then on a removal that leaves no row shows the previous snapshot again
  (`Revert` in `WorldHistory`). As the base scenarios fill their tables after the first
  messages, the benchmark's own tables are in this situation. For the phone tools this
  means (`reverted` in `PhoneTools`): modifying the only entry of a table restores rows
  that were removed, and can leave two entries with one identifier, which can then not
  be modified at all, or two self entries, with which no message can be sent.
- `max_messages` ("max number of total messages", `scenario.py:55`) is asked before a
  turn and can be passed by the messages of a batch and its answers.
- An empty list of tool calls is not text to the roles, which test for `None`
  (`openai_api_agent.py:96-128`, `openai_api_user.py:95-120`). It adds no message, so `play`
  (`scenario.py:97-106`) asks the same role again; a model that keeps answering so keeps
  the rollout for ever, as `max_messages` counts messages and not turns. With the response
  cache on, the same request may get the same answer again.
- Ties of the matcher go to the earlier snapshot; the comment at `evaluation.py:1103`
  says the latter. Which one is taken decides what later guardrails compare with.
- The docstring of `compute_mapping_and_similarity` speaks of a one-to-one mapping
  (`evaluation.py:1173`), while 1105-1106 let milestones share a snapshot;
  `MatchIsOptimal` takes the latter as the definition.
- A minefield on a tool trace does not count a forbidden call that raises, as there is
  no trace then; one on a call does (the two cases of `ForbiddenCallsNullify`).
- Two rows of the base scenarios' messages have the identifier `message_4`.

*The scenarios*

- `find_days_till_holiday_wifi_off` and its variants (`OrderSensitive`): the exclusion
  list at `multiple_tool_call_scenarios.py:2127` stands at milestone 0, where it has no
  effect, and not at the one after which wifi is turned on. A play in the other order
  loses points that the README of the repository (351-352) means it to keep.
- `find_temperature_f_with_location_and_time_diff_low_battery_mode_multiple_user_turn`
  (`Unfinished`): its milestones need `unit_conversion`, which its list of tools
  (`multiple_user_turn_scenarios.py:1953`) does not offer.
- `find_days_till_holiday_insufficient_information` and
  `remove_reminder_with_recency_latest_insufficient_information` (`Leaky`) deny the
  tools that tell the time ("Deny anything that can leak current date time",
  `insufficient_information_scenarios.py:372`, 421, 1593). Adding a reminder or sending
  a message stamps the time on a row that a search then shows.
- The outcome score compares the last message of the agent only (`outcome_score.py:85`):
  where two answers are asked for (`update_contact_relationship_with_relationship_twice_multiple_user_turn`)
  it can never be full, and a closing question replaces an answer.

*The caches* (`ControlBaseline`)

- A run killed in its candidate arm after collecting, and resumed, collects the same
  rows again: one play then counts as two of the at least three compatible completed
  runs that a baseline needs. `BaselinesMatchTheRun` therefore counts records.
- A resume takes the control rows of any earlier root and looks neither at the options
  nor at the model and code of its run (`run_sage_protocol.py:447`, 919). So after a crash,
  a fix and a resume, plays of the old code are collected under the labels of the new one,
  and later runs are given their mean, although "strict compatibility invalidates cache
  use when model, prompt, scorer, runner, [...] changes"
  (`docs/sage_protocol/control_baseline_cache_report.md:48`). This is what `SameCode`
  excepts in `RecordsAreOfControlPlays` and `BaselinesMatchTheRun`.
- For the same reason a cached row may be carried into a run that does not plan with the
  cache. It is collected as if it had been played, so that one record stands for the plays
  of several, and the report says `fresh`, with no cached task, although "cached controls
  are never silent" (line 49 of the same page); only the row keeps its mark. This is what
  `PlayedThroughout` excepts, there and in `ControlIsComplete`.
- `SAGE_TS_RUNTIME_DIGEST` is a constant in the key of the response cache, so a change
  of the code does not retire answers. With answers replayed, several records may rest
  on one answer of the model.
- A torn line of the index makes later planning runs raise, and swallows the next line
  that is appended. A torn live summary makes its directory unresumable.

*Routing* (`HelperRouting`)

- Evidence and promotion go by the name of a helper, not by its version: a replaced
  helper inherits what was observed of the one before.
- The "bounded first exposure" of `_is_fair_chance_candidate` is not bounded: only the
  newest summary is read, evidence is fixed within a run, and the restore after a failed
  gate resets the reuse count that ends it.
- A block for adoption risk does not last: the blocked helper is not shown, so the next
  summary knows nothing of it.
- The summary of a run is published before its gate, and routes later runs even if the
  gate fails. The newest file wins, whichever campaign wrote it.
- A resumed online run may route with other evidence than before the kill. A call that
  was logged before a kill can then be counted, in the selection row of the replay, for
  a scenario that is no longer shown the helper.
- A forced tool is shown although tools it needs are missing.
- An entry that does not compile, or whose name is taken, uses up a place in the bundle.


## 7. What is not modelled, and why

- *Dataframe details*: schemas, column handling, row order, deep copies; ROUGE and the
  fuzzy matching of names. They are functions of one call; the models take their results
  as arbitrary values, or as match or no match.
- *Language models, classifier, generator, validation*: any answer the caller accepts.
- *The words of a scenario*: texts of users and agents, few-shot examples, tool
  augmentations (they offer more tools and change no milestone).
- *Histories after an earlier snapshot came back*: `PhoneTools` stops there; what comes
  of them is described in section 6, and `ExecutionContext` continues through them.
- *Several strays in one play*: a property of `ScenarioPlay` is about one.
- *Token matching of the router*: whether a text contains a word. What is done with the
  result is modelled.
- *Failure memory, side-effect incidents and validation records in the promotion gate*:
  they only make it stricter, and the property is about what passes.
- *Preflight checks and the numbers behind the gate decision*: verdicts in `ProtocolRun`.
- *Resuming without `--registry-dir`*: the run would use the empty registry of its own
  directory; the model resumes on the same registry, as the runbook's commands do.
- *Other vendors' roles, conversions, the command line, dashboards, artifact scripts*:
  no state another part depends on.

`PROJECT.json` lists all components with their sources, and the hazards of the
code with the lines where they bite and the properties that cover them.


## 8. The plan

Done: `ExecutionContext` with its refinement, `PhoneTools` on it, `Rollout`,
`MilestoneMatcher`, the scenario catalogue and `ScenarioPlay`, `RegistryStore` and
`SageCampaign`, `ResponseCache` and `ControlBaseline`, `HelperRouting`, `ProtocolRun`;
and the proofs about them; of the plays, what holds for every catalogue.

To be modelled next, in this order:

1. `Preflight` and `GateDecision`: the checks of `run_sage_protocol.py` before the
   arms and the gate after them as operators over records of metrics, then in the
   place of the nondeterministic verdicts of `ProtocolRun`.
2. `CandidateGate` and validation as a pipeline (`adequacy/candidate_gate.py`,
   `validation/`), and failure memory, giving `SageCampaign` its verdicts and
   `HelperRouting` the rest of the promotion gate.
3. The inadequacy classifier's table of cases (`adequacy/inadequacy_classifier.py`),
   giving `SageCampaign` its keys.

Runs are merged where a new module answers the same question on a larger system;
their number is meant to stay what it is.
