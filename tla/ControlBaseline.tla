--------------------------- MODULE ControlBaseline ---------------------------
(***************************************************************************)
(* Protocol runs and what they keep for later runs: completed control      *)
(* plays (evaluation/control_baseline_cache.py), the agent's completions   *)
(* (ResponseCache) and the directory of an interrupted control arm, from   *)
(* which another run resumes (toolsandbox_adapter.py).                     *)
(*                                                                         *)
(* A run plans which scenarios of its control arm are answered by records  *)
(* of earlier plays, plays the others, records those, and puts both kinds  *)
(* into the control directory that the candidate is compared with.  Runs   *)
(* follow one another.  Between two of them the model or the code may      *)
(* change; a run may be killed at any point, in the middle of a write too. *)
(* With parallel arms both are killed (ProtocolRun has the other case).    *)
(***************************************************************************)
EXTENDS ResponseCache, Sequences

CONSTANTS
    Manifest,           \* the scenarios of the runs, in their order
    MinCompatibleRuns,  \* MIN_COMPATIBLE_RUNS
    ControlCacheModes,  \* values of --control-cache that the operator uses
    ResponseCacheModes, \* values of --cache-mode that the operator uses
    NoRow,              \* a result summary has no row of a scenario
    MaxRuns, MaxChanges, MaxFailures, MaxKills,     \* bounds
    MaxMishaps          \* bound of changes, failures and kills together

Scenarios == {Manifest[i] : i \in 1..Len(Manifest)}
Changing == {"model", "code"}
CacheDirs == {"shared", "control", "candidate"}

\* A row of a result summary: the play it reports, or the records whose mean it is,
\* with the plays they stand for.
Row == [source : {"played", "cached"}, failed : BOOLEAN,
        records : SUBSET Nat, plays : SUBSET (Nat \ {0})]

ASSUME BaselineAssumption ==
    /\ MinCompatibleRuns \in Nat \ {0}
    /\ ControlCacheModes \subseteq {"off", "collect", "use-if-eligible", "refresh", "strict"}
    /\ ResponseCacheModes \subseteq CacheModes
    /\ NoRow \notin Row /\ Manifest \in Seq(Scenarios)
    /\ MaxRuns \in Nat /\ MaxChanges \in Nat /\ MaxFailures \in Nat /\ MaxKills \in Nat
    /\ MaxMishaps \in Nat
    /\ \A i, j \in 1..Len(Manifest) : Manifest[i] = Manifest[j] => i = j

VARIABLES
    version,    \* which model, and which runner and scorer, are in use
    records,    \* the record files of the baseline cache, in the order written
    index,      \* index.jsonl: the numbers of records
    indexTorn,  \* its last line is incomplete
    answers,    \* answers[d]: the database of cache directory d
    legacy,     \* the old files of the shared cache directory
    runs,       \* the options of every run, its plan, control directory and end
    main,       \* what the last run is doing
    rows,       \* result_summary of the control arm it plays
    unplayed,   \* the scenarios the current arm still has to play
    environment,\* the environment variables of the response cache
    collected,  \* how many scenarios collect_run has dealt with
    unindexed,  \* the next one has a record file, and no index line yet
    played,     \* history: every play of an arm
    changes, failures, kills    \* history: counted against the bounds

stores  == <<records, index, indexTorn, answers, legacy>>
process == <<main, rows, unplayed, environment, collected, unindexed>>
history == <<version, played, changes, failures, kills>>
vars    == <<stores, runs, process, history>>

NoRows == [s \in Scenarios |-> NoRow]
run == Len(runs)
Here == runs[run]
cached == Here.cached
Plans(mode) == mode \in {"use-if-eligible", "strict"}
Collects(mode) == mode \in {"collect", "use-if-eligible", "refresh"}

-----------------------------------------------------------------------------
(* Records and lookups.                                                      *)

\* Mutant: the version of the code is not compared.
MatchesModel(record, s, v) ==
    record.scenario = s /\ record.version["model"] = v["model"]

\* _record_matches_context: COMPATIBILITY_FIELDS, of which the checksum of the
\* manifest is none.  (The key in the index line only narrows the search.)
Matches(record, s, v) == record.scenario = s /\ record.version = v

\* compatible_records, by their number.
Compatible(s, v) ==
    {n \in {index[i] : i \in 1..Len(index)} :
        n <= Len(records) /\ records[n].valid /\ Matches(records[n], s, v)}

\* lookup: is there a baseline?
Eligible(s, v) == Cardinality(Compatible(s, v)) >= MinCompatibleRuns

\* lookup: the row with the mean scores of all compatible records.
CachedRow(s, v) ==
    [source |-> "cached", failed |-> FALSE, records |-> Compatible(s, v),
     plays |-> UNION {records[n].plays : n \in Compatible(s, v)}]

\* Mutant: records of plays with exceptions are valid as well.
RecordOfAnyPlay(s, row, v) ==
    [scenario |-> s, version |-> v, valid |-> TRUE, run |-> run, plays |-> row.plays]

\* add_record.  The context is that of the run that records (run_dir), not the row's
\* own.
RecordOf(s, row, v) ==
    [scenario |-> s, version |-> v, valid |-> ~row.failed, run |-> run,
     plays |-> row.plays]

-----------------------------------------------------------------------------
(* The state before the first run.                                           *)

\* The file of an older layout that answers the first scenario of a control arm.
OldFile(s) ==
    [key |-> Key(1, Enter(Configure("control", Scenarios, FALSE), s, 0)),
     answer |-> [scenario |-> s, arm |-> "control", model |-> 1]]

Init ==
    /\ version = [c \in Changing |-> 1]
    /\ records = <<>> /\ index = <<>> /\ indexTorn = FALSE
    /\ answers = [d \in CacheDirs |-> {}]
    /\ legacy \in SUBSET {OldFile(s) : s \in {t \in Scenarios : t = Manifest[1]}}
    /\ runs = <<>>
    /\ main = "idle" /\ rows = NoRows /\ unplayed = {}
    /\ environment = Configure("control", {}, FALSE)
    /\ collected = 0 /\ unindexed = FALSE
    /\ played = <<>> /\ changes = 0 /\ failures = 0 /\ kills = 0

MayGoWrong == changes + failures + kills < MaxMishaps

-----------------------------------------------------------------------------
(* One run.                                                                  *)

\* The model, or the runner or scorer code, is another one from now on.
Change ==
    /\ main = "idle" /\ changes < MaxChanges /\ MayGoWrong
    /\ \E c \in Changing : version' = [version EXCEPT ![c] = @ + 1]
    /\ changes' = changes + 1
    /\ UNCHANGED <<stores, runs, process, played, failures, kills>>

End(how) == /\ runs' = [runs EXCEPT ![run].end = how]
            /\ main' = "idle"

\* The roots --resume-run-root may name: those of all earlier runs, whatever their
\* options, model and code were and however they ended.
Resumable == 1..run

\* History: the runs whose control rows a run carries over, directly or through others.
Lineage(resume, plan) ==
    IF resume = 0 \/ plan # {} THEN {} ELSE {resume} \union runs[resume].lineage

\* main, up to the cohort checks: the plan, the strict mode, which arms.  An
\* incomplete line of the index raises.
StartRun ==
    /\ main = "idle" /\ run < MaxRuns
    /\ \E control \in ControlCacheModes, responses \in ResponseCacheModes,
          parallel \in BOOLEAN :
       \E resume \in {0} \union Resumable :
        LET plan == IF Plans(control) THEN {s \in Scenarios : Eligible(s, version)} ELSE {}
            raises == Plans(control) /\ indexTorn
            blocked == control = "strict" /\ plan # Scenarios
        IN  /\ runs' = Append(runs,
                  [control |-> control, responses |-> responses, resume |-> resume,
                   parallel |-> parallel /\ plan = {}, version |-> version,
                   cached |-> plan, lineage |-> Lineage(resume, plan),
                   rows |-> NoRows, summary |-> "none",
                   end |-> IF raises \/ blocked THEN "aborted" ELSE "running"])
            /\ main' = IF raises \/ blocked THEN "idle" ELSE "planned"
    /\ rows' = NoRows /\ unplayed' = {} /\ collected' = 0 /\ unindexed' = FALSE
    /\ UNCHANGED <<stores, environment, history>>

\* Mutant: only the summary of a finished arm is read.
CarriedIfComplete(r) ==
    IF r # 0 /\ \A s \in Scenarios : runs[r].rows[s] # NoRow THEN runs[r].rows ELSE NoRows

\* _resume_rows, and the rows of the scenarios of this run among them.
Carried(r) == IF r = 0 THEN NoRows ELSE runs[r].rows

\* Mutant: a run resumes whatever its plan is.
ResumesAnyway == Here.resume

\* resume_from_dir: a run resumes only if no scenario comes from the cache.
ResumesFrom == IF cached = {} THEN Here.resume ELSE 0

\* The control arm begins: run_scenario_sequence carries the rows of the other run
\* over and reports.  A summary of which only a part was written raises.
BeginControl ==
    /\ main = "planned"
    /\ IF cached = Scenarios
       THEN /\ main' = "synthesising"
            /\ UNCHANGED <<runs, rows, unplayed, environment>>
       ELSE LET from == ResumesFrom
            IN  IF from # 0 /\ runs[from].summary = "torn"
                THEN End("aborted") /\ UNCHANGED <<rows, unplayed, environment>>
                ELSE /\ rows' = Carried(from)
                     /\ unplayed' = {s \in Scenarios \ cached : Carried(from)[s] = NoRow}
                     /\ runs' = [runs EXCEPT ![run].rows = rows', ![run].summary = "whole"]
                     /\ environment' =
                            Configure("control", Scenarios \ cached, Here.parallel)
                     /\ main' = "control"
    /\ UNCHANGED <<stores, collected, unindexed, history>>

\* The next scenario of the current arm, in the order of the manifest.
NextUp == CHOOSE s \in unplayed :
    \A i, j \in 1..Len(Manifest) : Manifest[i] = s /\ Manifest[j] \in unplayed => i <= j

CacheDir(arm) == IF Here.parallel THEN arm ELSE "shared"
OldFiles(arm) == IF Here.parallel THEN {} ELSE legacy

\* One scenario of an arm, with the completion it asks for.
Play(arm, failed) ==
    LET s == NextUp
        done == Cardinality(environment.names) - Cardinality(unplayed)
        entered == Enter(environment, s, done)
        key == Key(version["model"], entered)
        asked == [scenario |-> s, arm |-> arm, model |-> version["model"]]
        served == Served(answers[CacheDir(arm)], OldFiles(arm), Here.responses, key)
    IN  /\ environment' = entered
        /\ answers' = [answers EXCEPT ![CacheDir(arm)] =
               AfterCall(@, Here.responses, key, served, asked)]
        /\ played' = Append(played,
               [asked |-> asked, version |-> version, failed |-> failed,
                answer |-> IF served = NoAnswer THEN asked ELSE served])
        /\ unplayed' = unplayed \ {s}

\* run_one_scenario in the control arm, its row, and the live summary.
PlayControl ==
    /\ main = "control" /\ unplayed # {}
    /\ \E failed \in BOOLEAN :
        /\ failed => failures < MaxFailures /\ MayGoWrong
        /\ failures' = IF failed THEN failures + 1 ELSE failures
        /\ Play("control", failed)
        /\ rows' = [rows EXCEPT ![NextUp] =
               [source |-> "played", failed |-> failed, records |-> {},
                plays |-> {Len(played')}]]
    /\ runs' = [runs EXCEPT ![run].rows = rows']
    /\ UNCHANGED <<records, index, indexTorn, legacy, main, collected, unindexed,
                   version, changes, kills>>

BeginCandidate ==
    /\ environment' = Configure("candidate", Scenarios, Here.parallel)
    /\ unplayed' = Scenarios

\* Result summaries are written.  Parallel arms are joined before anything is
\* recorded, so their candidate comes first.
FinishControl ==
    /\ main = "control" /\ unplayed = {}
    /\ IF Here.parallel
       THEN main' = "candidate" /\ BeginCandidate
       ELSE /\ main' = IF Collects(Here.control) THEN "collecting" ELSE "synthesising"
            /\ UNCHANGED <<environment, unplayed>>
    /\ UNCHANGED <<stores, runs, rows, collected, unindexed, history>>

\* collect_run, for the next scenario: those not in the directory are passed over,
\* the others get a record file ...
WriteRecord ==
    /\ main = "collecting" /\ collected < Len(Manifest) /\ ~unindexed
    /\ LET s == Manifest[collected + 1]
       IN  IF s \in cached
           THEN collected' = collected + 1 /\ UNCHANGED <<records, unindexed>>
           ELSE /\ records' = Append(records, RecordOf(s, rows[s], version))
                /\ unindexed' = TRUE
                /\ UNCHANGED collected
    /\ UNCHANGED <<index, indexTorn, answers, legacy, runs, main, rows, unplayed,
                   environment, history>>

\* ... and an index line; after an incomplete line it is lost with that.
IndexRecord ==
    /\ unindexed
    /\ index' = IF indexTorn THEN index ELSE Append(index, Len(records))
    /\ unindexed' = FALSE /\ collected' = collected + 1
    /\ UNCHANGED <<records, indexTorn, answers, legacy, runs, main, rows, unplayed,
                   environment, history>>

FinishCollecting ==
    /\ main = "collecting" /\ collected = Len(Manifest)
    /\ main' = IF Here.parallel THEN "comparing" ELSE "synthesising"
    /\ UNCHANGED <<stores, runs, rows, unplayed, environment, collected, unindexed,
                   history>>

\* Mutant: the lookups are made again after the fresh plays were recorded.
SynthesisByNewLookup ==
    /\ main = "synthesising"
    /\ runs' = [runs EXCEPT ![run].summary = "whole", ![run].rows =
                   [s \in Scenarios |->
                       IF Eligible(s, version) THEN CachedRow(s, version) ELSE rows[s]]]
    /\ main' = "candidate" /\ BeginCandidate
    /\ UNCHANGED <<stores, rows, collected, unindexed, history>>

\* write_synthetic_control_run, if there are cached rows: a new directory with
\* the rows of both kinds.  Then the candidate arm begins.
FinishSynthesis ==
    /\ main = "synthesising"
    /\ runs' = IF cached = {} THEN runs
               ELSE [runs EXCEPT ![run].summary = "whole", ![run].rows =
                        [s \in Scenarios |->
                            IF s \in cached THEN CachedRow(s, version) ELSE rows[s]]]
    /\ main' = "candidate" /\ BeginCandidate
    /\ UNCHANGED <<stores, rows, collected, unindexed, history>>

\* A scenario of the candidate arm (SageCampaign has its other effects).
PlayCandidate ==
    /\ main = "candidate" /\ unplayed # {}
    /\ Play("candidate", FALSE)
    /\ UNCHANGED <<records, index, indexTorn, legacy, runs, main, rows, collected,
                   unindexed, version, changes, failures, kills>>

FinishCandidate ==
    /\ main = "candidate" /\ unplayed = {}
    /\ main' = IF Here.parallel /\ Collects(Here.control) THEN "collecting" ELSE "comparing"
    /\ UNCHANGED <<stores, runs, rows, unplayed, environment, collected, unindexed,
                   history>>

\* compare_runs and the gate (ProtocolRun).
FinishRun ==
    /\ main = "comparing" /\ End("normally")
    /\ UNCHANGED <<stores, rows, unplayed, environment, collected, unindexed, history>>

\* The run is killed.  A summary being written is incomplete, a directory being
\* set up has none, and so may be the last line of the index.
Kill ==
    /\ main # "idle" /\ kills < MaxKills /\ MayGoWrong
    /\ kills' = kills + 1
    /\ main' = "idle" /\ unindexed' = FALSE
    /\ \E summary \in {Here.summary}
                \union (IF main = "control" THEN {"torn"} ELSE {})
                \union (IF main = "synthesising" /\ cached # {} THEN {"none", "torn"} ELSE {}) :
        runs' = [runs EXCEPT ![run].end = "killed", ![run].summary = summary,
                             ![run].rows = IF summary = "none" THEN NoRows ELSE @]
    /\ indexTorn' \in {indexTorn, indexTorn \/ unindexed}
    /\ UNCHANGED <<records, index, answers, legacy, rows, unplayed, environment,
                   collected, version, played, changes, failures>>

AllRunsOver == main = "idle" /\ run = MaxRuns /\ UNCHANGED vars

RunStep == BeginControl \/ PlayControl \/ FinishControl \/ WriteRecord \/ IndexRecord
           \/ FinishCollecting \/ FinishSynthesis \/ PlayCandidate \/ FinishCandidate
           \/ FinishRun

Next == Change \/ StartRun \/ RunStep \/ Kill \/ AllRunsOver

Spec == Init /\ [][Next]_vars

-----------------------------------------------------------------------------
Phases == {"idle", "planned", "control", "collecting", "synthesising", "candidate",
           "comparing"}
Version == [Changing -> Nat]
Situation == [scenario : Scenarios, arm : {"control", "candidate"}, model : Nat]
Environment == [arm : {"control", "candidate"}, names : SUBSET Scenarios,
                parallel : BOOLEAN, scenario : Scenarios \union {""}, index : Nat]
Answered == [key : [model : Nat, context : Environment], answer : Situation]
Record == [scenario : Scenarios, version : Version, valid : BOOLEAN, run : Nat,
           plays : SUBSET (Nat \ {0})]
Played == [asked : Situation, version : Version, failed : BOOLEAN, answer : Situation]
Rows == [Scenarios -> Row \union {NoRow}]
Run == [control : ControlCacheModes, responses : ResponseCacheModes, resume : Nat,
        parallel : BOOLEAN, version : Version, cached : SUBSET Scenarios,
        lineage : SUBSET Nat, rows : Rows,
        summary : {"none", "torn", "whole"},
        end : {"running", "normally", "aborted", "killed"}]

\* The values of the variables.
TypeOK ==
    /\ version \in [Changing -> 1..(MaxChanges + 1)]
    /\ records \in Seq(Record) /\ index \in Seq(Nat) /\ indexTorn \in BOOLEAN
    /\ answers \in [CacheDirs -> SUBSET Answered] /\ legacy \subseteq Answered
    /\ runs \in Seq(Run) /\ run <= MaxRuns
    /\ main \in Phases /\ rows \in Rows /\ unplayed \subseteq Scenarios
    /\ environment \in Environment
    /\ collected \in 0..Len(Manifest) /\ unindexed \in BOOLEAN
    /\ played \in Seq(Played)
    /\ changes \in 0..MaxChanges /\ failures \in 0..MaxFailures /\ kills \in 0..MaxKills

\* What an agent is answered was said by the same model to the same scenario in
\* the same arm, whichever run it was, and whatever was cached or killed since.
AnswersStayInTheirContext == \A p \in 1..Len(played) : played[p].answer = played[p].asked

\* A play of the control arm, to its end.
IsControlPlay(p, s) ==
    /\ p <= Len(played) /\ ~played[p].failed
    /\ played[p].asked.scenario = s /\ played[p].asked.arm = "control"

IsPlayBy(p, v) == played[p].version = v

\* Nothing but the operator sees to it that a run resumes only roots of its own model
\* and code, or roots in which a scenario was played and not answered by the cache.
SameCode(r) == \A q \in runs[r].lineage : runs[q].version = runs[r].version
PlayedThroughout(r, s) == \A q \in runs[r].lineage : s \notin runs[q].cached

\* Whatever was resumed, a valid record stands for plays of the control arm, without
\* an exception; for a single one, if the scenario was played in all the roots that
\* its run resumed; and for one by the model and the code it is labelled with, if
\* those were the roots' too.  Every line of the index has a record of its own on
\* disk, whatever was killed.
RecordsAreOfControlPlays ==
    /\ \A n \in 1..Len(records) :
        LET record == records[n]
        IN  record.valid =>
              /\ record.plays # {}
              /\ \A p \in record.plays : IsControlPlay(p, record.scenario)
              /\ PlayedThroughout(record.run, record.scenario) =>
                    \E p \in record.plays :
                        /\ record.plays = {p}
                        /\ SameCode(record.run) => IsPlayBy(p, record.version)
    /\ \A i \in 1..Len(index) : index[i] <= Len(records)
    /\ \A i, j \in 1..Len(index) : index[i] = index[j] => i = j

\* A control row from the cache is the mean of at least MIN_COMPATIBLE_RUNS records and
\* of plays of the control arm.  Unless it was carried over, the records are labelled
\* with this run's model and code; and its plays are by these, as long as no record
\* was collected by a run that had resumed other code or a cached row.
BaselinesMatchTheRun ==
    \A r \in 1..run, s \in Scenarios :
        LET row == runs[r].rows[s]
        IN  row # NoRow /\ row.source = "cached" =>
              /\ Cardinality(row.records) >= MinCompatibleRuns
              /\ \A p \in row.plays : IsControlPlay(p, s)
              /\ PlayedThroughout(r, s) =>
                  /\ \A n \in row.records : records[n].version = runs[r].version
                  /\ (\A n \in row.records : /\ SameCode(records[n].run)
                                             /\ PlayedThroughout(records[n].run, s))
                     => \A p \in row.plays : IsPlayBy(p, runs[r].version)

\* The candidate is compared with a control directory that has a row of every
\* scenario, and from the source that the plan, and so the report, gives, unless the
\* row is a cached one of a root that was resumed.
ControlIsComplete ==
    main \in {"candidate", "comparing"} =>
        \A s \in Scenarios :
            /\ Here.rows[s] # NoRow
            /\ PlayedThroughout(run, s) =>
                  Here.rows[s].source = IF s \in cached THEN "cached" ELSE "played"

\* A resumed control arm keeps every play that the run before it had reported.
ResumeKeepsFinishedPlays ==
    \A r \in 1..run : runs[r].resume # 0 /\ runs[r].cached = {} /\ runs[r].summary # "none" =>
        \A s \in Scenarios :
            runs[runs[r].resume].rows[s] # NoRow =>
                runs[r].rows[s] = runs[runs[r].resume].rows[s]
==============================================================================
