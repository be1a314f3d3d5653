----------------------------- MODULE ProtocolRun -----------------------------
(***************************************************************************)
(* Paired protocol runs (scripts/run_sage_protocol.py) that follow one     *)
(* another on one registry directory.                                      *)
(*                                                                         *)
(* A run copies the registry manifest aside, plays the control and the     *)
(* candidate arm, compares them and applies a gate; when the gate fails it *)
(* copies the old manifest back.  The arms are played one after the other  *)
(* in the main process or, with --parallel-arms, in two child processes    *)
(* that the main process polls through their status files.  Only the       *)
(* candidate writes the registry (RegistryStore: load it, change it,       *)
(* replace it).  A status file, and the manifest while it is copied back,  *)
(* is truncated before it is written.                                      *)
(*                                                                         *)
(* A manifest is abstracted to the set of runs whose births it contains.   *)
(***************************************************************************)
EXTENDS Naturals

CONSTANTS
    Absent,     \* there is no manifest file
    Torn,       \* the manifest has been truncated and not yet written
    MaxRuns,    \* bound: runs the operator starts
    MaxSaves,   \* bound: writes of the registry by one candidate arm
    Scenarios,  \* progress reports an arm of a run writes
    MaxKills    \* bound: kills of a main process

Runs == 1..MaxRuns
Arms == {"control", "candidate"}
Manifests == (SUBSET Runs) \union {Absent, Torn}

ASSUME ProtocolAssumption ==
    /\ MaxRuns \in Nat /\ MaxSaves \in Nat /\ Scenarios \in Nat /\ MaxKills \in Nat
    /\ Absent # Torn /\ \A R \in SUBSET Runs : Absent # R /\ Torn # R

VARIABLES
    registry,   \* registry_manifest.json
    run,        \* the number of runs started; the last of them
    parallel,   \* --parallel-arms
    main,       \* what its main process is doing
    snapshot,   \* registry_gate_snapshot of that process
    arms,       \* arms[r][a]: the state of arm a of run r
    loaded,     \* loaded[r]: the entries the candidate of r works on
    saves,      \* saves[r]: how often it has written the registry
    status,     \* status[r][a]: the status file of arm a of run r
    reports,    \* reports[r][a]: how often that has been written
    verdict,    \* verdict[r]: what the gate of run r decided
    ended,      \* ended[r]: how the main process of run r came to its end
    before,     \* history: before[r] is the manifest when r was started
    kills       \* history: kills so far

files   == <<registry, status>>
process == <<run, parallel, main, snapshot>>
worker  == <<arms, loaded, saves, reports>>
history == <<verdict, ended, before, kills>>
vars    == <<files, process, worker, history>>

MainPhases == {"idle", "preflight", "control", "candidate", "polling", "exiting",
               "gate", "restoring", "copying", "finishing"}
ArmPhases == {"none", "running", "loaded", "reporting", "complete", "failed"}

Alive(r, a) == arms[r][a] \in {"running", "loaded", "reporting"}

Init ==
    /\ registry \in {Absent, {}} /\ status = [r \in Runs |-> [a \in Arms |-> "absent"]]
    /\ run = 0 /\ parallel = FALSE /\ main = "idle" /\ snapshot = Absent
    /\ arms = [r \in Runs |-> [a \in Arms |-> "none"]]
    /\ loaded = [r \in Runs |-> {}]
    /\ saves = [r \in Runs |-> 0] /\ reports = [r \in Runs |-> [a \in Arms |-> 0]]
    /\ verdict = [r \in Runs |-> "none"] /\ ended = [r \in Runs |-> "no"]
    /\ before = [r \in Runs |-> Absent] /\ kills = 0

-----------------------------------------------------------------------------
\* Mutant: a later run keeps the snapshot of the first.
StartRunOldSnapshot ==
    /\ main = "idle" /\ run < MaxRuns
    /\ run' = run + 1
    /\ snapshot' = IF run = 0 THEN registry ELSE snapshot
    /\ before' = [before EXCEPT ![run'] = registry]
    /\ main' = "preflight"
    /\ UNCHANGED <<files, parallel, worker, verdict, ended, kills>>

\* main, up to _snapshot_registry_for_gate, in a new run directory.
StartRun ==
    /\ main = "idle" /\ run < MaxRuns
    /\ run' = run + 1
    /\ snapshot' = registry
    /\ before' = [before EXCEPT ![run'] = registry]
    /\ main' = "preflight"
    /\ UNCHANGED <<files, parallel, worker, verdict, ended, kills>>

\* The main process ends before the gate: SystemExit or an exception.
Abort ==
    /\ main' = "idle"
    /\ ended' = [ended EXCEPT ![run] = "aborted"]
    /\ UNCHANGED <<files, run, parallel, snapshot, worker, verdict, before, kills>>

\* The frozen-mode, evidence, control-cache and cohort checks that exit.
PreflightBlocks == main = "preflight" /\ Abort

\* The checks pass, and the arms are started.
StartArms ==
    /\ main = "preflight"
    /\ parallel' \in BOOLEAN
    /\ main' = IF parallel' THEN "polling" ELSE "control"
    /\ arms' = [arms EXCEPT ![run] =
           [a \in Arms |-> IF parallel' \/ a = "control" THEN "running" ELSE "none"]]
    /\ UNCHANGED <<files, run, snapshot, loaded, saves, reports, history>>

\* Mutant: load_entries does not ask whether there is a manifest.
LoadUnguarded(r) ==
    /\ arms[r]["candidate"] = "running" /\ saves[r] < MaxSaves
    /\ registry # Torn
    /\ loaded' = [loaded EXCEPT ![r] = registry]
    /\ arms' = [arms EXCEPT ![r]["candidate"] = "loaded"]
    /\ UNCHANGED <<files, process, saves, reports, history>>

\* RegistryStore.put or record_reuse in the candidate arm: load_entries ...
Load(r) ==
    /\ arms[r]["candidate"] = "running" /\ saves[r] < MaxSaves
    /\ registry # Torn
    /\ loaded' = [loaded EXCEPT ![r] = IF registry = Absent THEN {} ELSE registry]
    /\ arms' = [arms EXCEPT ![r]["candidate"] = "loaded"]
    /\ UNCHANGED <<files, process, saves, reports, history>>

\* ... and save_entries, whose os.replace is one step.
Save(r) ==
    /\ arms[r]["candidate"] = "loaded"
    /\ registry' = loaded[r] \union {r}
    /\ saves' = [saves EXCEPT ![r] = @ + 1]
    /\ arms' = [arms EXCEPT ![r]["candidate"] = "running"]
    /\ UNCHANGED <<status, process, loaded, reports, history>>

\* _write_arm_status, called by a worker when it starts, by its progress hook
\* and at its end: the file is opened, and so truncated, ...
Report(r, a) ==
    /\ arms[r][a] = "running" /\ (r = run => main \notin {"control", "candidate"})
    /\ reports[r][a] < Scenarios
    /\ arms' = [arms EXCEPT ![r][a] = "reporting"]
    /\ status' = [status EXCEPT ![r][a] = "torn"]
    /\ reports' = [reports EXCEPT ![r][a] = @ + 1]
    /\ UNCHANGED <<registry, process, loaded, saves, history>>

\* ... and then written.
Reported(r, a) ==
    /\ arms[r][a] = "reporting"
    /\ arms' = [arms EXCEPT ![r][a] = "running"]
    /\ status' = [status EXCEPT ![r][a] = "whole"]
    /\ UNCHANGED <<registry, process, loaded, saves, reports, history>>

\* An arm finishes its scenarios.
Complete(r, a) ==
    /\ arms[r][a] = "running"
    /\ arms' = [arms EXCEPT ![r][a] = "complete"]
    /\ UNCHANGED <<files, process, loaded, saves, reports, history>>

\* An exception ends an arm, or its process is killed.  A child leaves an exit
\* code and, unless it is killed, a last status ...
Fail(r, a) ==
    /\ Alive(r, a) /\ (r = run => main \notin {"control", "candidate"})
    /\ arms' = [arms EXCEPT ![r][a] = "failed"]
    /\ status' \in {status, [status EXCEPT ![r][a] = "whole"]}
    /\ UNCHANGED <<registry, process, loaded, saves, reports, history>>

\* ... and an exception of an arm that the main process plays is the end of it.
FailInMain(a) ==
    /\ main \in {"control", "candidate"} /\ Alive(run, a)
    /\ arms' = [arms EXCEPT ![run][a] = "failed"]
    /\ main' = "idle" /\ ended' = [ended EXCEPT ![run] = "aborted"]
    /\ UNCHANGED <<files, run, parallel, snapshot, loaded, saves, reports, verdict, before,
                   kills>>

\* Arms in sequence: after the control arm the candidate, then the comparison.
NextArm ==
    /\ \/ /\ main = "control" /\ arms[run]["control"] = "complete"
          /\ main' = "candidate"
          /\ arms' = [arms EXCEPT ![run]["candidate"] = "running"]
       \/ /\ main = "candidate" /\ arms[run]["candidate"] = "complete"
          /\ main' = "gate"
          /\ UNCHANGED arms
    /\ UNCHANGED <<files, run, parallel, snapshot, loaded, saves, reports, history>>

\* _read_arm_status finds a truncated file, and json.loads raises.  The main
\* process then exits, which waits for the children to end.
ReadTornStatus ==
    /\ main = "polling" /\ \E a \in Arms : status[run][a] = "torn"
    /\ main' = "exiting"
    /\ UNCHANGED <<files, run, parallel, snapshot, worker, history>>

Exit == main = "exiting" /\ (\A a \in Arms : ~Alive(run, a)) /\ Abort

\* Mutants: the candidate is not joined; the main process polls until both arms
\* have completed.
JoinControl ==
    /\ main = "polling" /\ ~Alive(run, "control")
    /\ IF arms[run]["control"] = "complete"
       THEN /\ main' = "gate"
            /\ UNCHANGED <<files, run, parallel, snapshot, worker, history>>
       ELSE Abort
JoinCompleted ==
    /\ main = "polling"
    /\ IF \A a \in Arms : arms[run][a] = "complete"
       THEN /\ main' = "gate"
            /\ UNCHANGED <<files, run, parallel, snapshot, worker, history>>
       ELSE UNCHANGED vars

\* Both children have ended; "Parallel arm failure" unless both exit codes are 0.
Join ==
    /\ main = "polling" /\ \A a \in Arms : ~Alive(run, a)
    /\ IF \A a \in Arms : arms[run][a] = "complete"
       THEN /\ main' = "gate"
            /\ UNCHANGED <<files, run, parallel, snapshot, worker, history>>
       ELSE Abort

\* compare_runs and _protocol_gate_decision.  The comparison may raise.
Decide ==
    /\ main = "gate"
    /\ \E passed \in BOOLEAN :
        /\ verdict' = [verdict EXCEPT ![run] = IF passed THEN "passed" ELSE "failed"]
        /\ main' = IF passed THEN "finishing" ELSE "restoring"
    /\ UNCHANGED <<files, run, parallel, snapshot, worker, ended, before, kills>>

ComparisonRaises == main = "gate" /\ Abort

\* Mutant: a manifest that did not exist before the run is left.
RestoreOnlyExisting ==
    /\ main = "restoring"
    /\ registry' = IF snapshot = Absent THEN registry ELSE Torn
    /\ main' = IF snapshot = Absent THEN "finishing" ELSE "copying"
    /\ UNCHANGED <<status, run, parallel, snapshot, worker, history>>

\* _restore_registry_after_failed_gate: the manifest is removed if there was
\* none before the run, else overwritten with the copy: truncated ...
Restore ==
    /\ main = "restoring"
    /\ registry' = IF snapshot = Absent THEN Absent ELSE Torn
    /\ main' = IF snapshot = Absent THEN "finishing" ELSE "copying"
    /\ UNCHANGED <<status, run, parallel, snapshot, worker, history>>

\* ... and written.
Restored ==
    /\ main = "copying"
    /\ registry' = snapshot
    /\ main' = "finishing"
    /\ UNCHANGED <<status, run, parallel, snapshot, worker, history>>

\* The events and manifests after the gate.
Finish ==
    /\ main = "finishing"
    /\ main' = "idle"
    /\ ended' = [ended EXCEPT ![run] = "normally"]
    /\ UNCHANGED <<files, run, parallel, snapshot, worker, verdict, before, kills>>

\* The main process is killed.  Arms it plays itself end with it; child
\* processes are not daemons and go on.
Kill ==
    /\ main # "idle" /\ kills < MaxKills
    /\ kills' = kills + 1
    /\ main' = "idle"
    /\ ended' = [ended EXCEPT ![run] = "killed"]
    /\ arms' = IF main \in {"control", "candidate"}
               THEN [arms EXCEPT ![run] =
                        [a \in Arms |-> IF Alive(run, a) THEN "failed" ELSE @[a]]]
               ELSE arms
    /\ UNCHANGED <<files, run, parallel, snapshot, loaded, saves, reports, verdict,
                   before>>

AllRunsOver ==
    /\ main = "idle" /\ run = MaxRuns /\ \A r \in Runs, a \in Arms : ~Alive(r, a)
    /\ UNCHANGED vars

MainStep == PreflightBlocks \/ StartArms \/ NextArm \/ ReadTornStatus \/ Exit \/ Join
            \/ Decide \/ ComparisonRaises \/ Restore \/ Restored \/ Finish

ArmStep(r, a) == (a = "candidate" /\ (Load(r) \/ Save(r))) \/ Complete(r, a) \/ Fail(r, a)
                 \/ (r = run /\ FailInMain(a)) \/ Report(r, a) \/ Reported(r, a)

Next == StartRun \/ MainStep \/ (\E r \in Runs, a \in Arms : ArmStep(r, a)) \/ Kill
        \/ AllRunsOver

Spec == Init /\ [][Next]_vars

\* Processes that are alive take their steps; nobody has to start a run.
FairSpec == Spec /\ WF_vars(MainStep)
            /\ \A r \in Runs, a \in Arms : WF_vars(ArmStep(r, a))

-----------------------------------------------------------------------------
\* The values of the variables.
TypeOK ==
    /\ registry \in Manifests /\ status \in [Runs -> [Arms -> {"absent", "torn", "whole"}]]
    /\ run \in 0..MaxRuns /\ parallel \in BOOLEAN /\ main \in MainPhases
    /\ snapshot \in Manifests
    /\ arms \in [Runs -> [Arms -> ArmPhases]] 
    /\ loaded \in [Runs -> Manifests \ {Absent, Torn}]
    /\ saves \in [Runs -> 0..MaxSaves] /\ reports \in [Runs -> [Arms -> 0..Scenarios]]
    /\ verdict \in [Runs -> {"none", "passed", "failed"}]
    /\ ended \in [Runs -> {"no", "normally", "aborted", "killed"}]
    /\ before \in [Runs -> Manifests] /\ kills \in 0..MaxKills

\* The gate judges finished arms: from its verdict on, no process of that run
\* writes the registry, so what it judged is what is kept or taken back.
GateFollowsBothArms ==
    \A r \in Runs : verdict[r] # "none" =>
        \A a \in Arms : arms[r][a] = "complete"

\* A run whose gate fails, and that comes to its end, leaves the manifest as
\* it found it, or none if there was none (unless an earlier main process was
\* killed and its children live on).
FailedGateRestores ==
    kills = 0 /\ main = "idle" /\ run > 0
        => (ended[run] = "normally" /\ verdict[run] = "failed"
                => registry = before[run])

\* The births of a run that passed its gate are still there after all later
\* runs, whether those pass, fail their gate or abort.
PassedBirthsStay ==
    kills = 0 /\ main = "idle" =>
        \A r \in Runs : verdict[r] = "passed" /\ saves[r] > 0 =>
            registry # Absent /\ r \in registry

\* A run that has been started comes to an end, whatever becomes of its arms.
EveryRunEnds == (main # "idle") ~> (main = "idle")

\* "Snapshot registry state so failed gated runs cannot contaminate follow-ups"
\* (_snapshot_registry_for_gate): a follow-up starts from a manifest with the
\* births of runs that passed only.
FollowUpsAreClean ==
    main = "preflight" /\ registry \notin {Absent, Torn} =>
        \A r \in registry : verdict[r] = "passed"
==============================================================================
