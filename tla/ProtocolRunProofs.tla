-------------------------- MODULE ProtocolRunProofs --------------------------
(***************************************************************************)
(* Proofs about ProtocolRun: the gate judges finished arms; and while no   *)
(* main process is killed, a failed gate restores the manifest and the     *)
(* births of passed runs stay.                                             *)
(***************************************************************************)
EXTENDS ProtocolRun, TLAPS

-----------------------------------------------------------------------------
(* The inductive invariant                                                 *)

BeforeGate == {"preflight", "control", "candidate", "polling", "exiting", "gate"}
Playing    == {"control", "candidate", "polling", "exiting"}

Completed(r) == \A a \in Arms : arms[r][a] = "complete"

\* An arm that has loaded the entries has a write left.
SavesLeft == \A r \in Runs : arms[r]["candidate"] = "loaded" => saves[r] < MaxSaves

\* A run whose gate has not decided has no verdict, nor has one not yet started.
VerdictsFollow ==
    /\ main # "idle" => run \in Runs
    /\ \A r \in Runs : r > run \/ (r = run /\ main \in BeforeGate) => verdict[r] = "none"
    /\ \A r \in Runs : verdict[r] # "none" => Completed(r)
    /\ main = "gate" => Completed(run)
    /\ main = "control" => arms[run]["candidate"] = "none"
    /\ main = "candidate" => arms[run]["control"] = "complete"

\* While no main process was killed, only the arms of the run at hand are
\* alive, and only while it is waiting for them.
OnlyOwnArms ==
    \A r \in Runs, a \in Arms : Alive(r, a) => r = run /\ main \in Playing

\* The manifest R holds the births of every run that passed its gate.
Holds(R) ==
    \A r \in Runs : verdict[r] = "passed" /\ saves[r] > 0 =>
        R \in SUBSET Runs /\ r \in R

\* ... and its own births are in the manifest that the gate is to judge.
OwnBirths(R) == saves[run] > 0 => R \in SUBSET Runs /\ run \in R

\* What the main process and its candidate have read is not stale: the copy
\* it may restore, and the entries it will write back.
NothingStale ==
    /\ \A r \in Runs : r > run => saves[r] = 0
    /\ main # "copying" => registry # Torn /\ Holds(registry)
    /\ main \in BeforeGate =>
        /\ Holds(snapshot)
        /\ OwnBirths(registry)
        /\ arms[run]["candidate"] = "loaded" =>
             Holds(loaded[run]) /\ OwnBirths(loaded[run])
    /\ main \in {"restoring", "copying"} => verdict[run] = "failed" /\ Holds(snapshot)

\* What a failed gate leaves behind.
Restoring ==
    /\ main # "idle" => snapshot # Torn /\ snapshot = before[run] /\ ended[run] = "no"
    /\ \A r \in Runs : r > run => ended[r] = "no"
    /\ main = "finishing" /\ verdict[run] = "failed" => registry = before[run]
    /\ FailedGateRestores

IInv == /\ TypeOK
        /\ SavesLeft
        /\ VerdictsFollow
        /\ kills = 0 => OnlyOwnArms /\ NothingStale /\ Restoring

-----------------------------------------------------------------------------
(* Types                                                                   *)

(* What the assumptions on the constants say of the two special manifests.   *)
LEMMA SpecialManifests ==
    /\ Absent # Torn /\ Absent \notin SUBSET Runs /\ Torn \notin SUBSET Runs
    /\ MaxRuns \in Nat /\ MaxSaves \in Nat /\ Scenarios \in Nat /\ MaxKills \in Nat
  BY ProtocolAssumption

(* The type of a function of runs and arms after one of its values changed.   *)
LEMMA UpdateType ==
    ASSUME NEW S, NEW f \in [Runs -> [Arms -> S]], NEW r, NEW a, NEW v \in S
    PROVE  [f EXCEPT ![r][a] = v] \in [Runs -> [Arms -> S]]
<1>1. [f[r] EXCEPT ![a] = v] \in [Arms -> S] \/ r \notin Runs
  OBVIOUS
<1> QED
  BY <1>1

(* ... and its values.                                                        *)
LEMMA UpdateAt ==
    ASSUME NEW S, NEW f \in [Runs -> [Arms -> S]], NEW r \in Runs, NEW a \in Arms, NEW v
    PROVE  \A q \in Runs, b \in Arms :
               [f EXCEPT ![r][a] = v][q][b] = IF q = r /\ b = a THEN v ELSE f[q][b]
  OBVIOUS

(* The actions, one by one: what is left to a proof about a step.            *)
LEMMA Steps ==
    ASSUME [Next]_vars
    PROVE  \/ UNCHANGED vars \/ StartRun \/ PreflightBlocks \/ StartArms \/ NextArm
           \/ ReadTornStatus \/ Exit \/ Join \/ Decide \/ ComparisonRaises \/ Restore
           \/ Restored \/ Finish \/ Kill
           \/ \E r \in Runs : Load(r) \/ Save(r)
           \/ \E r \in Runs, a \in Arms :
                Report(r, a) \/ Reported(r, a) \/ Complete(r, a) \/ Fail(r, a)
           \/ \E a \in Arms : FailInMain(a)
  BY DEF Next, MainStep, ArmStep, AllRunsOver

(* Every step keeps the types.                                               *)
LEMMA TypeStep ==
    ASSUME TypeOK, SavesLeft, [Next]_vars
    PROVE  TypeOK'
<1>1. CASE UNCHANGED vars
  BY <1>1 DEF TypeOK, vars, files, process, worker, history
<1>2. CASE StartRun
  <2>1. run' \in 0..MaxRuns /\ registry \in Manifests
    BY <1>2, SpecialManifests DEF TypeOK, StartRun
  <2>2. before' \in [Runs -> Manifests]
    BY <1>2, <2>1 DEF TypeOK, StartRun
  <2> QED
    BY <1>2, <2>1, <2>2, SpecialManifests
    DEF StartRun, TypeOK, MainPhases, Manifests, files, process, worker, history
<1>3. CASE PreflightBlocks
  BY <1>3 DEF TypeOK, MainPhases, PreflightBlocks, Abort, files, worker
<1>4. CASE StartArms
  BY <1>4 DEF TypeOK, MainPhases, ArmPhases, StartArms, files, history
<1>5. CASE NextArm
  <2>1. arms' \in [Runs -> [Arms -> ArmPhases]]
    <3>1. arms' = arms \/ arms' = [arms EXCEPT ![run]["candidate"] = "running"]
      BY <1>5 DEF NextArm
    <3>2. "running" \in ArmPhases /\ arms \in [Runs -> [Arms -> ArmPhases]]
      BY DEF ArmPhases, TypeOK
    <3>3. [arms EXCEPT ![run]["candidate"] = "running"] \in [Runs -> [Arms -> ArmPhases]]
      BY <3>2, UpdateType
    <3> QED
      BY <3>1, <3>2, <3>3
  <2> QED
    BY <1>5, <2>1, SpecialManifests
    DEF NextArm, TypeOK, MainPhases, Manifests, files, process, worker, history
<1>6. CASE ReadTornStatus
  BY <1>6 DEF TypeOK, MainPhases, ReadTornStatus, files, worker, history
<1>7. CASE Exit
  BY <1>7 DEF TypeOK, MainPhases, Exit, Abort, files, worker
<1>8. CASE Join
  BY <1>8 DEF TypeOK, MainPhases, Join, Abort, files, worker, history
<1>9. CASE Decide
  BY <1>9 DEF TypeOK, MainPhases, Decide, files, worker
<1>10. CASE ComparisonRaises
  BY <1>10 DEF TypeOK, MainPhases, ComparisonRaises, Abort, files, worker
<1>11. CASE Restore
  BY <1>11 DEF TypeOK, MainPhases, Manifests, Restore, worker, history
<1>12. CASE Restored
  BY <1>12 DEF TypeOK, MainPhases, Restored, worker, history
<1>13. CASE Finish
  BY <1>13 DEF TypeOK, MainPhases, Finish, files, worker
<1>14. CASE Kill
  <2>1. arms' \in [Runs -> [Arms -> ArmPhases]]
    <3> DEFINE ended_arms ==
          [a \in Arms |-> IF Alive(run, a) THEN "failed" ELSE arms[run][a]]
    <3>1. run \in Runs => ended_arms \in [Arms -> ArmPhases]
      BY DEF TypeOK, ArmPhases
    <3>2. arms' = arms \/ arms' = [arms EXCEPT ![run] = ended_arms]
      BY <1>14 DEF Kill
    <3> QED
      BY <3>1, <3>2 DEF TypeOK
  <2>2. kills' \in 0..MaxKills
    BY <1>14, SpecialManifests DEF Kill, TypeOK
  <2> QED
    BY <1>14, <2>1, <2>2
    DEF Kill, TypeOK, MainPhases, files, process, worker, history
<1>15. ASSUME NEW r \in Runs, Load(r)
     PROVE  TypeOK'
  BY <1>15, SpecialManifests
  DEF TypeOK, ArmPhases, Manifests, Load, files, process, history
<1>16. ASSUME NEW r \in Runs, Save(r)
     PROVE  TypeOK'
  <2>1. arms' \in [Runs -> [Arms -> ArmPhases]]
    BY <1>16, UpdateType DEF TypeOK, Save, ArmPhases
  <2>2. registry' \in Manifests
    BY <1>16, SpecialManifests DEF TypeOK, Save, Manifests
  <2>3. saves' \in [Runs -> 0..MaxSaves]
    <3>1. saves[r] + 1 \in 0..MaxSaves
      BY <1>16, SpecialManifests DEF TypeOK, SavesLeft, Save
    <3> QED
      BY <1>16, <3>1 DEF TypeOK, Save
  <2> QED
    BY <1>16, <2>1, <2>2, <2>3, SpecialManifests
    DEF Save, TypeOK, MainPhases, Manifests, files, process, worker, history
<1>17. ASSUME NEW r \in Runs, NEW a \in Arms, Report(r, a)
     PROVE  TypeOK'
  <2>1. arms' \in [Runs -> [Arms -> ArmPhases]]
    BY <1>17, UpdateType DEF TypeOK, Report, ArmPhases
  <2>2. status' \in [Runs -> [Arms -> {"absent", "torn", "whole"}]]
    BY <1>17, UpdateType DEF TypeOK, Report
  <2>3. reports[r][a] + 1 \in 0..Scenarios
    BY <1>17, SpecialManifests DEF TypeOK, Report
  <2>4. reports' \in [Runs -> [Arms -> 0..Scenarios]]
    <3>1. reports' = [reports EXCEPT ![r][a] = reports[r][a] + 1]
      BY <1>17 DEF Report, TypeOK
    <3> QED
      BY <2>3, <3>1, UpdateType DEF TypeOK
  <2> QED
    BY <1>17, <2>1, <2>2, <2>4, SpecialManifests
    DEF Report, TypeOK, MainPhases, Manifests, files, process, worker, history
<1>18. ASSUME NEW r \in Runs, NEW a \in Arms, Reported(r, a)
     PROVE  TypeOK'
  BY <1>18 DEF TypeOK, ArmPhases, Reported, process, history
<1>19. ASSUME NEW r \in Runs, NEW a \in Arms, Complete(r, a)
     PROVE  TypeOK'
  BY <1>19 DEF TypeOK, ArmPhases, Complete, files, process, history
<1>20. ASSUME NEW r \in Runs, NEW a \in Arms, Fail(r, a)
     PROVE  TypeOK'
  <2>1. arms' \in [Runs -> [Arms -> ArmPhases]]
    BY <1>20, UpdateType DEF TypeOK, Fail, ArmPhases
  <2>2. status' \in [Runs -> [Arms -> {"absent", "torn", "whole"}]]
    <3>1. status' = status \/ status' = [status EXCEPT ![r][a] = "whole"]
      BY <1>20 DEF Fail
    <3>2. [status EXCEPT ![r][a] = "whole"]
            \in [Runs -> [Arms -> {"absent", "torn", "whole"}]]
      BY UpdateType DEF TypeOK
    <3> QED
      BY <3>1, <3>2 DEF TypeOK
  <2> QED
    BY <1>20, <2>1, <2>2
    DEF Fail, TypeOK, MainPhases, Manifests, files, process, worker, history
<1>21. ASSUME NEW a \in Arms, FailInMain(a)
     PROVE  TypeOK'
  BY <1>21 DEF TypeOK, MainPhases, ArmPhases, FailInMain, files
<1> QED
  BY Steps, <1>1, <1>2, <1>3, <1>4, <1>5, <1>6, <1>7, <1>8, <1>9, <1>10, <1>11,
      <1>12, <1>13, <1>14, <1>15, <1>16, <1>17, <1>18, <1>19, <1>20, <1>21

-----------------------------------------------------------------------------
(* The gate judges finished arms                                           *)

(* Every step keeps the verdicts to runs whose arms have completed.          *)
LEMMA VerdictsStep ==
    ASSUME TypeOK, VerdictsFollow, [Next]_vars
    PROVE  VerdictsFollow'
<1>1. CASE UNCHANGED vars
  BY <1>1 DEF VerdictsFollow, Completed, vars, process, worker, history
<1>2. CASE StartRun
  BY <1>2, SpecialManifests
  DEF TypeOK, VerdictsFollow, Completed, Runs, StartRun, worker
<1>3. CASE PreflightBlocks
  BY <1>3 DEF VerdictsFollow, BeforeGate, Completed, PreflightBlocks, Abort, worker
<1>4. CASE StartArms
  BY <1>4
  DEF TypeOK, VerdictsFollow, BeforeGate, Completed, Arms, StartArms, history
<1>5. CASE NextArm
  <2>1. CASE main = "control"
    <3>1. run \in Runs /\ arms' = [arms EXCEPT ![run]["candidate"] = "running"]
      BY <1>5, <2>1 DEF NextArm, VerdictsFollow
    <3>2. \A q \in Runs, b \in Arms :
            arms'[q][b] = IF q = run /\ b = "candidate" THEN "running" ELSE arms[q][b]
      BY <3>1, UpdateAt DEF TypeOK, Arms
    <3> QED
      BY <1>5, <2>1, <3>1, <3>2
      DEF VerdictsFollow, BeforeGate, Completed, Arms, NextArm, history
  <2>2. CASE main = "candidate"
    BY <1>5, <2>2
    DEF VerdictsFollow, BeforeGate, Completed, Arms, NextArm, history
  <2> QED
    BY <1>5, <2>1, <2>2 DEF NextArm
<1>6. CASE ReadTornStatus
  BY <1>6 DEF VerdictsFollow, BeforeGate, Completed, ReadTornStatus, worker, history
<1>7. CASE Exit
  BY <1>7 DEF VerdictsFollow, BeforeGate, Completed, Exit, Abort, worker
<1>8. CASE Join
  BY <1>8 DEF VerdictsFollow, BeforeGate, Completed, Join, Abort, worker, history
<1>9. CASE Decide
  BY <1>9 DEF VerdictsFollow, BeforeGate, Completed, Runs, Decide, worker
<1>10. CASE ComparisonRaises
  BY <1>10
  DEF VerdictsFollow, BeforeGate, Completed, ComparisonRaises, Abort, worker
<1>11. CASE Restore
  BY <1>11 DEF VerdictsFollow, BeforeGate, Completed, Restore, worker, history
<1>12. CASE Restored
  BY <1>12 DEF VerdictsFollow, BeforeGate, Completed, Restored, worker, history
<1>13. CASE Finish
  BY <1>13 DEF VerdictsFollow, BeforeGate, Completed, Finish, worker
<1>14. CASE Kill
  BY <1>14 DEF VerdictsFollow, BeforeGate, Completed, Kill
<1>15. ASSUME NEW r \in Runs, Load(r)
     PROVE  VerdictsFollow'
  BY <1>15 DEF VerdictsFollow, Completed, Load, process, history
<1>16. ASSUME NEW r \in Runs, Save(r)
     PROVE  VerdictsFollow'
  BY <1>16 DEF VerdictsFollow, Completed, Save, process, history
<1>17. ASSUME NEW r \in Runs, NEW a \in Arms, Report(r, a)
     PROVE  VerdictsFollow'
  BY <1>17 DEF VerdictsFollow, Completed, Report, process, history
<1>18. ASSUME NEW r \in Runs, NEW a \in Arms, Reported(r, a)
     PROVE  VerdictsFollow'
  BY <1>18 DEF VerdictsFollow, Completed, Reported, process, history
<1>19. ASSUME NEW r \in Runs, NEW a \in Arms, Complete(r, a)
     PROVE  VerdictsFollow'
  BY <1>19 DEF VerdictsFollow, Completed, Complete, process, history
<1>20. ASSUME NEW r \in Runs, NEW a \in Arms, Fail(r, a)
     PROVE  VerdictsFollow'
  <2>1. /\ arms' = [arms EXCEPT ![r][a] = "failed"] /\ arms[r][a] # "complete"
        /\ r = run => main \notin {"control", "candidate"}
        /\ UNCHANGED <<run, main, verdict>>
    BY <1>20 DEF Fail, Alive, process, history
  <2>2. \A q \in Runs, b \in Arms :
          arms'[q][b] = IF q = r /\ b = a THEN "failed" ELSE arms[q][b]
    BY <2>1, UpdateAt DEF TypeOK
  <2>3. \A q \in Runs : Completed(q) => Completed(q)'
    BY <2>1, <2>2 DEF Completed
  <2>4. /\ main = "control" => arms'[run]["candidate"] = "none"
        /\ main = "candidate" => arms'[run]["control"] = "complete"
    BY <2>1, <2>2 DEF VerdictsFollow, Arms
  <2> QED
    BY <2>1, <2>3, <2>4 DEF VerdictsFollow, BeforeGate, Completed
<1>21. ASSUME NEW a \in Arms, FailInMain(a)
     PROVE  VerdictsFollow'
  BY <1>21 DEF VerdictsFollow, Completed, Alive, FailInMain
<1> QED
  BY Steps, <1>1, <1>2, <1>3, <1>4, <1>5, <1>6, <1>7, <1>8, <1>9, <1>10, <1>11,
      <1>12, <1>13, <1>14, <1>15, <1>16, <1>17, <1>18, <1>19, <1>20, <1>21

(* Every step keeps a write to an arm that has loaded the entries.           *)
LEMMA SavesStep ==
    ASSUME TypeOK, SavesLeft, [Next]_vars
    PROVE  SavesLeft'
<1>1. CASE UNCHANGED vars
  BY <1>1 DEF SavesLeft, vars, worker
<1>2. CASE StartRun
  BY <1>2 DEF SavesLeft, StartRun, worker
<1>3. CASE PreflightBlocks
  BY <1>3 DEF SavesLeft, PreflightBlocks, Abort, worker
<1>4. CASE StartArms
  BY <1>4 DEF SavesLeft, Arms, StartArms
<1>5. CASE NextArm
  <2>1. CASE main = "control"
    <3>1. arms' = [arms EXCEPT ![run]["candidate"] = "running"] /\ UNCHANGED saves
      BY <1>5, <2>1 DEF NextArm
    <3>2. \A q \in Runs : arms'[q]["candidate"] \in {"running", arms[q]["candidate"]}
      <4>1. CASE run \in Runs
        BY <3>1, <4>1, UpdateAt DEF TypeOK, Arms
      <4> QED
        BY <3>1, <4>1 DEF TypeOK
    <3> QED
      BY <3>1, <3>2 DEF SavesLeft
  <2>2. CASE main = "candidate"
    BY <1>5, <2>2 DEF SavesLeft, NextArm
  <2> QED
    BY <1>5, <2>1, <2>2 DEF NextArm
<1>6. CASE ReadTornStatus
  BY <1>6 DEF SavesLeft, ReadTornStatus, worker
<1>7. CASE Exit
  BY <1>7 DEF SavesLeft, Exit, Abort, worker
<1>8. CASE Join
  BY <1>8 DEF SavesLeft, Join, Abort, worker
<1>9. CASE Decide
  BY <1>9 DEF SavesLeft, Decide, worker
<1>10. CASE ComparisonRaises
  BY <1>10 DEF SavesLeft, ComparisonRaises, Abort, worker
<1>11. CASE Restore
  BY <1>11 DEF SavesLeft, Restore, worker
<1>12. CASE Restored
  BY <1>12 DEF SavesLeft, Restored, worker
<1>13. CASE Finish
  BY <1>13 DEF SavesLeft, Finish, worker
<1>14. CASE Kill
  BY <1>14 DEF SavesLeft, Arms, Kill
<1>15. ASSUME NEW r \in Runs, Load(r)
     PROVE  SavesLeft'
  BY <1>15 DEF SavesLeft, Load
<1>16. ASSUME NEW r \in Runs, Save(r)
     PROVE  SavesLeft'
  BY <1>16 DEF TypeOK, SavesLeft, Arms, Save
<1>17. ASSUME NEW r \in Runs, NEW a \in Arms, Report(r, a)
     PROVE  SavesLeft'
  BY <1>17 DEF SavesLeft, Report
<1>18. ASSUME NEW r \in Runs, NEW a \in Arms, Reported(r, a)
     PROVE  SavesLeft'
  BY <1>18 DEF SavesLeft, Reported
<1>19. ASSUME NEW r \in Runs, NEW a \in Arms, Complete(r, a)
     PROVE  SavesLeft'
  BY <1>19 DEF SavesLeft, Complete
<1>20. ASSUME NEW r \in Runs, NEW a \in Arms, Fail(r, a)
     PROVE  SavesLeft'
  BY <1>20 DEF SavesLeft, Fail
<1>21. ASSUME NEW a \in Arms, FailInMain(a)
     PROVE  SavesLeft'
  BY <1>21 DEF SavesLeft, FailInMain
<1> QED
  BY Steps, <1>1, <1>2, <1>3, <1>4, <1>5, <1>6, <1>7, <1>8, <1>9, <1>10, <1>11,
      <1>12, <1>13, <1>14, <1>15, <1>16, <1>17, <1>18, <1>19, <1>20, <1>21

-----------------------------------------------------------------------------
(* The manifest, while no main process is killed                           *)

(* Every step leaves no arm alive but those its main process waits for.       *)
LEMMA OwnArmsStep ==
    ASSUME TypeOK, VerdictsFollow, OnlyOwnArms, kills' = 0, [Next]_vars
    PROVE  OnlyOwnArms'
<1>1. CASE UNCHANGED vars
  BY <1>1 DEF Alive, OnlyOwnArms, vars, process, worker
<1>2. CASE StartRun
  BY <1>2 DEF Alive, Playing, OnlyOwnArms, StartRun, worker
<1>3. CASE PreflightBlocks
  BY <1>3 DEF Alive, Playing, OnlyOwnArms, PreflightBlocks, Abort, worker
<1>4. CASE StartArms
  BY <1>4 DEF Alive, Playing, OnlyOwnArms, StartArms
<1>5. CASE NextArm
  <2>1. run \in Runs
    BY <1>5 DEF NextArm, VerdictsFollow
  <2>2. CASE main = "control"
    <3>1. arms' = [arms EXCEPT ![run]["candidate"] = "running"] /\ main' = "candidate"
      BY <1>5, <2>2 DEF NextArm
    <3>2. \A q \in Runs, b \in Arms : q # run => arms'[q][b] = arms[q][b]
      BY <2>1, <3>1, UpdateAt DEF TypeOK, Arms
    <3> QED
      BY <1>5, <2>2, <3>1, <3>2 DEF OnlyOwnArms, Alive, Playing, NextArm
  <2>3. CASE main = "candidate"
    <3>1. arms' = arms /\ \A a \in Arms : ~Alive(run, a)
      BY <1>5, <2>3 DEF NextArm, VerdictsFollow, Alive, Arms
    <3> QED
      BY <1>5, <3>1 DEF OnlyOwnArms, Alive, NextArm
  <2> QED
    BY <1>5, <2>2, <2>3 DEF NextArm
<1>6. CASE ReadTornStatus
  BY <1>6 DEF Alive, Playing, OnlyOwnArms, ReadTornStatus, worker
<1>7. CASE Exit
  BY <1>7 DEF Alive, OnlyOwnArms, Exit, Abort, worker
<1>8. CASE Join
  BY <1>8 DEF Alive, OnlyOwnArms, Join, Abort, worker
<1>9. CASE Decide
  BY <1>9 DEF Alive, VerdictsFollow, OnlyOwnArms, Completed, Decide, worker
<1>10. CASE ComparisonRaises
  BY <1>10
  DEF Alive, VerdictsFollow, OnlyOwnArms, Completed, ComparisonRaises, Abort, worker
<1>11. CASE Restore
  BY <1>11 DEF Alive, Playing, OnlyOwnArms, Restore, worker
<1>12. CASE Restored
  BY <1>12 DEF Alive, Playing, OnlyOwnArms, Restored, worker
<1>13. CASE Finish
  BY <1>13 DEF Alive, Playing, OnlyOwnArms, Finish, worker
<1>14. CASE Kill
  BY <1>14 DEF TypeOK, Kill
<1>15. ASSUME NEW r \in Runs, Load(r)
     PROVE  OnlyOwnArms'
  BY <1>15 DEF Alive, OnlyOwnArms, Load, process
<1>16. ASSUME NEW r \in Runs, Save(r)
     PROVE  OnlyOwnArms'
  BY <1>16 DEF Alive, OnlyOwnArms, Save, process
<1>17. ASSUME NEW r \in Runs, NEW a \in Arms, Report(r, a)
     PROVE  OnlyOwnArms'
  BY <1>17 DEF Alive, OnlyOwnArms, Report, process
<1>18. ASSUME NEW r \in Runs, NEW a \in Arms, Reported(r, a)
     PROVE  OnlyOwnArms'
  BY <1>18 DEF Alive, OnlyOwnArms, Reported, process
<1>19. ASSUME NEW r \in Runs, NEW a \in Arms, Complete(r, a)
     PROVE  OnlyOwnArms'
  BY <1>19 DEF Alive, OnlyOwnArms, Complete, process
<1>20. ASSUME NEW r \in Runs, NEW a \in Arms, Fail(r, a)
     PROVE  OnlyOwnArms'
  BY <1>20 DEF Alive, OnlyOwnArms, Fail, process
<1>21. ASSUME NEW a \in Arms, FailInMain(a)
     PROVE  OnlyOwnArms'
  BY <1>21 DEF TypeOK, Alive, VerdictsFollow, OnlyOwnArms, Arms, FailInMain
<1> QED
  BY Steps, <1>1, <1>2, <1>3, <1>4, <1>5, <1>6, <1>7, <1>8, <1>9, <1>10, <1>11,
      <1>12, <1>13, <1>14, <1>15, <1>16, <1>17, <1>18, <1>19, <1>20, <1>21

(* Every step keeps what the main process and the candidate have read.        *)
LEMMA StaleStep ==
    ASSUME TypeOK, VerdictsFollow, OnlyOwnArms, NothingStale, Restoring, kills' = 0, [Next]_vars
    PROVE  NothingStale'
<1>1. CASE UNCHANGED vars
  BY <1>1 DEF NothingStale, Holds, OwnBirths, vars, files, process, worker, history
<1>2. CASE StartRun
  BY <1>2, SpecialManifests
  DEF TypeOK, Alive, OnlyOwnArms, Runs, Arms, NothingStale, Holds, OwnBirths, StartRun, files, worker
<1>3. CASE PreflightBlocks
  BY <1>3 DEF BeforeGate, NothingStale, Holds, PreflightBlocks, Abort, files, worker
<1>4. CASE StartArms
  BY <1>4
  DEF BeforeGate, Arms, NothingStale, Holds, OwnBirths, StartArms, files, history
<1>5. CASE NextArm
  <2>1. run \in Runs
    BY <1>5 DEF NextArm, VerdictsFollow
  <2>2. arms'[run]["candidate"] # "loaded"
    <3>1. CASE main = "control"
      <4>1. arms' = [arms EXCEPT ![run]["candidate"] = "running"]
        BY <1>5, <3>1 DEF NextArm
      <4> QED
        BY <2>1, <4>1, UpdateAt DEF TypeOK, Arms
    <3> QED
      BY <1>5, <3>1 DEF NextArm
  <2> QED
    BY <1>5, <2>2
    DEF NothingStale, Holds, OwnBirths, BeforeGate, NextArm, files, history
<1>6. CASE ReadTornStatus
  BY <1>6
  DEF BeforeGate, NothingStale, Holds, OwnBirths, ReadTornStatus, files, worker, history
<1>7. CASE Exit
  BY <1>7 DEF BeforeGate, NothingStale, Holds, Exit, Abort, files, worker
<1>8. CASE Join
  <2>1. UNCHANGED <<registry, run, snapshot, arms, loaded, saves, verdict>>
        /\ main' \in {"gate", "idle"}
    BY <1>8 DEF Join, Abort, files, worker, history
  <2> QED
    BY <1>8, <2>1 DEF NothingStale, Holds, OwnBirths, BeforeGate, Join
<1>9. CASE Decide
  BY <1>9
  DEF TypeOK, BeforeGate, VerdictsFollow, NothingStale, Holds, OwnBirths, Decide, files, worker
<1>10. CASE ComparisonRaises
  BY <1>10
  DEF BeforeGate, NothingStale, Holds, ComparisonRaises, Abort, files, worker
<1>11. CASE Restore
  BY <1>11, SpecialManifests
  DEF BeforeGate, NothingStale, Holds, Restore, worker, history
<1>12. CASE Restored
  <2>1. registry' = snapshot /\ snapshot # Torn /\ Holds(snapshot)
    BY <1>12 DEF NothingStale, Restoring, Restored
  <2> QED
    BY <1>12, <2>1
    DEF NothingStale, Holds, BeforeGate, Restored, worker, history
<1>13. CASE Finish
  BY <1>13 DEF BeforeGate, NothingStale, Holds, Finish, files, worker
<1>14. CASE Kill
  BY <1>14 DEF TypeOK, Kill
<1>15. ASSUME NEW r \in Runs, Load(r)
     PROVE  NothingStale'
  BY <1>15, SpecialManifests
  DEF TypeOK, BeforeGate, VerdictsFollow, NothingStale, Holds, OwnBirths, Load, files, process, history
<1>16. ASSUME NEW r \in Runs, Save(r)
     PROVE  NothingStale'
  <2>1. r = run /\ run \in Runs /\ main \in BeforeGate /\ verdict[run] = "none"
    BY <1>16 DEF Save, OnlyOwnArms, VerdictsFollow, Alive, Playing, BeforeGate, Arms
  <2>2. /\ \A q \in Runs : q # run => saves'[q] = saves[q]
        /\ registry' = loaded[run] \union {run}
        /\ UNCHANGED <<run, main, snapshot, loaded, verdict>>
    BY <1>16, <2>1 DEF Save, TypeOK, process, history
  <2>3. arms'[run]["candidate"] # "loaded"
    <3>1. arms' = [arms EXCEPT ![run]["candidate"] = "running"]
      BY <1>16, <2>1 DEF Save
    <3> QED
      BY <2>1, <3>1, UpdateAt DEF TypeOK, Arms
  <2>4. loaded[run] \in SUBSET Runs /\ Holds(loaded[run])
    BY <1>16, <2>1, SpecialManifests DEF Save, TypeOK, Manifests, NothingStale
  <2>5. registry' \in SUBSET Runs /\ run \in registry' /\ registry' # Torn
    BY <2>1, <2>2, <2>4, SpecialManifests
  <2>6. Holds(registry)' /\ Holds(snapshot)'
    BY <2>1, <2>2, <2>4, <2>5 DEF Holds, NothingStale
  <2>7. \A q \in Runs : q > run' => saves'[q] = 0
    BY <2>1, <2>2 DEF NothingStale, TypeOK, Runs
  <2>8. main' \notin {"restoring", "copying"}
    BY <2>1, <2>2 DEF BeforeGate
  <2> QED
    BY <2>2, <2>3, <2>5, <2>6, <2>7, <2>8 DEF NothingStale, OwnBirths
<1>17. ASSUME NEW r \in Runs, NEW a \in Arms, Report(r, a)
     PROVE  NothingStale'
  <2>1. /\ UNCHANGED <<registry, run, main, snapshot, loaded, saves, verdict>>
        /\ arms' = [arms EXCEPT ![r][a] = "reporting"]
    BY <1>17 DEF Report, files, process, history
  <2>2. run \in Runs /\ arms'[run]["candidate"] = "loaded"
          => arms[run]["candidate"] = "loaded"
    BY <2>1, UpdateAt DEF TypeOK, Arms
  <2> QED
    BY <2>1, <2>2 DEF NothingStale, Holds, OwnBirths, VerdictsFollow, BeforeGate
<1>18. ASSUME NEW r \in Runs, NEW a \in Arms, Reported(r, a)
     PROVE  NothingStale'
  BY <1>18 DEF NothingStale, Holds, OwnBirths, Reported, process, history
<1>19. ASSUME NEW r \in Runs, NEW a \in Arms, Complete(r, a)
     PROVE  NothingStale'
  <2>1. /\ UNCHANGED <<registry, run, main, snapshot, loaded, saves, verdict>>
        /\ arms' = [arms EXCEPT ![r][a] = "complete"]
    BY <1>19 DEF Complete, files, process, history
  <2>2. run \in Runs /\ arms'[run]["candidate"] = "loaded"
          => arms[run]["candidate"] = "loaded"
    BY <2>1, UpdateAt DEF TypeOK, Arms
  <2> QED
    BY <2>1, <2>2 DEF NothingStale, Holds, OwnBirths, VerdictsFollow, BeforeGate
<1>20. ASSUME NEW r \in Runs, NEW a \in Arms, Fail(r, a)
     PROVE  NothingStale'
  <2>1. /\ UNCHANGED <<registry, run, main, snapshot, loaded, saves, verdict>>
        /\ arms' = [arms EXCEPT ![r][a] = "failed"]
    BY <1>20 DEF Fail, files, process, history
  <2>2. run \in Runs /\ arms'[run]["candidate"] = "loaded"
          => arms[run]["candidate"] = "loaded"
    BY <2>1, UpdateAt DEF TypeOK, Arms
  <2> QED
    BY <2>1, <2>2 DEF NothingStale, Holds, OwnBirths, VerdictsFollow, BeforeGate
<1>21. ASSUME NEW a \in Arms, FailInMain(a)
     PROVE  NothingStale'
  BY <1>21 DEF BeforeGate, NothingStale, Holds, FailInMain, files
<1> QED
  BY Steps, <1>1, <1>2, <1>3, <1>4, <1>5, <1>6, <1>7, <1>8, <1>9, <1>10, <1>11,
      <1>12, <1>13, <1>14, <1>15, <1>16, <1>17, <1>18, <1>19, <1>20, <1>21

(* Every step keeps the copy of the manifest, and what is made of it.         *)
LEMMA RestoringStep ==
    ASSUME TypeOK, VerdictsFollow, OnlyOwnArms, NothingStale, Restoring, kills' = 0, [Next]_vars
    PROVE  Restoring'
<1>1. CASE UNCHANGED vars
  BY <1>1 DEF Restoring, FailedGateRestores, vars, files, process, history
<1>2. CASE StartRun
  BY <1>2, SpecialManifests
  DEF TypeOK, Runs, NothingStale, Restoring, FailedGateRestores, StartRun
<1>3. CASE PreflightBlocks
  BY <1>3 DEF Runs, Restoring, FailedGateRestores, PreflightBlocks, Abort
<1>4. CASE StartArms
  BY <1>4 DEF Restoring, FailedGateRestores, StartArms, history
<1>5. CASE NextArm
  BY <1>5 DEF Restoring, FailedGateRestores, NextArm, history
<1>6. CASE ReadTornStatus
  BY <1>6 DEF Restoring, FailedGateRestores, ReadTornStatus, history
<1>7. CASE Exit
  BY <1>7 DEF Runs, Restoring, FailedGateRestores, Exit, Abort
<1>8. CASE Join
  BY <1>8
  DEF TypeOK, OnlyOwnArms, Restoring, FailedGateRestores, Join, Abort, history
<1>9. CASE Decide
  BY <1>9 DEF BeforeGate, VerdictsFollow, Restoring, FailedGateRestores, Decide
<1>10. CASE ComparisonRaises
  BY <1>10 DEF Runs, Restoring, FailedGateRestores, ComparisonRaises, Abort
<1>11. CASE Restore
  BY <1>11 DEF Restoring, FailedGateRestores, Restore, history
<1>12. CASE Restored
  BY <1>12 DEF Restoring, FailedGateRestores, Restored, history
<1>13. CASE Finish
  BY <1>13 DEF Runs, Restoring, FailedGateRestores, Finish, files
<1>14. CASE Kill
  BY <1>14 DEF Runs, Restoring, FailedGateRestores, Kill
<1>15. ASSUME NEW r \in Runs, Load(r)
     PROVE  Restoring'
  BY <1>15 DEF Restoring, FailedGateRestores, Load, files, process, history
<1>16. ASSUME NEW r \in Runs, Save(r)
     PROVE  Restoring'
  BY <1>16
  DEF Alive, VerdictsFollow, OnlyOwnArms, Completed, Arms, Restoring, FailedGateRestores, Save, process, history
<1>17. ASSUME NEW r \in Runs, NEW a \in Arms, Report(r, a)
     PROVE  Restoring'
  BY <1>17 DEF Restoring, FailedGateRestores, Report, process, history
<1>18. ASSUME NEW r \in Runs, NEW a \in Arms, Reported(r, a)
     PROVE  Restoring'
  BY <1>18 DEF Restoring, FailedGateRestores, Reported, process, history
<1>19. ASSUME NEW r \in Runs, NEW a \in Arms, Complete(r, a)
     PROVE  Restoring'
  BY <1>19 DEF Restoring, FailedGateRestores, Complete, files, process, history
<1>20. ASSUME NEW r \in Runs, NEW a \in Arms, Fail(r, a)
     PROVE  Restoring'
  BY <1>20 DEF Restoring, FailedGateRestores, Fail, process, history
<1>21. ASSUME NEW a \in Arms, FailInMain(a)
     PROVE  Restoring'
  BY <1>21 DEF Runs, Restoring, FailedGateRestores, FailInMain
<1> QED
  BY Steps, <1>1, <1>2, <1>3, <1>4, <1>5, <1>6, <1>7, <1>8, <1>9, <1>10, <1>11,
      <1>12, <1>13, <1>14, <1>15, <1>16, <1>17, <1>18, <1>19, <1>20, <1>21

-----------------------------------------------------------------------------
(* The theorems                                                            *)

(* Once a main process has been killed, that is not forgotten.               *)
LEMMA KillsStep ==
    ASSUME TypeOK, [Next]_vars, kills' = 0
    PROVE  kills = 0
  BY Steps, SpecialManifests
  DEF TypeOK, StartRun, PreflightBlocks, StartArms, NextArm, ReadTornStatus, Exit, Join,
      Decide, ComparisonRaises, Restore, Restored, Finish, Kill, Load, Save, Report,
      Reported, Complete, Fail, FailInMain, Abort, vars, history

(* A run starts in the invariant ...                                         *)
LEMMA InitInvariant ==
    ASSUME Init
    PROVE  IInv
<1>1. TypeOK
  <2>1. {} \in SUBSET Runs
    OBVIOUS
  <2>2. [r \in Runs |-> [a \in Arms |-> 0]] \in [Runs -> [Arms -> 0..Scenarios]]
    BY SpecialManifests
  <2>3. 0 \in 0..MaxRuns /\ 0 \in 0..MaxSaves /\ 0 \in 0..MaxKills
    BY SpecialManifests
  <2> QED
    BY <2>1, <2>2, <2>3, SpecialManifests
    DEF Init, TypeOK, Manifests, MainPhases, ArmPhases
<1>2. SavesLeft
  BY DEF Init, SavesLeft, Arms
<1>3. VerdictsFollow
  BY DEF Init, VerdictsFollow, BeforeGate
<1>4. OnlyOwnArms
  BY DEF Init, OnlyOwnArms, Alive
<1>5. NothingStale
  BY SpecialManifests DEF Init, NothingStale, Holds, BeforeGate
<1>6. Restoring
  BY DEF Init, Restoring, FailedGateRestores
<1> QED
  BY <1>1, <1>2, <1>3, <1>4, <1>5, <1>6 DEF IInv

(* ... and every step keeps it.                                              *)
LEMMA InvariantStep ==
    ASSUME IInv, [Next]_vars
    PROVE  IInv'
<1>1. TypeOK' /\ SavesLeft' /\ VerdictsFollow'
  BY TypeStep, SavesStep, VerdictsStep DEF IInv
<1>2. ASSUME kills' = 0
      PROVE  OnlyOwnArms' /\ NothingStale' /\ Restoring'
  BY <1>2, KillsStep, OwnArmsStep, StaleStep, RestoringStep DEF IInv
<1> QED
  BY <1>1, <1>2 DEF IInv

(* Every reachable state satisfies the invariant.                            *)
THEOREM Invariance == Spec => []IInv
  BY InitInvariant, InvariantStep, PTL DEF Spec

(* The variables keep their types (TypeOK of ProtocolRun).                   *)
THEOREM TypeCorrect == Spec => []TypeOK
<1>1. IInv => TypeOK
  BY DEF IInv
<1> QED
  BY <1>1, Invariance, PTL

(* The gate judges finished arms: from the verdict on (_protocol_gate_decision) *)
(* no process of that run writes the registry.                               *)
THEOREM GateJudgesFinishedArms == Spec => []GateFollowsBothArms
<1>1. IInv => GateFollowsBothArms
  BY DEF IInv, VerdictsFollow, Completed, GateFollowsBothArms
<1> QED
  BY <1>1, Invariance, PTL

(* While no main process is killed, a run whose gate failed leaves the manifest *)
(* as it found it (_restore_registry_after_failed_gate).                     *)
THEOREM FailedGatesRestore == Spec => []FailedGateRestores
<1>1. IInv => FailedGateRestores
  BY DEF IInv, Restoring, FailedGateRestores
<1> QED
  BY <1>1, Invariance, PTL

(* While no main process is killed, what a run that passed its gate has written *)
(* stays in the manifest, whatever follows.                                  *)
THEOREM BirthsStay == Spec => []PassedBirthsStay
<1>1. ASSUME IInv
      PROVE  PassedBirthsStay
  BY <1>1, SpecialManifests DEF IInv, NothingStale, Holds, PassedBirthsStay
<1> QED
  BY <1>1, Invariance, PTL

==============================================================================
