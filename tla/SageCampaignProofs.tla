-------------------------- MODULE SageCampaignProofs --------------------------
(***************************************************************************)
(* Proofs about SageCampaign: what a campaign says of the tools it bore,   *)
(* counted and completed stays true for any number of scenarios, keys,     *)
(* tools and kills.                                                        *)
(***************************************************************************)
EXTENDS SageCampaign, FiniteSetTheorems, TLAPS

-----------------------------------------------------------------------------
(* The manifest: what the operations of RegistryStore keep.  In these      *)
(* lemmas R is the manifest before the operation.                          *)

Known(R) == {t \in ToolNames : R[t] # NoEntry}

\* The entry of a known tool.
LEMMA KnownEntry ==
    ASSUME NEW R \in Manifests, NEW t \in Known(R)
    PROVE  R[t] \in Entry /\ t \in ToolNames
  BY DEF Manifests, Known

\* Saving forgets no tool and adds none, and changes nothing but hashes that
\* were absent.
LEMMA SaveKeeps ==
    ASSUME NEW R \in Manifests
    PROVE  /\ SaveEntries(R) \in Manifests
           /\ Known(SaveEntries(R)) = Known(R)
           /\ \A t \in Known(R) :
                /\ SaveEntries(R)[t].version = R[t].version
                /\ SaveEntries(R)[t].reuse_count = R[t].reuse_count
                /\ SaveEntries(R)[t].diagnostic_only = R[t].diagnostic_only
                /\ SaveEntries(R)[t].retired = R[t].retired
                /\ SaveEntries(R)[t].validated = R[t].validated
                /\ SaveEntries(R)[t].hash =
                      IF R[t].hash = "absent" THEN "match" ELSE R[t].hash
<1> DEFINE S == SaveEntries(R)
<1>1. ASSUME NEW t \in ToolNames, R[t] = NoEntry
      PROVE  S[t] = NoEntry
  BY <1>1 DEF SaveEntries
<1>2. ASSUME NEW t \in ToolNames, R[t] # NoEntry
      PROVE  /\ S[t] \in Entry
             /\ S[t].version = R[t].version /\ S[t].reuse_count = R[t].reuse_count
             /\ S[t].diagnostic_only = R[t].diagnostic_only
             /\ S[t].retired = R[t].retired /\ S[t].validated = R[t].validated
             /\ S[t].hash = IF R[t].hash = "absent" THEN "match" ELSE R[t].hash
  <2>1. R[t] \in Entry
    BY <1>2 DEF Manifests
  <2>2. S[t] = IF R[t].hash = "absent" THEN [R[t] EXCEPT !.hash = "match"] ELSE R[t]
    BY <1>2 DEF SaveEntries
  <2> QED
    BY <2>1, <2>2 DEF Entry, Hashes
<1>3. S \in Manifests
  <2>1. S = [t \in ToolNames |-> S[t]]
    BY DEF SaveEntries
  <2> QED
    BY <1>1, <1>2, <2>1 DEF Manifests
<1>4. \A t \in ToolNames : S[t] # NoEntry <=> R[t] # NoEntry
  BY <1>1, <1>2, NoEntryAssumption
<1> QED
  BY <1>2, <1>3, <1>4 DEF Known

\* Counting a reuse changes that count and, like every save, absent hashes.
LEMMA RecordReuseKeeps ==
    ASSUME NEW R \in Manifests, NEW n \in Known(R)
    PROVE  /\ RecordReuse(R, n) \in Manifests
           /\ Known(RecordReuse(R, n)) = Known(R)
           /\ \A t \in Known(R) :
                /\ RecordReuse(R, n)[t].version = R[t].version
                /\ RecordReuse(R, n)[t].reuse_count =
                      IF t = n THEN R[t].reuse_count + 1 ELSE R[t].reuse_count
                /\ RecordReuse(R, n)[t].diagnostic_only = R[t].diagnostic_only
                /\ RecordReuse(R, n)[t].retired = R[t].retired
                /\ RecordReuse(R, n)[t].validated = R[t].validated
                /\ RecordReuse(R, n)[t].hash =
                      IF R[t].hash = "absent" THEN "match" ELSE R[t].hash
<1> DEFINE Q == [R EXCEPT ![n].reuse_count = @ + 1]
<1>1. n \in ToolNames /\ R[n] \in Entry
  BY KnownEntry
<1>2. Q[n] = [R[n] EXCEPT !.reuse_count = @ + 1]
  BY <1>1 DEF Manifests
<1>3. /\ Q[n] \in Entry
      /\ Q[n].reuse_count = R[n].reuse_count + 1
      /\ Q[n].version = R[n].version /\ Q[n].diagnostic_only = R[n].diagnostic_only
      /\ Q[n].retired = R[n].retired /\ Q[n].validated = R[n].validated
      /\ Q[n].hash = R[n].hash
  BY <1>1, <1>2 DEF Entry
<1>4. \A t \in ToolNames \ {n} : Q[t] = R[t]
  BY DEF Manifests
<1>5. Q \in Manifests
  BY <1>1, <1>3, <1>4 DEF Manifests
<1>6. Known(Q) = Known(R)
  BY <1>1, <1>3, <1>4, NoEntryAssumption DEF Known
<1>7. RecordReuse(R, n) = SaveEntries(Q)
  BY DEF RecordReuse
<1> HIDE DEF Q
<1> QED
  BY <1>3, <1>4, <1>5, <1>6, <1>7, SaveKeeps DEF Known

\* A put registers the entry, under the next version number when the tool was
\* known, and leaves the others as a save does.
LEMMA PutKeeps ==
    ASSUME NEW R \in Manifests, NEW n \in ToolNames, NEW d \in BOOLEAN
    PROVE  LET P == Put(R, n, Accepted(d))
           IN  /\ P \in Manifests
               /\ Known(P) = Known(R) \union {n}
               /\ P[n].version = IF n \in Known(R) THEN R[n].version + 1 ELSE 1
               /\ P[n].reuse_count = 0 /\ P[n].diagnostic_only = d
               /\ HasCurrentProof(P[n])
               /\ \A t \in Known(R) \ {n} :
                    /\ P[t].version = R[t].version
                    /\ P[t].reuse_count = R[t].reuse_count
                    /\ P[t].diagnostic_only = R[t].diagnostic_only
                    /\ P[t].retired = R[t].retired
                    /\ P[t].validated = R[t].validated
                    /\ P[t].hash = IF R[t].hash = "absent" THEN "match" ELSE R[t].hash
<1> DEFINE entry == IF R[n] = NoEntry THEN Accepted(d)
                    ELSE [Accepted(d) EXCEPT !.version = R[n].version + 1]
           Q == [R EXCEPT ![n] = entry]
<1>1. /\ entry \in Entry
      /\ entry.version = IF n \in Known(R) THEN R[n].version + 1 ELSE 1
      /\ entry.reuse_count = 0 /\ entry.diagnostic_only = d
      /\ entry.validated /\ ~entry.retired /\ entry.hash = "match"
  <2>1. /\ Accepted(d) \in Entry
        /\ Accepted(d).version = 1 /\ Accepted(d).reuse_count = 0
        /\ Accepted(d).diagnostic_only = d /\ Accepted(d).validated
        /\ ~Accepted(d).retired /\ Accepted(d).hash = "match"
    BY DEF Accepted, Entry, Hashes
  <2>2. CASE R[n] = NoEntry
    BY <2>1, <2>2 DEF Known
  <2>3. CASE R[n] # NoEntry
    <3> DEFINE v == R[n].version + 1
    <3>1. R[n].version \in Nat
      BY <2>3 DEF Manifests, Entry
    <3>2. v \in Nat \ {0}
      BY <3>1
    <3>3. entry = [version |-> v, reuse_count |-> 0, diagnostic_only |-> d,
                   retired |-> FALSE, validated |-> TRUE, hash |-> "match"]
      BY <2>3 DEF Accepted
    <3> HIDE DEF v, entry
    <3>4. entry \in Entry
      BY <3>2, <3>3 DEF Entry, Hashes
    <3>5. n \in Known(R)
      BY <2>3 DEF Known
    <3> QED
      BY <3>3, <3>4, <3>5 DEF v
  <2> QED
    BY <2>2, <2>3
<1>2. Q[n] = entry /\ (\A t \in ToolNames \ {n} : Q[t] = R[t])
  BY DEF Manifests
<1> HIDE DEF entry
<1>3. Q \in Manifests
  BY <1>1 DEF Manifests
<1>4. Put(R, n, Accepted(d)) = SaveEntries(Q)
  BY DEF Put, entry
<1> HIDE DEF Q
<1>5. Known(Q) = Known(R) \union {n}
  BY <1>1, <1>2, NoEntryAssumption DEF Known
<1> DEFINE P == SaveEntries(Q)
<1>6. /\ P \in Manifests /\ Known(P) = Known(R) \union {n}
      /\ \A t \in Known(R) \union {n} :
            /\ P[t].version = Q[t].version
            /\ P[t].reuse_count = Q[t].reuse_count
            /\ P[t].diagnostic_only = Q[t].diagnostic_only
            /\ P[t].retired = Q[t].retired
            /\ P[t].validated = Q[t].validated
            /\ P[t].hash = IF Q[t].hash = "absent" THEN "match" ELSE Q[t].hash
  BY <1>3, <1>5, SaveKeeps
<1>7. HasCurrentProof(P[n])
  BY <1>1, <1>2, <1>6 DEF HasCurrentProof
<1> HIDE DEF P
<1> QED
  BY <1>1, <1>2, <1>4, <1>6, <1>7 DEF Known, P

\* A proved tool stays proved, whatever is recorded or registered.
LEMMA ProvedStays ==
    ASSUME NEW R \in Manifests
    PROVE  /\ \A n \in Known(R) : Proved(R) \subseteq Proved(RecordReuse(R, n))
           /\ \A n \in ToolNames, d \in BOOLEAN :
                Proved(R) \union {n} \subseteq Proved(Put(R, n, Accepted(d)))
<1>1. ASSUME NEW n \in Known(R)
      PROVE  Proved(R) \subseteq Proved(RecordReuse(R, n))
  BY RecordReuseKeeps DEF Proved, Known, HasCurrentProof
<1>2. ASSUME NEW n \in ToolNames, NEW d \in BOOLEAN
      PROVE  Proved(R) \union {n} \subseteq Proved(Put(R, n, Accepted(d)))
  <2> DEFINE P == Put(R, n, Accepted(d))
  <2>1. /\ HasCurrentProof(P[n]) /\ Known(P) = Known(R) \union {n}
        /\ \A t \in Known(R) \ {n} :
             /\ P[t].retired = R[t].retired /\ P[t].validated = R[t].validated
             /\ P[t].hash = IF R[t].hash = "absent" THEN "match" ELSE R[t].hash
    BY PutKeeps
  <2> HIDE DEF P
  <2>2. Proved(R) \union {n} \subseteq Proved(P)
    BY <2>1 DEF Proved, Known, HasCurrentProof
  <2> QED
    BY <2>2 DEF P
<1> QED
  BY <1>1, <1>2

-----------------------------------------------------------------------------
(* The inductive invariant                                                 *)

\* The phases in which a scenario is at hand, and those of its result hook.
Hooking == {"hook", "generating", "saving"}
Busy    == {"playing", "logging"} \union Hooking

\* What the phase says of the loop's own variables.
Located ==
    /\ pc \in Busy => current \in Scenarios \ completed
    /\ pc \in {"generating", "saving"} => key \in Keys
    /\ pc \in {"logging", "saving"} => tool \in ToolNames
    /\ pc \in {"idle", "playing", "logging", "down", "finished"} => todo = {}
    /\ frozen => todo = {} /\ pc \notin {"generating", "saving"}

\* A tool the campaign showed or bore is proved, and stays so.
ToolsStayProved ==
    /\ visible \subseteq Proved(registry)
    /\ pc = "logging" => tool \in Proved(registry)
    /\ \A b \in births : b.name \in Proved(registry)

\* The controller's memory is of this process, and on disk as well; an
\* observation is counted once, whatever the order of the hook.
MemoryIsRecorded ==
    /\ seen \subseteq evidence
    /\ \A k \in Keys : counts[k] = Cardinality(ScenariosOf(seen, k))
    /\ \A k \in Keys, s \in Scenarios : <<k, s>> \in seen =>
          s \in completed \/ (pc \in Hooking /\ s = current /\ k \notin todo)

\* The key for which a tool is being made passed the checks of observe, and
\* those checks still hold; its tool is flagged unless the evidence is diverse.
CandidateIsDue ==
    /\ pc = "generating" =>
          /\ Eligible(key, counts[key])
          /\ ~Served(key)
    /\ pc = "saving" =>
          /\ key \in generated /\ counts[key] >= RecurrenceThreshold
          /\ ~Served(key)
          /\ ~Repairing => diagnostic \/ DiverseIn(seen, key)

\* What this process has borne it remembers, or is just about to bear.
BirthsAreRemembered ==
    \A b \in births :
        /\ b.process <= crashes
        /\ b.process = crashes =>
              b.key \in generated /\ ~(pc = "saving" /\ key = b.key)

\* A tool was born from observations in enough scenarios, repaired or not.
ClaimsNeedRecurrence ==
    \A b \in births : Cardinality(ScenariosOf(evidence, b.key)) >= RecurrenceThreshold

\* The rejections of this process, and those of the killed ones before it.
RejectionsAreCounted ==
    \A k \in Keys : /\ rejected[k] <= MaxRejections
                    /\ rejectRows[k] <= MaxRejections * crashes + rejected[k]

\* The call that is counted in the registry and not in the log is the one
\* being logged, or was lost in a kill.
CallsAreCounted ==
    ~frozen =>
        \A t \in Known(registry) :
            LET logging == pc = "logging" /\ tool = t
                ahead   == IF logging THEN 1 ELSE 0
            IN  /\ reuseRows[t] + ahead <= registry[t].reuse_count
                /\ registry[t].reuse_count <= reuseRows[t] + crashes + ahead

\* A scenario in which no kill happened: what its rows say, as far as it has
\* come.
RowsAreWritten ==
    /\ \A s \in Scenarios \ completed :
          s \notin interrupted /\ ~(pc \in Busy /\ s = current) =>
              selectionRows[s] = 0 /\ CalledIn(s) = {}
    /\ pc \in {"playing", "logging"} /\ current \notin interrupted =>
          /\ selectionRows[current] = 0
          /\ used[current] = CalledIn(current)
                               \union (IF pc = "logging" THEN {tool} ELSE {})
    /\ pc \in Hooking =>
          /\ selectionRows[current] >= 1
          /\ current \notin interrupted =>
                selectionRows[current] = 1 /\ claimed[current] = used[current]

\* A shortfall of the scenario at hand is observed or still to be observed; one
\* of a completed scenario has been, by this process unless one was killed.
ShortfallsAreObserved ==
    /\ pc \in Hooking =>
          \A k \in shortfalls[current] : k \in todo \/ <<k, current>> \in seen
    /\ crashes = 0 =>
          \A s \in completed : \A k \in shortfalls[s] : <<k, s>> \in seen

\* A key whose observations recur is served, rejected or being worked on.
RecurringIsAnswered ==
    \A k \in GenerationAllowed :
        counts[k] >= RecurrenceThreshold /\ RecurrenceThreshold > 0 =>
            \/ k \in generated \/ rejected[k] >= 1 \/ MaxRejections = 0
            \/ pc = "generating" /\ key = k

IInv == /\ TypeOK
        /\ Located
        /\ ToolsStayProved
        /\ MemoryIsRecorded
        /\ CandidateIsDue
        /\ BirthsAreRemembered /\ OneBirthPerKey
        /\ ClaimsNeedRecurrence /\ (~Repairing => ClaimsNeedDiverseEvidence)
        /\ RejectionsAreCounted
        /\ CallsAreCounted
        /\ RowsAreWritten /\ CompletedIsRecorded
        /\ ShortfallsAreObserved
        /\ RecurringIsAnswered

-----------------------------------------------------------------------------
(* Constants and sets                                                      *)

\* The assumptions about the constants, one by one.
LEMMA Constants ==
    /\ N \in Nat /\ RecurrenceThreshold \in Nat /\ MaxRejections \in Nat
    /\ MaxCrashes \in Nat /\ MaxCalls \in Nat
    /\ GenerationAllowed \subseteq Keys
    /\ \A s \in Scenarios : Observable[s] \subseteq Keys /\ Routes[s] \subseteq ToolNames
    /\ \A k \in Keys : /\ Suggested[k] \in ToolNames /\ Broader[k] \subseteq ToolNames
                       /\ Producible[k] \subseteq ToolNames
                       /\ RequiredFamilies[k] \in Nat
    /\ Nothing \notin ToolNames /\ Nothing \notin Keys
  BY CampaignAssumption

\* A set of scenarios is finite, and its families are no more than they are.
LEMMA ScenarioSets ==
    ASSUME NEW S \in SUBSET Scenarios
    PROVE  /\ IsFiniteSet(S) /\ Cardinality(S) \in Nat
           /\ IsFiniteSet({Family[s] : s \in S})
           /\ Cardinality({Family[s] : s \in S}) \in Nat
<1> DEFINE F == {Family[s] : s \in S}
           f == [s \in S |-> Family[s]]
<1>1. IsFiniteSet(Scenarios)
  BY Constants, FS_Interval DEF Scenarios
<1>2. IsFiniteSet(S) /\ Cardinality(S) \in Nat
  BY <1>1, FS_Subset, FS_CardinalityType
<1>3. f \in Surjection(S, F)
  BY DEF Surjection
<1>4. IsFiniteSet(F)
  BY <1>2, <1>3, FS_Surjection
<1> QED
  BY <1>2, <1>4, FS_CardinalityType

\* More pairs: no fewer scenarios, and no fewer families.
LEMMA PairsGrow ==
    ASSUME NEW P, NEW Q, P \subseteq Q, NEW k
    PROVE  /\ Cardinality(ScenariosOf(P, k)) \in Nat
           /\ Cardinality(ScenariosOf(Q, k)) \in Nat
           /\ Cardinality(FamiliesOf(P, k)) \in Nat
           /\ Cardinality(FamiliesOf(Q, k)) \in Nat
           /\ Cardinality(ScenariosOf(P, k)) <= Cardinality(ScenariosOf(Q, k))
           /\ Cardinality(FamiliesOf(P, k)) <= Cardinality(FamiliesOf(Q, k))
<1>1. /\ ScenariosOf(P, k) \subseteq Scenarios /\ ScenariosOf(Q, k) \subseteq Scenarios
      /\ ScenariosOf(P, k) \subseteq ScenariosOf(Q, k)
      /\ FamiliesOf(P, k) \subseteq FamiliesOf(Q, k)
  BY DEF ScenariosOf, FamiliesOf
<1>2. /\ IsFiniteSet(ScenariosOf(P, k)) /\ IsFiniteSet(ScenariosOf(Q, k))
      /\ IsFiniteSet(FamiliesOf(P, k)) /\ IsFiniteSet(FamiliesOf(Q, k))
      /\ Cardinality(ScenariosOf(P, k)) \in Nat /\ Cardinality(ScenariosOf(Q, k)) \in Nat
      /\ Cardinality(FamiliesOf(P, k)) \in Nat /\ Cardinality(FamiliesOf(Q, k)) \in Nat
  BY <1>1, ScenarioSets DEF FamiliesOf
<1> QED
  BY <1>1, <1>2, FS_Subset

\* So evidence that was enough for a birth stays enough.
LEMMA EvidenceGrows ==
    ASSUME NEW P, NEW Q, P \subseteq Q, NEW k \in Keys
    PROVE  /\ Cardinality(ScenariosOf(P, k)) >= RecurrenceThreshold =>
                Cardinality(ScenariosOf(Q, k)) >= RecurrenceThreshold
           /\ DiverseIn(P, k) => DiverseIn(Q, k)
  BY PairsGrow, Constants DEF DiverseIn

\* One new observation of k counts one scenario more, and for the others none.
LEMMA OneMorePair ==
    ASSUME NEW P, NEW k, NEW s \in Scenarios, <<k, s>> \notin P
    PROVE  /\ Cardinality(ScenariosOf(P \union {<<k, s>>}, k))
                = Cardinality(ScenariosOf(P, k)) + 1
           /\ \A j : j # k => ScenariosOf(P \union {<<k, s>>}, j) = ScenariosOf(P, j)
<1>1. /\ ScenariosOf(P \union {<<k, s>>}, k) = ScenariosOf(P, k) \union {s}
      /\ s \notin ScenariosOf(P, k) /\ ScenariosOf(P, k) \in SUBSET Scenarios
  BY DEF ScenariosOf
<1>2. IsFiniteSet(ScenariosOf(P, k))
  BY <1>1, ScenarioSets
<1> QED
  BY <1>1, <1>2, FS_AddElement DEF ScenariosOf

-----------------------------------------------------------------------------
(* Types                                                                   *)

\* The actions, one by one: what is left to a proof about a step.
LEMMA Steps ==
    ASSUME [Next]_vars
    PROVE  \/ UNCHANGED vars
           \/ Crash \/ Resume
           \/ /\ UNCHANGED frozen
              /\ \/ StartScenario \/ LogReuse \/ FinishPlay \/ Reject \/ Accept
                 \/ Save \/ CompleteScenario \/ FinishCampaign
                 \/ \E t \in ToolNames : CallTool(t)
                 \/ \E k \in Keys : Observe(k)
  BY DEF Next, Step, Terminated

\* What is put into the registry for a key; the manifest stays one.
LEMMA SaveStep ==
    ASSUME TypeOK, Located, Save
    PROVE  LET birth == [key |-> key, name |-> tool, version |-> registry'[tool].version,
                         diagnostic_only |-> diagnostic, process |-> crashes]
           IN  /\ births' = births \union {birth}
               /\ birth \in [key : Keys, name : ToolNames, version : Nat \ {0},
                             diagnostic_only : BOOLEAN, process : Nat]
               /\ registry' \in Manifests
<1>1. key \in Keys /\ tool \in ToolNames /\ diagnostic \in BOOLEAN /\ crashes \in Nat
  BY DEF TypeOK, Located, Save
<1>2. registry' = Put(registry, tool, Accepted(diagnostic))
  BY DEF Save
<1>3. registry' \in Manifests /\ registry'[tool].version \in Nat \ {0}
  <2>1. registry' \in Manifests /\ HasCurrentProof(registry'[tool])
        /\ tool \in Known(registry')
    BY <1>1, <1>2, PutKeeps DEF TypeOK
  <2> QED
    BY <2>1, KnownEntry DEF Entry
<1> QED
  BY <1>1, <1>3 DEF Save

\* Every step keeps the types.
LEMMA TypeStep ==
    ASSUME TypeOK, Located, ToolsStayProved, [Next]_vars
    PROVE  TypeOK'
<1> USE Constants DEF Phases
<1>1. CASE UNCHANGED vars
  BY <1>1 DEF TypeOK, vars, disk, controller, loop, history
<1>2. CASE UNCHANGED frozen /\ StartScenario
  BY <1>2 DEF TypeOK, StartScenario, disk, controller, Shown, Scenarios
<1>3. ASSUME UNCHANGED frozen, NEW t \in ToolNames, CallTool(t) PROVE TypeOK'
  <2>1. t \in Known(registry)
    BY <1>3 DEF CallTool, ToolsStayProved, Proved, Known
  <2>2. registry' \in Manifests
    BY <1>3, <2>1, RecordReuseKeeps DEF CallTool, TypeOK
  <2>3. used' \in [Scenarios -> SUBSET ToolNames]
    <3>1. current \in Scenarios /\ used[current] \union {t} \subseteq ToolNames
      BY <1>3 DEF CallTool, Located, Busy, TypeOK
    <3> QED
      BY <1>3, <3>1 DEF TypeOK, CallTool
  <2> QED
    BY <1>3, <2>2, <2>3 DEF TypeOK, CallTool, controller
<1>4. CASE UNCHANGED frozen /\ LogReuse
  BY <1>4 DEF TypeOK, LogReuse, controller, history, Located, Busy
<1>5. CASE UNCHANGED frozen /\ FinishPlay
  <2>1. current \in Scenarios
    BY <1>5 DEF FinishPlay, Located, Busy
  <2>2. CalledIn(current) \subseteq ToolNames
    BY DEF CalledIn
  <2>3. todo' \subseteq Keys /\ shortfalls' \in [Scenarios -> SUBSET Keys]
    BY <1>5, <2>1 DEF FinishPlay, TypeOK
  <2> QED
    BY <1>5, <2>1, <2>2, <2>3 DEF TypeOK, FinishPlay, controller, history
<1>6. ASSUME UNCHANGED frozen, NEW k \in Keys, Observe(k) PROVE TypeOK'
  BY <1>6 DEF TypeOK, Observe, Located, Busy, Hooking, history
<1>7. CASE UNCHANGED frozen /\ Reject
  BY <1>7 DEF TypeOK, Reject, Located, history
<1>8. CASE UNCHANGED frozen /\ Accept
  BY <1>8 DEF TypeOK, Accept, Located, disk, history
<1>9. CASE UNCHANGED frozen /\ Save
  BY <1>9, SaveStep DEF TypeOK, Save, Located, controller
<1>10. CASE UNCHANGED frozen /\ CompleteScenario
  BY <1>10 DEF TypeOK, CompleteScenario, Located, Busy, Hooking, controller, history
<1>11. CASE UNCHANGED frozen /\ FinishCampaign
  BY <1>11 DEF TypeOK, FinishCampaign, disk, controller, history
<1>12. CASE Crash
  <2>1. interrupted' \subseteq Scenarios
    BY <1>12 DEF TypeOK, Crash, Located, Busy, Hooking
  <2>2. /\ counts' \in [Keys -> Nat] /\ rejected' \in [Keys -> Nat]
        /\ seen' = {} /\ generated' = {} /\ visible' = {} /\ todo' = {}
        /\ calls' = 0 /\ pc' = "down" /\ crashes' \in Nat
        /\ key' = Nothing /\ tool' = Nothing /\ diagnostic' = FALSE
    BY <1>12 DEF TypeOK, Crash
  <2>3. UNCHANGED <<frozen, registry, evidence, rejectRows, reuseLog, reuseRows,
                    selectionRows, claimed, completed, current, shortfalls, used, births>>
    BY <1>12 DEF Crash, disk
  <2> QED
    BY <2>1, <2>2, <2>3 DEF TypeOK
<1>13. CASE Resume
  BY <1>13 DEF TypeOK, Resume, disk, controller, history
<1> QED
  BY <1>1, <1>2, <1>3, <1>4, <1>5, <1>6, <1>7, <1>8, <1>9, <1>10, <1>11, <1>12,
     <1>13, Steps

-----------------------------------------------------------------------------
(* The parts of the invariant, one by one                                  *)

\* Every step keeps the loop's variables in agreement with its phase.
LEMMA LocatedStep ==
    ASSUME TypeOK, Located, ToolsStayProved, [Next]_vars
    PROVE  Located'
<1> USE DEF Located, Busy, Hooking
<1>1. CASE UNCHANGED vars
  BY <1>1 DEF vars, disk, controller, loop, history
<1>2. CASE UNCHANGED frozen /\ StartScenario
  BY <1>2 DEF StartScenario, disk
<1>3. ASSUME UNCHANGED frozen, NEW t \in ToolNames, CallTool(t) PROVE Located'
  BY <1>3 DEF CallTool
<1>4. CASE UNCHANGED frozen /\ LogReuse
  BY <1>4 DEF LogReuse
<1>5. CASE UNCHANGED frozen /\ FinishPlay
  BY <1>5 DEF FinishPlay
<1>6. ASSUME UNCHANGED frozen, NEW k \in Keys, Observe(k) PROVE Located'
  BY <1>6 DEF Observe
<1>7. CASE UNCHANGED frozen /\ Reject
  BY <1>7 DEF Reject
<1>8. CASE UNCHANGED frozen /\ Accept
  BY <1>8, Constants DEF Accept, disk
<1>9. CASE UNCHANGED frozen /\ Save
  BY <1>9 DEF Save
<1>10. CASE UNCHANGED frozen /\ CompleteScenario
  BY <1>10 DEF CompleteScenario
<1>11. CASE UNCHANGED frozen /\ FinishCampaign
  BY <1>11 DEF FinishCampaign
<1>12. CASE Crash
  BY <1>12 DEF Crash
<1>13. CASE Resume
  BY <1>13 DEF Resume
<1> QED
  BY <1>1, <1>2, <1>3, <1>4, <1>5, <1>6, <1>7, <1>8, <1>9, <1>10, <1>11, <1>12,
     <1>13, Steps

\* Only a counted call and a birth write the manifest, never in a frozen
\* campaign, and what is proved stays so.
LEMMA RegistrySteps ==
    ASSUME TypeOK, Located, ToolsStayProved, [Next]_vars
    PROVE  /\ UNCHANGED registry \/ Save \/ (~frozen /\ \E t \in ToolNames : CallTool(t))
           /\ frozen => UNCHANGED registry
           /\ Proved(registry) \subseteq Proved(registry')
<1>1. CASE UNCHANGED registry
  BY <1>1
<1>2. CASE Save
  <2>1. ~frozen
    BY <1>2 DEF Save, Located
  <2>2. Proved(registry) \subseteq Proved(registry')
    BY <1>2, ProvedStays DEF Save, TypeOK, Located
  <2> QED
    BY <1>2, <2>1, <2>2
<1>3. ASSUME NEW t \in ToolNames, CallTool(t), ~frozen
      PROVE  Proved(registry) \subseteq Proved(registry')
  <2>1. t \in Known(registry) /\ registry' = RecordReuse(registry, t)
    BY <1>3 DEF CallTool, ToolsStayProved, Proved, Known
  <2> QED
    BY <2>1, ProvedStays DEF TypeOK
<1>4. ASSUME NEW t \in ToolNames, CallTool(t), frozen
      PROVE  UNCHANGED registry
  BY <1>4 DEF CallTool
<1>5. UNCHANGED registry \/ Save \/ \E t \in ToolNames : CallTool(t)
  <2>1. ASSUME NEW k \in Keys, Observe(k) PROVE UNCHANGED registry
    BY <2>1 DEF Observe
  <2> QED
    BY <2>1, Steps DEF vars, disk, Crash, Resume, StartScenario, LogReuse, FinishPlay,
       Reject, Accept, CompleteScenario, FinishCampaign
<1> QED
  BY <1>1, <1>2, <1>3, <1>4, <1>5

\* Births are added by Save alone, and evidence is never taken back.
LEMMA BirthSteps ==
    ASSUME [Next]_vars
    PROVE  /\ UNCHANGED births \/ Save
           /\ evidence \subseteq evidence'
<1>1. ASSUME NEW k \in Keys, Observe(k)
      PROVE  UNCHANGED births /\ evidence \subseteq evidence'
  BY <1>1 DEF Observe, history
<1>2. ASSUME NEW t \in ToolNames, CallTool(t)
      PROVE  UNCHANGED births /\ evidence \subseteq evidence'
  BY <1>2 DEF CallTool
<1> QED
  BY <1>1, <1>2, Steps DEF vars, disk, history, Crash, Resume, StartScenario, LogReuse,
     FinishPlay, Reject, Accept, Save, CompleteScenario, FinishCampaign

\* The tools that are shown, called or born are proved, and stay so.
LEMMA ToolsStep ==
    ASSUME TypeOK, Located, ToolsStayProved, [Next]_vars
    PROVE  ToolsStayProved'
<1>1. Proved(registry) \subseteq Proved(registry)'
  BY RegistrySteps DEF Proved
<1>2. visible' \subseteq Proved(registry)'
  <2>1. visible' \subseteq visible \/ visible' \subseteq Proved(registry)
    <3>1. ASSUME NEW k \in Keys, Observe(k) PROVE UNCHANGED visible
      BY <3>1 DEF Observe
    <3>2. ASSUME NEW t \in ToolNames, CallTool(t) PROVE UNCHANGED visible
      BY <3>2 DEF CallTool
    <3>3. StartScenario => visible' \subseteq Proved(registry)
      BY DEF StartScenario, Shown
    <3> QED
      BY <3>1, <3>2, <3>3, Steps DEF vars, loop, Crash, Resume, LogReuse, FinishPlay,
         Reject, Accept, Save, CompleteScenario, FinishCampaign
  <2> QED
    BY <1>1, <2>1 DEF ToolsStayProved
<1>3. pc' = "logging" => tool' \in Proved(registry)'
  <2>1. pc' = "logging" => UNCHANGED <<pc, tool>> \/ tool' \in visible
    <3>1. ASSUME NEW k \in Keys, Observe(k) PROVE pc' # "logging"
      BY <3>1 DEF Observe
    <3>2. ASSUME NEW t \in ToolNames, CallTool(t) PROVE tool' \in visible
      BY <3>2 DEF CallTool
    <3> QED
      BY <3>1, <3>2, Steps DEF vars, loop, Crash, Resume, StartScenario, LogReuse,
         FinishPlay, Reject, Accept, Save, CompleteScenario, FinishCampaign
  <2> QED
    BY <1>1, <2>1 DEF ToolsStayProved
<1>4. \A b \in births' : b.name \in Proved(registry)'
  <2>1. CASE UNCHANGED births
    BY <1>1, <2>1 DEF ToolsStayProved
  <2>2. CASE Save
    <3>1. tool \in Proved(registry')
      BY <2>2, ProvedStays DEF Save, TypeOK, Located
    <3>2. tool \in Proved(registry)'
      BY <3>1 DEF Proved
    <3> QED
      BY <1>1, <2>2, <3>2, SaveStep DEF ToolsStayProved
  <2> QED
    BY <2>1, <2>2, BirthSteps
<1> QED
  BY <1>2, <1>3, <1>4 DEF ToolsStayProved

\* The controller's memory changes by an observation, and is lost in a kill.
LEMMA MemorySteps ==
    ASSUME [Next]_vars
    PROVE  \/ UNCHANGED <<seen, counts>>
           \/ Crash
           \/ \E k \in Keys : Observe(k)
  BY Steps DEF vars, controller, Resume, StartScenario, CallTool, LogReuse, FinishPlay,
     Reject, Accept, Save, CompleteScenario, FinishCampaign

\* Every step keeps the memory true to what was observed and is on disk.
LEMMA MemoryStep ==
    ASSUME TypeOK, Located, MemoryIsRecorded, [Next]_vars
    PROVE  MemoryIsRecorded'
<1>1. CASE Crash
  <2>1. \A k \in Keys : ScenariosOf({}, k) = {}
    BY DEF ScenariosOf
  <2> QED
    BY <1>1, <2>1, FS_EmptySet DEF Crash, MemoryIsRecorded
<1>2. ASSUME NEW k \in Keys, Observe(k)
      PROVE  MemoryIsRecorded'
  <2>1. /\ current \in Scenarios \ completed
        /\ <<k, current>> \notin seen
    BY <1>2 DEF Observe, Located, Busy, Hooking, MemoryIsRecorded
  <2>2. /\ seen' = seen \union {<<k, current>>}
        /\ evidence' = evidence \union {<<k, current>>}
        /\ counts' = [counts EXCEPT ![k] = @ + 1] /\ todo' = todo \ {k}
        /\ pc' \in Hooking
        /\ UNCHANGED <<current, completed>>
    BY <1>2 DEF Observe, Hooking
  <2>3. seen' \subseteq evidence'
    BY <2>2 DEF MemoryIsRecorded
  <2>4. ASSUME NEW j \in Keys PROVE counts'[j] = Cardinality(ScenariosOf(seen', j))
    <3>1. counts[j] = Cardinality(ScenariosOf(seen, j))
      BY DEF MemoryIsRecorded
    <3>2. counts'[j] = IF j = k THEN counts[j] + 1 ELSE counts[j]
      BY <2>2 DEF TypeOK
    <3> QED
      BY <2>1, <2>2, <3>1, <3>2, OneMorePair
  <2>5. ASSUME NEW j \in Keys, NEW s \in Scenarios, <<j, s>> \in seen'
        PROVE  s \in completed' \/ (pc' \in Hooking /\ s = current' /\ j \notin todo')
    <3>1. CASE <<j, s>> \in seen
      BY <2>2, <3>1 DEF MemoryIsRecorded
    <3>2. CASE <<j, s>> = <<k, current>>
      BY <2>2, <3>2
    <3> QED
      BY <2>2, <2>5, <3>1, <3>2
  <2> QED
    BY <2>3, <2>4, <2>5 DEF MemoryIsRecorded, ScenariosOf
<1>3. CASE UNCHANGED <<seen, counts>>
  <2>1. evidence \subseteq evidence'
    BY BirthSteps
  <2>2. \A k \in Keys : counts'[k] = Cardinality(ScenariosOf(seen, k))'
    BY <1>3, Zenon DEF MemoryIsRecorded, ScenariosOf
  <2>3. seen' \subseteq evidence'
    BY <1>3, <2>1 DEF MemoryIsRecorded
  <2>4. ASSUME NEW k \in Keys, Observe(k) PROVE MemoryIsRecorded'
    BY <1>2, <2>4
  <2>5. CASE \A k \in Keys : ~Observe(k)
    <3>1. CASE Crash
      BY <1>1, <3>1
    <3>2. CASE ~Crash
      <4>1. \/ UNCHANGED <<completed, pc, current, todo>>
            \/ /\ completed \subseteq completed'
               /\ pc \in Hooking => \/ pc' \in Hooking /\ UNCHANGED <<current, todo>>
                                    \/ current \in completed'
        BY <2>5, <3>2, Steps DEF Hooking, vars, disk, loop, Resume, StartScenario,
           CallTool, LogReuse, FinishPlay, Reject, Accept, Save, CompleteScenario,
           FinishCampaign
      <4>2. ASSUME NEW k \in Keys, NEW s \in Scenarios, <<k, s>> \in seen
            PROVE  s \in completed' \/ (pc' \in Hooking /\ s = current' /\ k \notin todo')
        <5>1. s \in completed \/ (pc \in Hooking /\ s = current /\ k \notin todo)
          BY <4>2 DEF MemoryIsRecorded
        <5> QED
          BY <4>1, <5>1
      <4> QED
        BY <1>3, <2>2, <2>3, <4>2 DEF MemoryIsRecorded, ScenariosOf
    <3> QED
      BY <3>1, <3>2
  <2> QED
    BY <2>4, <2>5
<1> QED
  BY <1>1, <1>2, <1>3, MemorySteps

\* The key that is worked on stays due until its tool is in the registry.
LEMMA CandidateStep ==
    ASSUME TypeOK, Located, ToolsStayProved, MemoryIsRecorded, CandidateIsDue, [Next]_vars
    PROVE  CandidateIsDue'
<1>1. pc' \in {"generating", "saving"} =>
        UNCHANGED vars \/ Accept \/ \E k \in Keys : Observe(k)
  BY Steps DEF Crash, Resume, StartScenario, CallTool, LogReuse, FinishPlay,
     Reject, Save, CompleteScenario, FinishCampaign
<1>2. CASE UNCHANGED vars
  BY <1>2 DEF CandidateIsDue, vars, disk, controller, loop, Eligible, Served, DiverseIn,
     ScenariosOf, FamiliesOf, Proved
<1>3. CASE Accept
  <2>1. /\ pc = "generating" /\ pc' = "saving" /\ key' = key /\ key \in Keys
        /\ registry' = registry /\ counts' = counts /\ seen' = seen
        /\ generated' = generated \union {key}
        /\ ~Repairing => diagnostic' \/ DiverseIn(seen, key)
    BY <1>3 DEF Accept, Located, disk
  <2>2. counts[key] >= RecurrenceThreshold /\ ~Served(key)
    BY <2>1 DEF CandidateIsDue, Eligible
  <2> QED
    BY <2>1, <2>2 DEF CandidateIsDue, Served, DiverseIn, ScenariosOf, FamiliesOf, Proved
<1>4. ASSUME NEW k \in Keys, Observe(k), pc' \in {"generating", "saving"}
      PROVE  CandidateIsDue'
  <2>1. /\ pc' = "generating" /\ key' = k
        /\ Eligible(k, counts'[k]) /\ ~Served(k)
        /\ generated' = generated
        /\ UNCHANGED <<registry, rejected>>
    BY <1>4 DEF Observe
  <2> QED
    BY <2>1 DEF CandidateIsDue, Eligible, Served, Proved
<1> QED
  BY <1>1, <1>2, <1>3, <1>4 DEF CandidateIsDue

\* A kill does not make a new birth of the one before it.
LEMMA BirthsStep ==
    ASSUME TypeOK, Located, ToolsStayProved, CandidateIsDue, BirthsAreRemembered,
           OneBirthPerKey, [Next]_vars
    PROVE  BirthsAreRemembered' /\ OneBirthPerKey'
<1>1. CASE UNCHANGED births
  <2>1. OneBirthPerKey'
    BY <1>1 DEF OneBirthPerKey
  <2>2. ASSUME NEW b \in births
        PROVE  /\ b.process <= crashes'
               /\ b.process = crashes' =>
                     b.key \in generated' /\ ~(pc' = "saving" /\ key' = b.key)
    <3>0. /\ b.process \in Nat /\ b.key \in Keys /\ crashes \in Nat
          /\ b.process <= crashes
          /\ b.process = crashes =>
               b.key \in generated /\ ~(pc = "saving" /\ key = b.key)
      BY DEF BirthsAreRemembered, TypeOK
    <3>1. CASE Crash
      <4>1. crashes' = crashes + 1
        BY <3>1 DEF Crash
      <4> QED
        BY <3>0, <4>1
    <3>2. CASE Accept
      <4>1. key \notin generated
        BY <3>2 DEF Accept, CandidateIsDue, Eligible
      <4> QED
        BY <3>0, <3>2, <4>1 DEF Accept, history
    <3>3. ASSUME NEW k \in Keys, Observe(k)
          PROVE  /\ crashes' = crashes /\ generated \subseteq generated'
                 /\ pc' # "saving"
      BY <3>3 DEF Observe, history
    <3>4. ASSUME ~Crash, ~Accept, ~(\E k \in Keys : Observe(k))
          PROVE  /\ crashes' = crashes /\ generated' = generated
                 /\ pc' = "saving" => pc = "saving" /\ key' = key
      BY <3>4, Steps DEF vars, disk, controller, loop, history, Resume, StartScenario,
         CallTool, LogReuse, FinishPlay, Reject, Save, CompleteScenario, FinishCampaign
    <3> QED
      BY <3>0, <3>1, <3>2, <3>3, <3>4
  <2> QED
    BY <1>1, <2>1, <2>2 DEF BirthsAreRemembered
<1>2. CASE Save
  <2> DEFINE birth == [key |-> key, name |-> tool, version |-> registry'[tool].version,
                       diagnostic_only |-> diagnostic, process |-> crashes]
  <2>1. /\ births' = births \union {birth}
        /\ birth.key = key /\ birth.process = crashes
    BY <1>2, SaveStep
  <2>2. /\ pc = "saving" /\ pc' = "hook" /\ crashes' = crashes
        /\ generated' = generated /\ crashes \in Nat
    BY <1>2 DEF Save, controller, TypeOK
  <2>3. key \in generated /\ ~Served(key)
    BY <2>2 DEF CandidateIsDue
  <2>4. ASSUME NEW a \in births, a.key = key
        PROVE  /\ a.process < crashes
               /\ a.name \notin {Suggested[key]} \union Broader[key]
    <3>1. a.process \in Nat /\ a.process <= crashes /\ a.process # crashes
      BY <2>2, <2>4 DEF BirthsAreRemembered, TypeOK
    <3>2. a.name \in Proved(registry)
      BY DEF ToolsStayProved
    <3> QED
      BY <2>2, <2>3, <2>4, <3>1, <3>2 DEF Served
  <2> HIDE DEF birth
  <2>5. BirthsAreRemembered'
    BY <2>1, <2>2, <2>3 DEF BirthsAreRemembered
  <2>6. ASSUME NEW a \in births', NEW b \in births',
               a.key = b.key, a # b, a.process <= b.process
        PROVE  /\ a.process < b.process
               /\ a.name \notin {Suggested[a.key]} \union Broader[a.key]
    <3>1. CASE a \in births /\ b \in births
      BY <2>6, <3>1 DEF OneBirthPerKey
    <3>2. CASE a \in births /\ b = birth
      BY <2>1, <2>4, <2>6, <3>2
    <3>3. CASE a = birth /\ b \in births
      <4>1. b.process < crashes /\ b.process \in Nat
        BY <2>1, <2>4, <2>6, <3>3 DEF TypeOK
      <4> QED
        BY <2>1, <2>2, <2>6, <3>3, <4>1
    <3> QED
      BY <2>1, <2>6, <3>1, <3>2, <3>3
  <2> QED
    BY <2>5, <2>6 DEF OneBirthPerKey
<1> QED
  BY <1>1, <1>2, BirthSteps

\* A tool that is born now rests on enough evidence, and the evidence of those
\* born before does not shrink.
LEMMA ClaimsStep ==
    ASSUME TypeOK, Located, MemoryIsRecorded, CandidateIsDue, ClaimsNeedRecurrence,
           ~Repairing => ClaimsNeedDiverseEvidence, [Next]_vars
    PROVE  ClaimsNeedRecurrence' /\ (~Repairing => ClaimsNeedDiverseEvidence')
<1>1. ASSUME NEW b \in births
      PROVE  /\ Cardinality(ScenariosOf(evidence', b.key)) >= RecurrenceThreshold
             /\ ~Repairing => b.diagnostic_only \/ DiverseIn(evidence', b.key)
  <2>1. b.key \in Keys
    BY DEF TypeOK
  <2>2. /\ Cardinality(ScenariosOf(evidence, b.key)) >= RecurrenceThreshold
        /\ ~Repairing => b.diagnostic_only \/ DiverseIn(evidence, b.key)
    BY DEF ClaimsNeedRecurrence, ClaimsNeedDiverseEvidence, DiverseIn
  <2> QED
    BY <2>1, <2>2, BirthSteps, EvidenceGrows
<1>2. CASE UNCHANGED births
  BY <1>1, <1>2 DEF ClaimsNeedRecurrence, ClaimsNeedDiverseEvidence, DiverseIn,
     ScenariosOf, FamiliesOf
<1>3. CASE Save
  <2> DEFINE birth == [key |-> key, name |-> tool, version |-> registry'[tool].version,
                       diagnostic_only |-> diagnostic, process |-> crashes]
  <2>1. births' = births \union {birth} /\ birth.key = key
        /\ birth.diagnostic_only = diagnostic
    BY <1>3, SaveStep
  <2>2. /\ Cardinality(ScenariosOf(seen, key)) >= RecurrenceThreshold
        /\ ~Repairing => diagnostic \/ DiverseIn(seen, key)
        /\ key \in Keys
    BY <1>3 DEF Save, Located, CandidateIsDue, MemoryIsRecorded
  <2>3. seen \subseteq evidence'
    BY BirthSteps DEF MemoryIsRecorded
  <2>4. /\ Cardinality(ScenariosOf(evidence', key)) >= RecurrenceThreshold
        /\ ~Repairing => diagnostic \/ DiverseIn(evidence', key)
    BY <2>2, <2>3, EvidenceGrows
  <2> HIDE DEF birth
  <2> QED
    BY <1>1, <2>1, <2>4 DEF ClaimsNeedRecurrence, ClaimsNeedDiverseEvidence, DiverseIn,
       ScenariosOf, FamiliesOf
<1> QED
  BY <1>2, <1>3, BirthSteps

\* A generator that keeps failing is asked no more than MaxRejections times
\* by one process.
LEMMA RejectionsStep ==
    ASSUME TypeOK, Located, CandidateIsDue, RejectionsAreCounted, [Next]_vars
    PROVE  RejectionsAreCounted'
<1> DEFINE spent == MaxRejections * crashes
<1>1. /\ MaxRejections \in Nat /\ crashes \in Nat /\ spent \in Nat
      /\ MaxRejections * (crashes + 1) = spent + MaxRejections
  BY Constants DEF TypeOK
<1>2. \A k \in Keys : /\ rejected[k] \in Nat /\ rejectRows[k] \in Nat
                      /\ rejected[k] <= MaxRejections
                      /\ rejectRows[k] <= spent + rejected[k]
  BY DEF TypeOK, RejectionsAreCounted
<1>3. CASE UNCHANGED <<rejected, rejectRows, crashes>>
  BY <1>3 DEF RejectionsAreCounted
<1>4. CASE Reject
  <2>1. /\ key \in Keys /\ rejected[key] < MaxRejections
        /\ rejected' = [rejected EXCEPT ![key] = @ + 1]
        /\ rejectRows' = [rejectRows EXCEPT ![key] = @ + 1]
        /\ crashes' = crashes
    BY <1>4 DEF Reject, Located, CandidateIsDue, Eligible, history
  <2> HIDE DEF spent
  <2>2. \A k \in Keys : /\ rejected'[k] <= MaxRejections
                        /\ rejectRows'[k] <= spent + rejected'[k]
    BY <1>1, <1>2, <2>1 DEF TypeOK
  <2> QED
    BY <2>1, <2>2 DEF RejectionsAreCounted, spent
<1>5. CASE Crash
  <2>1. /\ crashes' = crashes + 1 /\ rejectRows' = rejectRows
        /\ \A k \in Keys : rejected'[k] = 0
    BY <1>5 DEF Crash, disk
  <2>2. MaxRejections * crashes' = spent + MaxRejections
    BY <1>1, <2>1
  <2> HIDE DEF spent
  <2>3. \A k \in Keys : /\ rejected'[k] <= MaxRejections
                        /\ rejectRows'[k] <= (spent + MaxRejections) + rejected'[k]
    BY <1>1, <1>2, <2>1
  <2> QED
    BY <2>2, <2>3 DEF RejectionsAreCounted
<1> QED
  BY <1>3, <1>4, <1>5, Steps DEF vars, disk, controller, history, Resume, StartScenario,
     CallTool, LogReuse, FinishPlay, Observe, Accept, Save, CompleteScenario,
     FinishCampaign

\* Counts and log part only between the two writes of a call, and in a kill.
LEMMA CallsStep ==
    ASSUME TypeOK, Located, ToolsStayProved, CallsAreCounted, [Next]_vars
    PROVE  CallsAreCounted'
<1> SUFFICES ASSUME ~frozen
             PROVE  CallsAreCounted'
  <2>1. frozen' = frozen
    BY Steps DEF vars, Crash, Resume
  <2> QED
    BY <2>1 DEF CallsAreCounted
<1>1. \A t \in Known(registry) :
        /\ t \in ToolNames
        /\ registry[t].reuse_count \in Nat /\ reuseRows[t] \in Nat /\ crashes \in Nat
        /\ reuseRows[t] + (IF pc = "logging" /\ tool = t THEN 1 ELSE 0)
             <= registry[t].reuse_count
        /\ registry[t].reuse_count
             <= reuseRows[t] + crashes + (IF pc = "logging" /\ tool = t THEN 1 ELSE 0)
  BY KnownEntry DEF CallsAreCounted, TypeOK, Entry, Known
<1>2. CASE UNCHANGED <<registry, reuseRows, crashes>> /\ pc # "logging" /\ pc' # "logging"
  BY <1>1, <1>2 DEF CallsAreCounted, Known
<1>3. CASE UNCHANGED vars
  BY <1>3 DEF CallsAreCounted, vars, disk, loop, history, Known
<1>4. ASSUME UNCHANGED frozen, NEW n \in ToolNames, CallTool(n) PROVE CallsAreCounted'
  <2>1. /\ n \in Known(registry) /\ registry' = RecordReuse(registry, n)
        /\ registry \in Manifests
        /\ pc = "playing" /\ pc' = "logging" /\ tool' = n
        /\ UNCHANGED <<reuseRows, crashes>>
    BY <1>4 DEF CallTool, ToolsStayProved, Proved, Known, TypeOK
  <2>2. Known(registry') = Known(registry)
    BY <2>1, RecordReuseKeeps
  <2>3. \A t \in Known(registry) :
          registry'[t].reuse_count = registry[t].reuse_count + (IF t = n THEN 1 ELSE 0)
    BY <1>1, <2>1, RecordReuseKeeps
  <2> QED
    BY <1>1, <2>1, <2>2, <2>3 DEF CallsAreCounted
<1>5. CASE LogReuse
  <2>1. /\ tool \in ToolNames /\ tool' = Nothing
        /\ reuseRows' = [reuseRows EXCEPT ![tool] = @ + 1]
        /\ pc = "logging" /\ pc' = "playing"
        /\ UNCHANGED <<registry, crashes>>
    BY <1>5 DEF LogReuse, Located, history
  <2>2. \A t \in ToolNames : reuseRows'[t] = IF t = tool THEN reuseRows[t] + 1
                                                         ELSE reuseRows[t]
    BY <2>1 DEF TypeOK
  <2>3. Known(registry') = Known(registry)
    BY <2>1
  <2> QED
    BY <1>1, <2>1, <2>2, <2>3 DEF CallsAreCounted
<1>6. CASE Save
  <2>1. /\ tool \in ToolNames /\ diagnostic \in BOOLEAN /\ registry \in Manifests
        /\ registry' = Put(registry, tool, Accepted(diagnostic))
        /\ reuseRows' = [reuseRows EXCEPT ![tool] = 0]
        /\ pc = "saving" /\ pc' = "hook" /\ crashes' = crashes /\ crashes \in Nat
    BY <1>6 DEF Save, Located, TypeOK
  <2>2. /\ Known(registry') = Known(registry) \union {tool}
        /\ registry'[tool].reuse_count = 0
        /\ \A t \in Known(registry) \ {tool} :
              registry'[t].reuse_count = registry[t].reuse_count
    BY <2>1, PutKeeps
  <2>3. \A t \in ToolNames : reuseRows'[t] = IF t = tool THEN 0 ELSE reuseRows[t]
    BY <2>1 DEF TypeOK
  <2> QED
    BY <1>1, <2>1, <2>2, <2>3 DEF CallsAreCounted
<1>7. CASE Crash
  <2>1. /\ crashes' = crashes + 1 /\ pc' = "down" /\ UNCHANGED <<registry, reuseRows>>
    BY <1>7 DEF Crash, disk
  <2>2. Known(registry') = Known(registry)
    BY <2>1
  <2> QED
    BY <1>1, <2>1, <2>2 DEF CallsAreCounted
<1> QED
  BY <1>2, <1>3, <1>4, <1>5, <1>6, <1>7, Steps
  DEF vars, disk, history, Resume, StartScenario, FinishPlay, Observe, Reject, Accept,
      CompleteScenario, FinishCampaign

\* A shortfall of the scenario at hand is not lost before it is observed.
LEMMA ShortfallsStep ==
    ASSUME TypeOK, Located, ShortfallsAreObserved, [Next]_vars
    PROVE  ShortfallsAreObserved'
<1> USE DEF Hooking, Busy
<1>1. CASE UNCHANGED vars
  BY <1>1 DEF ShortfallsAreObserved, vars, disk, controller, loop, history
<1>2. CASE FinishPlay
  <2>1. /\ current \in Scenarios \ completed /\ current' = current
        /\ completed' = completed /\ crashes' = crashes /\ seen' = seen
        /\ shortfalls' = [shortfalls EXCEPT ![current] = todo']
    BY <1>2 DEF FinishPlay, Located, controller, history
  <2>2. \A s \in Scenarios :
          shortfalls'[s] = IF s = current THEN todo' ELSE shortfalls[s]
    BY <2>1 DEF TypeOK
  <2> QED
    BY <2>1, <2>2 DEF ShortfallsAreObserved, TypeOK
<1>3. ASSUME NEW k \in Keys, Observe(k) PROVE ShortfallsAreObserved'
  BY <1>3 DEF Observe, ShortfallsAreObserved, history
<1>4. CASE CompleteScenario
  BY <1>4 DEF CompleteScenario, ShortfallsAreObserved, controller, history
<1>5. CASE Crash
  <2>1. crashes' # 0 /\ pc' = "down"
    BY <1>5 DEF Crash, TypeOK
  <2> QED
    BY <2>1 DEF ShortfallsAreObserved
<1>6. ASSUME UNCHANGED <<completed, shortfalls, seen, crashes>>,
             pc' \in Hooking => pc \in Hooking /\ UNCHANGED <<current, todo>>
      PROVE  ShortfallsAreObserved'
  BY <1>6 DEF ShortfallsAreObserved
<1> QED
  BY <1>1, <1>2, <1>3, <1>4, <1>5, <1>6, Steps
  DEF disk, controller, loop, history, Resume, StartScenario, CallTool, LogReuse, Reject,
      Accept, Save, FinishCampaign

\* A recurring key that is not served is worked on, and then answered.
LEMMA AnswersStep ==
    ASSUME TypeOK, Located, RecurringIsAnswered, [Next]_vars
    PROVE  RecurringIsAnswered'
<1> USE Constants
<1>1. CASE UNCHANGED vars
  BY <1>1 DEF RecurringIsAnswered, vars, controller, loop
<1>2. ASSUME NEW k \in Keys, Observe(k) PROVE RecurringIsAnswered'
  <2>1. /\ counts' = [counts EXCEPT ![k] = @ + 1]
        /\ generated \subseteq generated' /\ rejected' = rejected /\ pc = "hook"
        /\ \/ ~Eligible(k, counts'[k])
           \/ k \in generated'
           \/ pc' = "generating" /\ key' = k
    BY <1>2 DEF Observe
  <2>2. ASSUME NEW j \in GenerationAllowed, j # k, counts'[j] >= RecurrenceThreshold,
               RecurrenceThreshold > 0
        PROVE  j \in generated' \/ rejected'[j] >= 1 \/ MaxRejections = 0
    BY <2>1, <2>2 DEF RecurringIsAnswered, TypeOK
  <2>3. ASSUME k \in GenerationAllowed, counts'[k] >= RecurrenceThreshold
        PROVE  \/ k \in generated' \/ rejected'[k] >= 1 \/ MaxRejections = 0
               \/ pc' = "generating" /\ key' = k
    BY <2>1, <2>3 DEF Eligible, TypeOK
  <2> QED
    BY <2>2, <2>3 DEF RecurringIsAnswered
<1>3. CASE Reject
  <2>1. /\ rejected' = [rejected EXCEPT ![key] = @ + 1] /\ key \in Keys
        /\ UNCHANGED <<counts, generated>>
    BY <1>3 DEF Reject, Located
  <2> QED
    BY <2>1 DEF RecurringIsAnswered, TypeOK
<1>4. CASE Accept
  BY <1>4 DEF Accept, RecurringIsAnswered
<1>5. CASE Crash
  <2>1. \A k \in GenerationAllowed : counts'[k] = 0
    BY <1>5 DEF Crash
  <2> QED
    BY <2>1 DEF RecurringIsAnswered
<1>6. ASSUME UNCHANGED controller, pc # "generating" PROVE RecurringIsAnswered'
  BY <1>6 DEF RecurringIsAnswered, controller
<1> QED
  BY <1>1, <1>2, <1>3, <1>4, <1>5, <1>6, Steps
  DEF controller, Resume, StartScenario, CallTool, LogReuse, FinishPlay, Save,
      CompleteScenario, FinishCampaign

\* The rows of a scenario are written in their order, and the row that completes
\* it comes last.
LEMMA RowsStep ==
    ASSUME TypeOK, Located, MemoryIsRecorded, ShortfallsAreObserved, RowsAreWritten,
           CompletedIsRecorded, [Next]_vars
    PROVE  RowsAreWritten' /\ CompletedIsRecorded'
<1> DEFINE Unchanged == UNCHANGED <<completed, selectionRows, claimed, used, reuseLog,
                                    shortfalls, interrupted>>
<1> USE DEF Hooking, Busy
<1>1. evidence \subseteq evidence'
  BY BirthSteps
<1>2. UNCHANGED reuseLog => \A s : CalledIn(s)' = CalledIn(s)
  BY DEF CalledIn
<1>3. CASE UNCHANGED vars
  BY <1>3 DEF RowsAreWritten, CompletedIsRecorded, CalledIn, vars, disk, loop, history
<1>4. CASE StartScenario
  <2>1. /\ pc = "idle" /\ pc' = "playing" /\ current' \in Scenarios \ completed
        /\ used' = [used EXCEPT ![current'] = {}]
        /\ UNCHANGED <<completed, selectionRows, claimed, reuseLog, shortfalls, interrupted,
                       evidence>>
    BY <1>4 DEF StartScenario, disk
  <2>2. \A s \in Scenarios : used'[s] = IF s = current' THEN {} ELSE used[s]
    BY <2>1 DEF TypeOK
  <2>3. \A s \in Scenarios \ completed : s \notin interrupted =>
          selectionRows[s] = 0 /\ CalledIn(s) = {}
    BY <2>1 DEF RowsAreWritten
  <2>4. RowsAreWritten'
    BY <1>2, <2>1, <2>2, <2>3 DEF RowsAreWritten
  <2>5. CompletedIsRecorded'
    BY <2>1, <2>2 DEF CompletedIsRecorded, TypeOK
  <2> QED
    BY <2>4, <2>5
<1>5. ASSUME NEW t \in ToolNames, CallTool(t)
      PROVE  RowsAreWritten' /\ CompletedIsRecorded'
  <2>1. /\ pc = "playing" /\ pc' = "logging" /\ current \in Scenarios \ completed
        /\ used' = [used EXCEPT ![current] = @ \union {t}] /\ tool' = t
        /\ UNCHANGED <<completed, selectionRows, claimed, reuseLog, shortfalls, interrupted,
                       current, evidence>>
    BY <1>5 DEF CallTool, Located
  <2>2. \A s \in Scenarios : used'[s] = IF s = current THEN used[s] \union {t} ELSE used[s]
    BY <2>1 DEF TypeOK
  <2>3. RowsAreWritten'
    BY <1>2, <2>1, <2>2 DEF RowsAreWritten
  <2>4. CompletedIsRecorded'
    BY <2>1, <2>2 DEF CompletedIsRecorded, TypeOK
  <2> QED
    BY <2>3, <2>4
<1>6. CASE LogReuse
  <2>1. /\ pc = "logging" /\ pc' = "playing" /\ current \in Scenarios \ completed
        /\ tool \in ToolNames /\ reuseLog' = reuseLog \union {<<current, tool>>}
        /\ UNCHANGED <<completed, selectionRows, claimed, used, shortfalls, interrupted,
                       current, evidence>>
    BY <1>6 DEF LogReuse, Located, history
  <2>2. \A s : CalledIn(s)' = IF s = current THEN CalledIn(s) \union {tool} ELSE CalledIn(s)
    BY <2>1 DEF CalledIn
  <2>3. RowsAreWritten'
    BY <2>1, <2>2 DEF RowsAreWritten
  <2>4. CompletedIsRecorded'
    BY <2>1 DEF CompletedIsRecorded
  <2> QED
    BY <2>3, <2>4
<1>7. CASE FinishPlay
  <2>1. /\ pc = "playing" /\ pc' = "hook" /\ current \in Scenarios \ completed
        /\ selectionRows' = [selectionRows EXCEPT ![current] = @ + 1]
        /\ claimed' = [claimed EXCEPT ![current] = CalledIn(current)]
        /\ shortfalls' = [shortfalls EXCEPT ![current] = todo']
        /\ UNCHANGED <<completed, used, reuseLog, interrupted, current, evidence>>
    BY <1>7 DEF FinishPlay, Located, history
  <2>2. \A s \in Scenarios :
          /\ selectionRows[s] \in Nat
          /\ selectionRows'[s] = IF s = current THEN selectionRows[s] + 1 ELSE selectionRows[s]
          /\ claimed'[s] = IF s = current THEN CalledIn(s) ELSE claimed[s]
          /\ s # current => shortfalls'[s] = shortfalls[s]
    BY <2>1 DEF TypeOK
  <2>3. RowsAreWritten'
    BY <1>2, <2>1, <2>2 DEF RowsAreWritten
  <2>4. CompletedIsRecorded'
    BY <2>1, <2>2 DEF CompletedIsRecorded, TypeOK
  <2> QED
    BY <2>3, <2>4
<1>8. CASE CompleteScenario
  <2>1. /\ pc = "hook" /\ todo = {} /\ pc' = "idle" /\ current \in Scenarios \ completed
        /\ completed' = completed \union {current}
        /\ UNCHANGED <<selectionRows, claimed, used, reuseLog, shortfalls, interrupted,
                       current, evidence>>
    BY <1>8 DEF CompleteScenario, Located, history
  <2>2. RowsAreWritten'
    BY <1>2, <2>1 DEF RowsAreWritten
  <2>3. \A k \in shortfalls[current] : <<k, current>> \in evidence
    BY <2>1 DEF ShortfallsAreObserved, MemoryIsRecorded
  <2>4. CompletedIsRecorded'
    BY <2>1, <2>3 DEF CompletedIsRecorded, RowsAreWritten
  <2> QED
    BY <2>2, <2>4
<1>9. CASE Crash
  <2>1. /\ pc' = "down"
        /\ interrupted' = IF pc = "idle" THEN interrupted ELSE interrupted \union {current}
        /\ pc \notin {"down", "finished"}
        /\ UNCHANGED <<completed, selectionRows, claimed, used, reuseLog, shortfalls,
                       evidence>>
    BY <1>9 DEF Crash, disk
  <2>2. pc = "idle" \/ pc \in Busy
    BY <2>1 DEF TypeOK, Phases
  <2>3. RowsAreWritten'
    BY <1>2, <2>1, <2>2 DEF RowsAreWritten
  <2>4. CompletedIsRecorded'
    BY <2>1 DEF CompletedIsRecorded
  <2> QED
    BY <2>3, <2>4
<1>10. ASSUME Unchanged,
              \/ pc \in Hooking /\ pc' \in Hooking /\ current' = current
              \/ pc \notin Busy /\ pc' \notin Busy
       PROVE  RowsAreWritten' /\ CompletedIsRecorded'
  BY <1>1, <1>2, <1>10 DEF RowsAreWritten, CompletedIsRecorded
<1>11. ASSUME NEW k \in Keys, Observe(k)
       PROVE  RowsAreWritten' /\ CompletedIsRecorded'
  BY <1>10, <1>11 DEF Observe, history
<1>12. CASE Reject \/ Accept \/ Save
  BY <1>10, <1>12 DEF Reject, Accept, Save, disk, history
<1>13. CASE Resume \/ FinishCampaign
  BY <1>10, <1>13 DEF Resume, FinishCampaign, disk, history
<1> QED
  BY <1>3, <1>4, <1>5, <1>6, <1>7, <1>8, <1>9, <1>11, <1>12, <1>13, Steps

-----------------------------------------------------------------------------
(* The invariant is inductive                                              *)

\* The entries of the manifest a campaign may find.
LEMMA FirstEntries ==
    \A entry \in {Accepted(FALSE), [Accepted(FALSE) EXCEPT !.hash = "absent"],
                  [Accepted(FALSE) EXCEPT !.hash = "mismatch"]} :
        entry \in Entry /\ entry.reuse_count = 0
<1> DEFINE first == Accepted(FALSE)
<1>1. first \in Entry /\ first.reuse_count = 0
  BY DEF Accepted, Entry, Hashes
<1> HIDE DEF first
<1>2. ASSUME NEW h \in Hashes
      PROVE  [first EXCEPT !.hash = h] \in Entry /\ [first EXCEPT !.hash = h].reuse_count = 0
  <2>1. \A e \in Entry : /\ [e EXCEPT !.hash = h] \in Entry
                         /\ [e EXCEPT !.hash = h].reuse_count = e.reuse_count
    BY DEF Entry, Hashes
  <2> QED
    BY <1>1, <2>1
<1>3. "absent" \in Hashes /\ "mismatch" \in Hashes
  BY DEF Hashes
<1>4. /\ [first EXCEPT !.hash = "absent"] \in Entry
      /\ [first EXCEPT !.hash = "absent"].reuse_count = 0
  BY <1>2, <1>3
<1>5. /\ [first EXCEPT !.hash = "mismatch"] \in Entry
      /\ [first EXCEPT !.hash = "mismatch"].reuse_count = 0
  BY <1>2, <1>3
<1>6. \A entry \in {first, [first EXCEPT !.hash = "absent"], [first EXCEPT !.hash = "mismatch"]} :
        entry \in Entry /\ entry.reuse_count = 0
  BY <1>1, <1>4, <1>5
<1> QED
  BY <1>6 DEF first

\* Where a campaign begins.
LEMMA InitInvariant == Init => IInv
<1> SUFFICES ASSUME Init PROVE IInv
  OBVIOUS
<1> USE Constants DEF Init
<1>1. registry \in Manifests /\ \A t \in Known(registry) : registry[t].reuse_count = 0
  <2> DEFINE first == {Accepted(FALSE), [Accepted(FALSE) EXCEPT !.hash = "absent"],
                       [Accepted(FALSE) EXCEPT !.hash = "mismatch"]}
  <2>1. \A t \in ToolNames :
          registry[t] = NoEntry \/ (registry[t] \in Entry /\ registry[t].reuse_count = 0)
    <3>1. registry \in [ToolNames -> {NoEntry} \union first]
      OBVIOUS
    <3>2. \A entry \in first : entry \in Entry /\ entry.reuse_count = 0
      BY FirstEntries
    <3> HIDE DEF first, Init
    <3> QED
      BY <3>1, <3>2
  <2>2. registry = [t \in ToolNames |-> registry[t]]
    OBVIOUS
  <2> HIDE DEF Init
  <2> QED
    BY <2>1, <2>2 DEF Manifests, Known
<1>2. TypeOK
  <2>1. /\ rejectRows \in [Keys -> Nat] /\ reuseRows \in [ToolNames -> Nat]
        /\ selectionRows \in [Scenarios -> Nat]
        /\ claimed \in [Scenarios -> SUBSET ToolNames]
        /\ counts \in [Keys -> Nat] /\ rejected \in [Keys -> Nat]
        /\ shortfalls \in [Scenarios -> SUBSET Keys]
        /\ used \in [Scenarios -> SUBSET ToolNames]
    OBVIOUS
  <2>2. current \in 0..N
    OBVIOUS
  <2> QED
    BY <1>1, <2>1, <2>2 DEF TypeOK, Phases
<1>3. Located /\ ToolsStayProved
  BY DEF Located, ToolsStayProved, Busy, Hooking
<1>4. MemoryIsRecorded
  <2>1. \A k \in Keys : ScenariosOf({}, k) = {}
    BY DEF ScenariosOf
  <2> QED
    BY <2>1, FS_EmptySet DEF MemoryIsRecorded
<1>5. CandidateIsDue /\ BirthsAreRemembered /\ OneBirthPerKey /\ ClaimsNeedRecurrence
      /\ ClaimsNeedDiverseEvidence
  BY DEF CandidateIsDue, BirthsAreRemembered, OneBirthPerKey, ClaimsNeedRecurrence,
         ClaimsNeedDiverseEvidence
<1>6. RejectionsAreCounted
  BY DEF RejectionsAreCounted
<1>7. CallsAreCounted
  <2>1. \A t \in Known(registry) : reuseRows[t] = 0 /\ registry[t].reuse_count = 0
    BY <1>1 DEF Known
  <2>2. pc # "logging" /\ crashes = 0
    OBVIOUS
  <2> HIDE DEF Init
  <2> QED
    BY <2>1, <2>2 DEF CallsAreCounted
<1>8. RowsAreWritten /\ CompletedIsRecorded
  BY DEF RowsAreWritten, CompletedIsRecorded, CalledIn, Busy, Hooking
<1>9. ShortfallsAreObserved
  BY DEF ShortfallsAreObserved, Hooking
<1>10. RecurringIsAnswered
  BY DEF RecurringIsAnswered
<1> QED
  BY <1>2, <1>3, <1>4, <1>5, <1>6, <1>7, <1>8, <1>9, <1>10 DEF IInv

\* Every step keeps it.
LEMMA StepInvariant == IInv /\ [Next]_vars => IInv'
<1> SUFFICES ASSUME IInv, [Next]_vars PROVE IInv'
  OBVIOUS
<1> USE DEF IInv
<1>1. TypeOK'
  BY TypeStep
<1>2. Located' /\ ToolsStayProved'
  BY LocatedStep, ToolsStep
<1>3. MemoryIsRecorded' /\ CandidateIsDue'
  BY MemoryStep, CandidateStep
<1>4. BirthsAreRemembered' /\ OneBirthPerKey'
  BY BirthsStep
<1>5. ClaimsNeedRecurrence' /\ (~Repairing => ClaimsNeedDiverseEvidence')
  BY ClaimsStep
<1>6. RejectionsAreCounted' /\ CallsAreCounted'
  BY RejectionsStep, CallsStep
<1>7. RowsAreWritten' /\ CompletedIsRecorded'
  BY RowsStep
<1>8. ShortfallsAreObserved' /\ RecurringIsAnswered'
  BY ShortfallsStep, AnswersStep
<1> QED
  BY <1>1, <1>2, <1>3, <1>4, <1>5, <1>6, <1>7, <1>8

\* The inductive invariant holds throughout a campaign.
THEOREM Invariance == Spec => []IInv
<1>1. Init => IInv
  BY InitInvariant
<1>2. IInv /\ [Next]_vars => IInv'
  BY StepInvariant
<1> QED
  BY <1>1, <1>2, PTL DEF Spec

-----------------------------------------------------------------------------
(* What follows from it                                                    *)

\* The variables keep their types.
THEOREM TypeCorrect == Spec => []TypeOK
<1>1. IInv => TypeOK
  BY DEF IInv
<1> QED
  BY <1>1, Invariance, PTL

\* Every birth rests on enough observed scenarios, however the tool was made and
\* however often the process was killed.
THEOREM BirthsRecur == Spec => []ClaimsNeedRecurrence
<1>1. IInv => ClaimsNeedRecurrence
  BY DEF IInv
<1> QED
  BY <1>1, Invariance, PTL

\* While candidates are not repaired, every tool that is not flagged as diagnostic
\* rests on enough task families too.
THEOREM ClaimsAreDiverse ==
    ASSUME ~Repairing
    PROVE  Spec => []ClaimsNeedDiverseEvidence
<1>1. IInv => ClaimsNeedDiverseEvidence
  BY DEF IInv
<1> QED
  BY <1>1, Invariance, PTL

\* A kill does not make a campaign bear a served key's tool again.
THEOREM OneToolPerKey == Spec => []OneBirthPerKey
<1>1. IInv => OneBirthPerKey
  BY DEF IInv
<1> QED
  BY <1>1, Invariance, PTL

\* Registry and log differ by no more than one call per kill.
THEOREM CountsMatchLog == Spec => []ReuseCountsMatchLog
<1>1. IInv => ReuseCountsMatchLog
  <2> SUFFICES ASSUME IInv, ~frozen, NEW t \in ToolNames, registry[t] # NoEntry
               PROVE  /\ reuseRows[t] <= registry[t].reuse_count
                      /\ registry[t].reuse_count
                           <= reuseRows[t] + crashes + (IF pc = "logging" THEN 1 ELSE 0)
    BY DEF ReuseCountsMatchLog
  <2>1. /\ t \in Known(registry) /\ registry[t].reuse_count \in Nat
        /\ reuseRows[t] \in Nat /\ crashes \in Nat
    BY KnownEntry DEF IInv, TypeOK, Known, Entry
  <2> QED
    BY <2>1 DEF IInv, CallsAreCounted
<1> QED
  BY <1>1, Invariance, PTL

\* What a resume passes over is on disk.
THEOREM CompletionIsLast == Spec => []CompletedIsRecorded
<1>1. IInv => CompletedIsRecorded
  BY DEF IInv
<1> QED
  BY <1>1, Invariance, PTL

\* In a campaign that was not killed no recurring shortfall is dropped.
THEOREM NothingDropped == Spec => []RecurrenceIsAnswered
<1>1. IInv => RecurrenceIsAnswered
  <2> SUFFICES ASSUME IInv, crashes = 0, pc = "idle", NEW k \in GenerationAllowed,
                      Cardinality({s \in completed : k \in shortfalls[s]})
                          >= RecurrenceThreshold,
                      RecurrenceThreshold > 0
               PROVE  k \in generated \/ rejected[k] >= 1 \/ MaxRejections = 0
    BY DEF RecurrenceIsAnswered
  <2> DEFINE shown == {s \in completed : k \in shortfalls[s]}
  <2>1. k \in Keys /\ shown \subseteq ScenariosOf(seen, k)
    BY Constants DEF IInv, TypeOK, ShortfallsAreObserved, ScenariosOf
  <2>2. /\ IsFiniteSet(ScenariosOf(seen, k))
        /\ Cardinality(ScenariosOf(seen, k)) \in Nat
        /\ Cardinality(shown) \in Nat
    <3>1. ScenariosOf(seen, k) \subseteq Scenarios
      BY DEF ScenariosOf
    <3> QED
      BY <2>1, <3>1, ScenarioSets
  <2>3. Cardinality(shown) <= Cardinality(ScenariosOf(seen, k))
    BY <2>1, <2>2, FS_Subset
  <2>4. counts[k] >= RecurrenceThreshold
    BY <2>1, <2>2, <2>3, Constants DEF IInv, MemoryIsRecorded
  <2> QED
    BY <2>4 DEF IInv, RecurringIsAnswered
<1> QED
  BY <1>1, Invariance, PTL

\* A failing generator is asked a bounded number of times.
THEOREM GeneratorBudget == Spec => []RejectionBudget
<1>1. IInv => RejectionBudget
  <2> SUFFICES ASSUME IInv, NEW k \in Keys
               PROVE  rejectRows[k] <= MaxRejections * (crashes + 1)
    BY DEF RejectionBudget
  <2>1. /\ MaxRejections \in Nat /\ crashes \in Nat
        /\ rejected[k] \in Nat /\ rejectRows[k] \in Nat
        /\ rejected[k] <= MaxRejections
        /\ rejectRows[k] <= MaxRejections * crashes + rejected[k]
    BY Constants DEF IInv, TypeOK, RejectionsAreCounted
  <2>2. MaxRejections * (crashes + 1) = MaxRejections * crashes + MaxRejections
    BY <2>1
  <2>3. MaxRejections * crashes \in Nat
    BY <2>1
  <2> QED
    BY <2>1, <2>2, <2>3
<1> QED
  BY <1>1, Invariance, PTL

\* Code that was changed after its validation is shown only under a new version.
THEOREM TamperedToolsStay == Spec => TamperedStaysUnproved
<1>1. ASSUME IInv, [Next]_vars, NEW t \in ToolNames,
             registry[t] # NoEntry, registry[t].hash = "mismatch",
             t \in Proved(registry)'
      PROVE  registry'[t].version > registry[t].version
  <2>1. /\ TypeOK /\ Located /\ ToolsStayProved /\ registry \in Manifests
        /\ t \in Known(registry) /\ registry[t].version \in Nat
    BY <1>1, KnownEntry DEF IInv, TypeOK, Known, Entry
  <2>2. registry'[t].hash = "match"
    BY <1>1 DEF Proved, HasCurrentProof
  <2>3. ASSUME NEW n \in ToolNames, CallTool(n), ~frozen PROVE FALSE
    <3>1. n \in Known(registry) /\ registry' = RecordReuse(registry, n)
      BY <2>1, <2>3 DEF CallTool, ToolsStayProved, Proved, Known
    <3>2. registry'[t].hash = "mismatch"
      BY <1>1, <2>1, <3>1, RecordReuseKeeps
    <3> QED
      BY <2>2, <3>2
  <2>4. CASE Save
    <3>1. /\ registry' = Put(registry, tool, Accepted(diagnostic))
          /\ tool \in ToolNames /\ diagnostic \in BOOLEAN
      BY <2>1, <2>4 DEF Save, Located, TypeOK
    <3>2. t = tool
      BY <1>1, <2>1, <2>2, <3>1, PutKeeps
    <3>3. registry'[t].version = registry[t].version + 1
      BY <2>1, <3>1, <3>2, PutKeeps
    <3> QED
      BY <2>1, <3>3
  <2>5. ~UNCHANGED registry
    BY <1>1, <2>2
  <2> QED
    BY <1>1, <2>1, <2>3, <2>4, <2>5, RegistrySteps
<1>2. IInv /\ [Next]_vars =>
        [\A t \in ToolNames :
            /\ registry[t] # NoEntry /\ registry[t].hash = "mismatch"
            /\ t \in Proved(registry)'
            => registry'[t].version > registry[t].version]_vars
  BY <1>1
<1> QED
  BY <1>2, Invariance, PTL DEF Spec, TamperedStaysUnproved

\* A frozen campaign writes nothing into the registry.
THEOREM FrozenLeavesRegistry == Spec => FrozenRegistry
<1>1. IInv /\ [Next]_vars => [frozen => registry' = registry]_vars
  BY RegistrySteps DEF IInv
<1> QED
  BY <1>1, Invariance, PTL DEF Spec, FrozenRegistry
==============================================================================
