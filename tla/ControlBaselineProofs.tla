------------------------ MODULE ControlBaselineProofs ------------------------
(***************************************************************************)
(* Proofs about ControlBaseline: whose plays and whose answers a control   *)
(* arm is made of, for any manifest, any number of runs, of changes of the *)
(* model or the code, of failures and of kills.                            *)
(***************************************************************************)
EXTENDS ControlBaseline, FiniteSetTheorems, SequenceTheorems, WellFoundedInduction, TLAPS

-----------------------------------------------------------------------------
(* The inductive invariant                                                 *)

\* What the phase says of the run and of the loop's variables.
Located ==
    /\ main # "idle" => run >= 1 /\ Here.version = version
    /\ main = "planned" => Here.summary = "none" /\ rows = NoRows /\ Here.rows = NoRows
    /\ main = "control" => /\ environment.arm = "control" /\ cached # Scenarios
                           /\ Here.summary = "whole"
                           /\ unplayed \subseteq Scenarios \ cached
    /\ main = "candidate" => environment.arm = "candidate"
    /\ main \in {"control", "candidate"} => unplayed \subseteq environment.names
    /\ unindexed => main = "collecting" /\ collected < Len(Manifest)

\* Until the cached rows are put beside them, the rows of the run are those in its
\* control directory; a scenario has one as soon as it was played or carried over.
RowsAreReported ==
    /\ \/ main \in {"control", "collecting", "synthesising"}
       \/ main = "candidate" /\ Here.parallel
       => Here.rows = rows
    /\ main = "control" =>
          \A s \in Scenarios \ cached : s \in unplayed <=> rows[s] = NoRow
    /\ main \in {"collecting", "synthesising", "candidate"} =>
          \A s \in Scenarios \ cached : rows[s] # NoRow

\* A run resumes an earlier one, unless it plans with the cache; then it carries over
\* what that one played and carried over itself.
ResumesAreOrderly ==
    \A r \in 1..run :
        /\ runs[r].resume < r
        /\ runs[r].lineage \subseteq 1..(r - 1)
        /\ runs[r].resume # 0 /\ runs[r].cached = {} =>
              runs[r].lineage = {runs[r].resume} \union runs[runs[r].resume].lineage
        /\ runs[r].resume = 0 \/ runs[r].cached # {} => runs[r].lineage = {}

\* What a plan took for a baseline is one still: records are only added.
PlansStayValid ==
    \A r \in 1..run :
        /\ runs[r].parallel => runs[r].cached = {}
        /\ runs[r].cached # {} => Plans(runs[r].control)
        /\ \A s \in runs[r].cached, v \in {runs[r].version} : Eligible(s, v)

\* Where the rows of a run come from: its model and code and its plan, and those of the
\* runs it resumed, directly or through others.
Origin(r) ==
    [version |-> runs[r].version, plan |-> runs[r].cached,
     codes |-> {runs[q].version : q \in runs[r].lineage},
     plans |-> UNION {runs[q].cached : q \in runs[r].lineage}]

IsPlayOf(row, s, o) ==
    \E p \in 1..Len(played) :
        /\ row.plays = {p} /\ played[p].failed = row.failed
        /\ played[p].asked.scenario = s /\ played[p].asked.arm = "control"
        /\ o.codes \subseteq {o.version} => IsPlayBy(p, o.version)

IsBaselineOf(row, s, o) ==
    /\ row.failed = FALSE /\ row.plays # {}
    /\ Cardinality(row.records) >= MinCompatibleRuns
    /\ \A n \in row.records :
          n \in 1..Len(records) /\ records[n].valid /\ records[n].scenario = s
    /\ \A p \in row.plays : \E n \in row.records : p \in records[n].plays
    /\ s \notin o.plans =>
          s \in o.plan /\ \A n \in row.records : records[n].version = o.version

IsExplained(row, s, o) ==
    \/ row.source = "played" /\ IsPlayOf(row, s, o)
    \/ row.source = "cached" /\ IsBaselineOf(row, s, o)

\* Every row of a control directory has its origin: one play, by this run's model and
\* code unless a run of others was resumed; or records, which the plan asked for
\* unless a run that had asked for them was resumed.
RowsAreExplained ==
    \A r \in 1..run, s \in Scenarios :
        \A row \in {runs[r].rows[s]} \ {NoRow}, o \in {Origin(r)} : IsExplained(row, s, o)

\* The lines of the index name different records, and never the one that has just
\* been written.
IndexIsOfRecords ==
    /\ \A i \in 1..Len(index) : index[i] \in 1..Len(records)
    /\ \A i, j \in 1..Len(index) : index[i] = index[j] => i = j
    /\ unindexed => /\ records # <<>>
                    /\ \A i \in 1..Len(index) : index[i] # Len(records)

\* A valid record stands for plays of the control arm; for one, by the model and the
\* code of its label, if no other origin got into the run that wrote it.
StandsForPlays(record, o) ==
    /\ record.plays # {}
    /\ \A p \in record.plays : IsControlPlay(p, record.scenario)
    /\ record.scenario \notin o.plans =>
          \E p \in record.plays :
              record.plays = {p} /\ (o.codes \subseteq {o.version} => IsPlayBy(p, o.version))

\* A record is labelled with the run that wrote it.
IsLabelled(record, o) ==
    record.version = o.version /\ (record.valid => StandsForPlays(record, o))

RecordsStandForPlays ==
    \A n \in 1..Len(records) : \A record \in {records[n]} :
        record.run \in 1..run /\ \A o \in {Origin(record.run)} : IsLabelled(record, o)

\* An answer that is kept was given in the situation its key describes.
Fits(entry) ==
    LET context == entry.key.context
    IN  entry.answer = [scenario |-> context.scenario, arm |-> context.arm,
                        model |-> entry.key.model]

AnswersFitTheirKeys ==
    /\ \A d \in CacheDirs : \A entry \in answers[d] : Fits(entry)
    /\ \A entry \in legacy : Fits(entry)

VersionsAreCounted == \A c \in Changing : version[c] <= changes + 1

IInv == /\ TypeOK /\ VersionsAreCounted
        /\ Located /\ RowsAreReported
        /\ ResumesAreOrderly /\ PlansStayValid
        /\ RowsAreExplained /\ RecordsStandForPlays
        /\ ResumeKeepsFinishedPlays /\ ControlIsComplete
        /\ IndexIsOfRecords
        /\ AnswersFitTheirKeys /\ AnswersStayInTheirContext

-----------------------------------------------------------------------------
(* Constants, sets and sequences                                           *)

\* The assumptions about the constants, one by one.
LEMMA Constants ==
    /\ Len(Manifest) \in Nat /\ MinCompatibleRuns \in Nat \ {0}
    /\ NoRow \notin Row
    /\ MaxRuns \in Nat /\ MaxChanges \in Nat /\ MaxFailures \in Nat /\ MaxKills \in Nat
    /\ \A i \in 1..Len(Manifest) : Manifest[i] \in Scenarios
    /\ \A i, j \in 1..Len(Manifest) : Manifest[i] = Manifest[j] => i = j
  BY BaselineAssumption DEF Scenarios

\* A set of scenarios is finite.
LEMMA ScenarioSets ==
    ASSUME NEW S \in SUBSET Scenarios
    PROVE  IsFiniteSet(S) /\ Cardinality(S) \in Nat
<1> DEFINE f == [i \in 1..Len(Manifest) |-> Manifest[i]]
<1>1. f \in Surjection(1..Len(Manifest), Scenarios)
  BY DEF Surjection, Scenarios
<1>2. IsFiniteSet(1..Len(Manifest))
  BY Constants, FS_Interval
<1>3. IsFiniteSet(Scenarios)
  BY <1>1, <1>2, FS_Surjection
<1> QED
  BY <1>3, FS_Subset, FS_CardinalityType

\* There is a next scenario as long as one is unplayed.
LEMMA NextUpIsUnplayed ==
    ASSUME unplayed \subseteq Scenarios, unplayed # {}
    PROVE  NextUp \in unplayed
<1> DEFINE places == {i \in 1..Len(Manifest) : Manifest[i] \in unplayed}
<1>1. places \subseteq Nat /\ places # {}
  BY Constants DEF Scenarios
<1>2. PICK m \in places : \A i \in places : <<i, m>> \notin OpToRel(<, Nat)
  BY <1>1, WFMin, NatLessThanWellFounded, Zenon
<1>3. \A i \in places : m <= i
  <2>1. SUFFICES ASSUME NEW i \in places PROVE ~(i < m)
    BY <1>1
  <2> QED
    BY <1>1, <1>2, Zenon DEF OpToRel
<1>4. \A i, j \in 1..Len(Manifest) :
          Manifest[i] = Manifest[m] /\ Manifest[j] \in unplayed => i <= j
  BY <1>3, Constants
<1> QED
  BY <1>4 DEF NextUp

\* What is only ever added to keeps what it has.
Kept(old, new) ==
    /\ Len(old) <= Len(new)
    /\ \A n \in 1..Len(old) : new[n] = old[n]

LEMMA KeepsItself ==
    ASSUME NEW S, NEW q \in Seq(S) PROVE Kept(q, q)
  BY DEF Kept

LEMMA AppendKeeps ==
    ASSUME NEW S, NEW q \in Seq(S), NEW e \in S
    PROVE  /\ Append(q, e) \in Seq(S) /\ Kept(q, Append(q, e))
           /\ Len(Append(q, e)) = Len(q) + 1 /\ Append(q, e)[Len(q) + 1] = e
  BY DEF Kept

\* The records a lookup finds are finitely many.
LEMMA CompatibleIsFinite ==
    ASSUME TypeOK, IndexIsOfRecords, NEW s, NEW v
    PROVE  /\ Compatible(s, v) \subseteq 1..Len(records)
           /\ IsFiniteSet(Compatible(s, v)) /\ Cardinality(Compatible(s, v)) \in Nat
<1>1. Len(records) \in Nat
  BY DEF TypeOK
<1>2. Compatible(s, v) \subseteq 1..Len(records)
  BY DEF Compatible, IndexIsOfRecords
<1>3. IsFiniteSet(1..Len(records))
  BY <1>1, FS_Interval
<1>4. IsFiniteSet(Compatible(s, v))
  BY <1>2, <1>3, FS_Subset
<1> QED
  BY <1>2, <1>4, FS_CardinalityType

\* A baseline that a lookup finds is found by every later one.
LEMMA EligibleStays ==
    ASSUME TypeOK, IndexIsOfRecords, TypeOK', IndexIsOfRecords',
           Kept(records, records'), Kept(index, index'),
           NEW s, NEW v, Eligible(s, v)
    PROVE  Eligible(s, v)'
<1>1. Len(records) \in Nat /\ Len(records') \in Nat /\ Len(index) \in Nat /\ Len(index') \in Nat
  BY DEF TypeOK
<1>2. Compatible(s, v) \subseteq Compatible(s, v)'
  <2>1. SUFFICES ASSUME NEW n \in Compatible(s, v) PROVE n \in Compatible(s, v)'
    OBVIOUS
  <2>2. PICK i \in 1..Len(index) : n = index[i]
    BY DEF Compatible
  <2>3. n \in 1..Len(records) /\ i \in 1..Len(index') /\ index'[i] = n /\ records'[n] = records[n]
    BY <2>2, <1>1 DEF IndexIsOfRecords, Kept
  <2> QED
    BY <2>3, <1>1 DEF Compatible, Kept
<1>3. /\ Cardinality(Compatible(s, v)) \in Nat
      /\ IsFiniteSet(Compatible(s, v)') /\ Cardinality(Compatible(s, v)') \in Nat
  <2>1. Compatible(s, v)' \subseteq 1..Len(records')
    BY DEF Compatible, IndexIsOfRecords
  <2>2. IsFiniteSet(1..Len(records'))
    BY <1>1, FS_Interval
  <2>3. IsFiniteSet(Compatible(s, v)')
    BY <2>1, <2>2, FS_Subset
  <2>4. Cardinality(Compatible(s, v)') \in Nat
    BY <2>3, FS_CardinalityType
  <2> QED
    BY <2>3, <2>4, CompatibleIsFinite
<1>4. Cardinality(Compatible(s, v)) <= Cardinality(Compatible(s, v)')
  BY <1>2, <1>3, FS_Subset
<1> QED
  BY <1>3, <1>4, Constants DEF Eligible

-----------------------------------------------------------------------------
(* What later steps leave true of a run                                    *)

SameOptions(a, b) ==
    /\ a.control = b.control /\ a.version = b.version /\ a.resume = b.resume
    /\ a.parallel = b.parallel /\ a.cached = b.cached /\ a.lineage = b.lineage

\* The earlier runs that a run names.
LEMMA EarlierRuns ==
    ASSUME TypeOK, ResumesAreOrderly, NEW r \in 1..run
    PROVE  /\ runs[r] \in Run /\ r \in Nat
           /\ runs[r].resume # 0 => runs[r].resume \in 1..run
           /\ runs[r].lineage \subseteq 1..run
<1>1. runs[r] \in Run /\ run \in Nat
  BY ElementOfSeq DEF TypeOK, run
<1>2. runs[r].resume \in Nat /\ runs[r].resume < r /\ runs[r].lineage \subseteq 1..(r - 1)
  BY <1>1 DEF Run, ResumesAreOrderly
<1> HIDE DEF run
<1>3. r \in Nat /\ \A q \in 1..(r - 1) : q \in 1..run
  BY <1>1
<1> QED
  BY <1>1, <1>2, <1>3

\* The origin of a run's rows is what it was, once the run has its options.
LEMMA OriginsStay ==
    ASSUME TypeOK, ResumesAreOrderly, \A r \in 1..run : SameOptions(runs'[r], runs[r])
    PROVE  \A r \in 1..run : Origin(r)' = Origin(r)
<1>1. SUFFICES ASSUME NEW r \in 1..run PROVE Origin(r)' = Origin(r)
  OBVIOUS
<1>2. /\ runs'[r].version = runs[r].version /\ runs'[r].cached = runs[r].cached
      /\ runs'[r].lineage = runs[r].lineage
  BY DEF SameOptions
<1>3. \A q \in runs[r].lineage : /\ runs'[q].version = runs[q].version
                                 /\ runs'[q].cached = runs[q].cached
  BY EarlierRuns DEF SameOptions
<1>4. {runs'[q].version : q \in runs'[r].lineage} = {runs[q].version : q \in runs[r].lineage}
  BY <1>2, <1>3
<1>5. UNION {runs'[q].cached : q \in runs'[r].lineage} = UNION {runs[q].cached : q \in runs[r].lineage}
  BY <1>2, <1>3
<1> QED
  BY <1>2, <1>4, <1>5 DEF Origin

\* The plan of a run stays valid while its options are what they were.
LEMMA OptionsStay ==
    ASSUME TypeOK, IndexIsOfRecords, ResumesAreOrderly, PlansStayValid,
           TypeOK', IndexIsOfRecords', Kept(records, records'), Kept(index, index'),
           Len(runs') = Len(runs),
           \A r \in 1..run : SameOptions(runs'[r], runs[r])
    PROVE  ResumesAreOrderly' /\ PlansStayValid'
<1>1. run' = run /\ run \in Nat
  BY DEF TypeOK, run
<1>2. ResumesAreOrderly'
  <2>1. SUFFICES ASSUME NEW r \in 1..run
                 PROVE  /\ runs'[r].resume < r
                        /\ runs'[r].lineage \subseteq 1..(r - 1)
                        /\ runs'[r].resume # 0 /\ runs'[r].cached = {} =>
                              runs'[r].lineage = {runs'[r].resume} \union runs'[runs'[r].resume].lineage
                        /\ runs'[r].resume = 0 \/ runs'[r].cached # {} => runs'[r].lineage = {}
    BY <1>1 DEF ResumesAreOrderly
  <2> QED
    BY EarlierRuns DEF SameOptions, ResumesAreOrderly
<1>3. PlansStayValid'
  BY <1>1, EligibleStays DEF PlansStayValid, SameOptions
<1> QED
  BY <1>2, <1>3

\* A play that was recorded stays what it was, and so does what is said of it.
LEMMA PlaysStay ==
    ASSUME TypeOK, TypeOK', Kept(played, played'), Kept(records, records')
    PROVE  /\ \A row \in Row : \A s, o : IsExplained(row, s, o) => IsExplained(row, s, o)'
           /\ \A record \in Record : \A o : IsLabelled(record, o) => IsLabelled(record, o)'
<1>1. Len(played) \in Nat /\ Len(played') \in Nat /\ Len(records) \in Nat /\ Len(records') \in Nat
  BY DEF TypeOK
<1>2. \A p \in 1..Len(played) : p \in 1..Len(played') /\ played'[p] = played[p]
  BY <1>1 DEF Kept
<1>3. \A p \in Nat \ {0} : \A s : IsControlPlay(p, s) =>
          IsControlPlay(p, s)' /\ \A v : IsPlayBy(p, v) => IsPlayBy(p, v)'
  BY <1>1, <1>2 DEF IsControlPlay, IsPlayBy
<1>4. ASSUME NEW row \in Row, NEW s, NEW o, IsExplained(row, s, o)
      PROVE  IsExplained(row, s, o)'
  <2>1. IsPlayOf(row, s, o) => IsPlayOf(row, s, o)'
    BY <1>2 DEF IsPlayOf, IsPlayBy
  <2>2. \A n \in 1..Len(records) : n \in 1..Len(records') /\ records'[n] = records[n]
    BY <1>1 DEF Kept
  <2>3. IsBaselineOf(row, s, o) => IsBaselineOf(row, s, o)'
    BY <2>2 DEF IsBaselineOf
  <2> QED
    BY <1>4, <2>1, <2>3 DEF IsExplained
<1>5. ASSUME NEW record \in Record, NEW o, IsLabelled(record, o)
      PROVE  IsLabelled(record, o)'
  <2>1. StandsForPlays(record, o) => StandsForPlays(record, o)'
    BY <1>3 DEF StandsForPlays, Record
  <2> QED
    BY <1>5, <2>1 DEF IsLabelled
<1> QED
  BY <1>4, <1>5

\* Records are what they were while the runs that wrote them are.
LEMMA RecordsStay ==
    ASSUME TypeOK, TypeOK', RecordsStandForPlays, Kept(played, played'), records' = records,
           \A r \in 1..run : r \in 1..run' /\ Origin(r)' = Origin(r)
    PROVE  RecordsStandForPlays'
<1>1. Kept(records, records')
  BY KeepsItself DEF TypeOK
<1>2. SUFFICES ASSUME NEW n \in 1..Len(records), NEW record \in {records[n]}
               PROVE  record.run \in 1..run' /\ \A o \in {Origin(record.run)'} : IsLabelled(record, o)'
  BY DEF RecordsStandForPlays
<1>3. record \in Record
  BY ElementOfSeq DEF TypeOK
<1>4. record.run \in 1..run /\ \A o \in {Origin(record.run)} : IsLabelled(record, o)
  BY DEF RecordsStandForPlays
<1>5. \A o : IsLabelled(record, o) => IsLabelled(record, o)'
  BY <1>1, <1>3, PlaysStay
<1> QED
  BY <1>4, <1>5

\* Steps that leave the runs alone.
LEMMA RunsStay ==
    ASSUME TypeOK, IndexIsOfRecords, ResumesAreOrderly, PlansStayValid,
           ResumeKeepsFinishedPlays, RowsAreExplained, RecordsStandForPlays,
           TypeOK', IndexIsOfRecords',
           Kept(records, records'), Kept(index, index'), Kept(played, played'),
           runs' = runs
    PROVE  /\ ResumesAreOrderly' /\ PlansStayValid' /\ ResumeKeepsFinishedPlays'
           /\ RowsAreExplained'
           /\ records' = records => RecordsStandForPlays'
<1>1. run' = run /\ (\A r \in 1..run : runs[r] \in Run) /\ \A r : Origin(r)' = Origin(r)
  BY ElementOfSeq DEF TypeOK, run, Origin
<1>2. ResumesAreOrderly' /\ PlansStayValid'
  BY OptionsStay DEF SameOptions
<1>3. ResumeKeepsFinishedPlays'
  BY <1>1 DEF ResumeKeepsFinishedPlays
<1>4. RowsAreExplained'
  <2>1. \A r \in 1..run, s \in Scenarios : runs[r].rows[s] \in Row \union {NoRow}
    BY <1>1 DEF Run, Rows
  <2> QED
    BY <1>1, <2>1, PlaysStay DEF RowsAreExplained
<1>5. records' = records => RecordsStandForPlays'
  BY <1>1, RecordsStay
<1> QED
  BY <1>2, <1>3, <1>4, <1>5

\* Steps that change the control directory or the end of the last run.
LEMMA HereChanges ==
    ASSUME TypeOK, IndexIsOfRecords, ResumesAreOrderly, PlansStayValid,
           ResumeKeepsFinishedPlays, RowsAreExplained, RecordsStandForPlays,
           TypeOK', IndexIsOfRecords',
           records' = records, Kept(index, index'), Kept(played, played'),
           run >= 1, NEW e \in Run, SameOptions(e, Here), runs' = [runs EXCEPT ![run] = e],
           e.resume # 0 /\ e.cached = {} /\ e.summary # "none" =>
               \A s \in Scenarios : runs[e.resume].rows[s] # NoRow =>
                                        e.rows[s] = runs[e.resume].rows[s],
           \A s \in Scenarios :
               \A row \in {e.rows[s]} \ {NoRow}, o \in {Origin(run)} : IsExplained(row, s, o)'
    PROVE  /\ ResumesAreOrderly' /\ PlansStayValid' /\ ResumeKeepsFinishedPlays'
           /\ RowsAreExplained' /\ RecordsStandForPlays'
           /\ run' = run /\ Here' = e /\ Origin(run)' = Origin(run)
<1>1. /\ run' = run /\ run \in 1..run /\ run \in Nat
      /\ \A r \in 1..run : runs[r] \in Run
      /\ \A r \in 1..run : runs'[r] = IF r = run THEN e ELSE runs[r]
  <2>1. runs \in Seq(Run) /\ run = Len(runs) /\ run' = Len(runs')
    BY DEF TypeOK, run
  <2>2. run \in Nat /\ run \in 1..Len(runs)
    BY <2>1
  <2> DEFINE u == [runs EXCEPT ![run] = e]
  <2>3. /\ Len(u) = Len(runs)
        /\ \A r \in 1..Len(runs) : u[r] = IF r = run THEN e ELSE runs[r]
    <3> HIDE DEF run
    <3> QED
      BY <2>1, <2>2, ExceptSeq
  <2>4. u = runs'
    OBVIOUS
  <2>5. \A r \in 1..Len(runs) : runs[r] \in Run
    BY <2>1, ElementOfSeq, Zenon
  <2> HIDE DEF run, u
  <2> QED
    BY <2>1, <2>2, <2>3, <2>4, <2>5
<1>2. Len(runs') = Len(runs) /\ \A r \in 1..run : SameOptions(runs'[r], runs[r])
  BY <1>1 DEF SameOptions, Here, run
<1>3. Kept(records, records')
  BY KeepsItself DEF TypeOK
<1>4. ResumesAreOrderly' /\ PlansStayValid'
  BY <1>2, <1>3, OptionsStay
<1>5. Here' = e
  BY <1>1 DEF Here
<1>6. \A r \in 1..run : Origin(r)' = Origin(r)
  BY <1>2, OriginsStay
<1>7. RecordsStandForPlays'
  BY <1>1, <1>6, RecordsStay
<1>8. ResumeKeepsFinishedPlays'
  <2>1. SUFFICES ASSUME NEW r \in 1..run, runs'[r].resume # 0, runs'[r].cached = {},
                        runs'[r].summary # "none", NEW s \in Scenarios,
                        runs'[runs'[r].resume].rows[s] # NoRow
                 PROVE  runs'[r].rows[s] = runs'[runs'[r].resume].rows[s]
    BY <1>1 DEF ResumeKeepsFinishedPlays
  <2> DEFINE q == runs'[r].resume
  <2>2. q \in Nat
    BY <1>1 DEF Run
  <2>3. q \in 1..run /\ q # run /\ q = runs[r].resume
    BY <1>1, <1>2, <2>1, <2>2 DEF ResumesAreOrderly, SameOptions
  <2>4. runs'[q] = runs[q]
    BY <1>1, <2>3
  <2>5. CASE r = run
    BY <1>1, <2>1, <2>4, <2>5
  <2>6. CASE r # run
    BY <1>1, <2>1, <2>4, <2>6 DEF ResumeKeepsFinishedPlays
  <2> QED
    BY <2>5, <2>6
<1>9. RowsAreExplained'
  <2>1. \A r \in 1..run, s \in Scenarios : runs[r].rows[s] \in Row \union {NoRow}
    BY <1>1 DEF Run, Rows
  <2>2. SUFFICES ASSUME NEW r \in 1..run, NEW s \in Scenarios,
                        NEW row \in {runs'[r].rows[s]} \ {NoRow}, NEW o \in {Origin(r)}
                 PROVE  IsExplained(row, s, o)'
    BY <1>1, <1>6 DEF RowsAreExplained
  <2>3. CASE r = run
    BY <1>1, <2>3
  <2>4. CASE r # run
    BY <1>1, <1>3, <2>1, <2>4, PlaysStay DEF RowsAreExplained
  <2> QED
    BY <2>3, <2>4
<1> QED
  BY <1>1, <1>4, <1>5, <1>6, <1>7, <1>8, <1>9

-----------------------------------------------------------------------------
(* One play                                                                *)

\* An answer that is read was given in the situation of the key.
LEMMA ReadFits ==
    ASSUME NEW entries \in SUBSET Answered, NEW files \in SUBSET Answered,
           \A entry \in entries \union files : Fits(entry),
           NEW key \in [model : Nat, context : Environment], NEW mode
    PROVE  \/ Served(entries, files, mode, key) = NoAnswer
           \/ Served(entries, files, mode, key) =
                [scenario |-> key.context.scenario, arm |-> key.context.arm,
                 model |-> key.model]
<1> DEFINE found == IF EntriesFor(entries, key) # {} THEN EntriesFor(entries, key)
                                                     ELSE EntriesFor(files, key)
<1>1. \A e \in found : e \in entries \union files /\ e.key = key
  BY DEF EntriesFor
<1>2. found # {} => (CHOOSE e \in found : TRUE) \in found
  OBVIOUS
<1>3. Read(entries, files, key) = IF found = {} THEN NoAnswer ELSE (CHOOSE e \in found : TRUE).answer
  BY DEF Read
<1> HIDE DEF found
<1> QED
  BY <1>1, <1>2, <1>3 DEF Served, Fits

\* A play of an arm: its answer was given in its own situation, and so is what is
\* kept of it.
LEMMA PlayEffect ==
    ASSUME TypeOK, AnswersFitTheirKeys, AnswersStayInTheirContext,
           unplayed # {}, unplayed \subseteq environment.names,
           NEW arm \in {"control", "candidate"}, environment.arm = arm,
           NEW failed \in BOOLEAN, legacy' = legacy, Play(arm, failed)
    PROVE  /\ NextUp \in unplayed /\ unplayed' = unplayed \ {NextUp}
           /\ environment' \in Environment /\ environment'.arm = arm
           /\ environment'.names = environment.names
           /\ answers' \in [CacheDirs -> SUBSET Answered]
           /\ played' \in Seq(Played) /\ Kept(played, played')
           /\ Len(played') = Len(played) + 1 /\ Len(played) \in Nat
           /\ played'[Len(played')].asked =
                 [scenario |-> NextUp, arm |-> arm, model |-> version["model"]]
           /\ played'[Len(played')].version = version
           /\ played'[Len(played')].failed = failed
           /\ AnswersFitTheirKeys' /\ AnswersStayInTheirContext'
<1> DEFINE s == NextUp
           done == Cardinality(environment.names) - Cardinality(unplayed)
           entered == Enter(environment, s, done)
           key == Key(version["model"], entered)
           asked == [scenario |-> s, arm |-> arm, model |-> version["model"]]
           old == answers[CacheDir(arm)]
           served == Served(old, OldFiles(arm), Here.responses, key)
           given == IF served = NoAnswer THEN asked ELSE served
           entry == [key |-> key, answer |-> given]
           play == [asked |-> asked, version |-> version, failed |-> failed, answer |-> given]
<1>1. s \in unplayed /\ s \in Scenarios
  BY NextUpIsUnplayed DEF TypeOK
<1>2. done \in Nat
  <2>1. environment.names \in SUBSET Scenarios
    BY DEF TypeOK, Environment
  <2>2. IsFiniteSet(environment.names) /\ Cardinality(environment.names) \in Nat
        /\ Cardinality(unplayed) \in Nat
    BY <2>1, ScenarioSets DEF TypeOK
  <2>3. Cardinality(unplayed) <= Cardinality(environment.names)
    BY <2>2, FS_Subset
  <2> QED
    BY <2>2, <2>3
<1>3. /\ entered \in Environment /\ entered.arm = arm /\ entered.scenario = s
      /\ entered.names = environment.names
  BY <1>1, <1>2 DEF Enter, TypeOK, Environment
<1>4. version \in Version /\ version["model"] \in Nat
  BY Constants DEF TypeOK, Version, Changing
<1>5. key \in [model : Nat, context : Environment] /\ key.model = version["model"]
      /\ key.context = entered
  BY <1>3, <1>4 DEF Key
<1>6. asked \in Situation
  BY <1>1, <1>4 DEF Situation
<1>7. CacheDir(arm) \in CacheDirs /\ old \in SUBSET Answered
      /\ OldFiles(arm) \in SUBSET Answered /\ \A e \in old \union OldFiles(arm) : Fits(e)
  BY DEF CacheDir, CacheDirs, OldFiles, TypeOK, AnswersFitTheirKeys
<1>8. served = NoAnswer \/ served = asked
  <2> HIDE DEF key, old, entered, s
  <2> QED
    BY <1>3, <1>5, <1>7, ReadFits
<1>9. given = asked
  BY <1>8
<1>10. /\ environment' = entered /\ unplayed' = unplayed \ {s}
       /\ answers' = [answers EXCEPT ![CacheDir(arm)] =
                         AfterCall(old, Here.responses, key, served, asked)]
       /\ played' = Append(played, play)
  BY DEF Play
<1> HIDE DEF s, done, entered, key, asked, old, served, given, play
<1>11. entry \in Answered /\ Fits(entry)
  BY <1>3, <1>5, <1>6, <1>9 DEF Answered, Fits, asked
<1>12. AfterCall(old, Here.responses, key, served, asked) \subseteq old \union {entry}
  BY DEF AfterCall, Stored, given
<1> HIDE DEF entry
<1>13. /\ answers' \in [CacheDirs -> SUBSET Answered]
       /\ \A d \in CacheDirs : \A e \in answers'[d] : Fits(e)
  <2> DEFINE new == AfterCall(old, Here.responses, key, served, asked)
  <2>1. new \in SUBSET Answered /\ \A e \in new : Fits(e)
    BY <1>7, <1>11, <1>12
  <2>2. answers' = [answers EXCEPT ![CacheDir(arm)] = new]
    BY <1>10
  <2> HIDE DEF new
  <2>3. answers \in [CacheDirs -> SUBSET Answered]
    BY DEF TypeOK
  <2> QED
    BY <2>1, <2>2, <2>3, <1>7 DEF AnswersFitTheirKeys
<1>14. play \in Played /\ play.answer = play.asked
  BY <1>4, <1>6, <1>9 DEF Played, play
<1>15. /\ played' \in Seq(Played) /\ Kept(played, played')
       /\ Len(played') = Len(played) + 1 /\ Len(played) \in Nat
       /\ played'[Len(played')] = play
  BY <1>10, <1>14, AppendKeeps DEF TypeOK
<1>16. AnswersStayInTheirContext'
  BY <1>14, <1>15 DEF AnswersStayInTheirContext, Kept
<1>17. play.asked = [scenario |-> s, arm |-> arm, model |-> version["model"]]
       /\ play.version = version /\ play.failed = failed
  BY DEF play, asked
<1>18. AnswersFitTheirKeys'
  BY <1>13 DEF AnswersFitTheirKeys
<1> QED
  BY <1>1, <1>3, <1>10, <1>13, <1>15, <1>16, <1>17, <1>18 DEF s

-----------------------------------------------------------------------------
(* The steps between runs                                                  *)

\* Steps that leave the records alone.
LEMMA StoresStay ==
    ASSUME TypeOK, IndexIsOfRecords, TypeOK', records' = records, index' = index,
           unindexed' \in {unindexed, FALSE}
    PROVE  IndexIsOfRecords' /\ Kept(records, records') /\ Kept(index, index')
  BY KeepsItself DEF TypeOK, IndexIsOfRecords

\* The model or the code changes.
LEMMA ChangeKeeps == ASSUME IInv, Change PROVE IInv'
<1> USE DEF IInv
<1>1. TypeOK' /\ VersionsAreCounted'
  <2>1. PICK c \in Changing : version' = [version EXCEPT ![c] = @ + 1]
    BY DEF Change
  <2>2. version \in [Changing -> 1..(MaxChanges + 1)] /\ changes \in Nat /\ changes < MaxChanges
    BY Constants DEF TypeOK, Change
  <2>3. changes' = changes + 1 /\ changes' \in 0..MaxChanges
    BY <2>2, Constants DEF Change
  <2>4. \A d \in Changing : version'[d] \in 1..(MaxChanges + 1) /\ version'[d] <= changes' + 1
    BY <2>1, <2>2, <2>3, Constants DEF VersionsAreCounted
  <2>5. version' \in [Changing -> 1..(MaxChanges + 1)]
    BY <2>1, <2>2, <2>4
  <2> QED
    BY <2>3, <2>4, <2>5 DEF Change, TypeOK, VersionsAreCounted, stores, process, run
<1>2. /\ IndexIsOfRecords' /\ Kept(records, records') /\ Kept(index, index')
      /\ Kept(played, played') /\ records' = records
  BY <1>1, StoresStay, KeepsItself DEF Change, stores, process, TypeOK
<1>3. /\ ResumesAreOrderly' /\ PlansStayValid' /\ ResumeKeepsFinishedPlays'
      /\ RowsAreExplained' /\ RecordsStandForPlays'
  BY <1>1, <1>2, RunsStay DEF Change
<1>4. Located' /\ RowsAreReported' /\ ControlIsComplete'
  BY DEF Change, process, Located, RowsAreReported, ControlIsComplete
<1>5. AnswersFitTheirKeys' /\ AnswersStayInTheirContext'
  BY DEF Change, stores, AnswersFitTheirKeys, AnswersStayInTheirContext
<1> QED
  BY <1>1, <1>2, <1>3, <1>4, <1>5

\* A run is started: it resumes an earlier one or none, and its plan is valid.
LEMMA StartRunKeeps == ASSUME IInv, StartRun PROVE IInv'
<1> USE DEF IInv
<1>1. PICK control \in ControlCacheModes, responses \in ResponseCacheModes, parallel \in BOOLEAN :
      \E resume \in {0} \union Resumable :
        LET plan == IF Plans(control) THEN {s \in Scenarios : Eligible(s, version)} ELSE {}
            raises == Plans(control) /\ indexTorn
            blocked == control = "strict" /\ plan # Scenarios
        IN  /\ runs' = Append(runs,
                  [control |-> control, responses |-> responses, resume |-> resume,
                   parallel |-> parallel /\ plan = {}, version |-> version,
                   cached |-> plan, lineage |-> Lineage(resume, plan),
                   rows |-> NoRows, summary |-> "none",
                   end |-> IF raises \/ blocked THEN "aborted" ELSE "running"])
            /\ main' = IF raises \/ blocked THEN "idle" ELSE "planned"
  BY Zenon DEF StartRun
<1> DEFINE plan == IF Plans(control) THEN {s \in Scenarios : Eligible(s, version)} ELSE {}
           stops == (Plans(control) /\ indexTorn) \/ (control = "strict" /\ plan # Scenarios)
<1>2. PICK resume \in {0} \union Resumable :
        /\ runs' = Append(runs,
              [control |-> control, responses |-> responses, resume |-> resume,
               parallel |-> parallel /\ plan = {}, version |-> version,
               cached |-> plan, lineage |-> Lineage(resume, plan),
               rows |-> NoRows, summary |-> "none",
               end |-> IF stops THEN "aborted" ELSE "running"])
        /\ main' = IF stops THEN "idle" ELSE "planned"
  BY <1>1, Zenon
<1> DEFINE e == [control |-> control, responses |-> responses, resume |-> resume,
                 parallel |-> parallel /\ plan = {}, version |-> version,
                 cached |-> plan, lineage |-> Lineage(resume, plan),
                 rows |-> NoRows, summary |-> "none",
                 end |-> IF stops THEN "aborted" ELSE "running"]
<1>3. /\ plan \subseteq Scenarios /\ (plan # {} => Plans(control))
      /\ \A s \in plan : Eligible(s, version)
  OBVIOUS
<1> HIDE DEF plan, stops
<1>4. /\ run \in Nat /\ run < MaxRuns /\ main = "idle"
      /\ resume \in 0..run
  BY <1>2 DEF Resumable, TypeOK, run, StartRun
<1>5. /\ Lineage(resume, plan) \subseteq 1..run
      /\ resume # 0 /\ plan = {} =>
            Lineage(resume, plan) = {resume} \union runs[resume].lineage
      /\ resume = 0 \/ plan # {} => Lineage(resume, plan) = {}
  BY <1>4, EarlierRuns DEF Lineage
<1>6. e \in Run
  <2>1. version \in Version
    BY Constants DEF TypeOK, Version
  <2>2. NoRows \in Rows
    BY DEF NoRows, Rows
  <2>3. resume \in Nat
    BY <1>4
  <2> QED
    BY <1>3, <1>4, <1>5, <2>1, <2>2, <2>3 DEF Run
<1>7. /\ e.control = control /\ e.version = version /\ e.resume = resume /\ e.cached = plan
      /\ e.lineage = Lineage(resume, plan)
      /\ e.parallel = (parallel /\ plan = {}) /\ e.rows = NoRows /\ e.summary = "none"
      /\ runs' = Append(runs, e)
  BY <1>2
<1> HIDE DEF e
<1>8. /\ runs' \in Seq(Run) /\ run' = run + 1 /\ runs'[run + 1] = e /\ Here' = e
      /\ \A r \in 1..run : runs'[r] = runs[r]
  <2>1. /\ runs' \in Seq(Run) /\ Len(runs') = Len(runs) + 1 /\ runs'[Len(runs) + 1] = e
        /\ \A r \in 1..Len(runs) : runs'[r] = runs[r]
    BY <1>6, <1>7, AppendProperties DEF TypeOK
  <2> QED
    BY <2>1 DEF run, Here
<1>9. /\ records' = records /\ index' = index /\ indexTorn' = indexTorn /\ answers' = answers
      /\ legacy' = legacy /\ environment' = environment /\ version' = version
      /\ played' = played /\ changes' = changes /\ failures' = failures /\ kills' = kills
      /\ rows' = NoRows /\ unplayed' = {} /\ collected' = 0 /\ unindexed' = FALSE
      /\ main' \in {"idle", "planned"}
  BY <1>2 DEF StartRun, stores, history
<1>10. TypeOK' /\ VersionsAreCounted'
  <2>1. NoRows \in Rows /\ 0 \in 0..Len(Manifest) /\ main' \in Phases
    BY <1>9, Constants DEF NoRows, Rows, Phases
  <2>2. run' <= MaxRuns
    BY <1>4, <1>8, Constants
  <2> QED
    BY <1>8, <1>9, <2>1, <2>2 DEF TypeOK, VersionsAreCounted
<1>11. /\ IndexIsOfRecords' /\ Kept(records, records') /\ Kept(index, index')
       /\ Kept(played, played')
  BY <1>9, <1>10, StoresStay, KeepsItself DEF TypeOK
<1>12. \A r \in 1..run' : \/ r \in 1..run /\ runs'[r] = runs[r]
                          \/ r = run + 1 /\ runs'[r] = e
  BY <1>4, <1>8
<1>13. \A r \in 1..run : runs[r] \in Run
  BY ElementOfSeq DEF TypeOK, run
<1>14. \A r \in 1..run : runs[r].resume \in Nat /\ runs[r].resume < r
  BY <1>13 DEF Run, ResumesAreOrderly
<1>15. ResumesAreOrderly'
  <2>1. SUFFICES ASSUME NEW r \in 1..run'
                 PROVE  /\ runs'[r].resume < r
                        /\ runs'[r].lineage \subseteq 1..(r - 1)
                        /\ runs'[r].resume # 0 /\ runs'[r].cached = {} =>
                              runs'[r].lineage = {runs'[r].resume} \union runs'[runs'[r].resume].lineage
                        /\ runs'[r].resume = 0 \/ runs'[r].cached # {} => runs'[r].lineage = {}
    BY DEF ResumesAreOrderly
  <2>2. CASE r \in 1..run /\ runs'[r] = runs[r]
    BY <1>8, <2>2, EarlierRuns DEF ResumesAreOrderly
  <2>3. CASE r = run + 1 /\ runs'[r] = e
    <3>1. resume < r /\ r - 1 = run
      BY <1>4, <2>3
    <3>2. resume # 0 => runs'[resume] = runs[resume]
      BY <1>4, <1>8
    <3> QED
      BY <1>5, <1>7, <2>3, <3>1, <3>2
  <2> QED
    BY <1>12, <2>2, <2>3
<1>16. PlansStayValid'
  <2>1. \A s, v : Eligible(s, v) => Eligible(s, v)'
    BY <1>10, <1>11, EligibleStays
  <2>2. SUFFICES ASSUME NEW r \in 1..run'
                 PROVE  /\ runs'[r].parallel => runs'[r].cached = {}
                        /\ runs'[r].cached # {} => Plans(runs'[r].control)
                        /\ \A s \in runs'[r].cached, v \in {runs'[r].version} : Eligible(s, v)'
    BY DEF PlansStayValid
  <2>3. CASE r \in 1..run /\ runs'[r] = runs[r]
    BY <2>1, <2>3 DEF PlansStayValid
  <2>4. CASE r = run + 1 /\ runs'[r] = e
    BY <1>3, <1>7, <2>1, <2>4
  <2> QED
    BY <1>12, <2>3, <2>4
<1>17. ResumeKeepsFinishedPlays'
  <2>1. \A r \in 1..run : runs[r].resume # 0 => runs'[runs[r].resume] = runs[runs[r].resume]
    BY <1>4, <1>8, <1>14
  <2>2. SUFFICES ASSUME NEW r \in 1..run', runs'[r].resume # 0, runs'[r].cached = {},
                        runs'[r].summary # "none", NEW s \in Scenarios,
                        runs'[runs'[r].resume].rows[s] # NoRow
                 PROVE  runs'[r].rows[s] = runs'[runs'[r].resume].rows[s]
    BY DEF ResumeKeepsFinishedPlays
  <2>3. r \in 1..run /\ runs'[r] = runs[r]
    BY <1>7, <1>12, <2>2
  <2> QED
    BY <2>1, <2>2, <2>3 DEF ResumeKeepsFinishedPlays
<1>18. \A r \in 1..run : Origin(r)' = Origin(r)
  BY <1>8, OriginsStay DEF SameOptions
<1>19. RowsAreExplained'
  <2>1. \A r \in 1..run, s \in Scenarios : runs[r].rows[s] \in Row \union {NoRow}
    BY <1>13 DEF Run, Rows
  <2>2. SUFFICES ASSUME NEW r \in 1..run', NEW s \in Scenarios,
                        NEW row \in {runs'[r].rows[s]} \ {NoRow}, NEW o \in {Origin(r)'}
                 PROVE  IsExplained(row, s, o)'
    BY DEF RowsAreExplained
  <2>3. CASE r \in 1..run /\ runs'[r] = runs[r]
    BY <1>10, <1>11, <1>18, <2>1, <2>3, PlaysStay DEF RowsAreExplained
  <2>4. CASE r = run + 1 /\ runs'[r] = e
    BY <1>7, <2>2, <2>4 DEF NoRows
  <2> QED
    BY <1>12, <2>3, <2>4
<1>20. RecordsStandForPlays'
  BY <1>4, <1>8, <1>9, <1>10, <1>11, <1>18, RecordsStay
<1>21. Located' /\ RowsAreReported' /\ ControlIsComplete'
  BY <1>4, <1>7, <1>8, <1>9 DEF Located, RowsAreReported, ControlIsComplete
<1>22. AnswersFitTheirKeys' /\ AnswersStayInTheirContext'
  BY <1>9 DEF AnswersFitTheirKeys, AnswersStayInTheirContext
<1> QED
  BY <1>10, <1>11, <1>15, <1>16, <1>17, <1>19, <1>20, <1>21, <1>22

-----------------------------------------------------------------------------
(* The control arm                                                         *)

\* The last run and its rows, by their types.
LEMMA HereType ==
    ASSUME TypeOK, run >= 1
    PROVE  /\ run \in 1..run /\ Here \in Run
           /\ \A r \in 1..run : runs[r] \in Run
           /\ \A r \in 1..run, s \in Scenarios : runs[r].rows[s] \in Row \union {NoRow}
<1>1. run \in 1..run /\ \A r \in 1..run : runs[r] \in Run
  BY ElementOfSeq DEF TypeOK, run
<1> QED
  BY <1>1 DEF Here, Run, Rows

\* A row that is carried over is explained where it came from, and so it is here.
LEMMA CarriedIsExplained ==
    ASSUME TypeOK, ResumesAreOrderly, RowsAreExplained, run >= 1,
           cached = {}, NEW s \in Scenarios
    PROVE  \A row \in {Carried(Here.resume)[s]} \ {NoRow}, o \in {Origin(run)} :
               IsExplained(row, s, o)
<1> DEFINE q == Here.resume
<1>1. run \in 1..run /\ Here = runs[run]
  BY HereType DEF Here
<1>2. CASE q = 0
  BY <1>2 DEF Carried, NoRows
<1>3. CASE q # 0
  <2>1. q \in 1..run /\ Here.lineage = {q} \union runs[q].lineage
    BY <1>1, <1>3, EarlierRuns DEF ResumesAreOrderly, cached
  <2>2. SUFFICES ASSUME NEW row \in {runs[q].rows[s]} \ {NoRow}
                 PROVE  \A o \in {Origin(run)} : IsExplained(row, s, o)
    BY <1>3 DEF Carried
  <2>3. \A a \in {Origin(q)} : IsExplained(row, s, a)
    BY <2>1, <2>2 DEF RowsAreExplained
  <2>4. PICK a, o : a = Origin(q) /\ o = Origin(run)
    OBVIOUS
  <2>5. IsExplained(row, s, a)
    BY <2>3, <2>4
  <2>6. /\ o.plan = {} /\ a.plan \union a.plans = o.plans
        /\ {a.version} \union a.codes = o.codes
    <3>1. /\ a.version = runs[q].version /\ a.plan = runs[q].cached
          /\ a.codes = {runs[p].version : p \in runs[q].lineage}
          /\ a.plans = UNION {runs[p].cached : p \in runs[q].lineage}
      BY <2>4 DEF Origin
    <3>2. /\ o.plan = cached
          /\ o.codes = {runs[p].version : p \in Here.lineage}
          /\ o.plans = UNION {runs[p].cached : p \in Here.lineage}
      BY <1>1, <2>4 DEF Origin, cached
    <3> QED
      BY <2>1, <3>1, <3>2
  <2>7. ASSUME IsPlayOf(row, s, a) PROVE IsPlayOf(row, s, o)
    <3>1. o.codes \subseteq {o.version} => a.codes \subseteq {a.version} /\ a.version = o.version
      BY <2>6
    <3> QED
      BY <2>7, <3>1 DEF IsPlayOf
  <2>8. ASSUME IsBaselineOf(row, s, a) PROVE IsBaselineOf(row, s, o)
    <3>1. s \in o.plans
      BY <2>6, <2>8 DEF IsBaselineOf
    <3> QED
      BY <2>8, <3>1 DEF IsBaselineOf
  <2>9. IsExplained(row, s, o)
    BY <2>5, <2>7, <2>8 DEF IsExplained
  <2> QED
    BY <2>4, <2>9
<1> QED
  BY <1>2, <1>3

\* The control arm begins, is passed over, or cannot begin.
LEMMA BeginControlKeeps == ASSUME IInv, BeginControl PROVE IInv'
<1> USE DEF IInv
<1>1. /\ main = "planned" /\ run >= 1 /\ run \in 1..run /\ Here \in Run
      /\ Here.version = version /\ Here.summary = "none"
      /\ rows = NoRows /\ Here.rows = NoRows
      /\ \A r \in 1..run : runs[r] \in Run
  BY HereType DEF BeginControl, Located
<1>2. /\ records' = records /\ index' = index /\ indexTorn' = indexTorn /\ answers' = answers
      /\ legacy' = legacy /\ version' = version /\ played' = played /\ changes' = changes
      /\ failures' = failures /\ kills' = kills
      /\ collected' = collected /\ unindexed' = unindexed
  BY DEF BeginControl, stores, history
<1>3. unindexed = FALSE
  BY <1>1 DEF Located, TypeOK
<1>4. AnswersFitTheirKeys' /\ AnswersStayInTheirContext' /\ VersionsAreCounted'
  BY <1>2 DEF AnswersFitTheirKeys, AnswersStayInTheirContext, VersionsAreCounted
<1>5. Kept(played, played')
  BY <1>2, KeepsItself DEF TypeOK
<1>6. CASE cached = Scenarios
  <2>1. /\ main' = "synthesising" /\ runs' = runs /\ rows' = rows /\ unplayed' = unplayed
        /\ environment' = environment
    BY <1>6 DEF BeginControl
  <2>2. TypeOK'
    BY <1>2, <2>1 DEF TypeOK, Phases, run
  <2>3. /\ IndexIsOfRecords' /\ Kept(records, records') /\ Kept(index, index')
    BY <1>2, <1>5, <2>2, StoresStay
  <2>4. /\ ResumesAreOrderly' /\ PlansStayValid' /\ ResumeKeepsFinishedPlays'
        /\ RowsAreExplained' /\ RecordsStandForPlays'
    BY <1>2, <1>5, <2>1, <2>2, <2>3, RunsStay
  <2>5. run' = run /\ Here' = Here /\ cached' = cached
    BY <2>1 DEF run, Here, cached
  <2>6. Located' /\ RowsAreReported' /\ ControlIsComplete'
    BY <1>1, <1>2, <1>3, <1>6, <2>1, <2>5 DEF Located, RowsAreReported, ControlIsComplete
  <2> QED
    BY <1>4, <2>2, <2>3, <2>4, <2>6
<1> DEFINE from == ResumesFrom
<1>7. CASE cached # Scenarios /\ from # 0 /\ runs[from].summary = "torn"
  <2>1. /\ runs' = [runs EXCEPT ![run].end = "aborted"] /\ main' = "idle"
        /\ rows' = rows /\ unplayed' = unplayed /\ environment' = environment
    BY <1>7 DEF BeginControl, End
  <2> DEFINE e == [Here EXCEPT !.end = "aborted"]
  <2>2. e \in Run /\ SameOptions(e, Here) /\ e.summary = "none" /\ e.rows = NoRows
    BY <1>1 DEF SameOptions, Run
  <2>3. runs' = [runs EXCEPT ![run] = e]
    BY <2>1 DEF Here
  <2> HIDE DEF e
  <2>4. TypeOK'
    <3>1. runs' \in Seq(Run) /\ run' = run
      BY <1>1, <2>2, <2>3, ExceptSeq DEF TypeOK, run
    <3> QED
      BY <1>2, <2>1, <3>1 DEF TypeOK, Phases
  <2>5. /\ IndexIsOfRecords' /\ Kept(records, records') /\ Kept(index, index')
    BY <1>2, <1>5, <2>4, StoresStay
  <2>6. /\ ResumesAreOrderly' /\ PlansStayValid' /\ ResumeKeepsFinishedPlays'
        /\ RowsAreExplained' /\ RecordsStandForPlays'
    BY <1>1, <1>2, <1>5, <2>2, <2>3, <2>4, <2>5, HereChanges DEF NoRows
  <2>7. Located' /\ RowsAreReported' /\ ControlIsComplete'
    BY <1>2, <1>3, <2>1 DEF Located, RowsAreReported, ControlIsComplete
  <2> QED
    BY <1>4, <2>4, <2>5, <2>6, <2>7
<1>8. CASE cached # Scenarios /\ ~(from # 0 /\ runs[from].summary = "torn")
  <2>1. /\ rows' = Carried(from)
        /\ unplayed' = {s \in Scenarios \ cached : Carried(from)[s] = NoRow}
        /\ runs' = [runs EXCEPT ![run].rows = rows', ![run].summary = "whole"]
        /\ environment' = Configure("control", Scenarios \ cached, Here.parallel)
        /\ main' = "control"
    BY <1>8 DEF BeginControl
  <2> DEFINE e == [Here EXCEPT !.rows = Carried(from), !.summary = "whole"]
  <2>2. Carried(from) \in Rows
    <3>1. NoRows \in Rows
      BY DEF NoRows, Rows
    <3>2. from # 0 => from \in 1..run
      BY <1>1, EarlierRuns DEF ResumesFrom, Here
    <3> QED
      BY <1>1, <3>1, <3>2 DEF Carried, Run
  <2>3. /\ e \in Run /\ SameOptions(e, Here) /\ e.rows = Carried(from)
        /\ e.summary = "whole"
        /\ e.cached = cached /\ e.version = Here.version /\ e.resume = Here.resume
    BY <1>1, <2>2 DEF SameOptions, Run, cached
  <2>4. runs' = [runs EXCEPT ![run] = e]
    BY <2>1 DEF Here
  <2> HIDE DEF e
  <2>5. TypeOK'
    <3>1. runs' \in Seq(Run) /\ run' = run
      BY <1>1, <2>3, <2>4, ExceptSeq DEF TypeOK, run
    <3>2. environment' \in Environment
      BY <1>1, <2>1 DEF Configure, Environment, Run
    <3> QED
      BY <1>2, <2>1, <2>2, <3>1, <3>2 DEF TypeOK, Phases
  <2>6. /\ IndexIsOfRecords' /\ Kept(records, records') /\ Kept(index, index')
    BY <1>2, <1>5, <2>5, StoresStay
  <2>7. e.resume # 0 /\ e.cached = {} =>
           \A s \in Scenarios : runs[e.resume].rows[s] # NoRow =>
                                    e.rows[s] = runs[e.resume].rows[s]
    BY <2>3 DEF Carried, ResumesFrom
  <2>8. ASSUME NEW s \in Scenarios
        PROVE  \A row \in {e.rows[s]} \ {NoRow}, o \in {Origin(run)} : IsExplained(row, s, o)'
    <3>1. SUFFICES ASSUME NEW row \in {e.rows[s]} \ {NoRow}, NEW o \in {Origin(run)}
                   PROVE  IsExplained(row, s, o)'
      OBVIOUS
    <3>2. row \in Row
      BY <2>2, <2>3 DEF Rows
    <3>3. cached = {} /\ from = Here.resume
      BY <2>3 DEF Carried, NoRows, ResumesFrom
    <3>4. IsExplained(row, s, o)
      BY <1>1, <2>3, <3>3, CarriedIsExplained
    <3> QED
      BY <1>5, <2>5, <2>6, <3>2, <3>4, PlaysStay
  <2>9. /\ ResumesAreOrderly' /\ PlansStayValid' /\ ResumeKeepsFinishedPlays'
        /\ RowsAreExplained' /\ RecordsStandForPlays' /\ run' = run /\ Here' = e
    BY <1>1, <1>2, <1>5, <2>3, <2>4, <2>5, <2>6, <2>7, <2>8, HereChanges
  <2>10. cached' = cached
    BY <2>3, <2>9 DEF cached
  <2>11. environment'.arm = "control" /\ environment'.names = Scenarios \ cached
    BY <2>1 DEF Configure
  <2>12. Located'
    BY <1>1, <1>2, <1>3, <1>8, <2>1, <2>3, <2>9, <2>10, <2>11 DEF Located
  <2>13. RowsAreReported' /\ ControlIsComplete'
    BY <2>1, <2>3, <2>9, <2>10 DEF RowsAreReported, ControlIsComplete
  <2> QED
    BY <1>4, <2>5, <2>6, <2>9, <2>12, <2>13
<1> QED
  BY <1>6, <1>7, <1>8

\* A play of the control arm, its row and the live summary.
LEMMA PlayControlKeeps == ASSUME IInv, PlayControl PROVE IInv'
<1> USE DEF IInv
<1>1. /\ main = "control" /\ run >= 1 /\ run \in 1..run /\ Here \in Run
      /\ Here.version = version /\ Here.rows = rows /\ rows \in Rows
      /\ unplayed # {} /\ unplayed \subseteq Scenarios \ cached
      /\ unplayed \subseteq environment.names /\ environment.arm = "control"
      /\ cached # Scenarios /\ Here.summary = "whole"
      /\ \A s \in Scenarios \ cached : s \in unplayed <=> rows[s] = NoRow
      /\ unindexed = FALSE
  BY HereType DEF PlayControl, Located, RowsAreReported, TypeOK
<1>2. PICK failed \in BOOLEAN :
        /\ failed => failures < MaxFailures
        /\ failures' = IF failed THEN failures + 1 ELSE failures
        /\ Play("control", failed)
        /\ rows' = [rows EXCEPT ![NextUp] =
               [source |-> "played", failed |-> failed, records |-> {},
                plays |-> {Len(played')}]]
  BY DEF PlayControl
<1>3. /\ records' = records /\ index' = index /\ indexTorn' = indexTorn
      /\ legacy' = legacy /\ main' = main /\ version' = version /\ changes' = changes
      /\ kills' = kills /\ collected' = collected /\ unindexed' = unindexed
      /\ runs' = [runs EXCEPT ![run].rows = rows']
  BY DEF PlayControl
<1> DEFINE s0 == NextUp
           n == Len(played')
           row0 == [source |-> "played", failed |-> failed, records |-> {}, plays |-> {n}]
           e == [Here EXCEPT !.rows = rows']
<1>4. /\ s0 \in unplayed /\ unplayed' = unplayed \ {s0}
      /\ environment' \in Environment /\ environment'.arm = "control"
      /\ environment'.names = environment.names
      /\ answers' \in [CacheDirs -> SUBSET Answered]
      /\ played' \in Seq(Played) /\ Kept(played, played')
      /\ n = Len(played) + 1 /\ Len(played) \in Nat
      /\ played'[n].asked = [scenario |-> s0, arm |-> "control", model |-> version["model"]]
      /\ played'[n].version = version
      /\ played'[n].failed = failed
      /\ AnswersFitTheirKeys' /\ AnswersStayInTheirContext'
  BY <1>1, <1>2, <1>3, PlayEffect
<1>5. n \in Nat \ {0} /\ n \in 1..Len(played')
  BY <1>4
<1>6. row0 \in Row /\ row0 # NoRow /\ row0.source = "played" /\ row0.plays = {n}
      /\ row0.failed = failed
  BY <1>5, Constants DEF Row
<1>7. rows' = [rows EXCEPT ![s0] = row0]
  BY <1>2
<1> HIDE DEF s0, n, row0
<1>8. rows' \in Rows /\ rows'[s0] = row0 /\ \A s \in Scenarios \ {s0} : rows'[s] = rows[s]
  BY <1>1, <1>4, <1>6, <1>7 DEF Rows, TypeOK
<1>9. /\ e \in Run /\ SameOptions(e, Here) /\ e.rows = rows' /\ e.cached = cached
      /\ e.version = version /\ e.resume = Here.resume /\ e.summary = Here.summary
      /\ runs' = [runs EXCEPT ![run] = e]
  BY <1>1, <1>3, <1>8 DEF SameOptions, Run, cached, Here
<1> HIDE DEF e
<1>10. TypeOK' /\ VersionsAreCounted'
  <2>1. runs' \in Seq(Run) /\ run' = run
    BY <1>1, <1>9, ExceptSeq DEF TypeOK, run
  <2>2. failures' \in 0..MaxFailures
    BY <1>2, Constants DEF TypeOK
  <2> QED
    BY <1>3, <1>4, <1>8, <2>1, <2>2 DEF TypeOK, VersionsAreCounted
<1>11. /\ IndexIsOfRecords' /\ Kept(records, records') /\ Kept(index, index')
  BY <1>3, <1>4, <1>10, StoresStay
<1>12. e.resume # 0 /\ e.cached = {} /\ e.summary # "none" =>
           \A s \in Scenarios : runs[e.resume].rows[s] # NoRow =>
                                    e.rows[s] = runs[e.resume].rows[s]
  <2>1. SUFFICES ASSUME e.resume # 0, e.cached = {}, e.summary # "none",
                        NEW s \in Scenarios, runs[e.resume].rows[s] # NoRow
                 PROVE  e.rows[s] = runs[e.resume].rows[s]
    OBVIOUS
  <2>2. Here.rows[s] = runs[e.resume].rows[s]
    BY <1>1, <1>9, <2>1 DEF ResumeKeepsFinishedPlays, Here, cached
  <2>3. s # s0
    BY <1>1, <1>4, <1>9, <2>1, <2>2
  <2> QED
    BY <1>1, <1>8, <1>9, <2>2, <2>3
<1>13. ASSUME NEW s \in Scenarios
       PROVE  \A row \in {e.rows[s]} \ {NoRow}, o \in {Origin(run)} : IsExplained(row, s, o)'
  <2>1. SUFFICES ASSUME NEW row \in {e.rows[s]} \ {NoRow}, NEW o \in {Origin(run)}
                 PROVE  IsExplained(row, s, o)'
    OBVIOUS
  <2>2. CASE s = s0
    <3>1. row = row0 /\ o.version = version
      BY <1>1, <1>8, <1>9, <2>2 DEF Origin, Here
    <3>2. IsPlayOf(row, s, o)'
      BY <1>4, <1>5, <1>6, <2>2, <3>1 DEF IsPlayOf, IsPlayBy
    <3> QED
      BY <1>6, <3>1, <3>2 DEF IsExplained
  <2>3. CASE s # s0
    <3>1. row = Here.rows[s] /\ row # NoRow /\ row \in Row
      BY <1>1, <1>8, <1>9, <2>3 DEF Rows
    <3>2. IsExplained(row, s, o)
      BY <1>1, <3>1 DEF RowsAreExplained, Here
    <3> QED
      BY <1>4, <1>10, <1>11, <3>1, <3>2, PlaysStay
  <2> QED
    BY <2>2, <2>3
<1>14. /\ ResumesAreOrderly' /\ PlansStayValid' /\ ResumeKeepsFinishedPlays'
       /\ RowsAreExplained' /\ RecordsStandForPlays' /\ run' = run /\ Here' = e
  BY <1>1, <1>3, <1>4, <1>9, <1>10, <1>11, <1>12, <1>13, HereChanges
<1>15. cached' = cached
  BY <1>9, <1>14 DEF cached
<1>16. Located'
  BY <1>1, <1>3, <1>4, <1>9, <1>14, <1>15 DEF Located
<1>17. RowsAreReported' /\ ControlIsComplete'
  BY <1>1, <1>3, <1>4, <1>6, <1>8, <1>9, <1>14, <1>15 DEF RowsAreReported, ControlIsComplete
<1> QED
  BY <1>4, <1>10, <1>11, <1>14, <1>16, <1>17

\* A step that only moves on, from one phase to the next.
LEMMA MovesOn ==
    ASSUME IInv, stores' = stores, runs' = runs, rows' = rows, history' = history,
           collected' = collected, unindexed' = unindexed, main' \in Phases,
           environment' \in Environment, unplayed' \subseteq Scenarios,
           Located', RowsAreReported', ControlIsComplete'
    PROVE  IInv'
<1> USE DEF IInv
<1>1. TypeOK' /\ VersionsAreCounted'
  BY DEF stores, history, TypeOK, run, VersionsAreCounted
<1>2. /\ IndexIsOfRecords' /\ Kept(records, records') /\ Kept(index, index')
      /\ Kept(played, played') /\ records' = records
  BY <1>1, StoresStay, KeepsItself DEF stores, history, TypeOK
<1>3. /\ ResumesAreOrderly' /\ PlansStayValid' /\ ResumeKeepsFinishedPlays'
      /\ RowsAreExplained' /\ RecordsStandForPlays'
  BY <1>1, <1>2, RunsStay
<1>4. AnswersFitTheirKeys' /\ AnswersStayInTheirContext'
  BY DEF stores, history, AnswersFitTheirKeys, AnswersStayInTheirContext
<1> QED
  BY <1>1, <1>2, <1>3, <1>4

\* The arm that begins is the candidate's.
LEMMA CandidateBegins ==
    ASSUME BeginCandidate, run >= 1, TypeOK
    PROVE  /\ environment' \in Environment /\ environment'.arm = "candidate"
           /\ environment'.names = Scenarios /\ unplayed' = Scenarios
  BY HereType DEF BeginCandidate, Configure, Environment, Run

\* A scenario that neither this run nor one it resumed took from the cache was played.
LEMMA UnplannedIsPlayed ==
    ASSUME TypeOK, RowsAreExplained, run >= 1, NEW s \in Scenarios \ cached,
           Here.rows[s] # NoRow, PlayedThroughout(run, s)
    PROVE  Here.rows[s].source = "played"
<1>1. \A row \in {Here.rows[s]} \ {NoRow}, o \in {Origin(run)} : IsExplained(row, s, o)
  BY HereType DEF RowsAreExplained, Here
<1>2. PICK row, o : row = Here.rows[s] /\ o = Origin(run)
  OBVIOUS
<1>3. IsExplained(row, s, o)
  BY <1>1, <1>2
<1>4. s \notin o.plan /\ s \notin o.plans
  BY <1>2 DEF Origin, PlayedThroughout, cached, Here
<1> QED
  BY <1>2, <1>3, <1>4 DEF IsExplained, IsBaselineOf

\* The control arm ends; parallel arms are joined before anything is recorded.
LEMMA FinishControlKeeps == ASSUME IInv, FinishControl PROVE IInv'
<1> USE DEF IInv
<1>1. /\ main = "control" /\ unplayed = {} /\ run >= 1 /\ run \in 1..run /\ Here \in Run
      /\ unindexed = FALSE /\ Here.rows = rows
      /\ \A s \in Scenarios \ cached : rows[s] # NoRow
  BY HereType DEF FinishControl, Located, RowsAreReported, TypeOK
<1>2. /\ stores' = stores /\ runs' = runs /\ rows' = rows /\ history' = history
      /\ collected' = collected /\ unindexed' = unindexed
  BY DEF FinishControl
<1>3. run' = run /\ Here' = Here /\ cached' = cached /\ version' = version
  BY <1>2 DEF run, Here, cached, history
<1>4. CASE Here.parallel
  <2>1. main' = "candidate" /\ BeginCandidate
    BY <1>4 DEF FinishControl
  <2>2. /\ environment' \in Environment /\ environment'.arm = "candidate"
        /\ environment'.names = Scenarios /\ unplayed' = Scenarios
    BY <1>1, <2>1, CandidateBegins
  <2>3. cached = {}
    BY <1>1, <1>4 DEF PlansStayValid, Here, cached
  <2>4. Located' /\ RowsAreReported'
    BY <1>1, <1>2, <1>3, <2>1, <2>2, <2>3 DEF Located, RowsAreReported
  <2>5. ControlIsComplete'
    <3>1. \A s \in Scenarios : PlayedThroughout(run, s)' <=> PlayedThroughout(run, s)
      BY <1>2, <1>3 DEF PlayedThroughout
    <3> QED
      BY <1>1, <1>3, <2>3, <3>1, UnplannedIsPlayed DEF ControlIsComplete
  <2> QED
    BY <1>2, <2>1, <2>2, <2>4, <2>5, MovesOn DEF Phases
<1>5. CASE ~Here.parallel
  <2>1. /\ main' \in {"collecting", "synthesising"}
        /\ environment' = environment /\ unplayed' = unplayed
    BY <1>5 DEF FinishControl
  <2>2. Located' /\ RowsAreReported' /\ ControlIsComplete'
    BY <1>1, <1>2, <1>3, <2>1 DEF Located, RowsAreReported, ControlIsComplete
  <2>3. main' \in Phases /\ environment' \in Environment /\ unplayed' \subseteq Scenarios
    BY <2>1 DEF Phases, TypeOK
  <2> QED
    BY <1>2, <2>2, <2>3, MovesOn
<1> QED
  BY <1>4, <1>5

-----------------------------------------------------------------------------
(* The records                                                             *)

\* What a valid record stands for are plays of the control arm.
LEMMA PlaysOfRecords ==
    ASSUME RecordsStandForPlays
    PROVE  \A n \in 1..Len(records) : records[n].valid =>
              /\ records[n].plays # {}
              /\ \A p \in records[n].plays : IsControlPlay(p, records[n].scenario)
<1>1. SUFFICES ASSUME NEW n \in 1..Len(records), NEW record, record = records[n], record.valid
               PROVE  /\ record.plays # {}
                      /\ \A p \in record.plays : IsControlPlay(p, record.scenario)
  OBVIOUS
<1>2. PICK o : o = Origin(record.run)
  OBVIOUS
<1>3. IsLabelled(record, o)
  BY <1>1, <1>2 DEF RecordsStandForPlays
<1> QED
  BY <1>1, <1>3 DEF IsLabelled, StandsForPlays

\* The row of a scenario that was not planned for reports a play, or records that a
\* resumed run had looked up: a valid record of it stands for these.
LEMMA RecordOfRow ==
    ASSUME TypeOK, RowsAreExplained, RecordsStandForPlays, run >= 1,
           Here.rows = rows, Here.version = version,
           NEW s \in Scenarios \ cached, rows[s] # NoRow
    PROVE  \A record \in {RecordOf(s, rows[s], version)}, o \in {Origin(run)} :
              record \in Record /\ record.run = run /\ IsLabelled(record, o)
<1>1. PICK record, row, o : /\ record = RecordOf(s, rows[s], version)
                            /\ row = rows[s] /\ o = Origin(run)
  OBVIOUS
<1>2. row \in Row /\ row # NoRow /\ run \in 1..run /\ run \in Nat
  BY <1>1, HereType DEF TypeOK, Rows, run
<1>3. version \in Version
  BY Constants DEF TypeOK, Version
<1>4. record = [scenario |-> s, version |-> version, valid |-> ~row.failed, run |-> run,
                plays |-> row.plays]
  BY <1>1 DEF RecordOf
<1>5. record \in Record
  BY <1>2, <1>3, <1>4 DEF Record, Row
<1>6. /\ record.scenario = s /\ record.version = version /\ record.run = run
      /\ record.plays = row.plays /\ (record.valid => ~row.failed)
  BY <1>4
<1>7. o.version = version /\ s \notin o.plan
  BY <1>1 DEF Origin, Here, cached
<1>8. IsExplained(row, s, o)
  BY <1>1, <1>2 DEF RowsAreExplained, Here
<1>9. ASSUME record.valid PROVE StandsForPlays(record, o)
  <2>1. CASE IsPlayOf(row, s, o)
    <3>1. PICK p \in 1..Len(played) :
              /\ row.plays = {p} /\ played[p].failed = row.failed
              /\ played[p].asked.scenario = s /\ played[p].asked.arm = "control"
              /\ o.codes \subseteq {o.version} => IsPlayBy(p, o.version)
      BY <2>1 DEF IsPlayOf
    <3>2. IsControlPlay(p, s)
      BY <1>6, <1>9, <3>1 DEF IsControlPlay
    <3> QED
      BY <1>6, <3>1, <3>2 DEF StandsForPlays
  <2>2. CASE IsBaselineOf(row, s, o)
    <3>1. s \in o.plans /\ record.plays # {}
      BY <1>6, <1>7, <2>2 DEF IsBaselineOf
    <3>2. \A p \in row.plays : IsControlPlay(p, s)
      BY <2>2, PlaysOfRecords DEF IsBaselineOf
    <3> QED
      BY <1>6, <3>1, <3>2 DEF StandsForPlays
  <2> QED
    BY <1>8, <2>1, <2>2 DEF IsExplained
<1>10. IsLabelled(record, o)
  BY <1>6, <1>7, <1>9 DEF IsLabelled
<1> QED
  BY <1>1, <1>5, <1>6, <1>10

\* A scenario is passed over, or its record is written.
LEMMA WriteRecordKeeps == ASSUME IInv, WriteRecord PROVE IInv'
<1> USE DEF IInv
<1>1. /\ main = "collecting" /\ collected < Len(Manifest) /\ ~unindexed /\ run >= 1
      /\ collected \in Nat /\ Here.version = version /\ Here.rows = rows
      /\ \A s \in Scenarios \ cached : rows[s] # NoRow
  BY DEF WriteRecord, Located, RowsAreReported, TypeOK
<1>2. /\ index' = index /\ indexTorn' = indexTorn /\ answers' = answers /\ legacy' = legacy
      /\ runs' = runs /\ main' = main /\ rows' = rows /\ unplayed' = unplayed
      /\ environment' = environment /\ version' = version /\ played' = played
      /\ changes' = changes /\ failures' = failures /\ kills' = kills
  BY DEF WriteRecord, history
<1>3. run' = run /\ Here' = Here /\ cached' = cached
  BY <1>2 DEF run, Here, cached
<1> DEFINE s == Manifest[collected + 1]
<1>4. s \in Scenarios
  BY <1>1, Constants
<1>5. \/ s \in cached /\ collected' = collected + 1 /\ records' = records /\ unindexed' = unindexed
      \/ /\ s \notin cached /\ records' = Append(records, RecordOf(s, rows[s], version))
         /\ unindexed' = TRUE /\ collected' = collected
  BY DEF WriteRecord
<1> HIDE DEF s
<1>6. /\ records' \in Seq(Record) /\ Kept(records, records') /\ Len(records) \in Nat
      /\ \/ records' = records /\ unindexed' = unindexed
         \/ /\ Len(records') = Len(records) + 1 /\ unindexed' = TRUE
            /\ \A record \in {records'[Len(records')]}, o \in {Origin(run)} :
                  record.run = run /\ IsLabelled(record, o)
  <2>1. CASE s \in cached
    BY <1>5, <2>1, KeepsItself DEF TypeOK
  <2>2. CASE s \notin cached
    <3> DEFINE record == RecordOf(s, rows[s], version)
    <3>1. \A r \in {record}, o \in {Origin(run)} :
              r \in Record /\ r.run = run /\ IsLabelled(r, o)
      BY <1>1, <1>4, <2>2, RecordOfRow
    <3>2. records' = Append(records, record) /\ unindexed' = TRUE
      BY <1>5, <2>2
    <3> HIDE DEF record
    <3>3. /\ records' \in Seq(Record) /\ Kept(records, records') /\ Len(records) \in Nat
          /\ Len(records') = Len(records) + 1 /\ records'[Len(records')] = record
      BY <3>1, <3>2, AppendKeeps DEF TypeOK
    <3> QED
      BY <3>1, <3>2, <3>3
  <2> QED
    BY <2>1, <2>2
<1>7. TypeOK' /\ VersionsAreCounted'
  <2>1. collected' \in 0..Len(Manifest) /\ unindexed' \in BOOLEAN
    <3>1. collected' \in {collected, collected + 1}
      BY <1>5
    <3>2. unindexed' \in BOOLEAN
      BY <1>5, Zenon DEF TypeOK
    <3> QED
      BY <1>1, <3>1, <3>2, Constants
  <2> QED
    BY <1>2, <1>3, <1>6, <2>1 DEF TypeOK, VersionsAreCounted
<1>8. IndexIsOfRecords'
  BY <1>1, <1>2, <1>6 DEF IndexIsOfRecords, Kept
<1>9. Kept(index, index') /\ Kept(played, played')
  BY <1>2, KeepsItself DEF TypeOK
<1>10. /\ ResumesAreOrderly' /\ PlansStayValid' /\ ResumeKeepsFinishedPlays'
       /\ RowsAreExplained'
  BY <1>2, <1>6, <1>7, <1>8, <1>9, RunsStay
<1>11. RecordsStandForPlays'
  <2>1. /\ \A record, o : IsLabelled(record, o) <=> IsLabelled(record, o)'
        /\ \A r : Origin(r)' = Origin(r)
    BY <1>2 DEF IsLabelled, StandsForPlays, IsControlPlay, IsPlayBy, Origin
  <2>2. SUFFICES ASSUME NEW n \in 1..Len(records'), NEW record \in {records'[n]}
                 PROVE  record.run \in 1..run /\ \A o \in {Origin(record.run)} : IsLabelled(record, o)
    BY <1>3, <2>1 DEF RecordsStandForPlays
  <2>3. CASE n \in 1..Len(records)
    BY <1>6, <2>2, <2>3 DEF RecordsStandForPlays, Kept
  <2>4. CASE n \notin 1..Len(records)
    <3>1. n = Len(records') /\ run \in 1..run
      BY <1>1, <1>6, <2>4, HereType
    <3> QED
      BY <1>6, <2>2, <2>4, <3>1
  <2> QED
    BY <2>3, <2>4
<1>12. Located'
  BY <1>1, <1>2, <1>3, <1>5 DEF Located
<1>13. RowsAreReported' /\ ControlIsComplete'
  BY <1>1, <1>2, <1>3 DEF RowsAreReported, ControlIsComplete
<1>14. AnswersFitTheirKeys' /\ AnswersStayInTheirContext'
  BY <1>2 DEF AnswersFitTheirKeys, AnswersStayInTheirContext
<1> QED
  BY <1>7, <1>8, <1>10, <1>11, <1>12, <1>13, <1>14

\* Its index line is written.
LEMMA IndexRecordKeeps == ASSUME IInv, IndexRecord PROVE IInv'
<1> USE DEF IInv
<1>1. /\ unindexed /\ main = "collecting" /\ collected < Len(Manifest) /\ collected \in Nat
      /\ Len(records) \in Nat \ {0}
  BY EmptySeq DEF IndexRecord, Located, TypeOK, IndexIsOfRecords
<1>2. /\ records' = records /\ indexTorn' = indexTorn /\ answers' = answers /\ legacy' = legacy
      /\ runs' = runs /\ main' = main /\ rows' = rows /\ unplayed' = unplayed
      /\ environment' = environment /\ version' = version /\ played' = played
      /\ changes' = changes /\ failures' = failures /\ kills' = kills
      /\ unindexed' = FALSE /\ collected' = collected + 1
  BY DEF IndexRecord, history
<1>3. run' = run /\ Here' = Here /\ cached' = cached
  BY <1>2 DEF run, Here, cached
<1>4. /\ index' \in Seq(Nat) /\ Kept(index, index') /\ Len(index) \in Nat
      /\ \/ index' = index
         \/ Len(index') = Len(index) + 1 /\ index'[Len(index) + 1] = Len(records)
  <2>1. index' = index \/ index' = Append(index, Len(records))
    BY DEF IndexRecord
  <2>2. index \in Seq(Nat) /\ Len(index) \in Nat /\ Len(records) \in Nat
    BY <1>1 DEF TypeOK
  <2>3. CASE index' = index
    BY <2>2, <2>3, KeepsItself
  <2>4. CASE index' = Append(index, Len(records))
    BY <2>2, <2>4, AppendKeeps
  <2> QED
    BY <2>1, <2>3, <2>4
<1>5. TypeOK' /\ VersionsAreCounted'
  <2>1. collected' \in 0..Len(Manifest)
    BY <1>1, <1>2, Constants
  <2> QED
    BY <1>2, <1>3, <1>4, <2>1 DEF TypeOK, VersionsAreCounted
<1>6. IndexIsOfRecords'
  <2>1. CASE index' = index
    BY <1>2, <2>1 DEF IndexIsOfRecords
  <2>2. CASE Len(index') = Len(index) + 1 /\ index'[Len(index) + 1] = Len(records)
    <3>1. \A i \in 1..Len(index') : \/ i \in 1..Len(index) /\ index'[i] = index[i]
                                    \/ i = Len(index) + 1 /\ index'[i] = Len(records)
      BY <1>4, <2>2 DEF Kept
    <3>2. \A i \in 1..Len(index') : index'[i] \in 1..Len(records')
      BY <1>1, <1>2, <3>1 DEF IndexIsOfRecords
    <3>3. \A i, j \in 1..Len(index') : index'[i] = index'[j] => i = j
      BY <1>1, <3>1 DEF IndexIsOfRecords
    <3> QED
      BY <1>2, <3>2, <3>3 DEF IndexIsOfRecords
  <2> QED
    BY <1>4, <2>1, <2>2
<1>7. Kept(records, records') /\ Kept(played, played')
  BY <1>2, KeepsItself DEF TypeOK
<1>8. /\ ResumesAreOrderly' /\ PlansStayValid' /\ ResumeKeepsFinishedPlays'
      /\ RowsAreExplained' /\ RecordsStandForPlays'
  BY <1>2, <1>4, <1>5, <1>6, <1>7, RunsStay
<1>9. Located'
  BY <1>1, <1>2, <1>3 DEF Located
<1>10. RowsAreReported' /\ ControlIsComplete'
  BY <1>1, <1>2, <1>3 DEF RowsAreReported, ControlIsComplete
<1>11. AnswersFitTheirKeys' /\ AnswersStayInTheirContext'
  BY <1>2 DEF AnswersFitTheirKeys, AnswersStayInTheirContext
<1> QED
  BY <1>5, <1>6, <1>8, <1>9, <1>10, <1>11

\* Everything is recorded.
LEMMA FinishCollectingKeeps == ASSUME IInv, FinishCollecting PROVE IInv'
<1> USE DEF IInv
<1>1. /\ main = "collecting" /\ collected = Len(Manifest) /\ run >= 1 /\ run \in 1..run
      /\ main' = IF Here.parallel THEN "comparing" ELSE "synthesising"
      /\ Here.rows = rows /\ \A s \in Scenarios \ cached : rows[s] # NoRow
  BY HereType DEF FinishCollecting, Located, RowsAreReported
<1>2. /\ stores' = stores /\ runs' = runs /\ rows' = rows /\ unplayed' = unplayed
      /\ environment' = environment /\ history' = history
      /\ collected' = collected /\ unindexed' = unindexed
  BY DEF FinishCollecting
<1>3. run' = run /\ Here' = Here /\ cached' = cached /\ version' = version
  BY <1>2 DEF run, Here, cached, history
<1>4. unindexed = FALSE
  BY <1>1, Constants DEF Located, TypeOK
<1>5. Located' /\ RowsAreReported'
  BY <1>1, <1>2, <1>3, <1>4 DEF Located, RowsAreReported
<1>6. ControlIsComplete'
  <2>1. Here.parallel => cached = {}
    BY <1>1 DEF PlansStayValid, Here, cached
  <2>2. \A s \in Scenarios : PlayedThroughout(run, s)' <=> PlayedThroughout(run, s)
    BY <1>2, <1>3 DEF PlayedThroughout
  <2> QED
    BY <1>1, <1>3, <2>1, <2>2, UnplannedIsPlayed DEF ControlIsComplete
<1> QED
  BY <1>1, <1>2, <1>5, <1>6, MovesOn DEF Phases, TypeOK

-----------------------------------------------------------------------------
(* The control directory, the candidate arm and the end                    *)

\* What a lookup puts into a row is a baseline: enough records, labelled with the model
\* and the code that were asked for, and their plays.
LEMMA CachedRowIsBaseline ==
    ASSUME TypeOK, IndexIsOfRecords, RecordsStandForPlays, NEW s, NEW v, Eligible(s, v),
           NEW o, o.version = v, s \in o.plan
    PROVE  \A row \in {CachedRow(s, v)} :
              /\ row \in Row /\ row # NoRow /\ row.source = "cached"
              /\ IsBaselineOf(row, s, o)
<1> DEFINE R == Compatible(s, v)
           P == UNION {records[n].plays : n \in R}
           row == CachedRow(s, v)
<1>1. R \subseteq 1..Len(records) /\ R \subseteq Nat
  BY CompatibleIsFinite
<1>2. \A n \in R : /\ records[n] \in Record /\ records[n].valid
                   /\ records[n].scenario = s /\ records[n].version = v
  BY <1>1, ElementOfSeq DEF Compatible, Matches, TypeOK
<1>3. P \subseteq Nat \ {0}
  BY <1>2 DEF Record
<1>4. row = [source |-> "cached", failed |-> FALSE, records |-> R, plays |-> P]
  BY DEF CachedRow
<1> HIDE DEF R, P
<1>5. row \in Row
  BY <1>1, <1>3, <1>4 DEF Row
<1>6. row.source = "cached" /\ row.failed = FALSE /\ row.records = R /\ row.plays = P
  BY <1>4
<1>7. IsBaselineOf(row, s, o)
  <2>1. Cardinality(R) >= MinCompatibleRuns
    BY DEF Eligible, R
  <2>2. R # {}
    <3>1. Cardinality({}) = 0 /\ ~(0 >= MinCompatibleRuns)
      BY FS_EmptySet, Constants
    <3>2. ASSUME R = {} PROVE FALSE
      <4>1. Cardinality(R) = 0
        BY <3>1, <3>2
      <4> QED
        BY <2>1, <3>1, <4>1
    <3> QED
      BY <3>2
  <2>3. P # {}
    <3>1. PICK n \in R : TRUE
      BY <2>2
    <3>2. records[n].plays # {}
      BY <1>1, <1>2, PlaysOfRecords
    <3> QED
      BY <3>2 DEF P
  <2>4. \A p \in P : \E n \in R : p \in records[n].plays
    BY DEF P
  <2> HIDE DEF row
  <2> QED
    BY <1>1, <1>2, <1>6, <2>1, <2>3, <2>4 DEF IsBaselineOf
<1> HIDE DEF row
<1>8. \A r \in {row} : /\ r \in Row /\ r # NoRow /\ r.source = "cached"
                       /\ IsBaselineOf(r, s, o)
  BY <1>5, <1>6, <1>7, Constants
<1> QED
  BY <1>8 DEF row

\* The cached rows are put beside the played ones.
LEMMA FinishSynthesisKeeps == ASSUME IInv, FinishSynthesis PROVE IInv'
<1> USE DEF IInv
<1>1. /\ main = "synthesising" /\ run >= 1 /\ run \in 1..run /\ Here \in Run
      /\ unindexed = FALSE /\ Here.rows = rows /\ rows \in Rows /\ Here.version = version
      /\ \A s \in Scenarios \ cached : rows[s] # NoRow
  BY HereType DEF FinishSynthesis, Located, RowsAreReported, TypeOK
<1>2. /\ stores' = stores /\ rows' = rows /\ history' = history
      /\ collected' = collected /\ unindexed' = unindexed
      /\ main' = "candidate" /\ BeginCandidate
  BY DEF FinishSynthesis
<1>3. /\ environment' \in Environment /\ environment'.arm = "candidate"
      /\ environment'.names = Scenarios /\ unplayed' = Scenarios
  BY <1>1, <1>2, CandidateBegins
<1>4. cached \subseteq Scenarios /\ (Here.parallel => cached = {})
  BY <1>1 DEF PlansStayValid, Here, cached, Run
<1>5. CASE cached = {}
  <2>1. runs' = runs
    BY <1>5 DEF FinishSynthesis
  <2>2. run' = run /\ Here' = Here /\ cached' = cached /\ version' = version
    BY <1>2, <2>1 DEF run, Here, cached, history
  <2>3. Located' /\ RowsAreReported'
    BY <1>1, <1>2, <1>3, <1>5, <2>2 DEF Located, RowsAreReported
  <2>4. ControlIsComplete'
    <3>1. \A s \in Scenarios : PlayedThroughout(run, s)' <=> PlayedThroughout(run, s)
      BY <2>1, <2>2 DEF PlayedThroughout
    <3> QED
      BY <1>1, <1>5, <2>2, <3>1, UnplannedIsPlayed DEF ControlIsComplete
  <2> QED
    BY <1>2, <1>3, <2>1, <2>3, <2>4, MovesOn DEF Phases
<1>6. CASE cached # {}
  <2> DEFINE new == [s \in Scenarios |-> IF s \in cached THEN CachedRow(s, version) ELSE rows[s]]
             e == [Here EXCEPT !.summary = "whole", !.rows = new]
  <2>1. runs' = [runs EXCEPT ![run].summary = "whole", ![run].rows = new]
    BY <1>6 DEF FinishSynthesis
  <2>2. ASSUME NEW s \in cached
        PROVE  \A row \in {new[s]} :
                  /\ row \in Row /\ row # NoRow /\ row.source = "cached"
                  /\ \A o \in {Origin(run)} : IsBaselineOf(row, s, o)
    <3>1. \A v \in {Here.version} : Eligible(s, v)
      BY <1>1, <2>2 DEF PlansStayValid, Here, cached
    <3>2. \A o \in {Origin(run)} : o.version = version /\ s \in o.plan
      BY <1>1, <2>2 DEF Origin, Here, cached
    <3>3. \A v \in {version}, o \in {Origin(run)} : \A row \in {CachedRow(s, v)} :
              /\ row \in Row /\ row # NoRow /\ row.source = "cached"
              /\ IsBaselineOf(row, s, o)
      BY <1>1, <3>1, <3>2, CachedRowIsBaseline
    <3> QED
      BY <1>4, <3>3
  <2>3. \A s \in Scenarios \ cached : new[s] = rows[s] /\ new[s] # NoRow
    BY <1>1
  <2>4. new \in Rows
    <3>1. new = [s \in Scenarios |-> new[s]]
      OBVIOUS
    <3>2. \A s \in Scenarios : new[s] \in Row \union {NoRow}
      BY <1>1, <2>2, <2>3 DEF Rows
    <3> HIDE DEF new
    <3> QED
      BY <3>1, <3>2 DEF Rows
  <2> HIDE DEF new
  <2>5. /\ e \in Run /\ SameOptions(e, Here) /\ e.rows = new /\ e.cached = cached
        /\ e.version = version /\ e.parallel = Here.parallel
        /\ runs' = [runs EXCEPT ![run] = e]
    BY <1>1, <2>1, <2>4 DEF SameOptions, Run, cached, Here
  <2> HIDE DEF e
  <2>6. TypeOK' /\ VersionsAreCounted'
    <3>1. runs' \in Seq(Run) /\ run' = run
      BY <1>1, <2>5, ExceptSeq DEF TypeOK, run
    <3> QED
      BY <1>2, <1>3, <3>1 DEF TypeOK, Phases, stores, history, VersionsAreCounted
  <2>7. /\ IndexIsOfRecords' /\ Kept(records, records') /\ Kept(index, index')
        /\ Kept(played, played') /\ played' = played /\ records' = records
    BY <1>2, <2>6, StoresStay, KeepsItself DEF stores, history, TypeOK
  <2>8. ASSUME NEW s \in Scenarios
        PROVE  \A row \in {e.rows[s]} \ {NoRow}, o \in {Origin(run)} : IsExplained(row, s, o)'
    <3>1. SUFFICES ASSUME NEW row \in {e.rows[s]} \ {NoRow}, NEW o \in {Origin(run)}
                   PROVE  row \in Row /\ IsExplained(row, s, o)
      BY <2>6, <2>7, PlaysStay
    <3>2. CASE s \in cached
      BY <2>2, <2>5, <3>2 DEF IsExplained
    <3>3. CASE s \notin cached
      <4>1. row = Here.rows[s] /\ row \in Row
        BY <1>1, <2>3, <2>5, <3>3 DEF Rows
      <4> QED
        BY <1>1, <4>1 DEF RowsAreExplained, Here
    <3> QED
      BY <3>2, <3>3
  <2>9. /\ ResumesAreOrderly' /\ PlansStayValid' /\ ResumeKeepsFinishedPlays'
        /\ RowsAreExplained' /\ RecordsStandForPlays' /\ run' = run /\ Here' = e
    BY <1>1, <1>6, <2>5, <2>6, <2>7, <2>8, HereChanges
  <2>10. cached' = cached /\ version' = version
    BY <1>2, <2>5, <2>9 DEF cached, history
  <2>11. Located'
    BY <1>1, <1>2, <1>3, <2>5, <2>9, <2>10 DEF Located
  <2>12. RowsAreReported'
    BY <1>1, <1>2, <1>4, <1>6, <2>5, <2>9, <2>10 DEF RowsAreReported
  <2>13. ControlIsComplete'
    <3>1. SUFFICES ASSUME NEW s \in Scenarios
                   PROVE  /\ e.rows[s] # NoRow
                          /\ PlayedThroughout(run, s)' =>
                                e.rows[s].source = IF s \in cached THEN "cached" ELSE "played"
      BY <2>9, <2>10 DEF ControlIsComplete
    <3>2. CASE s \in cached
      BY <2>2, <2>5, <3>2
    <3>3. CASE s \notin cached
      <4>1. e.rows[s] = Here.rows[s] /\ Here.rows[s] # NoRow
        BY <1>1, <2>3, <2>5, <3>3
      <4>2. PlayedThroughout(run, s)' => PlayedThroughout(run, s)
        <5>1. e.lineage = {} /\ Here.lineage = {}
          BY <1>1, <1>6, <2>5 DEF SameOptions, ResumesAreOrderly, Here, cached
        <5> QED
          BY <5>1 DEF PlayedThroughout, Here
      <4> QED
        BY <1>1, <3>3, <4>1, <4>2, UnplannedIsPlayed
    <3> QED
      BY <3>2, <3>3
  <2>14. AnswersFitTheirKeys' /\ AnswersStayInTheirContext'
    BY <1>2 DEF stores, history, AnswersFitTheirKeys, AnswersStayInTheirContext
  <2> QED
    BY <2>6, <2>7, <2>9, <2>11, <2>12, <2>13, <2>14
<1> QED
  BY <1>5, <1>6

\* A play of the candidate arm.
LEMMA PlayCandidateKeeps == ASSUME IInv, PlayCandidate PROVE IInv'
<1> USE DEF IInv
<1>1. /\ main = "candidate" /\ run >= 1 /\ unplayed # {} /\ unplayed \subseteq Scenarios
      /\ unplayed \subseteq environment.names /\ environment.arm = "candidate"
      /\ unindexed = FALSE
  BY DEF PlayCandidate, Located, TypeOK
<1>2. /\ records' = records /\ index' = index /\ indexTorn' = indexTorn
      /\ legacy' = legacy /\ runs' = runs /\ main' = main /\ rows' = rows
      /\ collected' = collected /\ unindexed' = unindexed /\ version' = version
      /\ changes' = changes /\ failures' = failures /\ kills' = kills
  BY DEF PlayCandidate
<1>3. run' = run /\ Here' = Here /\ cached' = cached
  BY <1>2 DEF run, Here, cached
<1>4. /\ unplayed' = unplayed \ {NextUp}
      /\ environment' \in Environment /\ environment'.arm = "candidate"
      /\ environment'.names = environment.names
      /\ answers' \in [CacheDirs -> SUBSET Answered]
      /\ played' \in Seq(Played) /\ Kept(played, played')
      /\ AnswersFitTheirKeys' /\ AnswersStayInTheirContext'
  <2>1. Play("candidate", FALSE)
    BY DEF PlayCandidate
  <2> QED
    BY <1>1, <1>2, <2>1, PlayEffect
<1>5. TypeOK' /\ VersionsAreCounted'
  BY <1>1, <1>2, <1>3, <1>4 DEF TypeOK, VersionsAreCounted
<1>6. /\ IndexIsOfRecords' /\ Kept(records, records') /\ Kept(index, index')
  BY <1>2, <1>4, <1>5, StoresStay
<1>7. /\ ResumesAreOrderly' /\ PlansStayValid' /\ ResumeKeepsFinishedPlays'
      /\ RowsAreExplained' /\ RecordsStandForPlays'
  BY <1>2, <1>4, <1>5, <1>6, RunsStay
<1>8. Located' /\ RowsAreReported'
  BY <1>1, <1>2, <1>3, <1>4 DEF Located, RowsAreReported
<1>9. ControlIsComplete'
  BY <1>2, <1>3 DEF ControlIsComplete, PlayedThroughout
<1> QED
  BY <1>4, <1>5, <1>6, <1>7, <1>8, <1>9

\* The candidate arm ends; parallel arms record now.
LEMMA FinishCandidateKeeps == ASSUME IInv, FinishCandidate PROVE IInv'
<1> USE DEF IInv
<1>1. /\ main = "candidate" /\ run >= 1 /\ unindexed = FALSE
      /\ main' \in {"collecting", "comparing"} /\ (main' = "collecting" => Here.parallel)
      /\ stores' = stores /\ runs' = runs /\ rows' = rows /\ unplayed' = unplayed
      /\ environment' = environment /\ history' = history
      /\ collected' = collected /\ unindexed' = unindexed
  BY DEF FinishCandidate, Located, TypeOK
<1>2. run' = run /\ Here' = Here /\ cached' = cached /\ version' = version
  BY <1>1 DEF run, Here, cached, history
<1>3. Located' /\ RowsAreReported'
  BY <1>1, <1>2 DEF Located, RowsAreReported
<1>4. ControlIsComplete'
  BY <1>1, <1>2 DEF ControlIsComplete, PlayedThroughout
<1> QED
  BY <1>1, <1>3, <1>4, MovesOn DEF Phases, TypeOK

\* The run is over, or killed: its options stay, and its rows unless the directory
\* was being set up.
LEMMA RunEnds ==
    ASSUME IInv, main # "idle", NEW e \in Run, SameOptions(e, Here),
           runs' = [runs EXCEPT ![run] = e],
           \/ e.rows = Here.rows /\ (e.summary = "none" <=> Here.summary = "none")
           \/ e.rows = NoRows /\ e.summary = "none"
           \/ e.rows = Here.rows /\ Here.cached # {},
           records' = records, index' = index, answers' = answers, legacy' = legacy,
           version' = version, played' = played, changes' = changes, failures' = failures,
           main' = "idle", rows' = rows, unplayed' = unplayed, environment' = environment,
           collected' = collected, unindexed' = FALSE, indexTorn' \in BOOLEAN,
           kills' \in 0..MaxKills
    PROVE  IInv'
<1> USE DEF IInv
<1>1. run >= 1 /\ run \in 1..run /\ Here \in Run
  BY HereType DEF Located
<1>2. TypeOK' /\ VersionsAreCounted'
  <2>1. runs' \in Seq(Run) /\ run' = run
    BY <1>1, ExceptSeq DEF TypeOK, run
  <2> QED
    BY <2>1 DEF TypeOK, Phases, VersionsAreCounted
<1>3. /\ IndexIsOfRecords' /\ Kept(records, records') /\ Kept(index, index')
      /\ Kept(played, played')
  BY <1>2, StoresStay, KeepsItself DEF TypeOK
<1>4. e.resume # 0 /\ e.cached = {} /\ e.summary # "none" =>
           \A s \in Scenarios : runs[e.resume].rows[s] # NoRow =>
                                    e.rows[s] = runs[e.resume].rows[s]
  BY <1>1 DEF ResumeKeepsFinishedPlays, Here, SameOptions
<1>5. ASSUME NEW s \in Scenarios
      PROVE  \A row \in {e.rows[s]} \ {NoRow}, o \in {Origin(run)} : IsExplained(row, s, o)'
  <2>1. SUFFICES ASSUME NEW row \in {e.rows[s]} \ {NoRow}, NEW o \in {Origin(run)}
                 PROVE  IsExplained(row, s, o)'
    OBVIOUS
  <2>2. row = Here.rows[s] /\ row # NoRow
    BY DEF NoRows
  <2>3. row \in Row
    BY <1>1, <2>2 DEF Run, Rows
  <2>4. IsExplained(row, s, o)
    BY <1>1, <2>2 DEF RowsAreExplained, Here
  <2> QED
    BY <1>2, <1>3, <2>3, <2>4, PlaysStay
<1>6. /\ ResumesAreOrderly' /\ PlansStayValid' /\ ResumeKeepsFinishedPlays'
      /\ RowsAreExplained' /\ RecordsStandForPlays'
  BY <1>1, <1>2, <1>3, <1>4, <1>5, HereChanges
<1>7. Located' /\ RowsAreReported' /\ ControlIsComplete'
  BY DEF Located, RowsAreReported, ControlIsComplete
<1>8. AnswersFitTheirKeys' /\ AnswersStayInTheirContext'
  BY DEF AnswersFitTheirKeys, AnswersStayInTheirContext
<1> QED
  BY <1>2, <1>3, <1>6, <1>7, <1>8

LEMMA FinishRunKeeps == ASSUME IInv, FinishRun PROVE IInv'
<1> USE DEF IInv
<1> DEFINE e == [Here EXCEPT !.end = "normally"]
<1>1. /\ main = "comparing" /\ unindexed = FALSE /\ Here \in Run
      /\ runs' = [runs EXCEPT ![run] = e] /\ main' = "idle"
  BY HereType DEF FinishRun, End, Here, Located, TypeOK
<1>2. /\ e \in Run /\ SameOptions(e, Here) /\ e.rows = Here.rows /\ e.summary = Here.summary
  BY <1>1 DEF SameOptions, Run
<1> HIDE DEF e
<1>3. /\ records' = records /\ index' = index /\ answers' = answers /\ legacy' = legacy
      /\ version' = version /\ played' = played /\ changes' = changes /\ failures' = failures
      /\ rows' = rows /\ unplayed' = unplayed /\ environment' = environment
      /\ collected' = collected /\ unindexed' = FALSE
      /\ indexTorn' \in BOOLEAN /\ kills' \in 0..MaxKills
  BY <1>1 DEF FinishRun, stores, history, TypeOK
<1> QED
  BY <1>1, <1>2, <1>3, RunEnds

LEMMA KillKeeps == ASSUME IInv, Kill PROVE IInv'
<1> USE DEF IInv
<1>1. PICK summary \in {Here.summary}
                \union (IF main = "control" THEN {"torn"} ELSE {})
                \union (IF main = "synthesising" /\ cached # {} THEN {"none", "torn"} ELSE {}) :
        runs' = [runs EXCEPT ![run].end = "killed", ![run].summary = summary,
                             ![run].rows = IF summary = "none" THEN NoRows ELSE @]
  BY DEF Kill
<1>2. Here \in Run /\ main # "idle"
  BY HereType DEF Kill, Located
<1> DEFINE new == IF summary = "none" THEN NoRows ELSE Here.rows
           e == [Here EXCEPT !.end = "killed", !.summary = summary, !.rows = new]
<1>3. summary \in {"none", "torn", "whole"} /\ new \in Rows
  BY <1>1, <1>2 DEF Run, NoRows, Rows
<1>4. /\ e \in Run /\ SameOptions(e, Here) /\ e.summary = summary
      /\ e.rows = (IF summary = "none" THEN NoRows ELSE Here.rows)
      /\ runs' = [runs EXCEPT ![run] = e]
  BY <1>1, <1>2, <1>3 DEF SameOptions, Run, Here
<1> HIDE DEF e, new
<1>5. \/ e.rows = Here.rows /\ (e.summary = "none" <=> Here.summary = "none")
      \/ e.rows = NoRows /\ e.summary = "none"
      \/ e.rows = Here.rows /\ Here.cached # {}
  BY <1>1, <1>4 DEF Located, cached
<1>6. indexTorn' \in BOOLEAN
  BY Zenon DEF Kill, TypeOK
<1>7. /\ records' = records /\ index' = index /\ answers' = answers /\ legacy' = legacy
      /\ version' = version /\ played' = played /\ changes' = changes /\ failures' = failures
      /\ rows' = rows /\ unplayed' = unplayed /\ environment' = environment
      /\ collected' = collected /\ unindexed' = FALSE /\ main' = "idle"
  BY DEF Kill
<1>8. kills' \in 0..MaxKills
  BY Constants DEF Kill, TypeOK
<1> QED
  BY <1>2, <1>4, <1>5, <1>6, <1>7, <1>8, RunEnds

-----------------------------------------------------------------------------
(* The invariant is inductive                                              *)

\* Before the first run nothing is kept but, perhaps, a file of an older layout.
LEMMA InitInvariant == Init => IInv
<1> SUFFICES ASSUME Init PROVE IInv
  OBVIOUS
<1>1. /\ version = [c \in Changing |-> 1] /\ records = <<>> /\ index = <<>> /\ indexTorn = FALSE
      /\ answers = [d \in CacheDirs |-> {}] /\ runs = <<>> /\ main = "idle" /\ rows = NoRows
      /\ unplayed = {} /\ environment = Configure("control", {}, FALSE) /\ collected = 0
      /\ unindexed = FALSE /\ played = <<>> /\ changes = 0 /\ failures = 0 /\ kills = 0
  BY DEF Init
<1>2. \A entry \in legacy : entry \in Answered /\ Fits(entry)
  <2>1. SUFFICES ASSUME NEW s \in Scenarios
                 PROVE  \A entry \in {OldFile(s)} : entry \in Answered /\ Fits(entry)
    BY DEF Init
  <2> DEFINE context == Enter(Configure("control", Scenarios, FALSE), s, 0)
             key == Key(1, context)
             answer == [scenario |-> s, arm |-> "control", model |-> 1]
  <2>2. context \in Environment /\ context.scenario = s /\ context.arm = "control"
    BY DEF Enter, Configure, Environment
  <2> HIDE DEF context
  <2>3. /\ key \in [model : Nat, context : Environment] /\ key.context = context
        /\ key.model = 1
    BY <2>2 DEF Key
  <2>4. answer \in Situation
    BY DEF Situation
  <2>5. OldFile(s) = [key |-> key, answer |-> answer]
    BY DEF OldFile, context
  <2> HIDE DEF key
  <2> QED
    BY <2>2, <2>3, <2>4, <2>5 DEF Answered, Fits
<1>3. TypeOK
  <2>1. version \in [Changing -> 1..(MaxChanges + 1)]
    BY <1>1, Constants
  <2>2. records \in Seq(Record) /\ index \in Seq(Nat) /\ runs \in Seq(Run) /\ played \in Seq(Played)
        /\ Len(runs) = 0
    BY <1>1, EmptySeq
  <2>3. answers \in [CacheDirs -> SUBSET Answered] /\ legacy \subseteq Answered
    BY <1>1, <1>2
  <2>4. rows \in Rows
    BY <1>1 DEF NoRows, Rows
  <2>5. environment \in Environment
    BY <1>1 DEF Configure, Environment
  <2>6. /\ run <= MaxRuns /\ collected \in 0..Len(Manifest) /\ changes \in 0..MaxChanges
        /\ failures \in 0..MaxFailures /\ kills \in 0..MaxKills
    BY <1>1, <2>2, Constants DEF run
  <2>7. /\ indexTorn \in BOOLEAN /\ unindexed \in BOOLEAN /\ main \in Phases
        /\ unplayed \subseteq Scenarios
    BY <1>1 DEF Phases
  <2> QED
    BY <2>1, <2>2, <2>3, <2>4, <2>5, <2>6, <2>7 DEF TypeOK
<1>4. /\ Len(records) = 0 /\ Len(index) = 0 /\ Len(runs) = 0 /\ Len(played) = 0
  BY <1>1
<1>5. VersionsAreCounted
  BY <1>1 DEF VersionsAreCounted
<1>6. Located /\ RowsAreReported /\ ControlIsComplete
  BY <1>1 DEF Located, RowsAreReported, ControlIsComplete
<1>7. /\ ResumesAreOrderly /\ PlansStayValid /\ ResumeKeepsFinishedPlays /\ RowsAreExplained
      /\ IndexIsOfRecords /\ RecordsStandForPlays /\ AnswersStayInTheirContext
  BY <1>1, <1>4 DEF ResumesAreOrderly, PlansStayValid, ResumeKeepsFinishedPlays,
     RowsAreExplained, IndexIsOfRecords, RecordsStandForPlays, AnswersStayInTheirContext, run
<1>8. AnswersFitTheirKeys
  BY <1>1, <1>2 DEF AnswersFitTheirKeys
<1> QED
  BY <1>3, <1>5, <1>6, <1>7, <1>8 DEF IInv

\* A step that changes nothing.
LEMMA StutterKeeps == ASSUME IInv, UNCHANGED vars PROVE IInv'
<1>1. /\ stores' = stores /\ runs' = runs /\ rows' = rows /\ history' = history
      /\ collected' = collected /\ unindexed' = unindexed /\ main' = main
      /\ environment' = environment /\ unplayed' = unplayed
  BY DEF vars, process
<1>2. run' = run /\ Here' = Here /\ cached' = cached /\ version' = version
  BY <1>1 DEF run, Here, cached, history
<1>3. Located' /\ RowsAreReported' /\ ControlIsComplete'
  BY <1>1, <1>2 DEF IInv, Located, RowsAreReported, ControlIsComplete, PlayedThroughout
<1> QED
  BY <1>1, <1>3, MovesOn DEF IInv, TypeOK

\* Every step keeps the invariant.
LEMMA StepInvariant == IInv /\ [Next]_vars => IInv'
<1> SUFFICES ASSUME IInv, [Next]_vars PROVE IInv'
  OBVIOUS
<1>1. CASE Change
  BY <1>1, ChangeKeeps
<1>2. CASE StartRun
  BY <1>2, StartRunKeeps
<1>3. CASE RunStep
  BY <1>3, BeginControlKeeps, PlayControlKeeps, FinishControlKeeps, WriteRecordKeeps,
     IndexRecordKeeps, FinishCollectingKeeps, FinishSynthesisKeeps, PlayCandidateKeeps,
     FinishCandidateKeeps, FinishRunKeeps DEF RunStep
<1>4. CASE Kill
  BY <1>4, KillKeeps
<1>5. CASE AllRunsOver \/ UNCHANGED vars
  BY <1>5, StutterKeeps DEF AllRunsOver
<1> QED
  BY <1>1, <1>2, <1>3, <1>4, <1>5 DEF Next

\* IInv holds in every state of every sequence of runs.
THEOREM Invariance == Spec => []IInv
<1>1. Init => IInv
  BY InitInvariant
<1>2. IInv /\ [Next]_vars => IInv'
  BY StepInvariant
<1> QED
  BY <1>1, <1>2, PTL DEF Spec

-----------------------------------------------------------------------------
(* What follows                                                            *)

\* The variables have their types, and the counted steps keep their bounds.
THEOREM TypeCorrect == Spec => []TypeOK
<1>1. IInv => TypeOK
  BY DEF IInv
<1> QED
  BY <1>1, Invariance, PTL

\* However runs, arms, kills and changes of model and code follow one another, an
\* agent is only ever answered with what the same model said to the same scenario in
\* the same arm: no discipline of the operator is needed for that.
THEOREM AnswersInContext == Spec => []AnswersStayInTheirContext
<1>1. IInv => AnswersStayInTheirContext
  BY DEF IInv
<1> QED
  BY <1>1, Invariance, PTL

\* The history's two questions about a run are questions about its origin.
LEMMA WhatOriginsSay ==
    ASSUME NEW r, NEW o, o = Origin(r)
    PROVE  /\ o.version = runs[r].version /\ o.plan = runs[r].cached
           /\ SameCode(r) => o.codes \subseteq {o.version}
           /\ \A s : PlayedThroughout(r, s) => s \notin o.plans
  BY DEF Origin, SameCode, PlayedThroughout

\* Whatever was resumed, a valid record stands for plays of the control arm without an
\* exception: for one, where its scenario was played in all the roots its run resumed,
\* and for one by the model and the code of its label, where those were the roots' too.
\* The index names records that exist, each once.
THEOREM RecordsAreTrue == Spec => []RecordsAreOfControlPlays
<1>1. IInv => RecordsAreOfControlPlays
  <2> SUFFICES ASSUME IInv PROVE RecordsAreOfControlPlays
    OBVIOUS
  <2>1. RecordsStandForPlays /\ IndexIsOfRecords /\ Len(records) \in Nat
    BY DEF IInv, TypeOK
  <2>2. ASSUME NEW n \in 1..Len(records), NEW record, record = records[n], record.valid
        PROVE  /\ record.plays # {}
               /\ \A p \in record.plays : IsControlPlay(p, record.scenario)
               /\ PlayedThroughout(record.run, record.scenario) =>
                     \E p \in record.plays :
                         /\ record.plays = {p}
                         /\ SameCode(record.run) => IsPlayBy(p, record.version)
    <3>1. PICK o : o = Origin(record.run)
      OBVIOUS
    <3>2. record.version = o.version /\ StandsForPlays(record, o)
      BY <2>1, <2>2, <3>1 DEF RecordsStandForPlays, IsLabelled
    <3>3. /\ PlayedThroughout(record.run, record.scenario) => record.scenario \notin o.plans
          /\ SameCode(record.run) => o.codes \subseteq {o.version}
      BY <3>1, WhatOriginsSay
    <3> QED
      BY <3>2, <3>3, Zenon DEF StandsForPlays
  <2>3. /\ \A i \in 1..Len(index) : index[i] <= Len(records)
        /\ \A i, j \in 1..Len(index) : index[i] = index[j] => i = j
    BY <2>1 DEF IndexIsOfRecords
  <2> QED
    BY <2>2, <2>3, Zenon DEF RecordsAreOfControlPlays
<1> QED
  BY <1>1, Invariance, PTL

\* Whatever was resumed, a row from the cache is the mean of enough records and of plays
\* of its scenario in the control arm; the records carry the model and the code of the
\* run that looked them up, and their plays are by these where no record was collected
\* after a resume from others.
THEOREM BaselinesFit == Spec => []BaselinesMatchTheRun
<1>1. IInv => BaselinesMatchTheRun
  <2> SUFFICES ASSUME IInv, NEW r \in 1..run, NEW s \in Scenarios, NEW row,
                      row = runs[r].rows[s], row # NoRow, row.source = "cached"
               PROVE  /\ Cardinality(row.records) >= MinCompatibleRuns
                      /\ \A p \in row.plays : IsControlPlay(p, s)
                      /\ PlayedThroughout(r, s) =>
                          /\ \A n \in row.records : records[n].version = runs[r].version
                          /\ (\A n \in row.records : /\ SameCode(records[n].run)
                                                     /\ PlayedThroughout(records[n].run, s))
                             => \A p \in row.plays : IsPlayBy(p, runs[r].version)
    BY DEF BaselinesMatchTheRun
  <2>1. PICK o : o = Origin(r)
    OBVIOUS
  <2>2. IsBaselineOf(row, s, o) /\ RecordsStandForPlays
    BY <2>1 DEF IInv, RowsAreExplained, IsExplained
  <2>3. ASSUME NEW p \in row.plays PROVE IsControlPlay(p, s)
    BY <2>2, PlaysOfRecords DEF IsBaselineOf
  <2>4. ASSUME PlayedThroughout(r, s), NEW n \in row.records
        PROVE  records[n].version = runs[r].version
    BY <2>1, <2>2, <2>4, WhatOriginsSay DEF IsBaselineOf
  <2>5. ASSUME PlayedThroughout(r, s), NEW p \in row.plays,
               \A n \in row.records : SameCode(records[n].run) /\ PlayedThroughout(records[n].run, s)
        PROVE  IsPlayBy(p, runs[r].version)
    <3>1. PICK n \in row.records : p \in records[n].plays
      BY <2>2 DEF IsBaselineOf
    <3>2. PICK record, a : record = records[n] /\ a = Origin(record.run)
      OBVIOUS
    <3>3. n \in 1..Len(records) /\ record.valid /\ record.scenario = s
      BY <2>2, <3>1, <3>2 DEF IsBaselineOf
    <3>4. record.version = a.version /\ StandsForPlays(record, a)
      BY <2>2, <3>2, <3>3 DEF RecordsStandForPlays, IsLabelled
    <3>5. s \notin a.plans /\ a.codes \subseteq {a.version}
      BY <2>5, <3>1, <3>2, WhatOriginsSay
    <3>6. IsPlayBy(p, record.version)
      BY <3>1, <3>2, <3>3, <3>4, <3>5 DEF StandsForPlays
    <3>7. record.version = runs[r].version
      BY <2>4, <2>5, <3>1, <3>2
    <3> QED
      BY <3>6, <3>7
  <2> QED
    BY <2>2, <2>3, <2>4, <2>5 DEF IsBaselineOf
<1> QED
  BY <1>1, Invariance, PTL

\* Whatever was resumed, the candidate is compared with a complete control directory;
\* its rows come from where the plan says, but for cached rows of a resumed root.
THEOREM ControlComplete == Spec => []ControlIsComplete
<1>1. IInv => ControlIsComplete
  BY DEF IInv
<1> QED
  BY <1>1, Invariance, PTL

\* A resumed control arm keeps what the run before it had reported, whichever root the
\* operator names.
THEOREM ResumedPlaysAreKept == Spec => []ResumeKeepsFinishedPlays
<1>1. IInv => ResumeKeepsFinishedPlays
  BY DEF IInv
<1> QED
  BY <1>1, Invariance, PTL

\* A baseline that one lookup finds is found by every later lookup for the same model
\* and code: no step takes a record or its index line away, and none relabels one.
BaselinesAreNeverLost ==
    [][\A s \in Scenarios, v \in Version : Eligible(s, v) => Eligible(s, v)']_vars

THEOREM BaselinesLast == Spec => BaselinesAreNeverLost
<1>1. IInv /\ IInv' /\ [Next]_vars =>
          [\A s \in Scenarios, v \in Version : Eligible(s, v) => Eligible(s, v)']_vars
  <2> SUFFICES ASSUME IInv, IInv', Next, NEW s \in Scenarios, NEW v \in Version,
                      Eligible(s, v)
               PROVE  Eligible(s, v)'
    OBVIOUS
  <2>1. /\ TypeOK /\ TypeOK' /\ IndexIsOfRecords /\ IndexIsOfRecords'
        /\ records \in Seq(Record) /\ index \in Seq(Nat)
    BY DEF IInv, TypeOK
  <2>2. CASE WriteRecord
    <3>1. Len(records) \in Nat /\ Kept(index, index')
      BY <2>1, <2>2, KeepsItself DEF WriteRecord
    <3>2. Kept(records, records')
      BY <2>1, <2>2, KeepsItself DEF WriteRecord, Kept
    <3> QED
      BY <2>1, <3>1, <3>2, EligibleStays
  <2>3. CASE IndexRecord
    <3>1. Kept(records, records')
      BY <2>1, <2>3, KeepsItself DEF IndexRecord
    <3>2. Kept(index, index')
      BY <2>1, <2>3, KeepsItself DEF IndexRecord, Kept
    <3> QED
      BY <2>1, <3>1, <3>2, EligibleStays
  <2>4. CASE records' = records /\ index' = index
    BY <2>1, <2>4, KeepsItself, EligibleStays
  <2>5. ~WriteRecord /\ ~IndexRecord => records' = records /\ index' = index
    BY DEF Next, RunStep, Change, StartRun, BeginControl, PlayControl, FinishControl,
       FinishCollecting, FinishSynthesis, PlayCandidate, FinishCandidate, FinishRun, Kill,
       AllRunsOver, vars, stores
  <2> QED
    BY <2>2, <2>3, <2>4, <2>5
<1> QED
  BY <1>1, Invariance, PTL DEF Spec, BaselinesAreNeverLost

==============================================================================
