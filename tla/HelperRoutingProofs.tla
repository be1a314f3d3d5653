------------------------- MODULE HelperRoutingProofs -------------------------
(***************************************************************************)
(* Proofs about HelperRouting: what a helper is judged by and who is       *)
(* offered it, for any manifest, any contracts and any number of runs,     *)
(* kills and campaigns beside this one.                                    *)
(***************************************************************************)
EXTENDS HelperRouting, FiniteSetTheorems, SequenceTheorems, WellFoundedInduction, TLAPS

-----------------------------------------------------------------------------
(* The manifest: what is proved stays proved, whatever is saved.           *)

LEMMA SaveKeepsProofs ==
  ASSUME NEW R \in Manifests
  PROVE  SaveEntries(R) \in Manifests /\ Proved(R) \subseteq Proved(SaveEntries(R))
<1> DEFINE S == SaveEntries(R)
<1>1. ASSUME NEW t \in ToolNames
      PROVE  S[t] \in Entry \union {NoEntry} /\ (t \in Proved(R) => S[t] = R[t])
  <2>1. CASE R[t] # NoEntry /\ R[t].hash = "absent"
    <3>1. S[t] = [R[t] EXCEPT !.hash = "match"] /\ R[t] \in Entry
      BY <2>1 DEF SaveEntries, Manifests
    <3>2. t \notin Proved(R)
      BY <2>1 DEF Proved, HasCurrentProof
    <3> QED
      BY <3>1, <3>2 DEF Entry, Hashes
  <2>2. CASE ~ (R[t] # NoEntry /\ R[t].hash = "absent")
    BY <2>2 DEF SaveEntries, Manifests
  <2> QED
    BY <2>1, <2>2
<1>2. S = [t \in ToolNames |-> S[t]]
  BY DEF SaveEntries
<1> HIDE DEF S
<1>3. S \in Manifests
  BY <1>1, <1>2 DEF Manifests
<1>4. Proved(R) \subseteq Proved(S)
  BY <1>1 DEF Proved
<1> QED
  BY <1>3, <1>4 DEF S

\* A proved tool that is reused.
LEMMA ReuseKeepsProof ==
  ASSUME NEW R \in Manifests, NEW n \in Proved(R)
  PROVE  RecordReuse(R, n)[n] \in Entry /\ HasCurrentProof(RecordReuse(R, n)[n])
<1> DEFINE Q == [R EXCEPT ![n].reuse_count = @ + 1]
<1>1. n \in ToolNames /\ R[n] \in Entry /\ HasCurrentProof(R[n])
  BY DEF Proved, Manifests
<1>2. Q[n] = [R[n] EXCEPT !.reuse_count = @ + 1]
  BY <1>1 DEF Manifests
<1>3. Q[n] \in Entry /\ HasCurrentProof(Q[n])
  BY <1>1, <1>2 DEF Entry, HasCurrentProof
<1>4. Q \in Manifests
  <2>1. \A t \in ToolNames \ {n} : Q[t] = R[t]
    BY DEF Manifests
  <2> QED
    BY <1>1, <1>3, <2>1 DEF Manifests
<1>5. n \in Proved(Q)
  BY <1>1, <1>3, NoEntryAssumption DEF Proved
<1>6. RecordReuse(R, n) = SaveEntries(Q)
  BY DEF RecordReuse
<1> HIDE DEF Q
<1>7. n \in Proved(SaveEntries(Q)) /\ SaveEntries(Q) \in Manifests
  BY <1>4, <1>5, SaveKeepsProofs
<1> QED
  BY <1>6, <1>7 DEF Proved, Manifests

\* A tool that is born.
LEMMA BirthKeepsProofs ==
  ASSUME NEW R \in Manifests, NEW n \in ToolNames
  PROVE  /\ Put(R, n, Accepted(FALSE)) \in Manifests
         /\ Proved(R) \subseteq Proved(Put(R, n, Accepted(FALSE)))
<1> DEFINE v == IF R[n] = NoEntry THEN 1 ELSE R[n].version + 1
           entry == [version |-> v, reuse_count |-> 0, diagnostic_only |-> FALSE,
                     retired |-> FALSE, validated |-> TRUE, hash |-> "match"]
           Q == [R EXCEPT ![n] = entry]
<1>1. v \in Nat \ {0}
  <2>1. CASE R[n] = NoEntry
    BY <2>1
  <2>2. CASE R[n] # NoEntry
    <3>1. R[n].version \in Nat
      BY <2>2 DEF Manifests, Entry
    <3> QED
      BY <2>2, <3>1
  <2> QED
    BY <2>1, <2>2
<1>2. Put(R, n, Accepted(FALSE)) = SaveEntries(Q)
  <2>1. entry = IF R[n] = NoEntry THEN Accepted(FALSE)
                ELSE [Accepted(FALSE) EXCEPT !.version = R[n].version + 1]
    BY DEF Accepted
  <2> QED
    BY <2>1 DEF Put
<1> HIDE DEF v
<1>3. entry \in Entry /\ HasCurrentProof(entry)
  BY <1>1 DEF Entry, Hashes, HasCurrentProof
<1> HIDE DEF entry
<1>4. Q[n] = entry /\ \A t \in ToolNames \ {n} : Q[t] = R[t]
  BY DEF Manifests
<1>5. Q \in Manifests
  BY <1>3, <1>4 DEF Manifests
<1>6. Proved(R) \subseteq Proved(Q)
  BY <1>3, <1>4, NoEntryAssumption DEF Proved
<1> HIDE DEF Q
<1> QED
  BY <1>2, <1>5, <1>6, SaveKeepsProofs

-----------------------------------------------------------------------------
(* The inductive invariant                                                 *)

\* The phases in which a scenario is at hand, and those before the comparison.
Busy    == {"routed", "played", "logged"}
Playing == {"playing"} \cup Busy

\* What the phase says of the process and of the run.
Located ==
    /\ main = "idle" => ~known /\ evidence = 0
    /\ main # "idle" => run >= 1 /\ ~root.killed
    /\ main \in Busy => at \in Scenarios
    /\ main \in Playing => Here.verdict = "none"
    /\ main \in {"compared", "gate"} => Here.verdict # "none"
    /\ root.killed => run >= 1

\* A comparison says "clean" of the runs without exceptions; a summary is published
\* after the comparison of its run, which stays as it is.
ComparisonsComeFirst ==
    /\ \A r \in 1..run : runs[r].verdict # "none" =>
          (runs[r].verdict = "clean" <=> runs[r].raised = {})
    /\ \A i \in 1..Len(published) :
          \/ published[i].origin = 0 /\ published[i].verdict = "clean"
          \/ /\ published[i].origin \in 1..run
             /\ runs[published[i].origin].verdict # "none"

\* The summary that a run was told to read is there.
PinsExist ==
    \A r \in 1..run : runs[r].requested = "pinned" => runs[r].pinned \in 1..Len(published)

\* A process that was told not to look for evidence has none.
DisabledMeansNone ==
    main # "idle" /\ known /\ Mode(Here.kind, Here.requested) = "disabled" => evidence = 0

\* What a frozen run offered is what the registry says without any evidence.
NoEvidence == [t \in ToolNames |-> NoShowing]

FrozenOffersAreRouted ==
    \A offer \in frozen : offer.visible = Routed(offer.scenario, offer.entries, NoEvidence)

\* A frozen run has not changed the registry.
FrozenKeepsTheRegistry ==
    main # "idle" /\ Here.kind = "frozen" => registry = root.snapshot

\* Only proved helpers are offered, and no more than the budget allows.
OffersAreProved ==
    main \in Busy => shown \subseteq Proved(registry)

OffersFitTheBudget ==
    main \in Busy => Cardinality(shown) <= MaxBundle

\* Every run is a fresh one or the resumption of a kill.
RunsAreCounted ==
    /\ Started \in 0..MaxRuns
    /\ run + (IF root.killed THEN 1 ELSE 0) <= Started + kills

IInv == /\ TypeOK /\ RunsAreCounted
        /\ Located
        /\ ComparisonsComeFirst /\ PinsExist /\ EvidenceIsOfCleanRuns
        /\ DisabledMeansNone /\ FrozenOffersAreRouted
        /\ FrozenKeepsTheRegistry
        /\ OffersAreProved /\ OffersFitTheBudget

-----------------------------------------------------------------------------
(* Constants, sets and numbers                                             *)

\* The assumptions about the constants, one by one.
LEMMA Constants ==
    /\ N \in Nat /\ MaxBundle \in Nat
    /\ \A t \in ToolNames : Contract[t].rank \in Nat
    /\ \A t, u \in ToolNames : Contract[t].rank = Contract[u].rank => t = u
    /\ IsFiniteSet(ToolNames) /\ OtherLog \in Seq(LogRow) /\ FirstRegistry \in Manifests
    /\ MaxRuns \in Nat /\ MaxKills \in Nat /\ MaxOthers \in Nat
    /\ \A request \in Requests :
          /\ request[1] \in {"online", "frozen"}
          /\ request[2] \in {"default", "auto", "disabled", "pinned"}
<1>1. Requests \subseteq {"online", "frozen"} \X {"default", "auto", "disabled", "pinned"}
  BY RoutingAssumption, Zenon
<1> QED
  BY RoutingAssumption, <1>1

\* A set of numbers below a bound has a greatest one.
LEMMA Greatest ==
    ASSUME NEW n \in Nat, NEW S \in SUBSET (0..n), S # {}
    PROVE  \E m \in S : \A j \in S : j <= m
<1> DEFINE gaps == {n - j : j \in S}
<1>0. \A j \in S : j \in Nat /\ n - j \in Nat
  OBVIOUS
<1>1. gaps \subseteq Nat /\ gaps # {}
  BY <1>0
<1>2. PICK g \in gaps : \A h \in gaps : <<h, g>> \notin OpToRel(<, Nat)
  BY <1>1, WFMin, NatLessThanWellFounded, Zenon
<1>3. PICK m \in S : g = n - m
  OBVIOUS
<1>4. \A h \in gaps : g <= h
  <2> HIDE DEF gaps
  <2>1. SUFFICES ASSUME NEW h \in gaps PROVE ~(h < g)
    BY <1>1
  <2>2. h \in Nat /\ g \in Nat
    BY <1>1
  <2> QED
    BY <2>2, <1>2, Zenon DEF OpToRel
<1>5. ASSUME NEW j \in S PROVE j <= m
  <2>1. n - j \in gaps
    OBVIOUS
  <2>2. n - m <= n - j
    BY <2>1, <1>3, <1>4
  <2> QED
    BY <2>2, <1>0
<1> QED
  BY <1>5

\* A set of scenarios, and a set of the helpers, is finite.
LEMMA SetsOfTools ==
    ASSUME NEW S \in SUBSET ToolNames
    PROVE  IsFiniteSet(S) /\ Cardinality(S) \in Nat
<1>1. IsFiniteSet(S)
  BY Constants, FS_Subset
<1> QED
  BY <1>1, FS_CardinalityType

-----------------------------------------------------------------------------
(* The rows of a summary                                                   *)

\* The scenarios of some rows of a log are finitely many.
LEMMA RowsAreFinite ==
    ASSUME NEW log \in Seq(LogRow), NEW rows \in SUBSET (1..Len(log))
    PROVE  IsFiniteSet({log[i].scenario : i \in rows})
<1> DEFINE S == {log[i].scenario : i \in rows}
           f == [i \in rows |-> log[i].scenario]
<1>1. IsFiniteSet(rows)
  <2>1. IsFiniteSet(1..Len(log))
    BY FS_Interval
  <2> QED
    BY <2>1, FS_Subset
<1>2. f \in Surjection(rows, S)
  BY DEF Surjection
<1> HIDE DEF f, S
<1>3. IsFiniteSet(S)
  BY <1>1, <1>2, FS_Surjection
<1> QED
  BY <1>3 DEF S

\* A row counts scenarios, so its numbers are numbers, and the unused showings are
\* some of the showings.
LEMMA RowsAreCounts ==
    ASSUME NEW log \in Seq(LogRow), NEW losses, NEW t
    PROVE  LET row == RowOf(log, losses, t)
           IN  /\ row.visible \in Nat /\ row.called \in Nat /\ row.unused \in Nat
               /\ row.unused <= row.visible
<1> DEFINE V == ShownIn(log, t)
           C == CalledIn(log, t)
<1>1. IsFiniteSet(V)
  BY RowsAreFinite DEF ShownIn
<1>2. IsFiniteSet(C)
  BY RowsAreFinite DEF CalledIn
<1> HIDE DEF V, C
<1>3. IsFiniteSet(V \ C) /\ Cardinality(V \ C) <= Cardinality(V)
  BY <1>1, FS_Subset
<1>4. Cardinality(V) \in Nat /\ Cardinality(C) \in Nat /\ Cardinality(V \ C) \in Nat
  BY <1>1, <1>2, <1>3, FS_CardinalityType
<1> QED
  BY <1>3, <1>4 DEF RowOf, V, C

\* A scenario that is played again after a kill leaves a second row.  When it says
\* what an earlier row says, no helper's numbers change.
THEOREM ReplaysCountOnce ==
    ASSUME NEW log \in Seq(LogRow), NEW i \in 1..Len(log), NEW losses, NEW t
    PROVE  RowOf(Append(log, log[i]), losses, t) = RowOf(log, losses, t)
<1> DEFINE longer == Append(log, log[i])
<1>1. /\ Len(longer) = Len(log) + 1 /\ Len(log) \in Nat
      /\ \A j \in 1..Len(log) : longer[j] = log[j]
      /\ longer[Len(log) + 1] = log[i]
  BY ElementOfSeq, AppendProperties
<1> HIDE DEF longer
<1>2. ShownIn(longer, t) = ShownIn(log, t)
  BY <1>1 DEF ShownIn
<1>3. CalledIn(longer, t) = CalledIn(log, t)
  BY <1>1 DEF CalledIn
<1> QED
  BY <1>2, <1>3 DEF RowOf, longer

-----------------------------------------------------------------------------
(* The bundle of a scenario                                                *)

\* Scores are numbers.
LEMMA ScoresAreNumbers ==
    ASSUME NEW t, NEW s, NEW entry, NEW e
    PROVE  Score(t, s, entry, e) \in Nat
<1> DEFINE c == Contract[t]
           lift == IF FairChance(t, entry, e) THEN 3 ELSE 1
           p1 == Points(Triggered(t, s), 4)
           p2 == Points(FamilyFits(t, s), 3)
           p3 == Points(ClusterFits(t, s), lift)
           p4 == Points(/\ c.triggers \cap Task[s].strata # {}
                        /\ Triggered(t, s) \/ FamilyFits(t, s), 2)
           p5 == Points(LeadsOn(t), 1)
           p6 == Points(c.abstains, 1)
<1>1. /\ p1 \in Nat /\ p2 \in Nat /\ p3 \in Nat
      /\ p4 \in Nat /\ p5 \in Nat /\ p6 \in Nat
  BY DEF Points
<1>2. Score(t, s, entry, e) = p1 + p2 + p3 + p4 + p5 + p6
  BY DEF Score
<1> HIDE DEF p1, p2, p3, p4, p5, p6
<1> QED
  BY <1>1, <1>2

\* The order of a bundle is strict and total.
LEMMA BeforeIsAnOrder ==
    ASSUME NEW s, NEW R, NEW E
    PROVE  /\ \A t \in ToolNames : ~Before(t, t, s, R, E)
           /\ \A t, u \in ToolNames : t # u => Before(t, u, s, R, E) \/ Before(u, t, s, R, E)
           /\ \A t, u, v \in ToolNames :
                 Before(t, u, s, R, E) /\ Before(u, v, s, R, E) => Before(t, v, s, R, E)
<1> DEFINE score(t) == Score(t, s, R[t], E[t])
<1>1. \A t \in ToolNames : score(t) \in Nat /\ Contract[t].rank \in Nat
  BY ScoresAreNumbers, Constants
<1>2. \A t, u : Before(t, u, s, R, E) <=>
          score(t) > score(u) \/ (score(t) = score(u) /\ Contract[t].rank < Contract[u].rank)
  BY DEF Before
<1> HIDE DEF score
<1> QED
  BY <1>1, <1>2, Constants

\* Only proved helpers are offered.
LEMMA RoutedAreProved ==
    ASSUME NEW s, NEW R, NEW E
    PROVE  Routed(s, R, E) \subseteq Proved(R) /\ Routed(s, R, E) \subseteq ToolNames
  BY DEF Routed, Candidates, Visible, Proved

\* A bundle is as small as the budget wants it: the last helper of the bundle has
\* all the others before it.
LEMMA RoutedWithinBudget ==
    ASSUME NEW s, NEW R, NEW E
    PROVE  Cardinality(Routed(s, R, E)) <= MaxBundle
<1> DEFINE C == Candidates(s, R, E)
           bundle == Routed(s, R, E)
           ahead(t) == {u \in C : Before(u, t, s, R, E)}
           places == {Cardinality(ahead(t)) : t \in bundle}
<1>1. C \in SUBSET ToolNames /\ bundle \in SUBSET C
  BY DEF Candidates, Routed
<1>2. \A t : ahead(t) \in SUBSET ToolNames
  BY <1>1
<1>3. \A t : IsFiniteSet(ahead(t)) /\ Cardinality(ahead(t)) \in Nat
  BY <1>2, SetsOfTools
<1>4. \A t \in bundle : Cardinality(ahead(t)) < MaxBundle
  BY DEF Routed
<1>5. IsFiniteSet(bundle) /\ Cardinality(bundle) \in Nat
  BY <1>1, SetsOfTools
<1>6. CASE bundle = {}
  BY <1>6, FS_EmptySet, Constants
<1>7. CASE bundle # {}
  <2>1. places \in SUBSET (0..MaxBundle) /\ places # {}
    <3> HIDE DEF ahead, bundle
    <3> QED
      BY <1>3, <1>4, <1>7, Constants
  <2>2. \E k \in places : \A j \in places : j <= k
    <3> HIDE DEF places
    <3> QED
      BY <2>1, Greatest, Constants
  <2>3. PICK last \in bundle :
            \A t \in bundle : Cardinality(ahead(t)) <= Cardinality(ahead(last))
    BY <2>2
  <2>4. ASSUME NEW t \in bundle, t # last
        PROVE  t \in ahead(last)
    <3>1. SUFFICES ASSUME Before(last, t, s, R, E) PROVE FALSE
      BY <1>1, <2>4, BeforeIsAnOrder
    <3>2. ahead(last) \subseteq ahead(t)
      BY <1>1, <3>1, BeforeIsAnOrder
    <3>3. last \in ahead(t) /\ last \notin ahead(last)
      BY <1>1, <3>1, BeforeIsAnOrder
    <3> HIDE DEF ahead
    <3>4. Cardinality(ahead(last)) < Cardinality(ahead(t))
      BY <1>3, <3>2, <3>3, FS_Subset
    <3> QED
      BY <1>3, <2>3, <3>4
  <2> DEFINE rest == bundle \ {last}
  <2>5. rest \subseteq ahead(last)
    BY <2>4
  <2> HIDE DEF ahead, bundle
  <2>6. Cardinality(rest) <= Cardinality(ahead(last))
    BY <1>3, <2>5, FS_Subset
  <2>7. Cardinality(rest) = Cardinality(bundle) - 1
    BY <1>5, FS_RemoveElement
  <2> HIDE DEF rest
  <2>8. Cardinality(bundle) \in Nat /\ Cardinality(ahead(last)) \in Nat
    BY <1>3, <1>5
  <2>9. Cardinality(ahead(last)) < MaxBundle
    BY <1>4
  <2> QED
    BY <2>6, <2>7, <2>8, <2>9, Constants DEF bundle
<1> QED
  BY <1>6, <1>7

-----------------------------------------------------------------------------
(* What a step leaves as it is                                             *)

\* What is only ever added to keeps what it has.
Kept(old, new) ==
    /\ Len(old) <= Len(new)
    /\ \A n \in 1..Len(old) : new[n] = old[n]

LEMMA KeepsItself ==
    ASSUME NEW S, NEW q \in Seq(S) PROVE Kept(q, q)
  BY DEF Kept

LEMMA AppendKeeps ==
    ASSUME NEW S, NEW q \in Seq(S), NEW e \in S
    PROVE  /\ Append(q, e) \in Seq(S) /\ Kept(q, Append(q, e))
           /\ Len(Append(q, e)) = Len(q) + 1 /\ Append(q, e)[Len(q) + 1] = e
  BY DEF Kept

\* The next scenario is one that is not done.
LEMMA NextUpIsUnplayed ==
    ASSUME Unplayed # {}
    PROVE  NextUp \in Scenarios
<1>1. Unplayed \subseteq Nat
  BY Constants DEF Unplayed, Scenarios
<1>2. PICK m \in Unplayed : \A u \in Unplayed : <<u, m>> \notin OpToRel(<, Nat)
  BY <1>1, WFMin, NatLessThanWellFounded, Zenon
<1>3. \A u \in Unplayed : m <= u
  <2>1. SUFFICES ASSUME NEW u \in Unplayed PROVE ~(u < m)
    BY <1>1
  <2> QED
    BY <1>1, <1>2, Zenon DEF OpToRel
<1>4. NextUp \in Unplayed
  BY <1>3 DEF NextUp
<1> QED
  BY <1>4 DEF Unplayed

\* The present run, and the numbers of runs and summaries.
LEMMA HereIsARun ==
    ASSUME TypeOK
    PROVE  /\ run \in Nat /\ Len(published) \in Nat
           /\ \A r \in 1..run : runs[r] \in Run
           /\ \A i \in 1..Len(published) : published[i] \in Published
           /\ run >= 1 => Here \in Run /\ run \in 1..run
<1>1. run \in Nat /\ Len(published) \in Nat
  BY DEF TypeOK, run
<1>2. \A r \in 1..run : runs[r] \in Run
  BY ElementOfSeq DEF TypeOK, run
<1>3. \A i \in 1..Len(published) : published[i] \in Published
  BY ElementOfSeq DEF TypeOK
<1> QED
  BY <1>1, <1>2, <1>3 DEF Here

\* A process that looks for evidence finds a usable summary or none.
LEMMA LatestIsUsable ==
    ASSUME TypeOK, PinsExist, run >= 1
    PROVE  /\ Latest \in 0..Len(published)
           /\ Latest # 0 => Usable(Latest)
           /\ Mode(Here.kind, Here.requested) = "disabled" => Latest = 0
<1> DEFINE found == {i \in 1..Len(published) : Usable(i)}
<1>1. Newest = 0 \/ Newest \in found
  <2>1. SUFFICES ASSUME found # {} PROVE Newest \in found
    BY DEF Newest
  <2>2. found \in SUBSET (0..Len(published)) /\ Len(published) \in Nat
    BY HereIsARun
  <2>3. \E m \in found : \A j \in found : j <= m
    <3> HIDE DEF found
    <3> QED
      BY <2>1, <2>2, Greatest
  <2> QED
    BY <2>1, <2>3 DEF Newest
<1>2. Mode(Here.kind, Here.requested) = "pinned" => Here.pinned \in 1..Len(published)
  BY HereIsARun DEF PinsExist, Mode, Here
<1> QED
  BY <1>1, <1>2, HereIsARun DEF Latest

\* As long as the runs are what they were, and whatever is published is added at the
\* end and is of a compared run, a process may go on with its evidence.
LEMMA PublishedStays ==
    ASSUME TypeOK, Located, ComparisonsComeFirst, PinsExist, EvidenceIsOfCleanRuns,
           runs' = runs, Kept(published, published'), published' \in Seq(Published),
           \A i \in (Len(published) + 1)..Len(published') :
              \/ published'[i].origin = 0 /\ published'[i].verdict = "clean"
              \/ /\ published'[i].origin \in 1..run
                 /\ runs[published'[i].origin].verdict # "none"
    PROVE  /\ ComparisonsComeFirst' /\ PinsExist'
           /\ evidence' \in {0, evidence} => EvidenceIsOfCleanRuns'
<1>1. run' = run /\ Len(published) \in Nat /\ Len(published') \in Nat
  BY HereIsARun DEF run
<1>2. \A i \in 1..Len(published') :
          i \in 1..Len(published) \/ i \in (Len(published) + 1)..Len(published')
  BY <1>1
<1>3. \A i \in 1..Len(published) : i \in 1..Len(published') /\ published'[i] = published[i]
  BY <1>1 DEF Kept
<1>4. ComparisonsComeFirst'
  <2>1. \A r \in 1..run' : runs'[r].verdict # "none" =>
            (runs'[r].verdict = "clean" <=> runs'[r].raised = {})
    BY <1>1 DEF ComparisonsComeFirst
  <2>2. ASSUME NEW i \in 1..Len(published')
        PROVE  \/ published'[i].origin = 0 /\ published'[i].verdict = "clean"
               \/ /\ published'[i].origin \in 1..run'
                  /\ runs'[published'[i].origin].verdict # "none"
    BY <1>1, <1>2, <1>3 DEF ComparisonsComeFirst
  <2> QED
    BY <2>1, <2>2 DEF ComparisonsComeFirst
<1>5. PinsExist'
  BY <1>1, <1>3 DEF PinsExist
<1>6. ASSUME evidence' \in {0, evidence}
      PROVE  EvidenceIsOfCleanRuns'
  <2>1. SUFFICES ASSUME evidence' # 0, evidence' = evidence
                 PROVE  EvidenceIsOfCleanRuns'
    BY <1>6 DEF EvidenceIsOfCleanRuns
  <2>2. evidence \in 1..Len(published)
    BY <2>1, <1>1 DEF TypeOK
  <2> QED
    BY <1>3, <2>1, <2>2 DEF EvidenceIsOfCleanRuns, Comparison
<1> QED
  BY <1>4, <1>5, <1>6

\* The same when nothing is published.
LEMMA RunsStay ==
    ASSUME TypeOK, RunsAreCounted, Located, ComparisonsComeFirst, PinsExist,
           EvidenceIsOfCleanRuns, FrozenOffersAreRouted,
           runs' = runs, published' = published
    PROVE  /\ run' = run /\ Here' = Here /\ Started' = Started
           /\ ComparisonsComeFirst' /\ PinsExist'
           /\ evidence' \in {0, evidence} => EvidenceIsOfCleanRuns'
           /\ root'.killed = root.killed /\ kills' = kills => RunsAreCounted'
           /\ frozen' = frozen => FrozenOffersAreRouted'
<1>1. run' = run /\ Here' = Here /\ Started' = Started
  BY DEF run, Here, Started
<1>2. published' \in Seq(Published) /\ Kept(published, published') /\ Len(published) \in Nat
  BY KeepsItself DEF TypeOK
<1>3. (Len(published) + 1)..Len(published') = {}
  BY <1>2
<1>4. /\ ComparisonsComeFirst' /\ PinsExist'
      /\ evidence' \in {0, evidence} => EvidenceIsOfCleanRuns'
  BY <1>2, <1>3, PublishedStays
<1>5. root'.killed = root.killed /\ kills' = kills => RunsAreCounted'
  BY <1>1 DEF RunsAreCounted
<1>6. frozen' = frozen => FrozenOffersAreRouted'
  BY DEF FrozenOffersAreRouted
<1> QED
  BY <1>1, <1>4, <1>5, <1>6

-----------------------------------------------------------------------------
(* The initial state                                                       *)

LEMMA InitInvariant == Init => IInv
<1> SUFFICES ASSUME Init PROVE IInv
  OBVIOUS
<1>1. /\ registry = FirstRegistry /\ runs = <<>> /\ root = EmptyRoot /\ published = <<>>
      /\ main = "idle" /\ ~known /\ evidence = 0 /\ at = 0 /\ shown = {}
      /\ frozen = {} /\ kills = 0 /\ others = 0 /\ known = FALSE
  BY DEF Init
<1>2. run = 0 /\ Len(published) = 0
  BY <1>1 DEF run
<1>3. EmptyRoot \in Root /\ ~EmptyRoot.killed
  BY Constants DEF EmptyRoot, Root
<1>4. TypeOK
  <2>1. <<>> \in Seq(Run) /\ <<>> \in Seq(Published)
    OBVIOUS
  <2>2. run <= MaxRuns + MaxKills /\ evidence \in 0..Len(published)
    BY <1>1, <1>2, Constants
  <2>3. registry \in Manifests /\ root \in Root
    BY <1>1, <1>3, Constants
  <2>4. main \in Phases /\ known \in BOOLEAN /\ at \in {0} \cup Scenarios
        /\ shown \subseteq ToolNames /\ frozen \subseteq Offered
    BY <1>1 DEF Phases
  <2>5. kills \in 0..MaxKills /\ others \in 0..MaxOthers
    BY <1>1, Constants
  <2>6. runs \in Seq(Run) /\ published \in Seq(Published)
    BY <1>1, <2>1
  <2> QED
    BY <2>2, <2>3, <2>4, <2>5, <2>6 DEF TypeOK
<1>5. RunsAreCounted
  <2>1. {r \in 1..run : runs[r].fresh} = {}
    BY <1>2
  <2>2. Started = 0
    BY <2>1, FS_EmptySet DEF Started
  <2> QED
    BY <1>1, <1>2, <1>3, <2>2, Constants DEF RunsAreCounted
<1>6. Located /\ DisabledMeansNone /\ FrozenKeepsTheRegistry /\ OffersAreProved
      /\ OffersFitTheBudget
  BY <1>1, <1>3 DEF Located, DisabledMeansNone, FrozenKeepsTheRegistry, OffersAreProved,
                    OffersFitTheBudget, Playing, Busy
<1>7. ComparisonsComeFirst /\ PinsExist /\ EvidenceIsOfCleanRuns /\ FrozenOffersAreRouted
  BY <1>1, <1>2 DEF ComparisonsComeFirst, PinsExist, EvidenceIsOfCleanRuns,
                    FrozenOffersAreRouted
<1> QED
  BY <1>4, <1>5, <1>6, <1>7 DEF IInv

-----------------------------------------------------------------------------
(* The steps                                                               *)

\* A run is started or resumed: its process has no evidence yet, and the manifest
\* is kept for the gate.
LEMMA StartRunKeeps == IInv /\ StartRun => IInv'
<1> SUFFICES ASSUME IInv, StartRun PROVE IInv'
  OBVIOUS
<1> USE DEF IInv
<1>1. PICK fresh \in BOOLEAN, request \in Requests :
      \E pin \in IF request[2] = "pinned" THEN 1..Len(published) ELSE {0} :
        /\ IF fresh THEN Started < MaxRuns
           ELSE root.killed /\ <<Here.kind, Here.requested>> = request /\ Here.pinned = pin
        /\ runs' = Append(runs, [kind |-> request[1], requested |-> request[2], pinned |-> pin,
                                 fresh |-> fresh, verdict |-> "none", raised |-> {}])
        /\ root' = [(IF fresh THEN EmptyRoot ELSE root) EXCEPT !.snapshot = registry,
                                                               !.killed = FALSE]
  BY DEF StartRun
<1>2. PICK pin \in IF request[2] = "pinned" THEN 1..Len(published) ELSE {0} :
        /\ IF fresh THEN Started < MaxRuns
           ELSE root.killed /\ <<Here.kind, Here.requested>> = request /\ Here.pinned = pin
        /\ runs' = Append(runs, [kind |-> request[1], requested |-> request[2], pinned |-> pin,
                                 fresh |-> fresh, verdict |-> "none", raised |-> {}])
        /\ root' = [(IF fresh THEN EmptyRoot ELSE root) EXCEPT !.snapshot = registry,
                                                               !.killed = FALSE]
  BY <1>1
<1>3. /\ main = "idle" /\ main' = "playing"
      /\ registry' = registry /\ published' = published /\ known' = known
      /\ evidence' = evidence /\ at' = at /\ shown' = shown /\ frozen' = frozen
      /\ kills' = kills /\ others' = others
  BY DEF StartRun, bounded
<1> DEFINE new == [kind |-> request[1], requested |-> request[2], pinned |-> pin,
                   fresh |-> fresh, verdict |-> "none", raised |-> {}]
           base == IF fresh THEN EmptyRoot ELSE root
<1>4. run \in Nat /\ Len(published) \in Nat
  BY HereIsARun
<1>5. /\ new \in Run /\ new.verdict = "none" /\ new.fresh = fresh
      /\ new.requested = "pinned" => new.pinned \in 1..Len(published)
  <2>1. pin \in Nat /\ (request[2] = "pinned" => pin \in 1..Len(published))
    BY <1>4
  <2>2. {} \in Raised
    BY DEF Raised
  <2> QED
    BY <2>1, <2>2, Constants DEF Run
<1>6. base \in Root
  <2>1. EmptyRoot \in Root
    BY Constants DEF EmptyRoot, Root
  <2> QED
    BY <2>1 DEF TypeOK
<1>7. runs' = Append(runs, new) /\ root' = [base EXCEPT !.snapshot = registry, !.killed = FALSE]
  BY <1>2
<1> HIDE DEF new, base
<1>8. root' \in Root /\ root'.killed = FALSE /\ root'.snapshot = registry
  BY <1>6, <1>7 DEF Root, TypeOK
<1>9. /\ runs' \in Seq(Run) /\ Kept(runs, runs') /\ run' = run + 1
      /\ runs'[run + 1] = new
      /\ \A r \in 1..run : r \in 1..run' /\ runs'[r] = runs[r]
      /\ \A r \in 1..run' : r \in 1..run \/ r = run + 1
      /\ Here' = new
  <2>1. runs' \in Seq(Run) /\ Kept(runs, runs') /\ run' = run + 1 /\ runs'[run + 1] = new
    BY <1>5, <1>7, AppendKeeps DEF TypeOK, run
  <2> QED
    BY <2>1, <1>4 DEF Here, Kept, run
<1>10. RunsAreCounted' /\ run' <= MaxRuns + MaxKills
  <2> DEFINE old == {r \in 1..run : runs[r].fresh}
             all == {r \in 1..run' : runs'[r].fresh}
  <2>1. \A r : r \in all <=> r \in old \/ (r = run + 1 /\ fresh)
    BY <1>4, <1>5, <1>9
  <2>2. IsFiniteSet(old)
    <3>1. IsFiniteSet(1..run)
      BY <1>4, FS_Interval
    <3> QED
      BY <3>1, FS_Subset
  <2>3. Started = Cardinality(old) /\ Started' = Cardinality(all)
    BY DEF Started
  <2>3a. run + 1 \notin old
    BY <1>4
  <2> HIDE DEF old, all
  <2>4. ~fresh => all = old
    BY <2>1
  <2>5. fresh => all = old \cup {run + 1} /\ run + 1 \notin old
    BY <2>1, <2>3a
  <2>6. CASE fresh
    <3>1. Started' = Started + 1
      BY <2>2, <2>3, <2>5, <2>6, FS_AddElement
    <3>2. Started < MaxRuns /\ run <= Started + kills /\ Started \in Nat
      <4>1. Started < MaxRuns
        BY <1>2, <2>6
      <4>2. Started \in Nat /\ run + (IF root.killed THEN 1 ELSE 0) <= Started + kills
        BY DEF RunsAreCounted
      <4>3. kills \in Nat
        BY DEF TypeOK
      <4> QED
        BY <4>1, <4>2, <4>3, <1>4
    <3> QED
      BY <3>1, <3>2, <1>3, <1>4, <1>8, <1>9, Constants DEF RunsAreCounted, TypeOK
  <2>7. CASE ~fresh
    <3>1. Started' = Started /\ root.killed
      BY <2>3, <2>4, <2>7, <1>2
    <3>2. Started \in 0..MaxRuns /\ run + 1 <= Started + kills /\ kills \in 0..MaxKills
      BY <3>1 DEF RunsAreCounted, TypeOK
    <3> QED
      BY <3>1, <3>2, <1>3, <1>4, <1>8, <1>9, Constants DEF RunsAreCounted
  <2> QED
    BY <2>6, <2>7
<1>11. TypeOK'
  BY <1>3, <1>8, <1>9, <1>10 DEF TypeOK, Phases
<1>12. Located' /\ DisabledMeansNone' /\ FrozenKeepsTheRegistry' /\ OffersAreProved'
       /\ OffersFitTheBudget' /\ evidence' = 0
  <2>1. ~known /\ evidence = 0
    BY <1>3 DEF Located
  <2> QED
    BY <2>1, <1>3, <1>4, <1>5, <1>8, <1>9 DEF Located, DisabledMeansNone,
       FrozenKeepsTheRegistry, OffersAreProved, OffersFitTheBudget, Playing, Busy
<1>13. ComparisonsComeFirst'
  <2>1. \A r \in 1..run' : runs'[r].verdict # "none" =>
            (runs'[r].verdict = "clean" <=> runs'[r].raised = {})
    BY <1>5, <1>9 DEF ComparisonsComeFirst
  <2>2. \A i \in 1..Len(published') :
          \/ published'[i].origin = 0 /\ published'[i].verdict = "clean"
          \/ /\ published'[i].origin \in 1..run'
             /\ runs'[published'[i].origin].verdict # "none"
    BY <1>3, <1>9 DEF ComparisonsComeFirst
  <2> QED
    BY <2>1, <2>2 DEF ComparisonsComeFirst
<1>14. PinsExist'
  BY <1>3, <1>5, <1>9 DEF PinsExist
<1>15. EvidenceIsOfCleanRuns' /\ FrozenOffersAreRouted'
  BY <1>3, <1>12 DEF EvidenceIsOfCleanRuns, FrozenOffersAreRouted
<1> QED
  BY <1>10, <1>11, <1>12, <1>13, <1>14, <1>15

\* A birth adds a proved helper, in an online run.
LEMMA BirthKeeps == IInv /\ Birth => IInv'
<1> SUFFICES ASSUME IInv, Birth PROVE IInv'
  OBVIOUS
<1> USE DEF IInv
<1>1. PICK t \in ToolNames : registry' = Put(registry, t, Accepted(FALSE))
  BY DEF Birth
<1>2. /\ main = "logged" /\ Here.kind = "online" /\ main' = main
      /\ runs' = runs /\ root' = root /\ published' = published /\ known' = known
      /\ evidence' = evidence /\ at' = at /\ shown' = shown /\ frozen' = frozen
      /\ kills' = kills /\ others' = others
  BY DEF Birth, process, bounded
<1>3. registry' \in Manifests /\ Proved(registry) \subseteq Proved(registry')
  BY <1>1, BirthKeepsProofs DEF TypeOK
<1>4. /\ run' = run /\ Here' = Here /\ RunsAreCounted' /\ FrozenOffersAreRouted'
      /\ ComparisonsComeFirst' /\ PinsExist' /\ EvidenceIsOfCleanRuns'
  BY <1>2, RunsStay
<1>5. TypeOK'
  BY <1>2, <1>3, <1>4 DEF TypeOK
<1>6. Located' /\ DisabledMeansNone' /\ FrozenKeepsTheRegistry' /\ OffersFitTheBudget'
  BY <1>2, <1>4 DEF Located, DisabledMeansNone, FrozenKeepsTheRegistry, OffersFitTheBudget
<1>7. OffersAreProved'
  BY <1>2, <1>3 DEF OffersAreProved
<1> QED
  BY <1>4, <1>5, <1>6, <1>7

\* A scenario is offered a bundle, on evidence that is read once.
LEMMA RouteKeeps == IInv /\ Route => IInv'
<1> SUFFICES ASSUME IInv, Route PROVE IInv'
  OBVIOUS
<1> USE DEF IInv
<1>1. /\ main = "playing" /\ Unplayed # {} /\ evidence' = Asked /\ known' = TRUE
      /\ at' = NextUp /\ shown' = Routed(at', registry, Evidence(evidence'))
      /\ main' = "routed"
      /\ registry' = registry /\ runs' = runs /\ root' = root /\ published' = published
      /\ kills' = kills /\ others' = others
  BY SMT DEF Route, bounded
<1>2. run >= 1 /\ at' \in Scenarios
  BY <1>1, NextUpIsUnplayed DEF Located
<1>3. /\ Asked \in 0..Len(published)
      /\ Asked \in {0, evidence} \/ (Asked # 0 /\ Usable(Asked))
      /\ Mode(Here.kind, Here.requested) = "disabled" => Asked = 0
  <2>1. CASE known
    BY <2>1, <1>1 DEF Asked, TypeOK, DisabledMeansNone
  <2>2. CASE ~known
    BY <2>2, <1>2, LatestIsUsable DEF Asked
  <2> QED
    BY <2>1, <2>2
<1>4. /\ run' = run /\ Here' = Here /\ RunsAreCounted'
      /\ ComparisonsComeFirst' /\ PinsExist'
      /\ evidence' \in {0, evidence} => EvidenceIsOfCleanRuns'
  BY <1>1, RunsStay
<1>5. EvidenceIsOfCleanRuns'
  <2>1. CASE Asked \in {0, evidence}
    BY <2>1, <1>1, <1>4
  <2>2. CASE Asked # 0 /\ Usable(Asked)
    <3> DEFINE p == published[Asked]
    <3>1. Asked \in 1..Len(published)
      BY <1>3, <2>2, HereIsARun
    <3>2. Comparison(p) # "raised" /\ p \in Published
      BY <3>1, <2>2, HereIsARun DEF Usable
    <3>3. CASE p.origin = 0 /\ p.verdict = "clean"
      BY <3>3, <1>1 DEF EvidenceIsOfCleanRuns, Comparison
    <3>4. CASE p.origin \in 1..run /\ runs[p.origin].verdict # "none"
      <4>1. runs[p.origin] \in Run /\ p.origin # 0
        BY <3>4, HereIsARun
      <4>2. Comparison(p) = runs[p.origin].verdict
        BY <4>1 DEF Comparison
      <4>3. runs[p.origin].verdict = "clean"
        BY <4>1, <4>2, <3>2, <3>4 DEF Run
      <4>4. runs[p.origin].raised = {}
        BY <4>3, <3>4 DEF ComparisonsComeFirst
      <4> QED
        BY <4>1, <4>2, <4>3, <4>4, <1>1 DEF EvidenceIsOfCleanRuns, Comparison
    <3> QED
      BY <3>1, <3>3, <3>4 DEF ComparisonsComeFirst
  <2> QED
    BY <1>3, <2>1, <2>2
<1>6. /\ shown' \subseteq Proved(registry) /\ shown' \subseteq ToolNames
      /\ Cardinality(shown') <= MaxBundle
  BY <1>1, RoutedAreProved, RoutedWithinBudget
<1>7. frozen' \subseteq Offered /\ FrozenOffersAreRouted'
  <2> DEFINE offer == [scenario |-> at', entries |-> registry, visible |-> shown']
  <2>1. offer \in Offered
    BY <1>2, <1>6 DEF Offered, TypeOK
  <2>2. CASE Here.kind = "frozen" /\ Here.requested = "default"
    <3>1. frozen' = frozen \cup {offer}
      BY <2>2 DEF Route
    <3>2. Asked = 0
      BY <1>3, <2>2 DEF Mode
    <3>3. Evidence(evidence') = NoEvidence
      BY <3>2, <1>1 DEF Evidence, NoEvidence
    <3>4. offer.visible = Routed(offer.scenario, offer.entries, NoEvidence)
      BY <3>3, <1>1
    <3> QED
      BY <2>1, <3>1, <3>4 DEF TypeOK, FrozenOffersAreRouted
  <2>3. CASE ~(Here.kind = "frozen" /\ Here.requested = "default")
    <3>1. frozen' = frozen
      BY <2>3 DEF Route
    <3> QED
      BY <3>1 DEF TypeOK, FrozenOffersAreRouted
  <2> QED
    BY <2>2, <2>3
<1>8. TypeOK'
  BY <1>1, <1>2, <1>3, <1>4, <1>6, <1>7 DEF TypeOK, Phases
<1>9. Located'
  BY <1>1, <1>2, <1>4 DEF Located, Playing, Busy
<1>10. DisabledMeansNone' /\ FrozenKeepsTheRegistry' /\ OffersAreProved' /\ OffersFitTheBudget'
  BY <1>1, <1>3, <1>4, <1>6 DEF DisabledMeansNone, FrozenKeepsTheRegistry, OffersAreProved,
                                OffersFitTheBudget
<1> QED
  BY <1>4, <1>5, <1>7, <1>8, <1>9, <1>10

\* The helpers that are called are counted, in an online run; they were proved and
\* stay so.
LEMMA PlayKeeps == IInv /\ Play => IInv'
<1> SUFFICES ASSUME IInv, Play PROVE IInv'
  OBVIOUS
<1> USE DEF IInv
<1>1. PICK called \in SUBSET shown :
        /\ root' = [root EXCEPT !.calls = @ \cup {<<at, t>> : t \in called}]
        /\ registry' = IF Here.kind = "frozen" THEN registry
                       ELSE [t \in ToolNames |->
                                IF t \in called THEN RecordReuse(registry, t)[t]
                                ELSE registry[t]]
  BY DEF Play
<1>2. /\ main = "routed" /\ main' = "played"
      /\ runs' = runs /\ published' = published /\ known' = known
      /\ evidence' = evidence /\ at' = at /\ shown' = shown /\ frozen' = frozen
      /\ kills' = kills /\ others' = others
  BY DEF Play, bounded
<1>3. /\ called \subseteq Proved(registry)
      /\ called \subseteq ToolNames /\ at \in Scenarios
  BY <1>2 DEF OffersAreProved, Located, Busy, TypeOK, Proved
<1>4. /\ root' \in Root /\ root'.killed = root.killed /\ root'.snapshot = root.snapshot
  BY <1>1, <1>3 DEF TypeOK, Root
<1>5. registry' \in Manifests /\ Proved(registry) \subseteq Proved(registry')
  <2>1. CASE Here.kind = "frozen"
    BY <2>1, <1>1 DEF TypeOK
  <2>2. CASE Here.kind # "frozen"
    <3>1. registry' = [t \in ToolNames |->
                         IF t \in called THEN RecordReuse(registry, t)[t] ELSE registry[t]]
      BY <1>1, <2>2
    <3>2. ASSUME NEW t \in called
          PROVE  /\ RecordReuse(registry, t)[t] \in Entry
                 /\ HasCurrentProof(RecordReuse(registry, t)[t])
      BY <1>3, ReuseKeepsProof DEF TypeOK
    <3>3. registry' \in Manifests
      BY <3>1, <3>2 DEF TypeOK, Manifests
    <3>4. ASSUME NEW t \in Proved(registry) PROVE t \in Proved(registry')
      BY <3>1, <3>2, NoEntryAssumption DEF Proved
    <3> QED
      BY <3>3, <3>4
  <2> QED
    BY <2>1, <2>2
<1>6. /\ run' = run /\ Here' = Here /\ RunsAreCounted' /\ FrozenOffersAreRouted'
      /\ ComparisonsComeFirst' /\ PinsExist' /\ EvidenceIsOfCleanRuns'
  BY <1>2, <1>4, RunsStay
<1>7. TypeOK'
  BY <1>2, <1>4, <1>5, <1>6 DEF TypeOK, Phases
<1>8. Located' /\ DisabledMeansNone' /\ OffersFitTheBudget'
  BY <1>2, <1>4, <1>6 DEF Located, DisabledMeansNone, OffersFitTheBudget, Playing, Busy
<1>9. OffersAreProved' /\ FrozenKeepsTheRegistry'
  BY <1>1, <1>2, <1>4, <1>5, <1>6 DEF OffersAreProved, FrozenKeepsTheRegistry, Busy
<1> QED
  BY <1>6, <1>7, <1>8, <1>9

\* The selection row.
LEMMA LogSelectionKeeps == IInv /\ LogSelection => IInv'
<1> SUFFICES ASSUME IInv, LogSelection PROVE IInv'
  OBVIOUS
<1> USE DEF IInv
<1> DEFINE row == [scenario |-> at, visible |-> shown,
                   called |-> {t \in ToolNames : <<at, t>> \in root.calls}]
<1>1. /\ main = "played" /\ main' = "logged"
      /\ root' = [root EXCEPT !.log = Append(@, row)]
      /\ registry' = registry /\ runs' = runs /\ published' = published /\ known' = known
      /\ evidence' = evidence /\ at' = at /\ shown' = shown /\ frozen' = frozen
      /\ kills' = kills /\ others' = others
  BY DEF LogSelection, bounded
<1>2. row \in LogRow
  <2>1. at \in Nat
    BY <1>1, Constants DEF Located, Busy, Scenarios
  <2> QED
    BY <2>1 DEF LogRow, TypeOK
<1> HIDE DEF row
<1>3. /\ root' \in Root /\ root'.killed = root.killed /\ root'.snapshot = root.snapshot
  <2>1. root.log \in Seq(LogRow)
    BY DEF TypeOK, Root
  <2>2. Append(root.log, row) \in Seq(LogRow)
    BY <1>2, <2>1, AppendProperties
  <2> QED
    BY <1>1, <2>2 DEF TypeOK, Root
<1>4. /\ run' = run /\ Here' = Here /\ RunsAreCounted' /\ FrozenOffersAreRouted'
      /\ ComparisonsComeFirst' /\ PinsExist' /\ EvidenceIsOfCleanRuns'
  BY <1>1, <1>3, RunsStay
<1>5. TypeOK'
  BY <1>1, <1>3, <1>4 DEF TypeOK, Phases
<1>6. /\ Located' /\ DisabledMeansNone' /\ OffersFitTheBudget' /\ OffersAreProved'
      /\ FrozenKeepsTheRegistry'
  BY <1>1, <1>3, <1>4 DEF Located, DisabledMeansNone, OffersFitTheBudget, OffersAreProved,
                          FrozenKeepsTheRegistry, Playing, Busy
<1> QED
  BY <1>4, <1>5, <1>6

\* The scenario is done.
LEMMA FinishKeeps == IInv /\ Finish => IInv'
<1> SUFFICES ASSUME IInv, Finish PROVE IInv'
  OBVIOUS
<1> USE DEF IInv
<1>1. /\ main = "logged" /\ main' = "playing" /\ at' = 0 /\ shown' = {}
      /\ root' = [root EXCEPT !.done = @ \cup {at}]
      /\ registry' = registry /\ runs' = runs /\ published' = published /\ known' = known
      /\ evidence' = evidence /\ frozen' = frozen
      /\ kills' = kills /\ others' = others
  BY DEF Finish, bounded
<1>2. at \in Scenarios
  BY <1>1 DEF Located, Busy
<1>3. /\ root' \in Root /\ root'.killed = root.killed /\ root'.snapshot = root.snapshot
  BY <1>1, <1>2 DEF TypeOK, Root
<1>4. /\ run' = run /\ Here' = Here /\ RunsAreCounted' /\ FrozenOffersAreRouted'
      /\ ComparisonsComeFirst' /\ PinsExist' /\ EvidenceIsOfCleanRuns'
  BY <1>1, <1>3, RunsStay
<1>5. TypeOK'
  BY <1>1, <1>3, <1>4 DEF TypeOK, Phases
<1>6. /\ Located' /\ DisabledMeansNone' /\ OffersFitTheBudget' /\ OffersAreProved'
      /\ FrozenKeepsTheRegistry'
  BY <1>1, <1>3, <1>4 DEF Located, DisabledMeansNone, OffersFitTheBudget, OffersAreProved,
                          FrozenKeepsTheRegistry, Playing, Busy
<1> QED
  BY <1>4, <1>5, <1>6

\* The comparison of a run is written; nothing that is published is of that run.
LEMMA CompareKeeps == IInv /\ Compare => IInv'
<1> SUFFICES ASSUME IInv, Compare PROVE IInv'
  OBVIOUS
<1> USE DEF IInv
<1>1. PICK raised \in {{}} \cup {{s} : s \in {0} \cup Scenarios},
           losses \in {{}} \cup {{t} : t \in {u \in ToolNames : CalledIn(root.log, u) # {}}} :
        /\ runs' = [runs EXCEPT ![run].raised = raised,
                                ![run].verdict = IF raised = {} THEN "clean" ELSE "raised"]
        /\ root' = [root EXCEPT !.losses = losses]
  BY DEF Compare
<1>2. /\ main = "playing" /\ main' = "compared"
      /\ registry' = registry /\ published' = published /\ known' = known
      /\ evidence' = evidence /\ at' = at /\ shown' = shown /\ frozen' = frozen
      /\ kills' = kills /\ others' = others
  BY DEF Compare, bounded
<1>3. raised \in Raised /\ losses \in SUBSET ToolNames
  BY DEF Raised
<1>4. run \in 1..run /\ Here \in Run /\ Here.verdict = "none"
  BY <1>2, HereIsARun DEF Located, Playing
<1> DEFINE judged == [Here EXCEPT !.raised = raised,
                                  !.verdict = IF raised = {} THEN "clean" ELSE "raised"]
<1>5. /\ judged \in Run /\ judged.kind = Here.kind /\ judged.requested = Here.requested
      /\ judged.pinned = Here.pinned /\ judged.fresh = Here.fresh
      /\ judged.verdict # "none" /\ (judged.verdict = "clean" <=> judged.raised = {})
  BY <1>3, <1>4 DEF Run
<1>6. runs' = [runs EXCEPT ![run] = judged]
  BY <1>1, <1>4 DEF Here
<1> HIDE DEF judged
<1>7. /\ runs' \in Seq(Run) /\ run' = run /\ Here' = judged
      /\ \A r \in 1..run : r # run => runs'[r] = runs[r]
  <2>1. runs \in Seq(Run) /\ run \in 1..Len(runs)
    BY <1>4 DEF TypeOK, run
  <2>2. runs' \in Seq(Run) /\ Len(runs') = Len(runs)
    BY <1>5, <1>6, <2>1, ExceptSeq
  <2>3. \A r \in 1..Len(runs) : runs'[r] = IF r = run THEN judged ELSE runs[r]
    BY <1>6, <2>1, ExceptSeq
  <2> QED
    BY <2>1, <2>2, <2>3, <1>4 DEF Here, run
<1>8. \A r \in 1..run : runs'[r].requested = runs[r].requested
                        /\ runs'[r].pinned = runs[r].pinned /\ runs'[r].fresh = runs[r].fresh
  BY <1>4, <1>5, <1>7 DEF Here
<1>9. /\ root' \in Root /\ root'.killed = root.killed /\ root'.snapshot = root.snapshot
  BY <1>1, <1>3 DEF TypeOK, Root
<1>10. RunsAreCounted'
  <2>1. {r \in 1..run : runs[r].fresh} = {r \in 1..run' : runs'[r].fresh}
    BY <1>7, <1>8
  <2>2. Started' = Started
    BY <2>1 DEF Started
  <2> QED
    BY <2>2, <1>2, <1>7, <1>9 DEF RunsAreCounted
<1>11. ComparisonsComeFirst'
  <2>1. \A r \in 1..run' : runs'[r].verdict # "none" =>
            (runs'[r].verdict = "clean" <=> runs'[r].raised = {})
    BY <1>4, <1>5, <1>7 DEF ComparisonsComeFirst, Here
  <2>2. \A i \in 1..Len(published') :
          \/ published'[i].origin = 0 /\ published'[i].verdict = "clean"
          \/ /\ published'[i].origin \in 1..run'
             /\ runs'[published'[i].origin].verdict # "none"
    BY <1>2, <1>4, <1>5, <1>7 DEF ComparisonsComeFirst, Here
  <2> QED
    BY <2>1, <2>2 DEF ComparisonsComeFirst
<1>12. PinsExist'
  BY <1>2, <1>7, <1>8 DEF PinsExist
<1>13. EvidenceIsOfCleanRuns'
  <2>1. SUFFICES ASSUME evidence # 0 PROVE EvidenceIsOfCleanRuns'
    BY <1>2 DEF EvidenceIsOfCleanRuns
  <2>2. evidence \in 1..Len(published)
    BY <2>1, HereIsARun DEF TypeOK
  <2> DEFINE p == published[evidence]
  <2>3. Comparison(p) = "clean" /\ (p.origin # 0 => runs[p.origin].raised = {})
    BY <2>1 DEF EvidenceIsOfCleanRuns
  <2>4. p.origin = 0 \/ (p.origin \in 1..run /\ p.origin # run)
    <3>1. p.origin = 0 \/ p.origin \in 1..run
      BY <2>2 DEF ComparisonsComeFirst
    <3>2. p.origin # 0 => runs[p.origin].verdict = "clean"
      BY <2>3 DEF Comparison
    <3> QED
      BY <3>1, <3>2, <1>4 DEF Here
  <2> QED
    BY <2>3, <2>4, <1>2, <1>7 DEF EvidenceIsOfCleanRuns, Comparison
<1>14. TypeOK'
  BY <1>2, <1>7, <1>9 DEF TypeOK, Phases
<1>15. Located'
  BY <1>2, <1>5, <1>7, <1>9 DEF Located, Playing, Busy
<1>16. /\ DisabledMeansNone' /\ OffersFitTheBudget' /\ OffersAreProved'
       /\ FrozenKeepsTheRegistry' /\ FrozenOffersAreRouted'
  BY <1>2, <1>5, <1>7, <1>9 DEF DisabledMeansNone, OffersFitTheBudget, OffersAreProved,
                          FrozenKeepsTheRegistry, FrozenOffersAreRouted, Busy
<1> QED
  BY <1>10, <1>11, <1>12, <1>13, <1>14, <1>15, <1>16

\* What a run publishes is a summary of itself.
LEMMA SummaryOfTheRun ==
    ASSUME IInv, main = "compared", NEW torn \in BOOLEAN,
           published' = Append(published, Summary(torn)), runs' = runs
    PROVE  /\ published' \in Seq(Published) /\ Kept(published, published')
           /\ Len(published') = Len(published) + 1
           /\ ComparisonsComeFirst' /\ PinsExist'
           /\ evidence' \in {0, evidence} => EvidenceIsOfCleanRuns'
<1> USE DEF IInv
<1>1. run \in 1..run /\ Here \in Run /\ Here.verdict # "none" /\ Len(published) \in Nat
  BY HereIsARun DEF Located
<1>2. /\ Summary(torn) \in Published
      /\ Summary(torn).origin = run /\ runs[Summary(torn).origin].verdict # "none"
  <2>1. root.log \in Seq(LogRow) /\ root.losses \in SUBSET ToolNames
    BY DEF TypeOK, Root
  <2>2. Here.raised \in Raised /\ run \in Nat
    BY <1>1, HereIsARun DEF Run
  <2> QED
    BY <1>1, <2>1, <2>2 DEF Summary, Published, Here
<1>3. /\ published' \in Seq(Published) /\ Kept(published, published')
      /\ Len(published') = Len(published) + 1
      /\ published'[Len(published) + 1] = Summary(torn)
  <2> DEFINE summary == Summary(torn)
  <2> HIDE DEF summary
  <2>1. /\ Append(published, summary) \in Seq(Published)
        /\ Kept(published, Append(published, summary))
        /\ Len(Append(published, summary)) = Len(published) + 1
        /\ Append(published, summary)[Len(published) + 1] = summary
    BY <1>2, AppendKeeps DEF TypeOK, summary
  <2> QED
    BY <2>1 DEF summary
<1>4. \A i \in (Len(published) + 1)..Len(published') :
         /\ published'[i].origin \in 1..run
         /\ runs[published'[i].origin].verdict # "none"
  BY <1>1, <1>2, <1>3
<1> QED
  BY <1>3, <1>4, PublishedStays

LEMMA PublishKeeps == IInv /\ Publish => IInv'
<1> SUFFICES ASSUME IInv, Publish PROVE IInv'
  OBVIOUS
<1> USE DEF IInv
<1>1. /\ main = "compared" /\ main' = "gate"
      /\ published' = Append(published, Summary(FALSE))
      /\ registry' = registry /\ runs' = runs /\ root' = root /\ known' = known
      /\ evidence' = evidence /\ at' = at /\ shown' = shown /\ frozen' = frozen
      /\ kills' = kills /\ others' = others
  BY DEF Publish, bounded
<1>2. /\ published' \in Seq(Published) /\ Len(published') = Len(published) + 1
      /\ ComparisonsComeFirst' /\ PinsExist' /\ EvidenceIsOfCleanRuns'
  BY <1>1, SummaryOfTheRun
<1>3. run' = run /\ Here' = Here /\ Started' = Started /\ Len(published) \in Nat
  BY <1>1, HereIsARun DEF run, Here, Started
<1>4. TypeOK'
  <2>1. evidence' \in 0..Len(published')
    BY <1>1, <1>2, <1>3 DEF TypeOK
  <2>2. main' \in Phases /\ run' <= MaxRuns + MaxKills
    BY <1>1, <1>3 DEF TypeOK, Phases
  <2> QED
    BY <1>1, <1>2, <2>1, <2>2 DEF TypeOK
<1>5. /\ RunsAreCounted' /\ Located' /\ DisabledMeansNone' /\ OffersFitTheBudget'
      /\ OffersAreProved' /\ FrozenKeepsTheRegistry' /\ FrozenOffersAreRouted'
  BY <1>1, <1>3 DEF RunsAreCounted, Located, DisabledMeansNone, OffersFitTheBudget,
     OffersAreProved, FrozenKeepsTheRegistry, FrozenOffersAreRouted, Playing, Busy
<1> QED
  BY <1>2, <1>4, <1>5

\* A process that ended has nothing to keep.
LEMMA EndedKeeps ==
    ASSUME Idle
    PROVE  /\ EvidenceIsOfCleanRuns' /\ DisabledMeansNone' /\ OffersFitTheBudget'
           /\ OffersAreProved' /\ FrozenKeepsTheRegistry'
           /\ main' = "idle" /\ ~known' /\ known' \in BOOLEAN
           /\ evidence' = 0 /\ at' = 0 /\ shown' = {}
  BY DEF Idle, EvidenceIsOfCleanRuns, DisabledMeansNone, OffersFitTheBudget,
         OffersAreProved, FrozenKeepsTheRegistry, Busy

LEMMA GateKeeps == IInv /\ Gate => IInv'
<1> SUFFICES ASSUME IInv, Gate PROVE IInv'
  OBVIOUS
<1> USE DEF IInv
<1>1. /\ main = "gate" /\ Idle
      /\ runs' = runs /\ root' = root /\ published' = published /\ frozen' = frozen
      /\ kills' = kills /\ others' = others
  BY DEF Gate, bounded
<1>2. registry' \in {registry, root.snapshot}
  BY DEF Gate
<1>3. registry' \in Manifests
  BY <1>2 DEF TypeOK, Root
<1>4. /\ run' = run /\ Here' = Here /\ RunsAreCounted' /\ FrozenOffersAreRouted'
      /\ ComparisonsComeFirst' /\ PinsExist'
  BY <1>1, RunsStay
<1>5. /\ EvidenceIsOfCleanRuns' /\ DisabledMeansNone' /\ OffersFitTheBudget'
      /\ OffersAreProved' /\ FrozenKeepsTheRegistry'
      /\ main' = "idle" /\ ~known' /\ known' \in BOOLEAN
      /\ evidence' = 0 /\ at' = 0 /\ shown' = {}
  BY <1>1, EndedKeeps
<1>6. TypeOK'
  BY <1>1, <1>3, <1>4, <1>5, HereIsARun DEF TypeOK, Phases
<1>7. Located'
  BY <1>1, <1>4, <1>5 DEF Located, Playing, Busy
<1> QED
  BY <1>4, <1>5, <1>6, <1>7

LEMMA KillKeeps == IInv /\ Kill => IInv'
<1> SUFFICES ASSUME IInv, Kill PROVE IInv'
  OBVIOUS
<1> USE DEF IInv
<1>1. /\ main # "idle" /\ kills < MaxKills /\ kills' = kills + 1 /\ Idle
      /\ root' = [root EXCEPT !.killed = TRUE]
      /\ registry' = registry /\ runs' = runs /\ frozen' = frozen /\ others' = others
  BY DEF Kill
<1>2. /\ run' = run /\ Here' = Here /\ Started' = Started /\ run >= 1 /\ ~root.killed
      /\ run \in Nat /\ Len(published) \in Nat
  BY <1>1, HereIsARun DEF run, Here, Started, Located
<1>3. /\ EvidenceIsOfCleanRuns' /\ DisabledMeansNone' /\ OffersFitTheBudget'
      /\ OffersAreProved' /\ FrozenKeepsTheRegistry'
      /\ main' = "idle" /\ ~known' /\ known' \in BOOLEAN
      /\ evidence' = 0 /\ at' = 0 /\ shown' = {}
  BY <1>1, EndedKeeps
<1>4. /\ published' \in Seq(Published) /\ Len(published') \in Nat
      /\ ComparisonsComeFirst' /\ PinsExist'
  <2>1. CASE published' = published
    <3>1. ComparisonsComeFirst' /\ PinsExist'
      BY <2>1, <1>1, RunsStay
    <3> QED
      BY <2>1, <3>1, <1>2 DEF TypeOK
  <2>2. CASE main = "compared" /\ published' = Append(published, Summary(TRUE))
    <3>1. TRUE \in BOOLEAN
      OBVIOUS
    <3>2. /\ published' \in Seq(Published) /\ Len(published') = Len(published) + 1
          /\ ComparisonsComeFirst' /\ PinsExist'
      BY <2>2, <3>1, <1>1, SummaryOfTheRun
    <3> QED
      BY <3>2, <1>2
  <2> QED
    BY <2>1, <2>2 DEF Kill
<1>5. root' \in Root /\ root'.killed
  BY <1>1 DEF TypeOK, Root
<1>6. kills \in Nat /\ kills' \in 0..MaxKills
  BY <1>1, Constants DEF TypeOK
<1>7. RunsAreCounted'
  <2>1. run <= Started + kills /\ Started \in 0..MaxRuns
    BY <1>2, <1>6 DEF RunsAreCounted
  <2> QED
    BY <2>1, <1>1, <1>2, <1>5, <1>6, Constants DEF RunsAreCounted
<1>8. TypeOK'
  BY <1>1, <1>2, <1>3, <1>4, <1>5, <1>6 DEF TypeOK, Phases
<1>9. Located' /\ FrozenOffersAreRouted'
  BY <1>1, <1>2, <1>3 DEF Located, FrozenOffersAreRouted, Playing, Busy
<1> QED
  BY <1>3, <1>4, <1>7, <1>8, <1>9

\* The summary of another campaign is the evidence of no process yet.
LEMMA AnotherSummaryKeeps == IInv /\ AnotherSummary => IInv'
<1> SUFFICES ASSUME IInv, AnotherSummary PROVE IInv'
  OBVIOUS
<1> USE DEF IInv
<1> DEFINE other == [origin |-> 0, verdict |-> "clean", torn |-> FALSE, losses |-> {},
                     raised |-> {}, log |-> OtherLog]
<1>1. /\ main \in {"idle", "playing"} /\ others < MaxOthers /\ others' = others + 1
      /\ published' = Append(published, other)
      /\ registry' = registry /\ runs' = runs /\ root' = root /\ main' = main
      /\ known' = known /\ evidence' = evidence /\ at' = at /\ shown' = shown
      /\ frozen' = frozen /\ kills' = kills
  BY DEF AnotherSummary, process
<1>2. other \in Published /\ other.origin = 0 /\ other.verdict = "clean"
  <2>1. {} \in Raised
    BY DEF Raised
  <2> QED
    BY <2>1, Constants DEF Published
<1> HIDE DEF other
<1>3. /\ published' \in Seq(Published) /\ Kept(published, published')
      /\ Len(published') = Len(published) + 1 /\ Len(published) \in Nat
      /\ published'[Len(published) + 1] = other
  BY <1>1, <1>2, AppendKeeps, HereIsARun DEF TypeOK
<1>4. \A i \in (Len(published) + 1)..Len(published') :
         published'[i].origin = 0 /\ published'[i].verdict = "clean"
  BY <1>2, <1>3
<1>5. ComparisonsComeFirst' /\ PinsExist' /\ EvidenceIsOfCleanRuns'
  BY <1>1, <1>3, <1>4, PublishedStays
<1>6. run' = run /\ Here' = Here /\ Started' = Started
  BY <1>1 DEF run, Here, Started
<1>7. others' \in 0..MaxOthers
  BY <1>1, Constants DEF TypeOK
<1>8. TypeOK'
  BY <1>1, <1>3, <1>6, <1>7 DEF TypeOK
<1>9. /\ RunsAreCounted' /\ Located' /\ DisabledMeansNone' /\ OffersFitTheBudget'
      /\ OffersAreProved' /\ FrozenKeepsTheRegistry' /\ FrozenOffersAreRouted'
  BY <1>1, <1>6 DEF RunsAreCounted, Located, DisabledMeansNone, OffersFitTheBudget,
     OffersAreProved, FrozenKeepsTheRegistry, FrozenOffersAreRouted
<1> QED
  BY <1>5, <1>8, <1>9

\* A step that changes nothing.
LEMMA StutterKeeps == IInv /\ UNCHANGED vars => IInv'
<1> SUFFICES ASSUME IInv, UNCHANGED vars PROVE IInv'
  OBVIOUS
<1> USE DEF IInv
<1>1. /\ registry' = registry /\ runs' = runs /\ root' = root /\ published' = published
      /\ main' = main /\ known' = known /\ evidence' = evidence /\ at' = at
      /\ shown' = shown /\ frozen' = frozen /\ kills' = kills /\ others' = others
  BY DEF vars, process, bounded
<1>2. /\ run' = run /\ Here' = Here /\ RunsAreCounted' /\ FrozenOffersAreRouted'
      /\ ComparisonsComeFirst' /\ PinsExist' /\ EvidenceIsOfCleanRuns'
  BY <1>1, RunsStay
<1>3. TypeOK'
  BY <1>1, <1>2 DEF TypeOK
<1>4. /\ Located' /\ DisabledMeansNone' /\ OffersFitTheBudget' /\ OffersAreProved'
      /\ FrozenKeepsTheRegistry'
  BY <1>1, <1>2 DEF Located, DisabledMeansNone, OffersFitTheBudget, OffersAreProved,
     FrozenKeepsTheRegistry
<1> QED
  BY <1>2, <1>3, <1>4

LEMMA StepInvariant == IInv /\ [Next]_vars => IInv'
<1> SUFFICES ASSUME IInv, [Next]_vars PROVE IInv'
  OBVIOUS
<1>1. CASE StartRun
  BY <1>1, StartRunKeeps
<1>2. CASE Route
  BY <1>2, RouteKeeps
<1>3. CASE Play
  BY <1>3, PlayKeeps
<1>4. CASE LogSelection
  BY <1>4, LogSelectionKeeps
<1>5. CASE Birth
  BY <1>5, BirthKeeps
<1>6. CASE Finish
  BY <1>6, FinishKeeps
<1>7. CASE Compare
  BY <1>7, CompareKeeps
<1>8. CASE Publish
  BY <1>8, PublishKeeps
<1>9. CASE Gate
  BY <1>9, GateKeeps
<1>10. CASE Kill
  BY <1>10, KillKeeps
<1>11. CASE AnotherSummary
  BY <1>11, AnotherSummaryKeeps
<1>12. CASE UNCHANGED vars
  BY <1>12, StutterKeeps
<1> QED
  BY <1>1, <1>2, <1>3, <1>4, <1>5, <1>6, <1>7, <1>8, <1>9, <1>10, <1>11, <1>12
     DEF Next, AllRunsOver

-----------------------------------------------------------------------------
(* Theorems                                                                *)

\* The inductive invariant holds.
THEOREM Invariance == Spec => []IInv
  BY InitInvariant, StepInvariant, PTL DEF Spec

\* The types of the state.
THEOREM TypeCorrect == Spec => []TypeOK
<1>1. IInv => TypeOK
  BY DEF IInv
<1> QED
  BY <1>1, Invariance, PTL

\* No helper is judged by a run in which a play ended with an exception: a process
\* accepts a summary only when its comparison says "clean", the comparison is on disk
\* before the summary is, and nobody compares a run a second time.
THEOREM EvidenceIsClean == Spec => []EvidenceIsOfCleanRuns
<1>1. IInv => EvidenceIsOfCleanRuns
  BY DEF IInv
<1> QED
  BY <1>1, Invariance, PTL

\* A helper is hidden for adoption risk only on its numbers of scenarios.  (That
\* scenarios are counted, and not rows, is ReplaysCountOnce.)
THEOREM BlocksRest == Spec => []BlocksRestOnScenarios
<1>1. BlocksRestOnScenarios
  <2>1. SUFFICES ASSUME evidence # 0, NEW t \in ToolNames, NEW s \in Scenarios,
                        registry[t] # NoEntry,
                        AtRisk(t, s, registry[t], Evidence(evidence)[t])
                 PROVE  LET log == published[evidence].log
                        IN  /\ Cardinality(ShownIn(log, t)) >= RiskThreshold
                            /\ 2 * Cardinality(ShownIn(log, t) \ CalledIn(log, t))
                                  > Cardinality(ShownIn(log, t))
    BY DEF BlocksRestOnScenarios
  <2>2. Evidence(evidence)[t] = RowOf(published[evidence].log, published[evidence].losses, t)
    BY <2>1 DEF Evidence
  <2>3. /\ Evidence(evidence)[t].visible >= RiskThreshold
        /\ 2 * Evidence(evidence)[t].unused > Evidence(evidence)[t].visible
    BY <2>1 DEF AtRisk
  <2> QED
    BY <2>2, <2>3 DEF RowOf
<1> QED
  BY <1>1, PTL

\* What a frozen run with the default evidence mode offers is a function of the
\* scenario and the manifest: its process has no evidence, whatever is published.
THEOREM FrozenRouting == Spec => []FrozenRunsRouteByTheRegistry
<1>1. IInv => FrozenRunsRouteByTheRegistry
  BY DEF IInv, FrozenOffersAreRouted, FrozenRunsRouteByTheRegistry
<1> QED
  BY <1>1, Invariance, PTL

\* The two rates agree: unused in at most half of the showings is the contrary of
\* unused in most of them.
THEOREM PromotedNotAtRisk == Spec => []PromotedAreNotAtRisk
<1>1. TypeOK => PromotedAreNotAtRisk
  <2>1. SUFFICES ASSUME TypeOK, NEW i \in 1..Len(published), NEW t \in ToolNames,
                        Promotable(t, registry[t], i), NEW s \in Scenarios,
                        AtRisk(t, s, registry[t], Evidence(i)[t])
                 PROVE  FALSE
    BY DEF PromotedAreNotAtRisk
  <2> DEFINE row == RowOf(published[i].log, published[i].losses, t)
  <2>2. i # 0 /\ published[i].log \in Seq(LogRow)
    BY <2>1, HereIsARun DEF Published
  <2>3. row.visible \in Nat /\ row.unused \in Nat
    BY <2>2, RowsAreCounts
  <2>4. Evidence(i)[t] = row
    BY <2>2 DEF Evidence
  <2>5. 2 * row.unused <= row.visible
    BY <2>1 DEF Promotable
  <2> HIDE DEF row
  <2>6. 2 * row.unused > row.visible
    BY <2>1, <2>4 DEF AtRisk
  <2> QED
    BY <2>3, <2>5, <2>6
<1> QED
  BY <1>1, TypeCorrect, PTL

\* What a scenario is offered, from the routing until its result is on disk: only
\* helpers that the registry then holds with a current proof, and no more than the
\* budget of a bundle.
THEOREM OffersAreSound == Spec => [](OffersAreProved /\ OffersFitTheBudget)
<1>1. IInv => OffersAreProved /\ OffersFitTheBudget
  BY DEF IInv
<1> QED
  BY <1>1, Invariance, PTL

\* A frozen run never changes the registry, whatever is called, whatever the gate
\* says, and wherever it is killed.
FrozenRunsKeepTheRegistry ==
    [][main # "idle" /\ Here.kind = "frozen" => registry' = registry]_vars

THEOREM FrozenLeavesRegistry == Spec => FrozenRunsKeepTheRegistry
<1>1. ASSUME IInv, [Next]_vars, main # "idle", Here.kind = "frozen"
      PROVE  registry' = registry
  <2>1. CASE StartRun
    BY <2>1, <1>1 DEF StartRun
  <2>2. CASE Birth
    BY <2>2, <1>1 DEF Birth
  <2>3. CASE Play
    BY <2>3, <1>1 DEF Play
  <2>4. CASE Gate
    BY <2>4, <1>1 DEF Gate, IInv, FrozenKeepsTheRegistry
  <2>5. CASE Route \/ LogSelection \/ Finish \/ Compare
    BY <2>5 DEF Route, LogSelection, Finish, Compare
  <2>6. CASE Publish \/ Kill \/ AnotherSummary \/ AllRunsOver \/ UNCHANGED vars
    BY <2>6 DEF Publish, Kill, AnotherSummary, AllRunsOver, vars
  <2> QED
    BY <1>1, <2>1, <2>2, <2>3, <2>4, <2>5, <2>6 DEF Next
<1>2. IInv /\ [Next]_vars =>
        [main # "idle" /\ Here.kind = "frozen" => registry' = registry]_vars
  BY <1>1
<1> QED
  BY <1>2, Invariance, PTL DEF Spec, FrozenRunsKeepTheRegistry

==============================================================================
