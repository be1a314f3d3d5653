------------------------- MODULE ScenarioPlayProofs -------------------------
(***************************************************************************)
(* What a minefield is worth, for any catalogue of scenarios whose         *)
(* minefields are single calls: who makes the forbidden call gets nothing  *)
(* for the play, whatever the rest of it looks like.  The play leaves a    *)
(* message that is like the minefield, later messages do not take it away, *)
(* and the search of the matcher, pruned or not, finds it.                 *)
(***************************************************************************)
EXTENDS ScenarioPlay, TLAPS

\* The proofs about the search, for the problems of a play.
Found == INSTANCE MilestoneMatcherProofs WITH
    Problems <- {}, SANDBOX <- "SANDBOX", NoReference <- NoMilestone, NoEdgeList <- {}

\* The assumption that they rest on.
LEMMA MatcherAssumption == Unit \in Nat /\ \A p \in {} : Found!WellPosed(p)
  BY DEF Unit

-----------------------------------------------------------------------------
(* The matcher of a play is the one that the proofs are about.             *)

LEMMA SameSearch == Matcher!Search = Found!Search
  BY DEF Matcher!Search, Found!Search, Matcher!Nodes, Found!Nodes,
    Matcher!NodesOf, Found!NodesOf, Matcher!EdgesOf, Found!EdgesOf,
    Matcher!Branches, Found!Branches, Matcher!Assignments, Found!Assignments,
    Matcher!Snapshots, Found!Snapshots, Matcher!Heap, Found!Heap,
    Matcher!Assignment, Found!Assignment, Matcher!Similarity, Found!Similarity,
    Matcher!ReferenceSnapshots, Found!ReferenceSnapshots,
    Matcher!ReferenceSnapshot, Found!ReferenceSnapshot,
    Matcher!Initial, Found!Initial, Matcher!References, Found!References,
    Matcher!ReferencesOf, Found!ReferencesOf, Matcher!Ready, Found!Ready,
    Matcher!Predecessors, Found!Predecessors, Matcher!Edges, Found!Edges,
    Matcher!FirstSnapshot, Found!FirstSnapshot, Matcher!BestFound, Found!BestFound,
    Matcher!NoResult, Found!NoResult, Matcher!Top, Found!Top,
    Matcher!PopsBefore, Found!PopsBefore, Matcher!Prunes, Found!Prunes,
    Matcher!Extended, Found!Extended,
    Matcher!Cardinality, Found!Cardinality, Matcher!Last, Found!Last

Guardrails == [m \in Matcher!Nodes |-> Matcher!GuardrailsOf(m)]

LEMMA SameGuardrails == Guardrails = [m \in Found!Nodes |-> Found!GuardrailsOf(m)]
  BY DEF Guardrails, Matcher!GuardrailsOf, Found!GuardrailsOf, Matcher!Nodes, Found!Nodes,
    Matcher!NodesOf, Found!NodesOf, Matcher!EdgesOf, Found!EdgesOf,
    Matcher!Guarded, Found!Guarded, Matcher!Bystanders, Found!Bystanders,
    Matcher!References, Found!References, Matcher!ReferencesOf, Found!ReferencesOf,
    Matcher!Predecessors, Found!Predecessors, Matcher!Edges, Found!Edges,
    Matcher!ConstrainedIn, Found!ConstrainedIn

LEMMA SameCondition == \A p : Matcher!CanBeSearched(p) <=> Found!CanBeSearched(p)
  BY DEF Matcher!CanBeSearched, Found!CanBeSearched, Matcher!NodesOf, Found!NodesOf,
    Matcher!EdgesOf, Found!EdgesOf, Matcher!ReferencesOf, Found!ReferencesOf,
    Matcher!Initial, Found!Initial, Matcher!IsClosed, Found!IsClosed

\* Whether a problem can be searched depends on its graph and its references.
LEMMA ConditionOnGraph ==
  ASSUME NEW p, NEW q, p.n = q.n, p.edge_list = q.edge_list, p.constraints = q.constraints,
         Found!CanBeSearched(p)
  PROVE  Found!CanBeSearched(q)
<1>1. Found!EdgesOf(p) = Found!EdgesOf(q)
  BY DEF Found!EdgesOf
<1>2. Found!NodesOf(p) = Found!NodesOf(q)
  BY <1>1 DEF Found!NodesOf
<1>3. \A m : Found!ReferencesOf(p, m) = Found!ReferencesOf(q, m)
  BY DEF Found!ReferencesOf
<1>4. \A S : Found!IsClosed(S, p) <=> Found!IsClosed(S, q)
  BY <1>1, <1>2 DEF Found!IsClosed
<1> QED
  BY <1>1, <1>2, <1>3, <1>4 DEF Found!CanBeSearched

-----------------------------------------------------------------------------
(* The problem that the minefields pose.                                   *)

Minefields == ToSet(scenario.minefields)
MinefieldProblem == AsProblem(scenario.minefields, LinkedList(scenario.minefields))

IsOneCall(x) ==
  \E c \in x.snapshot_constraints :
    /\ x.snapshot_constraints = {c}
    /\ c.kind \in {"call", "trace"} /\ c.reference = NoMilestone

\* A trail is a sequence of messages, the first of which is the user's.
IsTrail(t) == t \in Seq(ToSet(t)) /\ Len(t) \in Nat \ {0}

LEMMA MinefieldsAreCalls ==
  ASSUME scenario \in Scenarios
  PROVE  /\ scenario.minefields \in Seq(Minefields)
         /\ Len(scenario.minefields) \in Nat
         /\ \A m \in 0 .. Len(scenario.minefields) - 1 :
               scenario.minefields[m + 1] \in Minefields /\ IsOneCall(scenario.minefields[m + 1])
<1>1. scenario.minefields \in Seq(Minefields) /\ \A x \in Minefields : IsOneCall(x)
  BY MinefieldsAssumption DEF Minefields, IsOneCall
<1>2. Len(scenario.minefields) \in Nat
  BY <1>1
<1>3. ASSUME NEW m \in 0 .. Len(scenario.minefields) - 1
      PROVE  scenario.minefields[m + 1] \in Minefields
  BY <1>1, <1>2, <1>3
<1> QED
  BY <1>1, <1>2, <1>3

\* What the graph of the minefields is: all of them, without references.
LEMMA MinefieldGraph ==
  ASSUME scenario \in Scenarios, problem = MinefieldProblem
  PROVE  /\ Found!Nodes = 0 .. Len(scenario.minefields) - 1
         /\ \A m \in Found!Nodes : Found!References(m) = {}
         /\ Found!CanBeSearched(problem)
<1> DEFINE n == Len(scenario.minefields)
<1>1. /\ problem.n = n /\ problem.edge_list = LinkedList(scenario.minefields)
      /\ problem.constraints = ConstraintsOf(scenario.minefields)
  BY DEF MinefieldProblem, AsProblem
<1>2. n \in Nat /\ \A m \in 0 .. n - 1 : IsOneCall(scenario.minefields[m + 1])
  BY MinefieldsAreCalls
<1>3. Found!EdgesOf(problem) = {<<m, m + 1>> : m \in 0 .. n - 2}
  BY <1>1 DEF Found!EdgesOf, LinkedList
<1>4. Found!Nodes = 0 .. n - 1
  <2>1. CASE n = 1
    <3>1. Found!Nodes = {0}
      BY <1>1, <2>1 DEF Found!Nodes, Found!NodesOf
    <3> QED
      BY <2>1, <3>1
  <2>2. CASE n # 1
    <3>1. Found!Nodes = {m \in 0 .. n - 1 : \E e \in Found!EdgesOf(problem) : m \in {e[1], e[2]}}
      BY <1>1, <2>2 DEF Found!Nodes, Found!NodesOf
    <3>2. ASSUME NEW m \in 0 .. n - 1
          PROVE  \E e \in Found!EdgesOf(problem) : m \in {e[1], e[2]}
      <4>1. CASE m <= n - 2
        <5>1. m \in 0 .. n - 2
          BY <1>2, <4>1
        <5>2. <<m, m + 1>> \in Found!EdgesOf(problem) /\ m \in {<<m, m + 1>>[1], <<m, m + 1>>[2]}
          BY <1>3, <5>1
        <5> QED
          BY <5>2
      <4>2. CASE m = n - 1
        <5> HIDE DEF n
        <5>1. m - 1 \in 0 .. n - 2 /\ (m - 1) + 1 = m
          BY <1>2, <2>2, <4>2
        <5>2. <<m - 1, m>> \in Found!EdgesOf(problem) /\ m \in {<<m - 1, m>>[1], <<m - 1, m>>[2]}
          BY <1>3, <5>1
        <5> QED
          BY <5>2
      <4> QED
        BY <1>2, <4>1, <4>2
    <3> QED
      BY <3>1, <3>2
  <2> QED
    BY <2>1, <2>2
<1>5. ASSUME NEW m \in Found!Nodes PROVE Found!References(m) = {}
  <2>1. PICK c \in scenario.minefields[m + 1].snapshot_constraints :
            scenario.minefields[m + 1].snapshot_constraints = {c} /\ c.reference = NoMilestone
    BY <1>2, <1>4 DEF IsOneCall
  <2>2. problem.constraints[m] =
            {[database |-> k.database, reference |-> k.reference] :
                k \in scenario.minefields[m + 1].snapshot_constraints}
    BY <1>1, <1>4 DEF ConstraintsOf
  <2>3. \A k \in problem.constraints[m] : k.reference = NoMilestone
    BY <2>1, <2>2
  <2> QED
    BY <2>3 DEF Found!References, Found!ReferencesOf
<1>6. Found!CanBeSearched(problem)
  <2> DEFINE p == [n |-> Len(scenario.minefields), edge_list |-> LinkedList(scenario.minefields),
                   constraints |-> ConstraintsOf(scenario.minefields)]
             part == <<scenario.minefields, LinkedList(scenario.minefields)>>
  <2>1. Matcher!CanBeSearched([n |-> Len(part[1]), edge_list |-> part[2],
                               constraints |-> ConstraintsOf(part[1])])
    BY ScenariosAssumption
  <2>2. Matcher!CanBeSearched(p)
    BY <2>1
  <2>3. Found!CanBeSearched(p)
    BY <2>2, SameCondition
  <2>4. p.n = problem.n /\ p.edge_list = problem.edge_list /\ p.constraints = problem.constraints
    BY <1>1
  <2> HIDE DEF p
  <2> QED
    BY <2>3, <2>4, ConditionOnGraph
<1> QED
  BY <1>4, <1>5, <1>6

-----------------------------------------------------------------------------
(* What a message is worth.                                                *)

\* The message makes the call that the minefield forbids.
Trips(x, message) ==
  \E c \in x.snapshot_constraints :
    \/ c.kind = "call" /\ IsCallOf(c, message)
    \/ c.kind = "trace" /\ IsTraceOf(c, message)

\* A similarity is one, and it is full for a message that makes the call.
LEMMA LikenessOfMinefield ==
  ASSUME scenario \in Scenarios, problem = MinefieldProblem,
         NEW m \in 0 .. Len(scenario.minefields) - 1, NEW s, NEW at
  PROVE  /\ Likeness(problem, m, s, at) \in 0 .. Unit
         /\ Trips(scenario.minefields[m + 1], trail[s + 1]) => Likeness(problem, m, s, at) = Unit
<1>1. PICK c \in scenario.minefields[m + 1].snapshot_constraints :
          /\ scenario.minefields[m + 1].snapshot_constraints = {c}
          /\ c.kind \in {"call", "trace"} /\ c.reference = NoMilestone
  BY MinefieldsAreCalls DEF IsOneCall
<1>2. problem.milestones = scenario.minefields /\ problem.trail = trail
  BY DEF MinefieldProblem, AsProblem
<1> DEFINE v == ConstraintLikeness(problem, m, c, s, at)
<1>3. v \in 0 .. Unit
  BY DEF ConstraintLikeness, Unit
<1>4. Trips(scenario.minefields[m + 1], trail[s + 1]) => v = Unit
  <2>1. ASSUME c.kind = "call", IsCallOf(c, trail[s + 1]) PROVE v = Unit
    BY <1>2, <2>1 DEF ConstraintLikeness
  <2>2. ASSUME c.kind = "trace", IsTraceOf(c, trail[s + 1]) PROVE v = Unit
    BY <1>1, <1>2, <2>2 DEF ConstraintLikeness
  <2> QED
    BY <1>1, <2>1, <2>2 DEF Trips
<1> HIDE DEF v
<1>5. Likeness(problem, m, s, at) = Min({v})
  <2>1. {ConstraintLikeness(problem, m, k, s, at) :
            k \in problem.milestones[m + 1].snapshot_constraints} = {v}
    BY <1>1, <1>2 DEF v
  <2> QED
    BY <2>1 DEF Likeness
<1>6. Min({v}) = v
  <2>1. v \in {v} /\ \A y \in {v} : v =< y
    BY <1>3
  <2> QED
    BY <2>1 DEF Min
<1> QED
  BY <1>3, <1>4, <1>5, <1>6

\* So the search is worth something when some message makes a forbidden call.
LEMMA SearchFindsTheCall ==
  ASSUME scenario \in Scenarios, IsTrail(trail), problem = MinefieldProblem,
         guardrails = Guardrails,
         NEW i \in DOMAIN trail, NEW x \in Minefields, Trips(x, trail[i])
  PROVE  Matcher!Search.sum > 0
<1> DEFINE n == Len(scenario.minefields)
           none == [r \in {} |-> 0]
<1>1. scenario.minefields \in Seq(Minefields) /\ n \in Nat
  BY MinefieldsAreCalls
<1>2. PICK m \in 0 .. n - 1 : scenario.minefields[m + 1] = x
  <2>1. PICK j \in 1 .. n : scenario.minefields[j] = x
    BY <1>1 DEF Minefields, ToSet
  <2>2. j - 1 \in 0 .. n - 1 /\ (j - 1) + 1 = j
    BY <1>1, <2>1
  <2> QED
    BY <2>1, <2>2
<1>3. /\ problem.n = n /\ problem.last = Len(trail) - 1
  BY DEF MinefieldProblem, AsProblem, LastSnapshot
<1>4. Found!Nodes = 0 .. n - 1 /\ (\A q \in Found!Nodes : Found!References(q) = {})
      /\ Found!CanBeSearched(problem)
  BY MinefieldGraph
<1>5. Len(trail) \in Nat \ {0} /\ i \in 1 .. Len(trail)
  BY DEF IsTrail
<1>6. Found!WellPosed(problem)
  <2>1. problem.n \in Nat /\ problem.last \in Nat
    BY <1>1, <1>3, <1>5
  <2>2. Found!NodesOf(problem) = 0 .. n - 1
    BY <1>4 DEF Found!Nodes
  <2>3. \A q \in 0 .. n - 1 : \A s, at : Likeness(problem, q, s, at) \in 0 .. Unit
    BY LikenessOfMinefield
  <2> QED
    BY <1>4, <2>1, <2>2, <2>3 DEF Found!WellPosed
<1>7. Found!Given
  BY <1>6, SameGuardrails DEF Found!Given
<1>8. i - 1 \in Found!Snapshots /\ (i - 1) + 1 = i
  BY <1>3, <1>5 DEF Found!Snapshots
<1>9. Found!Search.sum \in Nat /\ Found!Search.sum >= Likeness(problem, m, i - 1, none)
  <2>1. m \in Found!Nodes
    BY <1>4
  <2> QED
    BY <1>4, <1>7, <1>8, <2>1, MatcherAssumption, Found!SearchFindsLikeness
<1>10. Likeness(problem, m, i - 1, none) = Unit
  BY <1>2, <1>8, LikenessOfMinefield
<1> HIDE DEF none
<1>11. Found!Search.sum \in Nat /\ Found!Search.sum >= 2
  BY <1>9, <1>10 DEF Unit
<1> QED
  BY <1>11, SameSearch

-----------------------------------------------------------------------------
(* The trail only grows.                                                   *)

\* The agent has made a forbidden call.  One that raised leaves no trace, so it
\* counts where each minefield is the message of the call.
Trespassed ==
  \/ stray.kind = "did the forbidden"
  \/ /\ stray.kind = "tried the forbidden"
     /\ \A x \in Minefields : \E c \in x.snapshot_constraints : c.kind = "call"

HasTripped(t) == \E i \in DOMAIN t : \E x \in Minefields : Trips(x, t[i])

\* What follows on a trail takes nothing from it.
LEMMA TrailsGrow ==
  ASSUME NEW t, IsTrail(t), NEW q, q \in Seq(ToSet(q))
  PROVE  /\ IsTrail(t \o q)
         /\ HasTripped(t) \/ HasTripped(q) => HasTripped(t \o q)
<1> DEFINE S == ToSet(t) \union ToSet(q)
           u == t \o q
<1>1. t \in Seq(S) /\ q \in Seq(S) /\ Len(t) \in Nat \ {0} /\ Len(q) \in Nat
  BY DEF IsTrail
<1> HIDE DEF S
<1>2. /\ u \in Seq(S) /\ Len(u) = Len(t) + Len(q)
      /\ \A i \in 1 .. Len(t) : u[i] = t[i]
      /\ \A i \in 1 .. Len(q) : u[Len(t) + i] = q[i]
  BY <1>1
<1> HIDE DEF u
<1>3. DOMAIN t = 1 .. Len(t) /\ DOMAIN q = 1 .. Len(q) /\ DOMAIN u = 1 .. Len(u)
  BY <1>1, <1>2
<1>4. IsTrail(u)
  <2>1. u \in [1 .. Len(u) -> ToSet(u)]
    BY <1>2, <1>3 DEF ToSet
  <2>2. Len(u) \in Nat \ {0}
    BY <1>1, <1>2
  <2>3. u \in Seq(ToSet(u))
    BY <2>1, <2>2
  <2> QED
    BY <2>2, <2>3 DEF IsTrail
<1>5. ASSUME NEW i \in DOMAIN t PROVE i \in DOMAIN u /\ u[i] = t[i]
  BY <1>1, <1>2, <1>3
<1>6. ASSUME NEW i \in DOMAIN q PROVE Len(t) + i \in DOMAIN u /\ u[Len(t) + i] = q[i]
  BY <1>1, <1>2, <1>3
<1> QED
  BY <1>4, <1>5, <1>6 DEF HasTripped, u

LEMMA TwoMessages ==
  ASSUME NEW a, NEW b
  PROVE  /\ <<a, b>> \in Seq(ToSet(<<a, b>>))
         /\ \A x \in Minefields : Trips(x, a) \/ Trips(x, b) => HasTripped(<<a, b>>)
<1>1. <<a, b>> \in Seq({a, b}) /\ DOMAIN <<a, b>> = {1, 2}
  OBVIOUS
<1>2. ToSet(<<a, b>>) = {a, b}
  BY <1>1 DEF ToSet
<1> QED
  BY <1>1, <1>2 DEF HasTripped

LEMMA OneMoreMessage ==
  ASSUME NEW t, IsTrail(t), NEW a
  PROVE  IsTrail(Append(t, a)) /\ (HasTripped(t) => HasTripped(Append(t, a)))
<1>1. <<a>> \in Seq({a}) /\ ToSet(<<a>>) = {a}
  BY DEF ToSet
<1>2. Append(t, a) = t \o <<a>>
  BY DEF IsTrail
<1> QED
  BY <1>1, <1>2, TrailsGrow

\* A batch is so many messages and so many answers.
LEMMA BatchesGrow ==
  ASSUME IsTrail(trail), NEW n \in Nat, NEW calls, DOMAIN calls = 1 .. n
  PROVE  IsTrail(Batch(calls)) /\ (HasTripped(trail) => HasTripped(Batch(calls)))
<1>1. ASSUME NEW q, DOMAIN q = 1 .. n, q = [i \in 1 .. n |-> q[i]] PROVE q \in Seq(ToSet(q))
  BY <1>1 DEF ToSet
<1> DEFINE asked == [i \in DOMAIN calls |->
                       Request(calls[i], ResultsFor(calls[i].milestone), World)]
           told  == [i \in DOMAIN calls |->
                       Response(calls[i], TRUE, ResultsFor(calls[i].milestone),
                                FoldLeft(After, World, calls))]
<1>2. Batch(calls) = (trail \o asked) \o told
  BY DEF Batch
<1>3. asked \in Seq(ToSet(asked)) /\ told \in Seq(ToSet(told))
  BY <1>1
<1> HIDE DEF asked, told
<1>4. IsTrail(trail \o asked) /\ (HasTripped(trail) => HasTripped(trail \o asked))
  BY <1>3, TrailsGrow
<1> DEFINE u == trail \o asked
<1> HIDE DEF u
<1>5. IsTrail(u \o told) /\ (HasTripped(u) => HasTripped(u \o told))
  BY <1>3, <1>4, TrailsGrow DEF u
<1> QED
  BY <1>2, <1>4, <1>5 DEF u

-----------------------------------------------------------------------------
(* The behaviours.                                                         *)

\* While the minefields are matched, the matcher has their problem, with the
\* guardrails that AddGuardrails made; its result is worth something if the agent
\* has made a forbidden call.
MatchingMinefields ==
  /\ problem = MinefieldProblem
  /\ guardrails \in {Matcher!NoGuardrails, Guardrails}
  /\ result # Matcher!NoResult /\ Trespassed => result.sum > 0

\* The inductive invariant: a forbidden call is on the trail, and counts.
IInv ==
  /\ scenario \in Scenarios
  /\ IsTrail(trail)
  /\ Trespassed => HasTripped(trail)
  /\ scores \in Seq(ToSet(scores)) /\ Len(scores) \in 0 .. 2
  /\ problem = NoProblem => guardrails = Matcher!NoGuardrails /\ result = Matcher!NoResult
  /\ problem # NoProblem => Len(scores) < 2
  /\ problem # NoProblem /\ Len(scores) = 1 => MatchingMinefields
  /\ Len(scores) = 2 /\ Trespassed => scores[2] > 0

\* A step of the agent is a step before the evaluation.
Played ==
  /\ scenario' = scenario /\ matching' = matching /\ scores' = scores
  /\ problem = NoProblem /\ scores = <<>>

LEMMA AfterPlaying ==
  ASSUME IInv, Played, IsTrail(trail'), Trespassed' => HasTripped(trail')
  PROVE  IInv'
<1>1. /\ scenario' = scenario /\ problem' = problem /\ guardrails' = guardrails
      /\ result' = result /\ scores' = scores
  BY DEF Played, matching
<1>2. problem = NoProblem /\ Len(scores) = 0
  BY DEF Played
<1>3. HasTripped(trail') => HasTripped(trail)'
  BY <1>1 DEF HasTripped, Minefields
<1>4. Matcher!NoGuardrails' = Matcher!NoGuardrails /\ Matcher!NoResult' = Matcher!NoResult
      /\ NoProblem' = NoProblem
  BY DEF Matcher!NoGuardrails, Matcher!NoResult, NoProblem
<1> QED
  BY <1>1, <1>2, <1>3, <1>4 DEF IInv

LEMMA InitIInv == ASSUME Init PROVE IInv
<1>1. stray.kind = "none"
  BY DEF Init, NoStray
<1>2. ~ Trespassed
  BY <1>1 DEF Trespassed
<1>3. IsTrail(trail)
  <2>1. PICK a : trail = <<a>>
    BY DEF Init
  <2>2. <<a>> \in Seq({a}) /\ Len(<<a>>) = 1 /\ ToSet(<<a>>) = {a}
    BY DEF ToSet
  <2> QED
    BY <2>1, <2>2 DEF IsTrail
<1>4. scores \in Seq(ToSet(scores)) /\ Len(scores) = 0
  BY DEF Init, ToSet
<1> QED
  BY <1>2, <1>3, <1>4 DEF Init, IInv

\* The agent goes on with its task.
LEMMA OnTaskIInv ==
  ASSUME IInv, OnTask
  PROVE  IInv'
<1>1. Played /\ stray' = stray
  BY DEF OnTask, CarryOut, Tell, TurnOn, Playing, Played
<1>2. IsTrail(trail') /\ (HasTripped(trail) => HasTripped(trail'))
  <2>1. CASE CarryOut
    <3>1. PICK n \in 1 .. MaxBatch : \E calls \in [1 .. n -> pending] : trail' = Batch(calls)
      BY <2>1 DEF CarryOut
    <3>2. PICK calls \in [1 .. n -> pending] : trail' = Batch(calls)
      BY <3>1
    <3>3. n \in Nat /\ DOMAIN calls = 1 .. n
      BY MaxBatchAssumption
    <3> QED
      BY <3>2, <3>3, BatchesGrow DEF IInv
  <2>2. CASE Tell
    <3>1. PICK a : trail' = Append(trail, a)
      BY <2>2 DEF Tell
    <3> QED
      BY <3>1, OneMoreMessage DEF IInv
  <2>3. CASE TurnOn
    <3>1. PICK a, b : trail' = trail \o <<a, b>>
      BY <2>3 DEF TurnOn
    <3> QED
      BY <3>1, TwoMessages, TrailsGrow DEF IInv
  <2> QED
    BY <2>1, <2>2, <2>3 DEF OnTask
<1>3. Trespassed' => Trespassed
  BY <1>1 DEF Trespassed, Minefields, Played
<1> QED
  BY <1>1, <1>2, <1>3, AfterPlaying DEF IInv

\* It strays, but does nothing that a minefield forbids.
Harmless ==
  /\ Played /\ stray'.kind \notin {"did the forbidden", "tried the forbidden"}
  /\ IsTrail(trail')

LEMMA HarmlessIInv ==
  ASSUME IInv, Harmless
  PROVE  IInv'
<1>1. ~ Trespassed'
  BY DEF Harmless, Trespassed
<1> QED
  BY <1>1, AfterPlaying DEF Harmless

LEMMA StraysMeans ==
  ASSUME NEW kind, NEW database, NEW tool, Strays(kind, database, tool)
  PROVE  Played /\ stray'.kind = kind
BY DEF Strays, Playing, Played

\* Who makes the forbidden call leaves it on the trail: the message that asks for
\* it, and its answer with a trace if it has returned.
LEMMA MineTrips ==
  ASSUME IInv, StepOnMine
  PROVE  IInv'
<1>0. PICK x \in Minefields : \E c \in x.snapshot_constraints :
          LET call == Call(-1, c.name, c.arguments, "read", "", NoRow)
          IN  \E raises \in {TRUE, ~CanCall(call)} :
              /\ Strays(IF raises THEN "tried the forbidden" ELSE "did the forbidden", "", c.name)
              /\ trail' = trail \o <<Request(call, {}, World), Response(call, ~raises, {}, World)>>
  BY DEF StepOnMine, Minefields
<1>1. PICK c \in x.snapshot_constraints, raises \in BOOLEAN :
          LET call == Call(-1, c.name, c.arguments, "read", "", NoRow)
          IN  /\ Strays(IF raises THEN "tried the forbidden" ELSE "did the forbidden", "", c.name)
              /\ trail' = trail \o <<Request(call, {}, World), Response(call, ~raises, {}, World)>>
  BY <1>0
<1> DEFINE call == Call(-1, c.name, c.arguments, "read", "", NoRow)
           a == Request(call, {}, World)
           b == Response(call, ~raises, {}, World)
<1>2. /\ Played /\ trail' = trail \o <<a, b>>
      /\ stray'.kind = IF raises THEN "tried the forbidden" ELSE "did the forbidden"
  BY <1>1, StraysMeans
<1>3. IsCallOf(c, a)
  BY DEF IsCallOf, Request, Message, Call
<1>4. ~ raises /\ c.kind = "trace" => IsTraceOf(c, b)
  BY DEF IsTraceOf, Response, Message, Call
<1>5. c.kind \in {"call", "trace"} /\ \A k \in x.snapshot_constraints : k = c
  BY MinefieldsAssumption DEF IInv, Minefields
<1> HIDE DEF a, b
<1>6. Trespassed' => Trips(x, a) \/ Trips(x, b)
  <2>1. CASE ~ raises
    BY <1>3, <1>4, <1>5, <2>1 DEF Trips
  <2>2. CASE raises /\ Trespassed'
    <3>1. \E k \in x.snapshot_constraints : k.kind = "call"
      <4>1. Minefields' = Minefields
        BY <1>2 DEF Minefields, Played
      <4>2. stray'.kind # "did the forbidden"
        BY <1>2, <2>2
      <4> QED
        BY <2>2, <4>1, <4>2 DEF Trespassed
    <3>2. c.kind = "call"
      BY <1>5, <3>1
    <3> QED
      BY <1>3, <3>2 DEF Trips
  <2> QED
    BY <2>1, <2>2
<1>7. <<a, b>> \in Seq(ToSet(<<a, b>>)) /\ (Trespassed' => HasTripped(<<a, b>>))
  BY <1>6, TwoMessages
<1>8. IsTrail(trail') /\ (Trespassed' => HasTripped(trail'))
  <2> DEFINE q == <<a, b>>
  <2> HIDE DEF q
  <2>1. IsTrail(trail \o q) /\ (HasTripped(q) => HasTripped(trail \o q))
    BY <1>7, TrailsGrow DEF IInv, q
  <2> QED
    BY <1>2, <1>7, <2>1 DEF q
<1> QED
  BY <1>2, <1>8, AfterPlaying

LEMMA StrayingIInv ==
  ASSUME IInv, Straying
  PROVE  IInv'
<1>1. ASSUME NEW a, NEW b PROVE IsTrail(trail \o <<a, b>>)
  BY TwoMessages, TrailsGrow DEF IInv
<1>2. ASSUME AskBack PROVE Harmless
  <2>1. Played /\ stray'.kind = "asked"
    BY <1>2, StraysMeans DEF AskBack
  <2>2. \E a, b : trail' = trail \o <<a, b>>
    BY <1>2 DEF AskBack
  <2> QED
    BY <1>1, <2>1, <2>2 DEF Harmless
<1>3. ASSUME Look PROVE Harmless
  <2>1. Played /\ stray'.kind = "looked"
    BY <1>3, StraysMeans DEF Look
  <2>2. \E a, b : trail' = trail \o <<a, b>>
    BY <1>3 DEF Look
  <2> QED
    BY <1>1, <2>1, <2>2 DEF Harmless
<1>4. ASSUME Fumble PROVE Harmless
  <2>1. Played /\ stray'.kind = "fumbled"
    BY <1>4, StraysMeans DEF Fumble
  <2>2. \E a, b : trail' = trail \o <<a, b>>
    BY <1>4 DEF Fumble
  <2> QED
    BY <1>1, <2>1, <2>2 DEF Harmless
<1>5. ASSUME TooEarly PROVE Harmless
  <2>1. Played /\ stray'.kind = "too early"
    BY <1>5, StraysMeans DEF TooEarly
  <2>2. PICK call : trail' = Batch(<<call>>)
    BY <1>5 DEF TooEarly
  <2>3. DOMAIN <<call>> = 1 .. 1
    OBVIOUS
  <2>4. IsTrail(trail')
    BY <2>2, <2>3, BatchesGrow DEF IInv
  <2> QED
    BY <2>1, <2>4 DEF Harmless
<1>6. ASSUME Unasked PROVE Harmless
  <2>1. Played /\ stray'.kind = "unasked"
    BY <1>6, StraysMeans DEF Unasked
  <2>2. \E a, b : trail' = trail \o <<a, b>>
    BY <1>6 DEF Unasked
  <2> QED
    BY <1>1, <2>1, <2>2 DEF Harmless
<1>7. ASSUME GiveUp PROVE Harmless
  <2>1. Played /\ stray'.kind = "gave up" /\ trail' = trail
    BY <1>7, StraysMeans DEF GiveUp
  <2> QED
    BY <2>1 DEF Harmless, IInv
<1>8. ASSUME StepOnMine PROVE IInv'
  BY <1>8, MineTrips
<1> QED
  BY <1>2, <1>3, <1>4, <1>5, <1>6, <1>7, <1>8, HarmlessIInv DEF Straying

-----------------------------------------------------------------------------
(* The evaluation.                                                         *)

\* Nothing of the play changes; nor does what is made of it.
LEMMA StillPlayed ==
  ASSUME UNCHANGED playing
  PROVE  /\ scenario' = scenario /\ trail' = trail /\ stray' = stray
         /\ (Trespassed' <=> Trespassed) /\ (HasTripped(trail)' <=> HasTripped(trail))
         /\ MinefieldProblem' = MinefieldProblem
         /\ \A i, j : AsProblem(i, j)' = AsProblem(i, j)
<1>1. scenario' = scenario /\ trail' = trail /\ stray' = stray
  BY DEF playing
<1>2. Minefields' = Minefields
  BY <1>1 DEF Minefields
<1>3. \A i, j : AsProblem(i, j)' = AsProblem(i, j)
  BY <1>1 DEF AsProblem, LastSnapshot, ConstraintsOf
<1> QED
  BY <1>1, <1>2, <1>3 DEF Trespassed, HasTripped, MinefieldProblem, AsProblem, LastSnapshot,
                          ConstraintsOf

\* The guardrails depend on the problem alone.
LEMMA StillGuarded ==
  ASSUME problem' = problem
  PROVE  Guardrails' = Guardrails
<1>1. Matcher!Nodes' = Matcher!Nodes
  BY DEF Matcher!Nodes
<1>2. \A m : Matcher!GuardrailsOf(m)' = Matcher!GuardrailsOf(m)
  BY <1>1 DEF Matcher!GuardrailsOf, Matcher!Guarded, Matcher!References, Matcher!Predecessors,
              Matcher!Edges, Matcher!Bystanders, Matcher!ConstrainedIn
<1> QED
  BY <1>1, <1>2 DEF Guardrails

\* A step of the matcher.
LEMMA MatcherStep ==
  ASSUME IInv, UNCHANGED playing, UNCHANGED <<problem, scores>>, problem # NoProblem,
         Len(scores) = 1 =>
            /\ guardrails' \in {Matcher!NoGuardrails, Guardrails}
            /\ result' # Matcher!NoResult /\ Trespassed => result'.sum > 0
  PROVE  IInv'
<1>1. /\ scenario' = scenario /\ trail' = trail /\ stray' = stray
      /\ (Trespassed' <=> Trespassed) /\ (HasTripped(trail)' <=> HasTripped(trail))
      /\ MinefieldProblem' = MinefieldProblem
      /\ problem' = problem /\ scores' = scores /\ Guardrails' = Guardrails
  BY StillPlayed, StillGuarded
<1>2. Matcher!NoGuardrails' = Matcher!NoGuardrails /\ Matcher!NoResult' = Matcher!NoResult
      /\ NoProblem' = NoProblem
  BY DEF Matcher!NoGuardrails, Matcher!NoResult, NoProblem
<1>3. Len(scores) = 1 => MatchingMinefields'
  BY <1>1, <1>2 DEF IInv, MatchingMinefields
<1> QED
  BY <1>1, <1>2, <1>3 DEF IInv

LEMMA EvaluateIInv ==
  ASSUME IInv, Evaluate
  PROVE  IInv'
<1>1. CASE StartMatching
  <2>1. /\ UNCHANGED playing /\ guardrails' = guardrails /\ result' = result
        /\ scores' = scores /\ problem = NoProblem /\ Len(scores) < 2
    BY <1>1 DEF StartMatching
  <2>2. /\ scenario' = scenario /\ trail' = trail /\ stray' = stray
        /\ (Trespassed' <=> Trespassed) /\ (HasTripped(trail)' <=> HasTripped(trail))
        /\ MinefieldProblem' = MinefieldProblem
    BY <2>1, StillPlayed
  <2>3. Len(scores) = 1 => problem' = MinefieldProblem
    <3>1. scores # <<>> => problem' = MinefieldProblem
      BY <1>1 DEF StartMatching, MinefieldProblem
    <3> QED
      BY <3>1
  <2>4. guardrails' = Matcher!NoGuardrails /\ result' = Matcher!NoResult
        /\ Matcher!NoGuardrails' = Matcher!NoGuardrails /\ Matcher!NoResult' = Matcher!NoResult
    BY <2>1 DEF IInv, Matcher!NoGuardrails, Matcher!NoResult
  <2>5. Len(scores) = 1 => MatchingMinefields'
    BY <2>2, <2>3, <2>4 DEF MatchingMinefields
  <2> QED
    BY <2>1, <2>2, <2>4, <2>5 DEF IInv
<1>2. CASE AddGuardrails
  <2>1. /\ UNCHANGED playing /\ UNCHANGED <<problem, scores>> /\ result' = result
        /\ problem.n > 0 /\ guardrails' = Guardrails
    BY <1>2 DEF AddGuardrails, Matcher!AddGuardrails, Guardrails
  <2>2. problem # NoProblem
    BY <2>1 DEF NoProblem
  <2>3. Len(scores) = 1 => (result' # Matcher!NoResult /\ Trespassed => result'.sum > 0)
    BY <2>1, <2>2 DEF IInv, MatchingMinefields
  <2> QED
    BY <2>1, <2>2, <2>3, MatcherStep
<1>3. CASE Match
  <2>1. /\ UNCHANGED playing /\ UNCHANGED <<problem, scores>> /\ guardrails' = guardrails
        /\ problem.n > 0 /\ guardrails # Matcher!NoGuardrails /\ result' = Matcher!Search
    BY <1>3 DEF Match, Matcher!Match
  <2>2. problem # NoProblem
    BY <2>1 DEF NoProblem
  <2>3. ASSUME Len(scores) = 1, Trespassed PROVE Matcher!Search.sum > 0
    <3>1. /\ problem = MinefieldProblem /\ guardrails = Guardrails
          /\ scenario \in Scenarios /\ IsTrail(trail) /\ HasTripped(trail)
      BY <2>1, <2>2, <2>3 DEF IInv, MatchingMinefields
    <3>2. PICK i \in DOMAIN trail, x \in Minefields : Trips(x, trail[i])
      BY <3>1 DEF HasTripped
    <3> QED
      BY <3>1, <3>2, SearchFindsTheCall
  <2>4. Len(scores) = 1 => guardrails' \in {Matcher!NoGuardrails, Guardrails}
    BY <2>1, <2>2 DEF IInv, MatchingMinefields
  <2> QED
    BY <2>1, <2>2, <2>3, <2>4, MatcherStep
<1>4. CASE Collect
  <2> DEFINE score == IF problem.n = 0 THEN 0 ELSE result.sum
  <2>1. /\ UNCHANGED playing /\ problem' = NoProblem
        /\ guardrails' = Matcher!NoGuardrails /\ result' = Matcher!NoResult
        /\ scores' = Append(scores, score)
        /\ problem.n = 0 \/ result # Matcher!NoResult
    BY <1>4 DEF Collect
  <2>2. /\ scenario' = scenario /\ trail' = trail /\ stray' = stray
        /\ (Trespassed' <=> Trespassed) /\ (HasTripped(trail)' <=> HasTripped(trail))
    BY <2>1, StillPlayed
  <2>3. problem # NoProblem /\ Len(scores) \in {0, 1} /\ scores \in Seq(ToSet(scores))
    BY <2>1 DEF IInv, NoProblem
  <2>4. ASSUME Len(scores) = 1, Trespassed PROVE score > 0
    <3>1. /\ problem = MinefieldProblem /\ scenario \in Scenarios /\ HasTripped(trail)
          /\ result # Matcher!NoResult => result.sum > 0
      BY <2>3, <2>4 DEF IInv, MatchingMinefields
    <3>2. problem.n # 0
      <4>1. Minefields # {}
        BY <3>1 DEF HasTripped
      <4>2. problem.n = Len(scenario.minefields)
        BY <3>1 DEF MinefieldProblem, AsProblem
      <4>3. scenario.minefields \in Seq(Minefields) /\ Len(scenario.minefields) \in Nat
        BY <3>1, MinefieldsAreCalls
      <4>4. Len(scenario.minefields) # 0
        BY <4>1, <4>3 DEF Minefields, ToSet
      <4> QED
        BY <4>2, <4>4
    <3> QED
      BY <2>1, <3>1, <3>2
  <2> HIDE DEF score
  <2>5. /\ scores' \in Seq(ToSet(scores')) /\ Len(scores') = Len(scores) + 1
        /\ scores'[Len(scores) + 1] = score
    <3> DEFINE S == ToSet(scores) \union {score}
               u == Append(scores, score)
    <3>1. scores \in Seq(S) /\ Len(scores) \in Nat
      BY <2>3
    <3> HIDE DEF S
    <3>2. score \in S
      BY DEF S
    <3>3. u \in Seq(S) /\ Len(u) = Len(scores) + 1 /\ u[Len(scores) + 1] = score
      BY <3>1, <3>2
    <3> HIDE DEF u
    <3>4. u \in [1 .. Len(u) -> ToSet(u)] /\ Len(u) \in Nat
      BY <3>1, <3>3 DEF ToSet
    <3>5. u \in Seq(ToSet(u))
      BY <3>4
    <3>6. scores' = u
      BY <2>1 DEF u
    <3> QED
      BY <3>3, <3>5, <3>6
  <2>6. Len(scores') = 2 /\ Trespassed' => scores'[2] > 0
    BY <2>2, <2>3, <2>4, <2>5
  <2>7. NoProblem' = NoProblem /\ Matcher!NoGuardrails' = Matcher!NoGuardrails
        /\ Matcher!NoResult' = Matcher!NoResult
    BY DEF NoProblem, Matcher!NoGuardrails, Matcher!NoResult
  <2> QED
    BY <2>1, <2>2, <2>3, <2>5, <2>6, <2>7 DEF IInv
<1> QED
  BY <1>1, <1>2, <1>3, <1>4 DEF Evaluate

LEMMA NextIInv ==
  ASSUME IInv, [Next]_vars
  PROVE  IInv'
<1>1. CASE UNCHANGED vars
  <2>1. /\ UNCHANGED playing
        /\ problem' = problem /\ guardrails' = guardrails /\ result' = result /\ scores' = scores
    BY <1>1 DEF vars, matching
  <2>2. /\ scenario' = scenario /\ trail' = trail /\ stray' = stray
        /\ (Trespassed' <=> Trespassed) /\ (HasTripped(trail)' <=> HasTripped(trail))
        /\ MinefieldProblem' = MinefieldProblem /\ Guardrails' = Guardrails
    BY <2>1, StillPlayed, StillGuarded
  <2>3. NoProblem' = NoProblem /\ Matcher!NoGuardrails' = Matcher!NoGuardrails
        /\ Matcher!NoResult' = Matcher!NoResult
    BY DEF NoProblem, Matcher!NoGuardrails, Matcher!NoResult
  <2>4. MatchingMinefields' <=> MatchingMinefields
    BY <2>1, <2>2, <2>3 DEF MatchingMinefields
  <2> QED
    BY <2>1, <2>2, <2>3, <2>4 DEF IInv
<1> QED
  BY <1>1, OnTaskIInv, StrayingIInv, EvaluateIInv DEF Next

\* For every catalogue whose minefields are calls and whose matchings can be
\* searched, an agent that does what the minefield forbids has a minefield
\* similarity above 0, which Evaluation.evaluate turns into a score of 0: when the
\* forbidden call returned, and when it raised, if calling it is what is forbidden.
THEOREM ForbiddenActsCount == Spec => []ForbiddenCallsNullify
<1>1. IInv => ForbiddenCallsNullify
  BY DEF IInv, ForbiddenCallsNullify, Finished, Trespassed, Minefields
<1>2. Init => IInv
  BY InitIInv
<1>3. IInv /\ [Next]_vars => IInv'
  BY NextIInv
<1> QED
  BY <1>1, <1>2, <1>3, PTL DEF Spec

==============================================================================
