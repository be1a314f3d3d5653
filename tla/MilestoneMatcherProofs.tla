----------------------- MODULE MilestoneMatcherProofs -----------------------
(***************************************************************************)
(* The pruned search of MilestoneMatcher returns a best matching, for every *)
(* problem that is well posed.                                             *)
(***************************************************************************)
EXTENDS MilestoneMatcher, FiniteSetTheorems, SequenceTheorems, WellFoundedInduction, TLAPS

\* A non-empty set of natural numbers has a least one.
LEMMA Least ==
  ASSUME NEW T \in SUBSET Nat, T # {}
  PROVE  \E m \in T : \A j \in T : m <= j
<1>1. PICK m \in T : \A j \in T : <<j, m>> \notin OpToRel(<, Nat)
  BY WFMin, NatLessThanWellFounded, Zenon
<1>2. ASSUME NEW j \in T PROVE ~ (j < m)
  BY <1>1, <1>2, Zenon DEF OpToRel
<1> QED
  BY <1>2

-----------------------------------------------------------------------------
(* The states of the search.                                               *)

\* The search runs with the guardrails that AddGuardrails made.
Given == WellPosed(problem) /\ guardrails = [m \in Nodes |-> GuardrailsOf(m)]

\* What a well-posed problem gives.
Closed(S) == \A m \in S : Predecessors(m) \subseteq S

LEMMA Posed ==
  ASSUME WellPosed(problem)
  PROVE  /\ Unit \in Nat /\ problem.n \in Nat /\ problem.last \in Nat
         /\ Nodes \subseteq Nat /\ IsFiniteSet(Nodes) /\ Cardinality(Nodes) \in Nat
         /\ \A S \in SUBSET Nodes : S # {} => Ready(S) # {}
         /\ \A m \in Nodes : \A r \in References(m) \ {Initial} :
               r # m /\ \A S \in SUBSET Nodes : m \in S /\ Closed(S) => r \in S
         /\ \A m \in Nodes, s \in Snapshots : \A at \in [References(m) -> Snapshots] :
               Likeness(problem, m, s, at) \in 0 .. Unit
<1>1. Unit \in Nat /\ WellPosed(problem)
  BY ProblemsAssumption
<1>2. problem.n \in Nat /\ problem.last \in Nat
  BY <1>1 DEF WellPosed
<1>3. Nodes \subseteq 0 .. problem.n
  BY <1>2 DEF Nodes, NodesOf
<1>4. Nodes \subseteq Nat /\ IsFiniteSet(Nodes) /\ Cardinality(Nodes) \in Nat
  <2>1. 0 \in Int /\ problem.n \in Int
    BY <1>2
  <2>2. IsFiniteSet(0 .. problem.n)
    BY <2>1, FS_Interval
  <2>3. Nodes \in SUBSET (0 .. problem.n)
    BY <1>3
  <2>4. IsFiniteSet(Nodes)
    BY <2>2, <2>3, FS_Subset
  <2>5. Cardinality(Nodes) \in Nat
    BY <2>4, FS_CardinalityType
  <2> QED
    BY <1>2, <1>3, <2>4, <2>5
<1>5. ASSUME NEW S \in SUBSET Nodes, S # {} PROVE Ready(S) # {}
  <2>1. PICK m \in S : \A x \in S : <<x, m>> \notin EdgesOf(problem)
    BY <1>1, <1>5 DEF WellPosed, CanBeSearched, Nodes
  <2>2. m \in Ready(S)
    BY <2>1 DEF Ready, Predecessors, Edges
  <2> QED
    BY <2>2
<1>6. ASSUME NEW m \in Nodes, NEW r \in References(m) \ {Initial}
      PROVE  r # m /\ \A S \in SUBSET Nodes : m \in S /\ Closed(S) => r \in S
  <2>1. r # m /\ \A S \in SUBSET NodesOf(problem) : m \in S /\ IsClosed(S, problem) => r \in S
    BY <1>1 DEF WellPosed, CanBeSearched, Nodes, References
  <2>2. \A S \in SUBSET Nodes : Closed(S) => IsClosed(S, problem)
    BY DEF Closed, IsClosed, Predecessors, Edges, Nodes
  <2> QED
    BY <2>1, <2>2 DEF Nodes
<1>7. ASSUME NEW m \in Nodes, NEW s \in Snapshots, NEW at \in [References(m) -> Snapshots]
      PROVE  Likeness(problem, m, s, at) \in 0 .. Unit
  BY <1>1 DEF WellPosed, Nodes, References, Snapshots
<1> QED
  BY <1>1, <1>2, <1>4, <1>5, <1>6, <1>7

\* The first n assignments of M are milestones in an order that the graph
\* allows, at snapshots that never go back.
IsPlan(M, n) ==
  /\ \A i \in 1..n : M[i].milestone \in Nodes /\ M[i].snapshot \in Snapshots
  /\ \A i, j \in 1..n : i < j => /\ M[i].milestone # M[j].milestone
                                 /\ M[i].snapshot <= M[j].snapshot
  /\ \A i \in 1..n : \A q \in Predecessors(M[i].milestone) :
        \E j \in 1..(i - 1) : M[j].milestone = q

Matched(M, n) == {M[i].milestone : i \in 1..n}

\* The beginning of a plan is a plan, and the milestones that it places are
\* closed: what comes before one of them is among them.
LEMMA PlansBegin ==
  ASSUME NEW M, NEW n \in Nat, NEW k \in 0..n, IsPlan(M, n)
  PROVE  IsPlan(M, k) /\ Matched(M, k) \in SUBSET Nodes /\ Closed(Matched(M, k))
<1>1. 1..k \subseteq 1..n
  OBVIOUS
<1>2. IsPlan(M, k)
  BY <1>1 DEF IsPlan
<1>3. Matched(M, k) \in SUBSET Nodes
  BY <1>2 DEF IsPlan, Matched
<1>4. Closed(Matched(M, k))
  <2>1. ASSUME NEW i \in 1..k, NEW q \in Predecessors(M[i].milestone)
        PROVE  q \in Matched(M, k)
    <3>1. PICK j \in 1..(i - 1) : M[j].milestone = q
      BY <1>2, <2>1 DEF IsPlan
    <3>2. j \in 1..k
      OBVIOUS
    <3> QED
      BY <3>1, <3>2 DEF Matched
  <2> QED
    BY <2>1 DEF Closed, Matched
<1> QED
  BY <1>2, <1>3, <1>4

\* A milestone whose predecessors are matched is guarded against matched
\* milestones and the initial world only.
LEMMA GuardedAreMatched ==
  ASSUME WellPosed(problem), NEW D \in SUBSET Nodes, Closed(D),
         NEW m \in Nodes, m \notin D, Predecessors(m) \subseteq D
  PROVE  Guarded(m) \subseteq D \union {Initial}
<1>1. Closed(D \union {m})
  BY DEF Closed
<1>2. ASSUME NEW r \in References(m) \ {Initial} PROVE r \in D
  <2>1. r # m /\ \A S \in SUBSET Nodes : m \in S /\ Closed(S) => r \in S
    BY Posed
  <2>2. D \union {m} \in SUBSET Nodes /\ m \in D \union {m}
    OBVIOUS
  <2>3. r \in D \union {m}
    BY <1>1, <2>1, <2>2
  <2> QED
    BY <2>1, <2>3
<1> QED
  BY <1>2 DEF Guarded

LEMMA GuardedComeBefore ==
  ASSUME WellPosed(problem), NEW M, NEW n \in Nat, IsPlan(M, n), NEW i \in 1..n
  PROVE  Guarded(M[i].milestone) \subseteq Matched(M, i - 1) \union {Initial}
<1>1. i - 1 \in 0..n
  OBVIOUS
<1>2. Matched(M, i - 1) \in SUBSET Nodes /\ Closed(Matched(M, i - 1))
  BY <1>1, PlansBegin
<1>3. M[i].milestone \in Nodes /\ M[i].milestone \notin Matched(M, i - 1)
  BY DEF IsPlan, Matched
<1>4. Predecessors(M[i].milestone) \subseteq Matched(M, i - 1)
  BY DEF IsPlan, Matched
<1> QED
  BY <1>2, <1>3, <1>4, GuardedAreMatched

-----------------------------------------------------------------------------
(* Similarities.                                                           *)

IsMatching(M, n) == DOMAIN M = 1..n /\ IsPlan(M, n)

Agree(M, L, k) ==
  \A i \in 1..k : M[i].milestone = L[i].milestone /\ M[i].snapshot = L[i].snapshot

\* The snapshot of a milestone that is matched is where it is matched.
LEMMA ReferencesAreFound ==
  ASSUME WellPosed(problem), NEW M, NEW n \in Nat, IsMatching(M, n), NEW i \in 1..n
  PROVE  ReferenceSnapshot(M, M[i].milestone) = M[i].snapshot
<1> DEFINE r == M[i].milestone
           c == CHOOSE j \in DOMAIN M : M[j].milestone = r
<1>1. r # Initial
  <2>1. r \in Nat
    BY Posed DEF IsMatching, IsPlan
  <2> QED
    BY <2>1 DEF Initial
<1>2. DOMAIN M = 1..n
  BY DEF IsMatching
<1>3. c \in 1..n /\ M[c].milestone = r
  <2>1. \E j \in DOMAIN M : M[j].milestone = r
    BY <1>2
  <2> QED
    BY <1>2, <2>1
<1>4. ReferenceSnapshot(M, r) = M[c].snapshot
  BY <1>1 DEF ReferenceSnapshot
<1> HIDE DEF c
<1>5. c = i
  <2>1. c \in Int /\ i \in Int /\ (c < i => M[c].milestone # M[i].milestone)
        /\ (i < c => M[i].milestone # M[c].milestone)
    BY <1>3 DEF IsMatching, IsPlan
  <2> QED
    BY <1>3, <2>1
<1> QED
  BY <1>4, <1>5

\* Two matchings that agree on their first k places have the milestones that
\* are placed there at the same snapshots, and these are snapshots.
LEMMA ReferencesAgree ==
  ASSUME WellPosed(problem), NEW M, NEW n \in Nat, IsMatching(M, n),
         NEW L, NEW l \in Nat, IsMatching(L, l),
         NEW k \in Nat, k <= n, k <= l, Agree(M, L, k),
         NEW r \in Matched(M, k) \union {Initial}
  PROVE  /\ ReferenceSnapshot(M, r) = ReferenceSnapshot(L, r)
         /\ ReferenceSnapshot(M, r) \in Snapshots
<1>1. CASE r = Initial
  <2>1. problem.last \in Nat
    BY Posed
  <2> QED
    BY <1>1, <2>1 DEF ReferenceSnapshot, Snapshots
<1>2. CASE r \in Matched(M, k)
  <2>1. PICK i \in 1..k : M[i].milestone = r
    BY <1>2 DEF Matched
  <2>2. i \in 1..n /\ i \in 1..l /\ L[i].milestone = r /\ L[i].snapshot = M[i].snapshot
    BY <2>1 DEF Agree
  <2>3. ReferenceSnapshot(M, r) = M[i].snapshot
    BY <2>1, <2>2, ReferencesAreFound
  <2>4. ReferenceSnapshot(L, r) = L[i].snapshot
    BY <2>2, ReferencesAreFound
  <2>5. M[i].snapshot \in Snapshots
    BY <2>2 DEF IsMatching, IsPlan
  <2> QED
    BY <2>2, <2>3, <2>4, <2>5
<1> QED
  BY <1>1, <1>2

\* So they give a milestone that is guarded against these only the same
\* similarity, and it is one.
LEMMA SimilaritiesAgree ==
  ASSUME Given, NEW M, NEW n \in Nat, IsMatching(M, n),
         NEW L, NEW l \in Nat, IsMatching(L, l),
         NEW k \in Nat, k <= n, k <= l, Agree(M, L, k),
         NEW m \in Nodes, NEW s \in Snapshots,
         Guarded(m) \subseteq Matched(M, k) \union {Initial}
  PROVE  Similarity(m, s, M) = Similarity(m, s, L) /\ Similarity(m, s, M) \in 0 .. Unit
<1>1. WellPosed(problem) /\ guardrails[m] = GuardrailsOf(m)
  BY DEF Given
<1>2. \A r \in Guarded(m) : /\ ReferenceSnapshot(M, r) = ReferenceSnapshot(L, r)
                            /\ ReferenceSnapshot(M, r) \in Snapshots
  BY <1>1, ReferencesAgree
<1>3. \A g \in guardrails[m] : g[1] \in Guarded(m)
  BY <1>1 DEF GuardrailsOf
<1>4. References(m) \subseteq Guarded(m)
  BY DEF Guarded
<1>5. /\ ReferenceSnapshots(m, M) = ReferenceSnapshots(m, L)
      /\ ReferenceSnapshots(m, M) \in [References(m) -> Snapshots]
  BY <1>2, <1>4 DEF ReferenceSnapshots
<1>6. /\ Likeness(problem, m, s, ReferenceSnapshots(m, M)) \in 0 .. Unit
      /\ Unit \in Nat
  BY <1>1, <1>5, Posed
<1>7. (\A g \in guardrails[m] :
          problem.world[g[2]][ReferenceSnapshot(M, g[1])] = problem.world[g[2]][s])
      <=> (\A g \in guardrails[m] :
              problem.world[g[2]][ReferenceSnapshot(L, g[1])] = problem.world[g[2]][s])
  BY <1>2, <1>3
<1> QED
  BY <1>5, <1>6, <1>7 DEF Similarity

\* The similarity that assignment i of M counts for.
Value(M, i) == Similarity(M[i].milestone, M[i].snapshot, M)

LEMMA ValuesAgree ==
  ASSUME Given, NEW M, NEW n \in Nat, IsMatching(M, n),
         NEW L, NEW l \in Nat, IsMatching(L, l),
         NEW k \in Nat, k <= n, k <= l, Agree(M, L, k)
  PROVE  \A i \in 1..k : Value(M, i) = Value(L, i) /\ Value(M, i) \in 0 .. Unit
<1> SUFFICES ASSUME NEW i \in 1..k
             PROVE  Value(M, i) = Value(L, i) /\ Value(M, i) \in 0 .. Unit
  OBVIOUS
<1>1. WellPosed(problem)
  BY DEF Given
<1>2. i \in 1..n /\ i - 1 \in Nat /\ i - 1 <= n /\ i - 1 <= l
  OBVIOUS
<1>3. Agree(M, L, i - 1)
  BY DEF Agree
<1>4. Guarded(M[i].milestone) \subseteq Matched(M, i - 1) \union {Initial}
  BY <1>1, <1>2, GuardedComeBefore DEF IsMatching
<1>5. M[i].milestone \in Nodes /\ M[i].snapshot \in Snapshots
  BY <1>2 DEF IsMatching, IsPlan
<1>6. M[i].milestone = L[i].milestone /\ M[i].snapshot = L[i].snapshot
  BY DEF Agree
<1>7. /\ Similarity(M[i].milestone, M[i].snapshot, M) = Similarity(M[i].milestone, M[i].snapshot, L)
      /\ Similarity(M[i].milestone, M[i].snapshot, M) \in 0 .. Unit
  BY <1>2, <1>3, <1>4, <1>5, SimilaritiesAgree
<1> QED
  BY <1>6, <1>7 DEF Value

-----------------------------------------------------------------------------
(* The three recursive functions of the module: the sum of a matching, the *)
(* loop over the heap, and the search.  Each is a first value and a step.  *)

LoopStep(branch, found, before) ==
  LET a   == Top(before.heap)
      new == found[a]
      skip == \/ Prunes(branch.sum, a.similarity, branch.remaining, before.best.sum)
              \/ new.sum <= before.best.sum
  IN  [heap |-> before.heap \ {a}, best |-> IF skip THEN before.best ELSE new]

SearchStep(deeper) ==
  [branch \in Branches |->
      LET heap == Heap(branch.mapping, branch.remaining)
      IN  BestFound(branch, heap, [a \in heap |-> deeper[Extended(branch, a)]])]

Step(of, i, x) ==
  IF of.what = "sum" THEN x + Value(of.M, i)
  ELSE IF of.what = "loop" THEN LoopStep(of.branch, of.found, x)
  ELSE SearchStep(x)

IsBuiltUp(f, n, first, of) ==
  f = [i \in 0..n |-> IF i = 0 THEN first ELSE Step(of, i, f[i - 1])]

\* Such a function exists.
LEMMA BuildUpExists ==
  ASSUME NEW n \in Nat, NEW first, NEW of
  PROVE  \E f : IsBuiltUp(f, n, first, of)
<1> DEFINE T == {k \in Nat : ~ \E f : IsBuiltUp(f, k, first, of)}
<1>1. SUFFICES ASSUME T # {} PROVE FALSE
  OBVIOUS
<1>2. PICK m \in T : \A j \in T : m <= j
  <2>1. T \in SUBSET Nat
    OBVIOUS
  <2> HIDE DEF T
  <2> QED
    BY <1>1, <2>1, Least
<1>3. m \in Nat /\ ~ (\E f : IsBuiltUp(f, m, first, of))
  OBVIOUS
<1>4. m # 0
  <2>1. IsBuiltUp([k \in 0..0 |-> first], 0, first, of)
    BY DEF IsBuiltUp
  <2> QED
    BY <1>3, <2>1
<1>5. m - 1 \in Nat /\ m - 1 \notin T
  BY <1>2, <1>3, <1>4
<1>6. PICK g : IsBuiltUp(g, m - 1, first, of)
  BY <1>5
<1> DEFINE h == [k \in 0..m |-> IF k = m THEN Step(of, m, g[m - 1]) ELSE g[k]]
           next == [k \in 0..m |-> IF k = 0 THEN first ELSE Step(of, k, h[k - 1])]
<1>7. g[0] = first /\ \A k \in 1..(m - 1) : g[k] = Step(of, k, g[k - 1])
  <2>1. g = [k \in 0..(m - 1) |-> IF k = 0 THEN first ELSE Step(of, k, g[k - 1])]
    BY <1>6 DEF IsBuiltUp
  <2>2. \A k \in 0..(m - 1) : g[k] = IF k = 0 THEN first ELSE Step(of, k, g[k - 1])
    BY <2>1
  <2> QED
    BY <1>5, <2>2
<1>8. ASSUME NEW k \in 0..m PROVE h[k] = next[k]
  <2>1. CASE k = 0
    BY <1>4, <1>7, <2>1, <1>3
  <2>2. CASE k = m
    BY <1>3, <1>4, <1>5, <2>2
  <2>3. CASE k \in 1..(m - 1)
    <3>1. h[k] = g[k] /\ h[k - 1] = g[k - 1]
      BY <1>3, <2>3
    <3> QED
      BY <1>7, <2>3, <3>1
  <2> QED
    BY <1>3, <2>1, <2>2, <2>3
<1>9. h = next
  <2>1. h = [k \in 0..m |-> h[k]] /\ next = [k \in 0..m |-> next[k]]
    OBVIOUS
  <2> HIDE DEF h, next
  <2> QED
    BY <1>8, <2>1
<1>10. IsBuiltUp(h, m, first, of)
  <2> HIDE DEF h
  <2> QED
    BY <1>9 DEF IsBuiltUp
<1> QED
  BY <1>3, <1>10

-----------------------------------------------------------------------------
(* Sums.                                                                   *)

IsSum(t, M, n) ==
  \E f : f[0] = 0 /\ f[n] = t /\ \A i \in 1..n : f[i] = f[i - 1] + Value(M, i)

\* The total of a matching is the sum of its values.
LEMMA TotalIsSum ==
  ASSUME NEW M, NEW n \in Nat, Len(M) = n
  PROVE  IsSum(Total(M), M, n)
<1> DEFINE F == CHOOSE f : f = [i \in 0..n |->
                   IF i = 0 THEN 0
                   ELSE f[i - 1] + Similarity(M[i].milestone, M[i].snapshot, M)]
           of == [what |-> "sum", M |-> M]
<1>1. PICK g : IsBuiltUp(g, n, 0, of)
  BY BuildUpExists
<1>2. \A i, x : Step(of, i, x) = x + Similarity(M[i].milestone, M[i].snapshot, M)
  BY DEF Step, Value
<1> HIDE DEF of
<1>3. g = [i \in 0..n |->
             IF i = 0 THEN 0 ELSE g[i - 1] + Similarity(M[i].milestone, M[i].snapshot, M)]
  BY <1>1, <1>2 DEF IsBuiltUp
<1>4. F = [i \in 0..n |->
             IF i = 0 THEN 0 ELSE F[i - 1] + Similarity(M[i].milestone, M[i].snapshot, M)]
  BY <1>3
<1>5. Total(M) = F[n]
  BY DEF Total
<1> HIDE DEF F
<1>6. F[0] = 0 /\ \A i \in 1..n : F[i] = F[i - 1] + Value(M, i)
  <2>1. \A i \in 0..n : F[i] = IF i = 0 THEN 0 ELSE
               F[i - 1] + Similarity(M[i].milestone, M[i].snapshot, M)
    BY <1>4
  <2> QED
    BY <2>1 DEF Value
<1> QED
  BY <1>5, <1>6 DEF IsSum

\* Matchings that agree have the same sum, which is a number.
LEMMA SumsAgree ==
  ASSUME Given, NEW M, NEW n \in Nat, IsMatching(M, n),
         NEW L, NEW l \in Nat, IsMatching(L, l),
         NEW k \in Nat, k <= n, k <= l, Agree(M, L, k),
         NEW t, IsSum(t, M, k)
  PROVE  t \in Nat /\ IsSum(t, L, k) /\ \A u : IsSum(u, L, k) => u = t
<1>1. \A i \in 1..k : Value(M, i) = Value(L, i) /\ Value(M, i) \in 0 .. Unit
  BY ValuesAgree
<1>2. PICK f : /\ f[0] = 0 /\ f[k] = t
               /\ \A i \in 1..k : f[i] = f[i - 1] + Value(M, i)
  BY DEF IsSum
<1>3. IsSum(t, L, k)
  BY <1>1, <1>2 DEF IsSum
<1>4. Unit \in Nat
  BY Posed DEF Given
<1>5. \A i \in 0..k : f[i] \in Nat
  <2> DEFINE T == {i \in 0..k : f[i] \notin Nat}
  <2>1. SUFFICES ASSUME T # {} PROVE FALSE
    OBVIOUS
  <2>2. PICK m \in T : \A j \in T : m <= j
    <3>1. T \in SUBSET Nat
      OBVIOUS
    <3> HIDE DEF T
    <3> QED
      BY <2>1, <3>1, Least
  <2>3. m \in 1..k /\ m - 1 \in 0..k /\ m - 1 \notin T
    BY <1>2, <2>2
  <2> QED
    BY <1>1, <1>2, <1>4, <2>3
<1>6. ASSUME NEW u, IsSum(u, L, k) PROVE u = t
  <2>1. PICK g : /\ g[0] = 0 /\ g[k] = u
                 /\ \A i \in 1..k : g[i] = g[i - 1] + Value(L, i)
    BY <1>6 DEF IsSum
  <2> DEFINE T == {i \in 0..k : f[i] # g[i]}
  <2>2. SUFFICES ASSUME T # {} PROVE FALSE
    BY <1>2, <2>1
  <2>3. PICK m \in T : \A j \in T : m <= j
    <3>1. T \in SUBSET Nat
      OBVIOUS
    <3> HIDE DEF T
    <3> QED
      BY <2>2, <3>1, Least
  <2>4. m \in 1..k /\ m - 1 \in 0..k /\ m - 1 \notin T /\ f[m] # g[m]
    BY <1>2, <2>1, <2>3
  <2> QED
    BY <1>1, <1>2, <2>1, <2>4
<1> QED
  BY <1>2, <1>3, <1>5, <1>6

\* One assignment more adds its value.
LEMMA SumGrows ==
  ASSUME NEW M, NEW k \in Nat, NEW t, IsSum(t, M, k)
  PROVE  IsSum(t + Value(M, k + 1), M, k + 1)
<1>1. PICK f : /\ f[0] = 0 /\ f[k] = t
               /\ \A i \in 1..k : f[i] = f[i - 1] + Value(M, i)
  BY DEF IsSum
<1> DEFINE g == [i \in 0..(k + 1) |-> IF i = k + 1 THEN t + Value(M, k + 1) ELSE f[i]]
<1>2. g[0] = 0 /\ g[k + 1] = t + Value(M, k + 1) /\ (\A i \in 0..k : g[i] = f[i])
  BY <1>1
<1> HIDE DEF g
<1>3. \A i \in 1..(k + 1) : g[i] = g[i - 1] + Value(M, i)
  <2>1. ASSUME NEW i \in 1..k PROVE g[i] = g[i - 1] + Value(M, i)
    BY <1>1, <1>2
  <2>2. g[k + 1] = g[k + 1 - 1] + Value(M, k + 1)
    BY <1>1, <1>2
  <2> QED
    BY <2>1, <2>2
<1> QED
  BY <1>2, <1>3 DEF IsSum

\* A value is not more than a sum of natural numbers with it.
LEMMA ValueWithinSum ==
  ASSUME NEW M, NEW n \in Nat, \A i \in 1..n : Value(M, i) \in Nat,
         NEW t, IsSum(t, M, n), NEW k \in 1..n
  PROVE  Value(M, k) <= t
<1>1. PICK f : /\ f[0] = 0 /\ f[n] = t
               /\ \A i \in 1..n : f[i] = f[i - 1] + Value(M, i)
  BY DEF IsSum
<1> DEFINE IsAtLeast(i) == f[i] \in Nat /\ (k <= i => Value(M, k) <= f[i])
           T == {i \in 0..n : ~ IsAtLeast(i)}
<1>2. T = {}
  <2>1. SUFFICES ASSUME T # {} PROVE FALSE
    OBVIOUS
  <2>2. PICK m \in T : \A j \in T : m <= j
    <3>1. T \in SUBSET Nat
      OBVIOUS
    <3> HIDE DEF T
    <3> QED
      BY <2>1, <3>1, Least
  <2>3. m # 0
    BY <1>1, <2>2
  <2>4. m \in 1..n /\ m - 1 \in 0..n /\ m - 1 \notin T
    BY <2>2, <2>3
  <2>5. IsAtLeast(m - 1) /\ f[m] = f[m - 1] + Value(M, m) /\ Value(M, m) \in Nat
    BY <1>1, <2>4
  <2>6. IsAtLeast(m)
    BY <2>4, <2>5
  <2> QED
    BY <2>2, <2>6
<1>3. IsAtLeast(n)
  BY <1>2
<1> QED
  BY <1>1, <1>3

-----------------------------------------------------------------------------
(* The loop over the heap.                                                 *)

\* What the loop needs: every pop takes something that is there, and what is
\* found after a pop is not more than the bound that prunes assumes.
Searchable(branch, heap, found, k) ==
  /\ branch.sum \in Nat /\ Cardinality(branch.remaining) = k + 1
  /\ \A a \in heap : /\ a.similarity \in Nat /\ found[a].sum \in Nat
                     /\ found[a].sum <= branch.sum + a.similarity + Unit * k
  /\ \A T \in SUBSET heap : T # {} => Top(T) \in T

\* After i pops, x.best is the best that was found after one of them.
PoppedBest(x, i, heap, found) ==
  /\ x.heap \subseteq heap /\ Cardinality(x.heap) = Cardinality(heap) - i
  /\ \/ x.heap = heap /\ x.best = NoResult
     \/ \E a \in heap \ x.heap :
           x.best = found[a] /\ \A c \in heap \ x.heap : found[c].sum <= found[a].sum

LEMMA OneMorePop ==
  ASSUME Unit \in Nat, NEW branch, NEW heap, IsFiniteSet(heap), NEW found, NEW k \in Nat,
         Searchable(branch, heap, found, k),
         NEW i \in 1 .. Cardinality(heap), NEW x, PoppedBest(x, i - 1, heap, found)
  PROVE  PoppedBest(LoopStep(branch, found, x), i, heap, found)
<1> DEFINE a == Top(x.heap)
           new == found[a]
           bound == Unit * k
           skip == \/ Prunes(branch.sum, a.similarity, branch.remaining, x.best.sum)
                   \/ new.sum <= x.best.sum
           y == LoopStep(branch, found, x)
<1>1. /\ x.heap \in SUBSET heap /\ IsFiniteSet(x.heap) /\ Cardinality(heap) \in Nat
      /\ Cardinality(x.heap) = Cardinality(heap) - (i - 1)
  BY FS_Subset, FS_CardinalityType DEF PoppedBest
<1>2. x.heap # {}
  BY <1>1, FS_EmptySet
<1>3. a \in x.heap /\ a \in heap
  BY <1>1, <1>2 DEF Searchable
<1>4. bound \in Nat
  OBVIOUS
<1>5. /\ branch.sum \in Nat /\ a.similarity \in Nat /\ new.sum \in Nat
      /\ new.sum <= branch.sum + a.similarity + bound
  BY <1>3 DEF Searchable
<1>6. skip <=> (branch.sum + a.similarity + bound <= x.best.sum \/ new.sum <= x.best.sum)
  <2>1. Cardinality(branch.remaining) - 1 = k
    BY DEF Searchable
  <2> QED
    BY <2>1 DEF Prunes
<1>7. y.heap = x.heap \ {a} /\ y.best = IF skip THEN x.best ELSE new
  BY DEF LoopStep
<1> HIDE DEF a, new, bound, skip, y
<1>8. Cardinality(x.heap \ {a}) = Cardinality(heap) - i
  <2>1. Cardinality(x.heap \ {a}) = Cardinality(x.heap) - 1
    BY <1>1, <1>3, FS_RemoveElement
  <2> QED
    BY <1>1, <2>1
<1>9. \E b \in heap \ y.heap :
         y.best = found[b] /\ \A c \in heap \ y.heap : found[c].sum <= found[b].sum
  <2>1. new = found[a] /\ heap \ y.heap = (heap \ x.heap) \union {a}
    BY <1>3, <1>7 DEF new
  <2>2. CASE x.heap = heap /\ x.best = NoResult
    <3>1. x.best.sum = -1
      BY <2>2 DEF NoResult
    <3>2. ~ skip
      BY <1>4, <1>5, <1>6, <3>1
    <3>3. y.best = found[a] /\ heap \ y.heap = {a}
      BY <1>3, <1>7, <2>1, <2>2, <3>2
    <3> QED
      BY <1>5, <2>1, <3>3
  <2>3. ASSUME NEW b \in heap \ x.heap, x.best = found[b],
               \A c \in heap \ x.heap : found[c].sum <= found[b].sum
        PROVE  \E d \in heap \ y.heap :
                  y.best = found[d] /\ \A c \in heap \ y.heap : found[c].sum <= found[d].sum
    <3>1. \A c \in heap : found[c].sum \in Nat
      BY DEF Searchable
    <3>2. CASE skip
      <4>1. new.sum <= x.best.sum
        BY <1>4, <1>5, <1>6, <2>3, <3>1, <3>2
      <4>2. y.best = found[b] /\ b \in heap \ y.heap
        BY <1>7, <2>1, <2>3, <3>2
      <4> QED
        BY <2>1, <2>3, <4>1, <4>2
    <3>3. CASE ~ skip
      <4>1. x.best.sum <= new.sum
        BY <1>5, <1>6, <2>3, <3>1, <3>3
      <4>2. y.best = found[a] /\ a \in heap \ y.heap
        BY <1>3, <1>7, <2>1, <3>3
      <4>3. \A c \in heap \ y.heap : found[c].sum <= found[a].sum
        BY <1>3, <1>5, <2>1, <2>3, <3>1, <4>1
      <4> QED
        BY <4>2, <4>3
    <3> QED
      BY <3>2, <3>3
  <2> QED
    BY <2>2, <2>3 DEF PoppedBest
<1>10. y.heap \subseteq heap /\ Cardinality(y.heap) = Cardinality(heap) - i
  BY <1>1, <1>7, <1>8
<1>11. PoppedBest(y, i, heap, found)
  BY <1>9, <1>10 DEF PoppedBest
<1> QED
  BY <1>11 DEF y

\* So the loop returns the best of what is found, pruning or not.
LEMMA BestFoundIsBest ==
  ASSUME Unit \in Nat, NEW branch, NEW heap, IsFiniteSet(heap), heap # {},
         NEW found, NEW k \in Nat, Searchable(branch, heap, found, k)
  PROVE  \E a \in heap : /\ BestFound(branch, heap, found) = found[a]
                         /\ \A c \in heap : found[c].sum <= found[a].sum
<1> DEFINE n == Cardinality(heap)
           first == [heap |-> heap, best |-> NoResult]
           of == [what |-> "loop", branch |-> branch, found |-> found]
           loop == CHOOSE f : f = [i \in 0..n |->
                      IF i = 0 THEN [heap |-> heap, best |-> NoResult]
                      ELSE LET before == f[i - 1]
                               a   == Top(before.heap)
                               new == found[a]
                               skip == \/ Prunes(branch.sum, a.similarity, branch.remaining,
                                                 before.best.sum)
                                       \/ new.sum <= before.best.sum
                           IN  [heap |-> before.heap \ {a},
                                best |-> IF skip THEN before.best ELSE new]]
<1>1. BestFound(branch, heap, found) = loop[n].best
  BY DEF BestFound
<1>2. n \in Nat /\ n # 0
  BY FS_CardinalityType, FS_EmptySet
<1>3. PICK g : IsBuiltUp(g, n, first, of)
  BY <1>2, BuildUpExists
<1>4. \A i, x : Step(of, i, x) = LoopStep(branch, found, x)
  BY DEF Step
<1> HIDE DEF of
<1>5. g = [i \in 0..n |-> IF i = 0 THEN first ELSE LoopStep(branch, found, g[i - 1])]
  BY <1>3, <1>4 DEF IsBuiltUp
<1>6. loop = [i \in 0..n |-> IF i = 0 THEN first ELSE LoopStep(branch, found, loop[i - 1])]
  BY <1>5 DEF LoopStep
<1> HIDE DEF loop
<1>7. loop[0] = first /\ \A i \in 1..n : loop[i] = LoopStep(branch, found, loop[i - 1])
  <2>1. \A i \in 0..n : loop[i] = IF i = 0 THEN first ELSE LoopStep(branch, found, loop[i - 1])
    BY <1>6
  <2> QED
    BY <1>2, <2>1
<1>8. PoppedBest(loop[0], 0, heap, found)
  <2>1. loop[0].heap = heap /\ loop[0].best = NoResult
    BY <1>7
  <2> QED
    BY <1>2, <2>1 DEF PoppedBest
<1>9. ASSUME NEW i \in 1..n, PoppedBest(loop[i - 1], i - 1, heap, found)
      PROVE  PoppedBest(loop[i], i, heap, found)
  BY <1>7, <1>9, OneMorePop
<1>10. PoppedBest(loop[n], n, heap, found)
  <2> DEFINE T == {i \in 0..n : ~ PoppedBest(loop[i], i, heap, found)}
  <2>1. SUFFICES ASSUME T # {} PROVE FALSE
    BY <1>2
  <2>2. PICK m \in T : \A j \in T : m <= j
    <3>1. T \in SUBSET Nat
      BY <1>2
    <3> HIDE DEF T
    <3> QED
      BY <2>1, <3>1, Least
  <2>3. m \in 1..n /\ m - 1 \in 0..n /\ m - 1 \notin T
    BY <1>2, <1>8, <2>2
  <2> QED
    BY <1>9, <2>2, <2>3
<1> DEFINE x == loop[n]
<1>11. x.heap = {}
  <2>1. x.heap \in SUBSET heap /\ Cardinality(x.heap) = n - n
    BY <1>10 DEF PoppedBest
  <2>2. IsFiniteSet(x.heap) /\ Cardinality(x.heap) = 0
    BY <1>2, <2>1, FS_Subset
  <2> QED
    BY <2>2, FS_EmptySet
<1> QED
  BY <1>1, <1>10, <1>11 DEF PoppedBest

-----------------------------------------------------------------------------
(* Branches and their heaps.                                               *)

\* A branch that has matched all but k milestones, in a legal order, and whose
\* sum is that of its mapping.
GoodBranch(b, k) ==
  /\ b \in Branches
  /\ IsMatching(b.mapping, Len(b.mapping)) /\ Len(b.mapping) + k = Cardinality(Nodes)
  /\ b.remaining = Nodes \ Matched(b.mapping, Len(b.mapping))
  /\ Cardinality(b.remaining) = k
  /\ IsSum(b.sum, b.mapping, Len(b.mapping))

LEMMA BranchesAreSequences ==
  ASSUME NEW b \in Branches
  PROVE  /\ b.mapping \in Seq(Assignments) /\ Len(b.mapping) \in Nat
         /\ DOMAIN b.mapping = 1 .. Len(b.mapping) /\ b.sum \in Nat
  BY DEF Branches

\* The next snapshot is one, and none that is taken is later.
LEMMA NextSnapshot ==
  ASSUME WellPosed(problem), NEW b, NEW k, GoodBranch(b, k)
  PROVE  /\ FirstSnapshot(b.mapping) \in Snapshots
         /\ \A i \in 1 .. Len(b.mapping) : b.mapping[i].snapshot <= FirstSnapshot(b.mapping)
         /\ Len(b.mapping) > 0 =>
               FirstSnapshot(b.mapping) = b.mapping[Len(b.mapping)].snapshot
<1> DEFINE M == b.mapping
           l == Len(M)
<1>1. M \in Seq(Assignments) /\ l \in Nat
  BY BranchesAreSequences DEF GoodBranch
<1>2. problem.last \in Nat
  BY Posed
<1>3. CASE l = 0
  <2>1. FirstSnapshot(M) = 0
    BY <1>1, <1>3 DEF FirstSnapshot
  <2> QED
    BY <1>2, <1>3, <2>1 DEF Snapshots
<1>4. CASE l > 0
  <2>1. FirstSnapshot(M) = M[l].snapshot
    BY <1>1, <1>4 DEF FirstSnapshot, Last
  <2>2. /\ \A i \in 1..l : M[i].snapshot \in Snapshots
        /\ \A i, j \in 1..l : i < j => M[i].snapshot <= M[j].snapshot
    BY DEF GoodBranch, IsMatching, IsPlan
  <2>3. l \in 1..l /\ M[l].snapshot \in Int
    BY <1>1, <1>2, <1>4, <2>2 DEF Snapshots
  <2>4. ASSUME NEW i \in 1..l PROVE M[i].snapshot <= M[l].snapshot
    <3>1. i < l \/ i = l
      BY <1>1
    <3> QED
      BY <2>2, <2>3, <3>1
  <2> QED
    BY <2>1, <2>2, <2>3, <2>4
<1> QED
  BY <1>1, <1>3, <1>4

\* The elements of the heap.
LEMMA HeapElements ==
  ASSUME Given, NEW b, NEW k \in Nat, GoodBranch(b, k),
         NEW m \in Ready(b.remaining), NEW s \in FirstSnapshot(b.mapping) .. problem.last
  PROVE  LET a == Assignment(m, s, b.mapping)
         IN  /\ a \in Assignments /\ a \in Heap(b.mapping, b.remaining)
             /\ a.milestone = m /\ a.snapshot = s
             /\ a.similarity = Similarity(m, s, b.mapping)
             /\ m \in b.remaining /\ m \in Nodes /\ s \in Snapshots
             /\ Guarded(m) \subseteq Matched(b.mapping, Len(b.mapping)) \union {Initial}
<1> DEFINE M == b.mapping
           l == Len(M)
           D == Matched(M, l)
<1>1. WellPosed(problem) /\ problem.last \in Nat
  BY Posed DEF Given
<1>2. l \in Nat /\ IsMatching(M, l) /\ b.remaining = Nodes \ D
  BY BranchesAreSequences DEF GoodBranch
<1>3. m \in b.remaining /\ m \in Nodes /\ m \notin D /\ Predecessors(m) \subseteq D
  BY <1>2 DEF Ready, Predecessors
<1>4. FirstSnapshot(M) \in Snapshots
  BY <1>1, NextSnapshot
<1>5. s \in Snapshots
  BY <1>1, <1>4 DEF Snapshots
<1>6. D \in SUBSET Nodes /\ Closed(D)
  <2>1. l \in 0..l /\ IsPlan(M, l)
    BY <1>2 DEF IsMatching
  <2> QED
    BY <1>2, <2>1, PlansBegin
<1>7. Guarded(m) \subseteq D \union {Initial}
  BY <1>1, <1>3, <1>6, GuardedAreMatched
<1>8. Agree(M, M, l) /\ l <= l
  BY <1>2 DEF Agree
<1>9. Similarity(m, s, M) \in 0 .. Unit
  BY <1>2, <1>3, <1>5, <1>7, <1>8, SimilaritiesAgree
<1>10. Assignment(m, s, M) \in Heap(M, b.remaining)
  BY DEF Heap
<1> QED
  BY <1>3, <1>5, <1>7, <1>9, <1>10 DEF Assignment, Assignments

LEMMA HeapIsAssignments ==
  ASSUME NEW b, NEW a \in Heap(b.mapping, b.remaining)
  PROVE  /\ a.milestone \in Ready(b.remaining)
         /\ a.snapshot \in FirstSnapshot(b.mapping) .. problem.last
         /\ a = Assignment(a.milestone, a.snapshot, b.mapping)
  BY DEF Heap, Assignment

\* There are finitely many of them, and some when a milestone is left.
LEMMA HeapIsFinite ==
  ASSUME Given, NEW b, NEW k \in Nat, GoodBranch(b, k)
  PROVE  /\ IsFiniteSet(Heap(b.mapping, b.remaining))
         /\ k # 0 => Heap(b.mapping, b.remaining) # {}
<1> DEFINE M == b.mapping
           H == Heap(M, b.remaining)
           R == Ready(b.remaining)
           I == FirstSnapshot(M) .. problem.last
<1>1. /\ WellPosed(problem) /\ problem.last \in Nat /\ IsFiniteSet(Nodes)
      /\ \A S \in SUBSET Nodes : S # {} => Ready(S) # {}
  BY Posed DEF Given
<1>2. b.remaining \in SUBSET Nodes /\ Cardinality(b.remaining) = k
  BY DEF GoodBranch
<1>3. FirstSnapshot(M) \in Snapshots
  BY <1>1, NextSnapshot
<1>4. IsFiniteSet(R \X I)
  <2>1. R \in SUBSET Nodes
    BY <1>2 DEF Ready
  <2>2. FirstSnapshot(M) \in Int /\ problem.last \in Int
    BY <1>1, <1>3 DEF Snapshots
  <2>3. IsFiniteSet(R) /\ IsFiniteSet(I)
    BY <1>1, <2>1, <2>2, FS_Subset, FS_Interval
  <2> QED
    BY <2>3, FS_Product
<1>5. IsFiniteSet(H)
  <2> DEFINE f == [x \in R \X I |-> Assignment(x[1], x[2], M)]
  <2>1. \A x \in R \X I : f[x] \in H
    BY DEF Heap
  <2>2. \A a \in H : \E x \in R \X I : f[x] = a
    <3>1. ASSUME NEW a \in H PROVE \E x \in R \X I : f[x] = a
      <4>1. PICK m \in R, s \in I : a = Assignment(m, s, M)
        BY DEF Heap
      <4>2. <<m, s>> \in R \X I /\ f[<<m, s>>] = a
        BY <4>1
      <4> QED
        BY <4>2
    <3> QED
      BY <3>1
  <2>3. f \in [R \X I -> H]
    BY <2>1
  <2> HIDE DEF f, H, R, I
  <2>4. f \in Surjection(R \X I, H)
    BY <2>2, <2>3 DEF Surjection
  <2> QED
    BY <1>4, <2>4, FS_Surjection
<1>6. ASSUME k # 0 PROVE H # {}
  <2>1. b.remaining # {}
    BY <1>2, <1>6, FS_EmptySet
  <2>2. PICK m \in R : TRUE
    BY <1>1, <1>2, <2>1
  <2>3. problem.last \in I
    BY <1>1, <1>3 DEF Snapshots
  <2>4. Assignment(m, problem.last, M) \in Heap(M, b.remaining)
    BY <2>2, <2>3 DEF Heap
  <2> QED
    BY <2>4
<1> QED
  BY <1>5, <1>6

\* Of some assignments, one is popped before the others.
LEMMA OneIsFirst ==
  ASSUME NEW T, T # {}, Unit \in Nat,
         \A a \in T : a.similarity \in 0 .. Unit /\ a.milestone \in Nat /\ a.snapshot \in Nat,
         \A a, c \in T : a.milestone = c.milestone /\ a.snapshot = c.snapshot => a = c
  PROVE  Top(T) \in T
<1> DEFINE A == {Unit - a.similarity : a \in T}
<1>1. PICK u \in A : \A v \in A : u <= v
  <2>1. A \in SUBSET Nat /\ A # {}
    OBVIOUS
  <2> HIDE DEF A
  <2> QED
    BY <2>1, Least
<1>2. PICK x \in T : u = Unit - x.similarity
  OBVIOUS
<1>3. \A a \in T : a.similarity <= x.similarity
  <2>1. ASSUME NEW a \in T PROVE a.similarity <= x.similarity
    <3>1. Unit - a.similarity \in A
      OBVIOUS
    <3>2. u <= Unit - a.similarity
      BY <1>1, <3>1
    <3> QED
      BY <1>2, <3>2
  <2> QED
    BY <2>1
<1> DEFINE X == {a \in T : a.similarity = x.similarity}
           B == {a.milestone : a \in X}
<1>4. PICK m \in B : \A v \in B : m <= v
  <2>1. B \in SUBSET Nat /\ B # {}
    OBVIOUS
  <2> HIDE DEF B
  <2> QED
    BY <2>1, Least
<1> DEFINE Y == {a \in X : a.milestone = m}
           C == {a.snapshot : a \in Y}
<1>5. PICK s \in C : \A v \in C : s <= v
  <2>1. C \in SUBSET Nat /\ C # {}
    BY <1>4
  <2> HIDE DEF C
  <2> QED
    BY <2>1, Least
<1>6. PICK t \in Y : t.snapshot = s
  BY <1>5
<1>7. \A c \in T \ {t} : PopsBefore(t, c)
  <2>1. SUFFICES ASSUME NEW c \in T \ {t} PROVE PopsBefore(t, c)
    OBVIOUS
  <2>2. t.similarity = x.similarity /\ t.milestone = m /\ t \in T
    OBVIOUS
  <2>3. CASE c \notin X
    BY <1>3, <2>2, <2>3 DEF PopsBefore
  <2>4. CASE c \in X /\ c \notin Y
    <3>1. c.milestone \in B /\ c.milestone # m
      BY <2>4
    <3>2. m <= c.milestone /\ c.milestone \in Nat /\ m \in Nat
      BY <1>4, <3>1
    <3> QED
      BY <2>2, <2>4, <3>1, <3>2 DEF PopsBefore
  <2>5. CASE c \in Y
    <3>1. c.snapshot \in C
      BY <2>5
    <3>2. s <= c.snapshot /\ c.milestone = m /\ c.similarity = x.similarity
      BY <1>5, <2>5, <3>1
    <3>3. c.snapshot # s
      BY <1>6, <2>2, <3>2
    <3> QED
      BY <1>6, <2>2, <3>2, <3>3 DEF PopsBefore
  <2> QED
    BY <2>3, <2>4, <2>5
<1>8. t \in T
  OBVIOUS
<1> QED
  BY <1>7, <1>8 DEF Top

LEMMA TopIsThere ==
  ASSUME Given, NEW b, NEW k \in Nat, GoodBranch(b, k),
         NEW T \in SUBSET Heap(b.mapping, b.remaining), T # {}
  PROVE  Top(T) \in T
<1>1. Unit \in Nat /\ Nodes \subseteq Nat /\ problem.last \in Nat
  BY Posed DEF Given
<1>2. ASSUME NEW a \in T
      PROVE  a \in Assignments /\ a = Assignment(a.milestone, a.snapshot, b.mapping)
  <2>1. a \in Heap(b.mapping, b.remaining)
    OBVIOUS
  <2>2. /\ a.milestone \in Ready(b.remaining)
        /\ a.snapshot \in FirstSnapshot(b.mapping) .. problem.last
        /\ a = Assignment(a.milestone, a.snapshot, b.mapping)
    BY <2>1, HeapIsAssignments
  <2>3. Assignment(a.milestone, a.snapshot, b.mapping) \in Assignments
    BY <2>2, HeapElements
  <2> QED
    BY <2>2, <2>3
<1>3. ASSUME NEW a \in T
      PROVE  a.similarity \in 0 .. Unit /\ a.milestone \in Nat /\ a.snapshot \in Nat
  <2>1. a \in Assignments
    BY <1>2
  <2>2. a.similarity \in 0 .. Unit /\ a.milestone \in Nodes /\ a.snapshot \in Snapshots
    BY <2>1 DEF Assignments
  <2>3. a.milestone \in Nat
    BY <1>1, <2>2
  <2>4. a.snapshot \in Nat
    BY <1>1, <2>2 DEF Snapshots
  <2> QED
    BY <2>2, <2>3, <2>4
<1>4. \A a, c \in T : a.milestone = c.milestone /\ a.snapshot = c.snapshot => a = c
  BY <1>2
<1> QED
  BY <1>1, <1>3, <1>4, OneIsFirst

-----------------------------------------------------------------------------
(* The search.                                                             *)

\* A branch that is extended by an assignment of its heap is a good one.
LEMMA ExtendedIsGood ==
  ASSUME Given, NEW b, NEW k \in Nat, GoodBranch(b, k),
         NEW m \in Ready(b.remaining), NEW s \in FirstSnapshot(b.mapping) .. problem.last
  PROVE  LET a == Assignment(m, s, b.mapping)
         IN  /\ k # 0 /\ GoodBranch(Extended(b, a), k - 1)
             /\ a.similarity \in 0 .. Unit
<1> DEFINE M == b.mapping
           l == Len(M)
           a == Assignment(m, s, M)
           c == Extended(b, a)
           L == Append(M, a)
           D == Matched(M, l)
<1>1. /\ a \in Assignments /\ a.milestone = m /\ a.snapshot = s
      /\ a.similarity = Similarity(m, s, M)
      /\ m \in b.remaining /\ m \in Nodes /\ s \in Snapshots
      /\ Guarded(m) \subseteq D \union {Initial}
  BY HeapElements
<1>2. /\ M \in Seq(Assignments) /\ l \in Nat /\ DOMAIN M = 1..l /\ b.sum \in Nat
      /\ b \in Branches
  BY BranchesAreSequences DEF GoodBranch
<1>3. a.similarity \in 0 .. Unit /\ Unit \in Nat
  <2>1. Unit \in Nat
    BY Posed DEF Given
  <2> QED
    BY <1>1, <2>1 DEF Assignments
<1>4. /\ WellPosed(problem) /\ IsMatching(M, l) /\ IsPlan(M, l)
      /\ b.remaining = Nodes \ D /\ IsFiniteSet(Nodes)
      /\ l + k = Cardinality(Nodes) /\ Cardinality(b.remaining) = k
      /\ IsSum(b.sum, M, l)
  BY Posed DEF Given, GoodBranch, IsMatching
<1>5. \A i \in 1..l : M[i].snapshot <= s /\ M[i].snapshot \in Nat
  <2>1. FirstSnapshot(M) \in Snapshots /\ \A i \in 1..l : M[i].snapshot <= FirstSnapshot(M)
    BY <1>4, NextSnapshot
  <2>2. \A i \in 1..l : M[i].snapshot \in Snapshots
    BY <1>4 DEF IsPlan
  <2>3. FirstSnapshot(M) \in Nat /\ FirstSnapshot(M) <= s /\ s \in Nat
    BY <1>1, <2>1 DEF Snapshots
  <2>4. ASSUME NEW i \in 1..l PROVE M[i].snapshot <= s /\ M[i].snapshot \in Nat
    <3>1. M[i].snapshot \in Nat /\ M[i].snapshot <= FirstSnapshot(M)
      BY <2>1, <2>2 DEF Snapshots
    <3> QED
      BY <2>3, <3>1
  <2> QED
    BY <2>4
<1>6. Predecessors(m) \subseteq D /\ m \notin D
  BY <1>1, <1>4 DEF Ready, Predecessors
<1>7. c.mapping = L /\ c.sum = b.sum + a.similarity /\ c.remaining = b.remaining \ {m}
  BY <1>1 DEF Extended
<1> HIDE DEF a
<1>8. /\ L \in Seq(Assignments) /\ Len(L) = l + 1 /\ DOMAIN L = 1..(l + 1)
      /\ L[l + 1] = a /\ \A i \in 1..l : L[i] = M[i]
  BY <1>1, <1>2
<1> HIDE DEF c, L
<1>9. c \in Branches
  <2>1. c = [mapping |-> L, sum |-> b.sum + a.similarity, remaining |-> b.remaining \ {m}]
    BY <1>1, <1>7 DEF c, Extended, L
  <2>2. b.sum + a.similarity \in Nat
    BY <1>2, <1>3
  <2>3. b.remaining \ {m} \in SUBSET Nodes
    BY <1>4
  <2> QED
    BY <1>8, <2>1, <2>2, <2>3 DEF Branches
<1>10. IsMatching(L, l + 1)
  <2>1. \A i \in 1..(l + 1) : L[i].milestone \in Nodes /\ L[i].snapshot \in Snapshots
    <3>1. ASSUME NEW i \in 1..(l + 1) PROVE L[i].milestone \in Nodes /\ L[i].snapshot \in Snapshots
      <4>1. i \in 1..l \/ i = l + 1
        BY <1>2
      <4> QED
        BY <1>1, <1>4, <1>8, <4>1 DEF IsPlan
    <3> QED
      BY <3>1
  <2>2. ASSUME NEW i \in 1..(l + 1), NEW j \in 1..(l + 1), i < j
        PROVE  L[i].milestone # L[j].milestone /\ L[i].snapshot <= L[j].snapshot
    <3>1. i \in 1..l /\ L[i] = M[i]
      BY <1>2, <1>8, <2>2
    <3>2. CASE j \in 1..l
      BY <1>4, <1>8, <2>2, <3>1, <3>2 DEF IsPlan
    <3>3. CASE j = l + 1
      <4>1. M[i].milestone \in D
        BY <3>1 DEF Matched
      <4> QED
        BY <1>1, <1>5, <1>6, <1>8, <3>1, <3>3, <4>1
    <3> QED
      BY <1>2, <3>2, <3>3
  <2>3. ASSUME NEW i \in 1..(l + 1), NEW q \in Predecessors(L[i].milestone)
        PROVE  \E j \in 1..(i - 1) : L[j].milestone = q
    <3>1. CASE i \in 1..l
      <4>1. PICK j \in 1..(i - 1) : M[j].milestone = q
        BY <1>4, <1>8, <2>3, <3>1 DEF IsPlan
      <4>2. j \in 1..l
        BY <3>1
      <4> QED
        BY <1>8, <4>1, <4>2
    <3>2. CASE i = l + 1
      <4>1. q \in D
        BY <1>1, <1>6, <1>8, <2>3, <3>2
      <4>2. PICK j \in 1..l : M[j].milestone = q
        BY <4>1 DEF Matched
      <4>3. j \in 1..(i - 1)
        BY <1>2, <3>2
      <4> QED
        BY <1>8, <4>2, <4>3
    <3> QED
      BY <1>2, <3>1, <3>2
  <2> QED
    BY <1>8, <2>1, <2>2, <2>3 DEF IsMatching, IsPlan
<1>11. Matched(L, l + 1) = D \union {m}
  <2>1. \A i \in 1..(l + 1) : L[i].milestone \in D \union {m}
    <3>1. ASSUME NEW i \in 1..(l + 1) PROVE L[i].milestone \in D \union {m}
      <4>1. i \in 1..l \/ i = l + 1
        BY <1>2
      <4> QED
        BY <1>1, <1>8, <4>1 DEF Matched
    <3> QED
      BY <3>1
  <2>2. ASSUME NEW q \in D \union {m} PROVE q \in Matched(L, l + 1)
    <3>1. CASE q = m
      <4>1. l + 1 \in 1..(l + 1)
        BY <1>2
      <4> QED
        BY <1>1, <1>8, <3>1, <4>1 DEF Matched
    <3>2. CASE q \in D
      <4>1. PICK i \in 1..l : M[i].milestone = q
        BY <3>2 DEF Matched
      <4>2. i \in 1..(l + 1) /\ L[i].milestone = q
        BY <1>2, <1>8, <4>1
      <4> QED
        BY <4>2 DEF Matched
    <3> QED
      BY <3>1, <3>2
  <2> QED
    BY <2>1, <2>2 DEF Matched
<1>12. k # 0 /\ Cardinality(c.remaining) = k - 1
  <2>1. IsFiniteSet(b.remaining)
    BY <1>4, FS_Difference
  <2>2. b.remaining # {}
    BY <1>1
  <2>3. k # 0
    BY <1>4, <2>1, <2>2, FS_EmptySet
  <2>4. Cardinality(b.remaining \ {m}) = Cardinality(b.remaining) - 1
    BY <1>1, <2>1, FS_RemoveElement
  <2> QED
    BY <1>4, <1>7, <2>3, <2>4
<1>13. IsSum(c.sum, L, l + 1)
  <2>1. Agree(M, L, l) /\ Agree(M, M, l)
    BY <1>8 DEF Agree
  <2>2. l <= l /\ l <= l + 1 /\ l + 1 \in Nat
    BY <1>2
  <2>3. IsSum(b.sum, L, l)
    BY <1>2, <1>4, <1>10, <2>1, <2>2, SumsAgree
  <2>4. Similarity(m, s, M) = Similarity(m, s, L)
    BY <1>1, <1>2, <1>4, <1>10, <2>1, <2>2, SimilaritiesAgree
  <2>5. Value(L, l + 1) = a.similarity
    BY <1>1, <1>8, <2>4 DEF Value
  <2> QED
    BY <1>2, <1>7, <2>3, <2>5, SumGrows
<1>14. GoodBranch(c, k - 1)
  <2>1. (l + 1) + (k - 1) = Cardinality(Nodes)
    BY <1>2, <1>4
  <2>2. c.remaining = Nodes \ Matched(L, l + 1)
    BY <1>4, <1>7, <1>11
  <2> QED
    BY <1>7, <1>8, <1>9, <1>10, <1>12, <1>13, <2>1, <2>2 DEF GoodBranch
<1> QED
  BY <1>3, <1>12, <1>14 DEF a, c

\* r completes the branch b by the k milestones that are left, and no matching
\* that begins as b does has a larger sum.
IsBest(r, b, k) ==
  /\ r.sum \in Nat /\ Len(r.mapping) = Cardinality(Nodes)
  /\ IsMatching(r.mapping, Cardinality(Nodes))
  /\ IsSum(r.sum, r.mapping, Cardinality(Nodes))
  /\ r.sum <= b.sum + Unit * k
  /\ \A M, t : (/\ IsMatching(M, Cardinality(Nodes))
                /\ Agree(M, b.mapping, Len(b.mapping))
                /\ IsSum(t, M, Cardinality(Nodes))) => t <= r.sum

\* With no milestone left, the branch is its only completion.
LEMMA CompleteIsBest ==
  ASSUME Given, NEW b, GoodBranch(b, 0)
  PROVE  IsBest([mapping |-> b.mapping, sum |-> b.sum], b, 0)
<1> DEFINE N == Cardinality(Nodes)
           r == [mapping |-> b.mapping, sum |-> b.sum]
<1>1. N \in Nat /\ Unit \in Nat
  BY Posed DEF Given
<1>2. b.sum \in Nat /\ Len(b.mapping) \in Nat
  BY BranchesAreSequences DEF GoodBranch
<1>3. Len(b.mapping) = N /\ IsMatching(b.mapping, N) /\ IsSum(b.sum, b.mapping, N)
  BY <1>2 DEF GoodBranch
<1>4. r.mapping = b.mapping /\ r.sum = b.sum
  OBVIOUS
<1> HIDE DEF r, N
<1>5. ASSUME NEW M, NEW t, IsMatching(M, N), Agree(M, b.mapping, N), IsSum(t, M, N)
      PROVE  t <= r.sum
  <2>1. N <= N
    BY <1>1
  <2>2. t \in Nat /\ \A u : IsSum(u, b.mapping, N) => u = t
    BY <1>1, <1>3, <1>5, <2>1, SumsAgree
  <2> QED
    BY <1>3, <1>4, <2>2
<1>6. r.sum <= b.sum + Unit * 0
  BY <1>1, <1>2, <1>4
<1>7. /\ r.sum \in Nat /\ Len(r.mapping) = N /\ IsMatching(r.mapping, N)
      /\ IsSum(r.sum, r.mapping, N)
  BY <1>2, <1>3, <1>4
<1>8. \A M, t : IsMatching(M, N) /\ Agree(M, b.mapping, Len(b.mapping)) /\ IsSum(t, M, N)
                  => t <= r.sum
  BY <1>3, <1>5
<1>9. IsBest(r, b, 0)
  BY <1>6, <1>7, <1>8 DEF IsBest, N
<1> QED
  BY <1>9 DEF r

\* When the deeper levels find the best completions, so does this one.
LEMMA SearchStepIsBest ==
  ASSUME Given, NEW j \in Nat, NEW deeper,
         \A c : GoodBranch(c, j) => IsBest(deeper[c], c, j),
         NEW b, GoodBranch(b, j + 1)
  PROVE  IsBest(SearchStep(deeper)[b], b, j + 1)
<1> DEFINE N == Cardinality(Nodes)
           M == b.mapping
           l == Len(M)
           heap == Heap(M, b.remaining)
           found == [a \in heap |-> deeper[Extended(b, a)]]
           r == SearchStep(deeper)[b]
<1>1. /\ WellPosed(problem) /\ N \in Nat /\ Unit \in Nat /\ problem.last \in Nat
      /\ Nodes \subseteq Nat
  BY Posed DEF Given
<1>2. /\ b \in Branches /\ l \in Nat /\ M \in Seq(Assignments) /\ DOMAIN M = 1..l
      /\ b.sum \in Nat /\ j + 1 \in Nat /\ IsMatching(M, l) /\ l + (j + 1) = N
      /\ b.remaining = Nodes \ Matched(M, l) /\ Cardinality(b.remaining) = j + 1
  <2>1. /\ b \in Branches /\ IsMatching(M, l) /\ l + (j + 1) = N
        /\ b.remaining = Nodes \ Matched(M, l) /\ Cardinality(b.remaining) = j + 1
    BY DEF GoodBranch
  <2>2. /\ M \in Seq(Assignments) /\ l \in Nat /\ DOMAIN M = 1..l /\ b.sum \in Nat
    BY <2>1, BranchesAreSequences
  <2>3. j + 1 \in Nat
    OBVIOUS
  <2> QED
    BY <2>1, <2>2, <2>3, Zenon
<1>3. r = BestFound(b, heap, found)
  BY <1>2 DEF SearchStep
<1> HIDE DEF N, r
<1>4. IsFiniteSet(heap) /\ heap # {}
  <2>1. j + 1 # 0
    OBVIOUS
  <2> QED
    BY <1>2, <2>1, HeapIsFinite
<1>5. ASSUME NEW a \in heap
      PROVE  /\ a \in Assignments /\ a.similarity \in 0 .. Unit /\ found[a] = deeper[Extended(b, a)]
             /\ GoodBranch(Extended(b, a), j) /\ IsBest(found[a], Extended(b, a), j)
  <2>1. PICK m \in Ready(b.remaining), s \in FirstSnapshot(M) .. problem.last :
           a = Assignment(m, s, M)
    BY DEF Heap
  <2>2. GoodBranch(Extended(b, a), (j + 1) - 1) /\ a.similarity \in 0 .. Unit
    BY <1>2, <2>1, ExtendedIsGood
  <2>3. a \in Assignments
    BY <1>2, <2>1, HeapElements
  <2>4. (j + 1) - 1 = j
    OBVIOUS
  <2>5. GoodBranch(Extended(b, a), j)
    BY <2>2, <2>4
  <2> QED
    BY <2>2, <2>3, <2>5
<1>6. \A a \in heap : /\ a.similarity \in Nat /\ a.similarity <= Unit /\ found[a].sum \in Nat
                      /\ found[a].sum <= b.sum + a.similarity + Unit * j
  <2>1. ASSUME NEW a \in heap
        PROVE  /\ a.similarity \in Nat /\ a.similarity <= Unit /\ found[a].sum \in Nat
               /\ found[a].sum <= b.sum + a.similarity + Unit * j
    <3>1. a.similarity \in 0 .. Unit /\ IsBest(found[a], Extended(b, a), j)
      BY <1>5
    <3>2. Extended(b, a).sum = b.sum + a.similarity
      BY DEF Extended
    <3> HIDE DEF found, heap
    <3> QED
      BY <1>1, <3>1, <3>2 DEF IsBest
  <2> QED
    BY <2>1
<1>7. \A T \in SUBSET heap : T # {} => Top(T) \in T
  BY <1>2, TopIsThere
<1>8. Searchable(b, heap, found, j)
  <2> HIDE DEF heap, found
  <2> QED
    BY <1>2, <1>6, <1>7 DEF Searchable
<1>9. PICK a \in heap : r = found[a] /\ \A c \in heap : found[c].sum <= found[a].sum
  <2> HIDE DEF heap, found
  <2> QED
    BY <1>1, <1>3, <1>4, <1>8, BestFoundIsBest
<1>10. /\ r.sum \in Nat /\ Len(r.mapping) = N /\ IsMatching(r.mapping, N)
       /\ IsSum(r.sum, r.mapping, N)
  <2>1. IsBest(found[a], Extended(b, a), j)
    BY <1>5
  <2> HIDE DEF found
  <2> QED
    BY <1>9, <2>1 DEF IsBest, N
<1>11. r.sum <= b.sum + Unit * (j + 1)
  <2>1. Unit * (j + 1) = Unit * j + Unit
    BY <1>1
  <2>2. Unit * j \in Nat
    BY <1>1
  <2>3. found[a].sum <= b.sum + a.similarity + Unit * j /\ a.similarity <= Unit
        /\ a.similarity \in Nat
    BY <1>6
  <2> HIDE DEF found, heap
  <2> DEFINE u == Unit * j  v == Unit * (j + 1)
  <2>4. u \in Nat /\ v = u + Unit /\ r.sum <= b.sum + a.similarity + u
    BY <1>9, <2>1, <2>2, <2>3
  <2> HIDE DEF u, v
  <2>5. r.sum \in Nat /\ b.sum \in Nat /\ Unit \in Nat
    BY <1>1, <1>2, <1>10
  <2>6. \A p, q, w, y, U \in Nat : p <= q + w + y /\ w <= U => p <= q + (y + U)
    OBVIOUS
  <2>7. r.sum <= b.sum + (u + Unit)
    BY <2>3, <2>4, <2>5, <2>6
  <2> QED
    BY <2>4, <2>7 DEF v
<1>12. ASSUME NEW L, NEW t, IsMatching(L, N), Agree(L, M, l), IsSum(t, L, N)
       PROVE  t <= r.sum
  <2> DEFINE m == L[l + 1].milestone
             s == L[l + 1].snapshot
             c == Assignment(m, s, M)
             e == Extended(b, c)
  <2>1. /\ l + 1 \in 1..N /\ (l > 0 => l \in 1..l)
        /\ \A i \in 1..l : i \in 1..N /\ i < l + 1
    <3>1. l \in Nat /\ N \in Nat /\ l + (j + 1) = N
      BY <1>1, <1>2
    <3> HIDE DEF l
    <3> QED
      BY <3>1
  <2>2. IsPlan(L, N) /\ m \in Nodes /\ s \in Snapshots
    BY <1>12, <2>1 DEF IsMatching, IsPlan
  <2>3. m \notin Matched(M, l)
    <3>1. ASSUME NEW i \in 1..l PROVE M[i].milestone # m
      <4>1. i \in 1..N /\ i < l + 1 /\ M[i].milestone = L[i].milestone
        BY <1>12, <2>1 DEF Agree
      <4> QED
        BY <2>1, <2>2, <4>1 DEF IsPlan
    <3> QED
      BY <3>1 DEF Matched
  <2>4. Predecessors(m) \subseteq Matched(M, l)
    <3>1. ASSUME NEW q \in Predecessors(m) PROVE q \in Matched(M, l)
      <4>1. PICK i \in 1..((l + 1) - 1) : L[i].milestone = q
        BY <2>1, <2>2 DEF IsPlan
      <4>2. i \in 1..l /\ M[i].milestone = q
        BY <1>2, <1>12, <4>1 DEF Agree
      <4> QED
        BY <4>2 DEF Matched
    <3> QED
      BY <3>1
  <2>5. m \in Ready(b.remaining)
    BY <1>2, <2>2, <2>3, <2>4 DEF Ready
  <2>6. s \in FirstSnapshot(M) .. problem.last
    <3>1. s \in Int /\ s <= problem.last /\ 0 <= s
      BY <1>1, <2>2 DEF Snapshots
    <3>2. CASE l = 0
      <4>1. FirstSnapshot(M) = 0
        BY <1>2, <3>2 DEF FirstSnapshot
      <4> QED
        BY <1>1, <3>1, <4>1
    <3>3. CASE l > 0
      <4>1. FirstSnapshot(M) = M[l].snapshot /\ FirstSnapshot(M) \in Snapshots
        BY <1>1, <3>3, NextSnapshot
      <4>2. l \in 1..l /\ l \in 1..N /\ l < l + 1
        BY <2>1, <3>3
      <4>3. L[l].snapshot = M[l].snapshot
        BY <1>12, <4>2 DEF Agree
      <4>4. L[l].snapshot <= s
        BY <2>1, <2>2, <4>2 DEF IsPlan
      <4>5. FirstSnapshot(M) <= s /\ FirstSnapshot(M) \in Int
        BY <1>1, <4>1, <4>3, <4>4 DEF Snapshots
      <4> QED
        BY <1>1, <3>1, <4>5
    <3> QED
      BY <1>2, <3>2, <3>3
  <2>7. c \in heap /\ c.milestone = m /\ c.snapshot = s /\ c \in Assignments
    <3>1. ASSUME NEW m0 \in Ready(b.remaining), NEW s0 \in FirstSnapshot(M) .. problem.last
          PROVE  LET x == Assignment(m0, s0, M)
                 IN  /\ x \in heap /\ x.milestone = m0 /\ x.snapshot = s0
                     /\ x \in Assignments
      <4>1. Assignment(m0, s0, M) \in Assignments
        BY <1>2, HeapElements
      <4>2. Assignment(m0, s0, M) \in heap
        BY DEF Heap
      <4> QED
        BY <4>1, <4>2 DEF Assignment
    <3> HIDE DEF m, s, heap
    <3> QED
      BY <2>5, <2>6, <3>1
  <2>8. e.mapping = Append(M, c)
    BY DEF Extended
  <2>9. IsBest(found[c], e, j)
    BY <1>5, <2>7
  <2> HIDE DEF m, s, c, e, found, heap
  <2>10. Len(e.mapping) = l + 1 /\ Agree(L, e.mapping, l + 1)
    <3>1. /\ Len(Append(M, c)) = l + 1 /\ Append(M, c)[l + 1] = c
          /\ \A i \in 1..l : Append(M, c)[i] = M[i]
      BY <1>2, <2>7
    <3>2. ASSUME NEW i \in 1..(l + 1)
          PROVE  /\ L[i].milestone = e.mapping[i].milestone
                 /\ L[i].snapshot = e.mapping[i].snapshot
      <4>1. CASE i \in 1..l
        BY <1>12, <2>8, <3>1, <4>1 DEF Agree
      <4>2. CASE i = l + 1
        BY <2>7, <2>8, <3>1, <4>2 DEF m, s
      <4> QED
        BY <1>2, <4>1, <4>2
    <3> QED
      BY <2>8, <3>1, <3>2 DEF Agree
  <2>11. t <= found[c].sum
    BY <1>12, <2>9, <2>10 DEF IsBest, N
  <2>12. found[c].sum <= r.sum /\ found[c].sum \in Nat
    BY <1>6, <1>9, <2>7
  <2>13. t \in Nat
    <3>1. Agree(L, L, N) /\ N <= N
      BY <1>1 DEF Agree
    <3> QED
      BY <1>1, <1>12, <3>1, SumsAgree
  <2> QED
    BY <1>10, <2>11, <2>12, <2>13
<1>13. \A L, t : IsMatching(L, N) /\ Agree(L, b.mapping, Len(b.mapping)) /\ IsSum(t, L, N)
                   => t <= r.sum
  BY <1>12
<1>14. IsBest(r, b, j + 1)
  BY <1>10, <1>11, <1>13 DEF IsBest, N
<1> QED
  BY <1>14 DEF r

\* _dfs begins with nothing matched.
Start == [mapping |-> <<>>, sum |-> 0, remaining |-> Nodes]

LEMMA StartIsGood ==
  ASSUME Given
  PROVE  GoodBranch(Start, Cardinality(Nodes))
<1>1. Cardinality(Nodes) \in Nat
  BY Posed DEF Given
<1>2. Start.mapping = <<>> /\ Start.sum = 0 /\ Start.remaining = Nodes /\ Start \in Branches
  BY DEF Start, Branches
<1>3. Len(Start.mapping) = 0 /\ DOMAIN Start.mapping = 1..0
  BY <1>2
<1>4. IsMatching(Start.mapping, 0)
  BY <1>3 DEF IsMatching, IsPlan
<1>5. Matched(Start.mapping, 0) = {}
  BY DEF Matched
<1>6. IsSum(0, Start.mapping, 0)
  <2> DEFINE f == [i \in {0} |-> 0]
  <2>1. f[0] = 0 /\ \A i \in 1..0 : f[i] = f[i - 1] + Value(Start.mapping, i)
    OBVIOUS
  <2> HIDE DEF f
  <2> QED
    BY <2>1 DEF IsSum
<1> QED
  BY <1>1, <1>2, <1>3, <1>4, <1>5, <1>6 DEF GoodBranch

\* Level by level, the search finds the best completion of every good branch.
LEMMA SearchIsBest ==
  ASSUME Given
  PROVE  IsBest(Search, Start, Cardinality(Nodes))
<1> DEFINE N == Cardinality(Nodes)
           first == [branch \in Branches |-> [mapping |-> branch.mapping, sum |-> branch.sum]]
           of == [what |-> "search"]
           search == CHOOSE f : f = [k \in 0..N |->
              IF k = 0
              THEN [branch \in Branches |-> [mapping |-> branch.mapping, sum |-> branch.sum]]
              ELSE [branch \in Branches |->
                       LET heap == Heap(branch.mapping, branch.remaining)
                       IN  BestFound(branch, heap,
                               [a \in heap |-> f[k - 1][Extended(branch, a)]])]]
<1>1. Search = search[N][Start]
  BY DEF Search, Start
<1>2. N \in Nat
  BY Posed DEF Given
<1>3. PICK g : IsBuiltUp(g, N, first, of)
  BY <1>2, BuildUpExists
<1>4. \A i, x : Step(of, i, x) = SearchStep(x)
  BY DEF Step
<1> HIDE DEF of
<1>5. g = [k \in 0..N |-> IF k = 0 THEN first ELSE SearchStep(g[k - 1])]
  BY <1>3, <1>4 DEF IsBuiltUp
<1>6. search = [k \in 0..N |-> IF k = 0 THEN first ELSE SearchStep(search[k - 1])]
  BY <1>5 DEF SearchStep
<1> HIDE DEF search
<1>7. search[0] = first /\ \A k \in 1..N : search[k] = SearchStep(search[k - 1])
  <2>1. \A k \in 0..N : search[k] = IF k = 0 THEN first ELSE SearchStep(search[k - 1])
    BY <1>6
  <2> QED
    BY <1>2, <2>1
<1> DEFINE T == {k \in 0..N : ~ \A c : GoodBranch(c, k) => IsBest(search[k][c], c, k)}
<1>8. T = {}
  <2>1. SUFFICES ASSUME T # {} PROVE FALSE
    OBVIOUS
  <2>2. PICK m \in T : \A j \in T : m <= j
    <3>1. T \in SUBSET Nat
      BY <1>2
    <3> HIDE DEF T
    <3> QED
      BY <2>1, <3>1, Least
  <2>3. m \in 0..N /\ ~ \A c : GoodBranch(c, m) => IsBest(search[m][c], c, m)
    BY <2>2
  <2>4. CASE m = 0
    <3>1. ASSUME NEW c, GoodBranch(c, 0) PROVE IsBest(search[0][c], c, 0)
      <4>1. c \in Branches
        BY <3>1 DEF GoodBranch
      <4>2. search[0][c] = [mapping |-> c.mapping, sum |-> c.sum]
        BY <1>7, <4>1
      <4> QED
        BY <3>1, <4>2, CompleteIsBest
    <3> QED
      BY <2>3, <2>4, <3>1
  <2>5. CASE m # 0
    <3> DEFINE j == m - 1
    <3>1. j \in Nat /\ j \in 0..N /\ m = j + 1 /\ m \in 1..N
      BY <1>2, <2>3, <2>5
    <3>2. j \notin T
      BY <2>2, <3>1
    <3>3. \A c : GoodBranch(c, j) => IsBest(search[j][c], c, j)
      BY <3>1, <3>2
    <3>4. search[m] = SearchStep(search[j])
      BY <1>7, <3>1
    <3> HIDE DEF j
    <3>5. ASSUME NEW c, GoodBranch(c, j + 1) PROVE IsBest(SearchStep(search[j])[c], c, j + 1)
      BY <3>1, <3>3, <3>5, SearchStepIsBest
    <3> QED
      BY <2>3, <3>1, <3>4, <3>5
  <2> QED
    BY <2>4, <2>5
<1>9. IsBest(search[N][Start], Start, N)
  <2>1. N \in 0..N /\ N \notin T
    BY <1>2, <1>8
  <2>2. GoodBranch(Start, N)
    BY StartIsGood
  <2> HIDE DEF N
  <2> QED
    BY <2>1, <2>2
<1> QED
  BY <1>1, <1>9

-----------------------------------------------------------------------------
(* The matchings of the docstring.                                         *)

\* An order places every milestone.
LEMMA OrdersPlaceAll ==
  ASSUME WellPosed(problem), NEW o \in Orders
  PROVE  \A q \in Nodes : \E j \in 1 .. Cardinality(Nodes) : o[j] = q
<1> DEFINE N == Cardinality(Nodes)
<1>1. N \in Nat /\ IsFiniteSet(Nodes)
  BY Posed
<1>2. o \in [1..N -> Nodes] /\ \A i, j \in 1..N : i # j => o[i] # o[j]
  BY DEF Orders, SetToSeqs
<1>3. o \in Injection(1..N, Nodes)
  BY <1>2 DEF Injection, IsInjective
<1>4. Cardinality(1..N) = N
  <2>1. 1 \in Int /\ N \in Int
    BY <1>1
  <2>2. Cardinality(1..N) = IF 1 > N THEN 0 ELSE N - 1 + 1
    BY <2>1, FS_Interval
  <2> QED
    BY <1>1, <2>2
<1>5. o \in Surjection(1..N, Nodes)
  BY <1>1, <1>3, <1>4, FS_Injection
<1> QED
  BY <1>5 DEF Surjection

\* Every order of the milestones and every choice of places make a matching.
LEMMA PlacedIsMatching ==
  ASSUME WellPosed(problem), NEW o \in Orders, NEW p \in Places
  PROVE  /\ IsMatching(Placed(o, p), Cardinality(Nodes))
         /\ Len(Placed(o, p)) = Cardinality(Nodes)
<1> DEFINE N == Cardinality(Nodes)
           M == Placed(o, p)
<1>1. N \in Nat /\ IsFiniteSet(Nodes)
  BY Posed
<1>2. /\ p \in [1..N -> Snapshots] /\ \A i, j \in 1..N : i < j => p[i] <= p[j]
  BY DEF Places
<1>3. /\ o \in [1..N -> Nodes] /\ \A i, j \in 1..N : i # j => o[i] # o[j]
      /\ \A i, j \in 1..N : <<o[i], o[j]>> \in Edges => i < j
  BY DEF Orders, SetToSeqs
<1>4. /\ M = [i \in 1..N |-> [milestone |-> o[i], snapshot |-> p[i]]]
      /\ DOMAIN M = 1..N /\ \A i \in 1..N : M[i].milestone = o[i] /\ M[i].snapshot = p[i]
  BY <1>2 DEF Placed
<1>5. Len(M) = N
  BY <1>1, <1>4
<1>6. \A q \in Nodes : \E j \in 1..N : o[j] = q
  BY OrdersPlaceAll
<1> HIDE DEF N, M
<1>7. IsPlan(M, N)
  <2>1. \A i \in 1..N : M[i].milestone \in Nodes /\ M[i].snapshot \in Snapshots
    BY <1>2, <1>3, <1>4
  <2>2. \A i, j \in 1..N : i < j => /\ M[i].milestone # M[j].milestone
                                    /\ M[i].snapshot <= M[j].snapshot
    BY <1>2, <1>3, <1>4
  <2>3. ASSUME NEW i \in 1..N, NEW q \in Predecessors(M[i].milestone)
        PROVE  \E j \in 1..(i - 1) : M[j].milestone = q
    <3>1. q \in Nodes /\ <<q, o[i]>> \in Edges
      BY <1>4, <2>3 DEF Predecessors
    <3>2. PICK j \in 1..N : o[j] = q
      BY <1>6, <3>1
    <3>3. j < i
      BY <1>3, <3>1, <3>2
    <3>4. j \in 1..(i - 1) /\ M[j].milestone = q
      BY <1>1, <1>4, <3>2, <3>3
    <3> QED
      BY <3>4
  <2> QED
    BY <2>1, <2>2, <2>3 DEF IsPlan
<1> QED
  BY <1>4, <1>5, <1>7 DEF IsMatching, M, N

\* And every matching is one of these.
LEMMA MatchingIsPlaced ==
  ASSUME WellPosed(problem), NEW M, IsMatching(M, Cardinality(Nodes))
  PROVE  \E o \in Orders, p \in Places :
            [i \in DOMAIN M |-> [milestone |-> M[i].milestone, snapshot |-> M[i].snapshot]]
               = Placed(o, p)
<1> DEFINE N == Cardinality(Nodes)
           o == [i \in 1..N |-> M[i].milestone]
           p == [i \in 1..N |-> M[i].snapshot]
<1>1. N \in Nat
  BY Posed
<1>2. DOMAIN M = 1..N /\ IsPlan(M, N)
  BY DEF IsMatching
<1>3. o \in SetToSeqs(Nodes)
  <2>1. o \in [1..N -> Nodes]
    BY <1>2 DEF IsPlan
  <2>2. ASSUME NEW i \in 1..N, NEW j \in 1..N, i # j PROVE o[i] # o[j]
    <3>1. i < j \/ j < i
      BY <2>2
    <3> QED
      BY <1>2, <3>1 DEF IsPlan
  <2> QED
    BY <2>1, <2>2 DEF SetToSeqs
<1>4. ASSUME NEW i \in 1..N, NEW j \in 1..N, <<o[i], o[j]>> \in Edges PROVE i < j
  <2>1. M[i].milestone \in Predecessors(M[j].milestone)
    BY <1>2, <1>4 DEF IsPlan, Predecessors
  <2>2. PICK h \in 1..(j - 1) : M[h].milestone = M[i].milestone
    BY <1>2, <2>1 DEF IsPlan
  <2>3. h \in 1..N /\ h < j
    BY <1>1
  <2>4. ~ (h < i) /\ ~ (i < h)
    BY <1>2, <2>2, <2>3 DEF IsPlan
  <2> QED
    BY <2>3, <2>4
<1>5. o \in Orders
  BY <1>3, <1>4 DEF Orders
<1>6. p \in Places
  BY <1>2 DEF IsPlan, Places
<1>7. [i \in DOMAIN M |-> [milestone |-> M[i].milestone, snapshot |-> M[i].snapshot]]
         = Placed(o, p)
  BY <1>2 DEF Placed
<1> HIDE DEF o, p
<1> QED
  BY <1>5, <1>6, <1>7

\* So the best completion of nothing is a best matching.
LEMMA BestIsOptimal ==
  ASSUME Given, NEW r, IsBest(r, Start, Cardinality(Nodes))
  PROVE  /\ \E o \in Orders, p \in Places :
               [i \in DOMAIN r.mapping |->
                   [milestone |-> r.mapping[i].milestone,
                    snapshot  |-> r.mapping[i].snapshot]] = Placed(o, p)
         /\ r.sum = Total(r.mapping)
         /\ \A o \in Orders, p \in Places : Total(Placed(o, p)) <= r.sum
<1> DEFINE N == Cardinality(Nodes)
<1>1. WellPosed(problem) /\ N \in Nat
  BY Posed DEF Given
<1>2. /\ IsMatching(r.mapping, N) /\ Len(r.mapping) = N /\ IsSum(r.sum, r.mapping, N)
  BY DEF IsBest
<1>3. \E o \in Orders, p \in Places :
         [i \in DOMAIN r.mapping |->
             [milestone |-> r.mapping[i].milestone,
              snapshot  |-> r.mapping[i].snapshot]] = Placed(o, p)
  BY <1>1, <1>2, MatchingIsPlaced
<1>4. r.sum = Total(r.mapping)
  <2>1. IsSum(Total(r.mapping), r.mapping, N)
    BY <1>1, <1>2, TotalIsSum
  <2>2. Agree(r.mapping, r.mapping, N) /\ N <= N
    BY <1>1 DEF Agree
  <2> QED
    BY <1>1, <1>2, <2>1, <2>2, SumsAgree
<1>5. ASSUME NEW o \in Orders, NEW p \in Places
      PROVE  Total(Placed(o, p)) <= r.sum
  <2> DEFINE M == Placed(o, p)
  <2>1. IsMatching(M, N) /\ Len(M) = N
    BY <1>1, PlacedIsMatching
  <2>2. IsSum(Total(M), M, N)
    BY <1>1, <2>1, TotalIsSum
  <2>3. Len(Start.mapping) = 0 /\ Agree(M, Start.mapping, 0)
    BY DEF Start, Agree
  <2> HIDE DEF M
  <2>4. \A L, t : IsMatching(L, N) /\ Agree(L, Start.mapping, Len(Start.mapping))
                     /\ IsSum(t, L, N) => t <= r.sum
    BY DEF IsBest
  <2>5. Total(M) <= r.sum
    BY <2>1, <2>2, <2>3, <2>4
  <2> QED
    BY <2>5 DEF M
<1> QED
  BY <1>3, <1>4, <1>5

-----------------------------------------------------------------------------
(* What the sum is at least.                                               *)

\* All milestones at the snapshot s.
AllAt(o, s) == Placed(o, [i \in 1 .. Cardinality(Nodes) |-> s])

LEMMA AllAtOnePlace ==
  ASSUME WellPosed(problem), NEW o \in Orders, NEW s \in Snapshots
  PROVE  /\ [i \in 1 .. Cardinality(Nodes) |-> s] \in Places
         /\ IsMatching(AllAt(o, s), Cardinality(Nodes))
         /\ Len(AllAt(o, s)) = Cardinality(Nodes)
         /\ \A i \in 1 .. Cardinality(Nodes) :
               AllAt(o, s)[i] = [milestone |-> o[i], snapshot |-> s]
<1> DEFINE N == Cardinality(Nodes)
           p == [i \in 1 .. N |-> s]
<1>1. problem.last \in Nat /\ N \in Nat
  BY Posed
<1>2. p \in Places
  BY <1>1 DEF Places, Snapshots
<1>3. IsMatching(Placed(o, p), N) /\ Len(Placed(o, p)) = N
  BY <1>2, PlacedIsMatching
<1>4. \A i \in 1 .. N : Placed(o, p)[i] = [milestone |-> o[i], snapshot |-> s]
  BY DEF Placed
<1> QED
  BY <1>2, <1>3, <1>4 DEF AllAt

\* The snapshot of a reference is then s, so every guardrail between milestones
\* holds, and a milestone that refers to none is worth what it is like.
LEMMA WorthAtOnePlace ==
  ASSUME Given, NEW o \in Orders, NEW s \in Snapshots,
         NEW i \in 1 .. Cardinality(Nodes), References(o[i]) = {}
  PROVE  /\ o[i] \in Nodes
         /\ Value(AllAt(o, s), i) = Likeness(problem, o[i], s, [r \in {} |-> 0])
<1> DEFINE N == Cardinality(Nodes)
           M == AllAt(o, s)
           m == o[i]
<1>1. /\ WellPosed(problem) /\ guardrails = [q \in Nodes |-> GuardrailsOf(q)]
      /\ N \in Nat
  BY Posed DEF Given
<1>2. IsMatching(M, N) /\ \A j \in 1 .. N : M[j] = [milestone |-> o[j], snapshot |-> s]
  BY <1>1, AllAtOnePlace
<1> HIDE DEF M, N
<1>3. m \in Nodes /\ M[i].milestone = m /\ M[i].snapshot = s
  <2>1. i \in 1 .. N
    BY DEF N
  <2>2. M[i] = [milestone |-> m, snapshot |-> s]
    BY <1>2, <2>1
  <2>3. M[i].milestone \in Nodes
    BY <1>1, <1>2, <2>1 DEF IsMatching, IsPlan
  <2> QED
    BY <2>2, <2>3
<1>4. Guarded(m) \subseteq Matched(M, i - 1) \union {Initial}
  <2>1. IsPlan(M, N)
    BY <1>2 DEF IsMatching
  <2>2. Guarded(M[i].milestone) \subseteq Matched(M, i - 1) \union {Initial}
    BY <1>1, <2>1, GuardedComeBefore DEF N
  <2> QED
    BY <1>3, <2>2
<1>5. ASSUME NEW g \in guardrails[m] PROVE ReferenceSnapshot(M, g[1]) = s
  <2>1. g[1] \in Guarded(m) /\ g[1] \in Nodes
    BY <1>1, <1>3, <1>5 DEF GuardrailsOf, Guarded, Predecessors
  <2>2. g[1] # Initial
    <3>1. Nodes \subseteq Nat
      BY <1>1, Posed
    <3> QED
      BY <2>1, <3>1 DEF Initial
  <2>3. PICK j \in 1 .. (i - 1) : g[1] = M[j].milestone
    BY <1>4, <2>1, <2>2 DEF Matched
  <2>4. j \in 1 .. N
    BY <1>1, <2>3 DEF N
  <2>5. ReferenceSnapshot(M, M[j].milestone) = M[j].snapshot
    BY <1>1, <1>2, <2>4, ReferencesAreFound
  <2>6. M[j] = [milestone |-> o[j], snapshot |-> s]
    BY <1>2, <2>4
  <2> QED
    BY <2>3, <2>5, <2>6
<1>6. ReferenceSnapshots(m, M) = [r \in {} |-> 0]
  BY DEF ReferenceSnapshots
<1>7. Similarity(m, s, M) = Likeness(problem, m, s, [r \in {} |-> 0])
  BY <1>5, <1>6 DEF Similarity
<1> QED
  BY <1>3, <1>7 DEF Value, M

\* So the search finds at least what a milestone without references is like at any
\* snapshot, when no milestone has references.
LEMMA SearchFindsLikeness ==
  ASSUME Given, \A q \in Nodes : References(q) = {}, NEW m \in Nodes, NEW s \in Snapshots
  PROVE  Search.sum \in Nat /\ Search.sum >= Likeness(problem, m, s, [r \in {} |-> 0])
<1> DEFINE N == Cardinality(Nodes)
           best == Search
<1>1. WellPosed(problem) /\ N \in Nat /\ Unit \in Nat
  BY Posed DEF Given
<1>2. IsBest(best, Start, N)
  BY SearchIsBest
<1> HIDE DEF best
<1>3. /\ \E o \in Orders : TRUE
      /\ \A o \in Orders, p \in Places : Total(Placed(o, p)) <= best.sum
  BY <1>2, BestIsOptimal
<1>4. PICK o \in Orders : TRUE
  BY <1>3
<1> DEFINE M == AllAt(o, s)
<1>5. /\ IsMatching(M, N) /\ Len(M) = N
      /\ Total(M) <= best.sum
  BY <1>1, <1>3, AllAtOnePlace DEF AllAt
<1>6. PICK i \in 1 .. N : o[i] = m
  BY <1>1, OrdersPlaceAll
<1>7. Value(M, i) = Likeness(problem, m, s, [r \in {} |-> 0])
  BY <1>6, WorthAtOnePlace
<1>8. IsSum(Total(M), M, N)
  BY <1>1, <1>5, TotalIsSum
<1>9. \A j \in 1 .. N : Value(M, j) \in 0 .. Unit
  <2>1. Agree(M, M, N)
    BY DEF Agree
  <2> HIDE DEF M, N
  <2> QED
    BY <1>1, <1>5, <2>1, ValuesAgree
<1> DEFINE t == Total(M)
<1> HIDE DEF M, N, t
<1>10. Value(M, i) <= t
  BY <1>1, <1>8, <1>9, ValueWithinSum DEF t
<1>11. t \in Nat /\ best.sum \in Nat
  <2>1. t \in Nat
    <3>1. Agree(M, M, N)
      BY DEF Agree
    <3> QED
      BY <1>1, <1>5, <1>8, <3>1, SumsAgree DEF t
  <2> QED
    BY <1>2, <2>1 DEF IsBest, N
<1>12. Value(M, i) \in Nat /\ t <= best.sum
  BY <1>1, <1>5, <1>9 DEF t
<1> QED
  BY <1>7, <1>10, <1>11, <1>12 DEF M, N, best

-----------------------------------------------------------------------------
(* The behaviours.                                                         *)

\* The inductive invariant: the guardrails, once made, are those of the
\* problem, and the result, once there, is a best completion of nothing.
IInv ==
  /\ problem \in Problems
  /\ guardrails # NoGuardrails => Given
  /\ Done => guardrails # NoGuardrails /\ IsBest(result, Start, Cardinality(Nodes))

\* What is best depends on the problem and its guardrails only.
LEMMA StaysBest ==
  ASSUME UNCHANGED <<problem, guardrails>>, NEW r, IsBest(r, Start, Cardinality(Nodes))
  PROVE  IsBest(r, Start, Cardinality(Nodes))'
<1>1. problem' = problem /\ guardrails' = guardrails
  OBVIOUS
<1>2. Nodes' = Nodes /\ Snapshots' = Snapshots /\ Edges' = Edges
  BY <1>1 DEF Nodes, Snapshots, Edges
<1>3. \A m : Predecessors(m)' = Predecessors(m)
  BY <1>2 DEF Predecessors
<1>4. \A m, s, M : Similarity(m, s, M)' = Similarity(m, s, M)
  <2>1. \A m, M : ReferenceSnapshots(m, M)' = ReferenceSnapshots(m, M)
    BY <1>1 DEF ReferenceSnapshots, References
  <2> QED
    BY <1>1, <2>1 DEF Similarity
<1>5. \A M, n : IsMatching(M, n)' <=> IsMatching(M, n)
  BY <1>2, <1>3 DEF IsMatching, IsPlan
<1>6. \A t, M, n : IsSum(t, M, n)' <=> IsSum(t, M, n)
  BY <1>4 DEF IsSum, Value
<1>7. Start' = Start
  BY <1>2 DEF Start
<1> QED
  BY <1>2, <1>5, <1>6, <1>7 DEF IsBest, Agree

LEMMA InitIInv == Init => IInv
  BY DEF Init, IInv, Done

LEMMA NextIInv ==
  ASSUME IInv, [Next]_vars
  PROVE  IInv'
<1>1. CASE AddGuardrails
  <2>1. problem' = problem /\ result' = result
    BY <1>1 DEF AddGuardrails
  <2>2. guardrails = NoGuardrails /\ guardrails' = [m \in Nodes |-> GuardrailsOf(m)]
    BY <1>1 DEF AddGuardrails
  <2>3. ~ Done /\ ~ Done'
    BY <2>1, <2>2 DEF IInv, Done
  <2>4. Given'
    <3>1. Nodes' = Nodes
      BY <2>1 DEF Nodes
    <3>2. \A m : GuardrailsOf(m)' = GuardrailsOf(m)
      BY <2>1 DEF GuardrailsOf, Guarded, References, Predecessors, Nodes, Edges,
                  Bystanders, ConstrainedIn
    <3>3. [m \in Nodes |-> GuardrailsOf(m)]' = [m \in Nodes |-> GuardrailsOf(m)]
      BY <3>1, <3>2
    <3>4. WellPosed(problem)
      BY ProblemsAssumption DEF IInv
    <3> QED
      BY <2>1, <2>2, <3>3, <3>4 DEF Given
  <2> QED
    BY <2>1, <2>3, <2>4 DEF IInv
<1>2. CASE Match
  <2>1. problem' = problem /\ guardrails' = guardrails /\ result' = Search
        /\ guardrails # NoGuardrails
    BY <1>2 DEF Match
  <2>2. Given /\ problem \in Problems
    BY <2>1 DEF IInv
  <2>3. Given'
    <3>1. \A m : GuardrailsOf(m)' = GuardrailsOf(m)
      BY <2>1 DEF GuardrailsOf, Guarded, References, Predecessors, Nodes, Edges,
                  Bystanders, ConstrainedIn
    <3>2. Nodes' = Nodes
      BY <2>1 DEF Nodes
    <3> QED
      BY <2>1, <2>2, <3>1, <3>2 DEF Given
  <2>4. PICK r : r = Search
    OBVIOUS
  <2>5. IsBest(r, Start, Cardinality(Nodes))
    BY <2>2, <2>4, SearchIsBest
  <2>6. IsBest(r, Start, Cardinality(Nodes))'
    BY <2>1, <2>5, StaysBest
  <2>7. IsBest(result, Start, Cardinality(Nodes))'
    BY <2>1, <2>4, <2>6
  <2> QED
    BY <2>1, <2>2, <2>3, <2>7 DEF IInv
<1>3. CASE UNCHANGED vars
  <2>1. problem' = problem /\ guardrails' = guardrails /\ result' = result
    BY <1>3 DEF vars
  <2>2. Given => Given'
    <3>1. \A m : GuardrailsOf(m)' = GuardrailsOf(m)
      BY <2>1 DEF GuardrailsOf, Guarded, References, Predecessors, Nodes, Edges,
                  Bystanders, ConstrainedIn
    <3>2. Nodes' = Nodes
      BY <2>1 DEF Nodes
    <3> QED
      BY <2>1, <3>1, <3>2 DEF Given
  <2>3. Done' <=> Done
    BY <2>1 DEF Done
  <2>4. ASSUME IsBest(result, Start, Cardinality(Nodes))
        PROVE  IsBest(result, Start, Cardinality(Nodes))'
    <3>1. PICK r : r = result
      OBVIOUS
    <3>2. IsBest(r, Start, Cardinality(Nodes))
      BY <2>4, <3>1
    <3>3. IsBest(r, Start, Cardinality(Nodes))'
      BY <2>1, <3>2, StaysBest
    <3> QED
      BY <2>1, <3>1, <3>3
  <2> QED
    BY <2>1, <2>2, <2>3, <2>4 DEF IInv
<1> QED
  BY <1>1, <1>2, <1>3 DEF Next

\* For every well-posed problem, MilestoneMatcher returns a matching of the
\* milestones in an order that the graph allows, with the similarities it is
\* said to have, and none has a larger sum: no branch that compute_mapping_and_
\* similarity prunes could have been better.
THEOREM PruningIsSafe == Spec => []MatchIsOptimal
<1>1. IInv => MatchIsOptimal
  <2>1. ASSUME IInv, Done PROVE Given /\ IsBest(result, Start, Cardinality(Nodes))
    BY <2>1 DEF IInv
  <2> QED
    BY <2>1, BestIsOptimal DEF MatchIsOptimal
<1>2. Init => IInv
  BY InitIInv
<1>3. IInv /\ [Next]_vars => IInv'
  BY NextIInv
<1> QED
  BY <1>1, <1>2, <1>3, PTL DEF Spec

==============================================================================
