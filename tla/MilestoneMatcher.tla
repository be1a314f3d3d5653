-------------------------- MODULE MilestoneMatcher --------------------------
(***************************************************************************)
(* MilestoneMatcher of tool_sandbox/common/evaluation.py: from a DAG of    *)
(* milestones and the snapshots of a finished rollout to the mapping of    *)
(* milestones to snapshots with the largest sum of similarities.           *)
(*                                                                         *)
(* A problem is a record                                                   *)
(*   n          number of milestones; they are 0..n-1                      *)
(*   edge_list  pairs of milestones, or NoEdgeList                         *)
(*   constraints  constraints[m]: the snapshot constraints of m, each a    *)
(*              database and the milestone it refers to (-1: the initial   *)
(*              world; NoReference: none)                                  *)
(*   last       the last snapshot; snapshot 0 is the first user message    *)
(*   world      world[d][s]: the contents of database d in snapshot s      *)
(*   unguarded  unguarded[m]: guardrail_database_exclusion_list of m       *)
(* and Likeness(problem, m, s, at) is the mean similarity of the           *)
(* constraints of m to snapshot s, in 0..Unit, without guardrails, when    *)
(* the milestone r that m refers to is at snapshot at[r].                  *)
(* The result of the search is compared with the set of all matchings.     *)
(***************************************************************************)
EXTENDS Integers, FiniteSets, SequencesExt

CONSTANTS
    Problems,       \* the problems to evaluate
    Databases,      \* the namespaces other than SANDBOX
    SANDBOX,        \* the message database; every message changes it
    NoReference, NoEdgeList,
    Unit,           \* a similarity of 1.0
    Likeness(_, _, _, _)

Initial == -1   \* the reference that stands for the initial world

\* edge_list after __attrs_post_init__: by default a chain.
EdgesOf(p) == IF p.edge_list = NoEdgeList
              THEN {<<m, m + 1>> : m \in 0 .. p.n - 2}
              ELSE p.edge_list

\* The nodes of milestone_dag: those of the edges, but for a single milestone.
NodesOf(p) == IF p.n = 1 THEN {0}
              ELSE {m \in 0 .. p.n - 1 : \E e \in EdgesOf(p) : m \in {e[1], e[2]}}

ReferencesOf(p, m) == {c.reference : c \in p.constraints[m]} \ {NoReference}

\* All milestones that come before one of S are in S.
IsClosed(S, p) == \A m \in S, q \in NodesOf(p) : <<q, m>> \in EdgesOf(p) => q \in S

\* Of some milestones, one comes before the others (the graph is a DAG), and every
\* matching has placed the reference of a milestone before it (the look-up of one
\* that is not there raises a KeyError).
CanBeSearched(p) ==
    /\ \A S \in SUBSET NodesOf(p) :
          S # {} => \E m \in S : \A x \in S : <<x, m>> \notin EdgesOf(p)
    /\ \A m \in NodesOf(p) : \A r \in ReferencesOf(p, m) \ {Initial} :
          /\ r # m
          /\ \A S \in SUBSET NodesOf(p) : m \in S /\ IsClosed(S, p) => r \in S

\* And a similarity is one.
WellPosed(p) ==
    /\ p.n \in Nat /\ p.last \in Nat /\ CanBeSearched(p)
    /\ \A m \in NodesOf(p), s \in 0 .. p.last :
          \A at \in [ReferencesOf(p, m) -> 0 .. p.last] :
              Likeness(p, m, s, at) \in 0 .. Unit

ASSUME ProblemsAssumption == Unit \in Nat /\ \A p \in Problems : WellPosed(p)

VARIABLES
    problem,
    guardrails,     \* guardrails[m]: <<reference, database>> that must agree
    result          \* what _dfs returned

vars == <<problem, guardrails, result>>

NoGuardrails == [m \in {} |-> {}]
NoResult == [mapping |-> <<>>, sum |-> -1]

Snapshots == 0 .. problem.last
Nodes == NodesOf(problem)
Edges == EdgesOf(problem)

Predecessors(m) == {p \in Nodes : <<p, m>> \in Edges}
References(m) == ReferencesOf(problem, m)

\* self.milestones[j]: index -1 is the last milestone of the list.
ConstrainedIn(j) ==
    {c.database : c \in problem.constraints[IF j = -1 THEN problem.n - 1 ELSE j]}

\* Mutant: only references are guarded, not the predecessors in the DAG.
GuardedReferencesOnly(m) == References(m)

\* The milestones between which and m the world must not change.
Guarded(m) == References(m) \union Predecessors(m)

\* The databases no milestone involved constrains.
Bystanders(m) == Databases \ UNION {ConstrainedIn(j) : j \in {m} \union Guarded(m)}

\* _add_guardrail_constraints, for one milestone: it guards its
\* guardrail_database_list, which __attrs_post_init__ of Milestone makes all
\* databases but those of the exclusion list.
GuardrailsOf(m) == Guarded(m) \X (Bystanders(m) \ problem.unguarded[m])

\* The snapshot of a reference under a mapping, a sequence of assignments.
ReferenceSnapshot(mapping, r) ==
    IF r = Initial THEN 0
    ELSE LET i == CHOOSE j \in DOMAIN mapping : mapping[j].milestone = r
         IN  mapping[i].snapshot

\* The snapshots of the references of m.
ReferenceSnapshots(m, mapping) ==
    [r \in References(m) |-> ReferenceSnapshot(mapping, r)]

\* calculate_similarity: a guardrail that does not hold makes it 0, one that
\* holds does not count.  (The cache it keeps does not change its value.)
Similarity(m, s, mapping) ==
    IF \A g \in guardrails[m] :
           problem.world[g[2]][ReferenceSnapshot(mapping, g[1])] = problem.world[g[2]][s]
    THEN Likeness(problem, m, s, ReferenceSnapshots(m, mapping)) ELSE 0

Assignment(m, s, mapping) ==
    [milestone |-> m, snapshot |-> s, similarity |-> Similarity(m, s, mapping)]

\* heapq order on (-similarity, milestone, snapshot).
PopsBefore(a, b) ==
    \/ a.similarity > b.similarity
    \/ a.similarity = b.similarity /\ a.milestone < b.milestone
    \/ /\ a.similarity = b.similarity /\ a.milestone = b.milestone
       /\ a.snapshot < b.snapshot

\* The milestones of `remaining` with in-degree 0.
Ready(remaining) == {m \in remaining : Predecessors(m) \intersect remaining = {}}

\* Mutant: the bound assumes that the milestones after this one match nothing.
PrunesGreedily(sum, similarity, remaining, best) == sum + similarity <= best

\* A branch cannot beat the best one even if all later milestones match.
Prunes(sum, similarity, remaining, best) ==
    sum + similarity + Unit * (Cardinality(remaining) - 1) <= best

\* The first snapshot that the next milestone may be matched with.
FirstSnapshot(mapping) == IF mapping = <<>> THEN 0 ELSE Last(mapping).snapshot

\* The pairs that _dfs pushes: the milestones that are ready, at the snapshots
\* from that of the last assignment on.
Heap(mapping, remaining) ==
    {Assignment(m, s, mapping) :
        m \in Ready(remaining), s \in FirstSnapshot(mapping) .. problem.last}

Top(heap) == CHOOSE a \in heap : \A b \in heap \ {a} : PopsBefore(a, b)

Assignments == [milestone : Nodes, snapshot : Snapshots, similarity : 0 .. Unit]

\* The arguments of _dfs.
Branches == [mapping : Seq(Assignments), sum : Nat, remaining : SUBSET Nodes]

\* Its arguments for the next level.
Extended(branch, a) ==
    [mapping |-> Append(branch.mapping, a), sum |-> branch.sum + a.similarity,
     remaining |-> branch.remaining \ {a.milestone}]

\* `while max_heap': found[a] is what _dfs returns for the branch extended by a.
BestFound(branch, heap, found) ==
    LET loop[i \in 0 .. Cardinality(heap)] ==
            IF i = 0 THEN [heap |-> heap, best |-> NoResult]
            ELSE LET before == loop[i - 1]
                     a   == Top(before.heap)
                     new == found[a]
                     skip == \/ Prunes(branch.sum, a.similarity, branch.remaining,
                                       before.best.sum)
                             \/ new.sum <= before.best.sum
                 IN  [heap |-> before.heap \ {a},
                      best |-> IF skip THEN before.best ELSE new]
    IN  loop[Cardinality(heap)].best

\* _dfs: search[k] completes branches with k remaining milestones.
Search ==
    LET search[k \in 0 .. Cardinality(Nodes)] ==
            IF k = 0
            THEN [branch \in Branches |-> [mapping |-> branch.mapping, sum |-> branch.sum]]
            ELSE [branch \in Branches |->
                     LET heap == Heap(branch.mapping, branch.remaining)
                     IN  BestFound(branch, heap,
                             [a \in heap |-> search[k - 1][Extended(branch, a)]])]
    IN  search[Cardinality(Nodes)][[mapping |-> <<>>, sum |-> 0, remaining |-> Nodes]]

-----------------------------------------------------------------------------
Init == problem \in Problems /\ guardrails = NoGuardrails /\ result = NoResult

\* __attrs_post_init__
AddGuardrails ==
    /\ guardrails = NoGuardrails
    /\ guardrails' = [m \in Nodes |-> GuardrailsOf(m)]
    /\ UNCHANGED <<problem, result>>

\* compute_mapping_and_similarity
Match ==
    /\ guardrails # NoGuardrails /\ result = NoResult
    /\ result' = Search
    /\ UNCHANGED <<problem, guardrails>>

Next == AddGuardrails \/ Match

Spec == Init /\ [][Next]_vars

-----------------------------------------------------------------------------
\* The matchings the docstring of compute_mapping_and_similarity describes:
\* the milestones in an order that is a topological sort of the DAG, at
\* snapshots that never go back.
Orders == {o \in SetToSeqs(Nodes) :
              \A i, j \in DOMAIN o : <<o[i], o[j]>> \in Edges => i < j}

Places == {p \in [1 .. Cardinality(Nodes) -> Snapshots] :
              \A i, j \in DOMAIN p : i < j => p[i] <= p[j]}

Placed(o, p) == [i \in DOMAIN p |-> [milestone |-> o[i], snapshot |-> p[i]]]

Total(matching) ==
    LET total[i \in 0 .. Len(matching)] ==
            IF i = 0 THEN 0
            ELSE total[i - 1] + Similarity(matching[i].milestone, matching[i].snapshot, matching)
    IN  total[Len(matching)]

Done == result # NoResult

\* The pruned search returns one of these matchings, with the similarities it is
\* said to have, and none of them has a larger sum.
MatchIsOptimal ==
    Done =>
        /\ \E o \in Orders, p \in Places :
              [i \in DOMAIN result.mapping |->
                  [milestone |-> result.mapping[i].milestone,
                   snapshot  |-> result.mapping[i].snapshot]] = Placed(o, p)
        /\ result.sum = Total(result.mapping)
        /\ \A o \in Orders, p \in Places : Total(Placed(o, p)) <= result.sum
=============================================================================
