------------------------ MODULE MCMilestoneMatcher ------------------------
EXTENDS MilestoneMatcher

CONSTANTS CONTACT, SETTING

\* The likeness of a milestone to a snapshot, from a table.
TableLikeness(p, m, s, at) == p.likeness[m][s]

\* Milestones without an exclusion list, and one that leaves SETTING alone.
Nothing == [m \in 0..2 |-> {}]
LastLeavesSetting == [m \in 0..2 |-> IF m = 1 THEN {SETTING} ELSE {}]

On(d, r) == [database |-> d, reference |-> r]
Answer == On(SANDBOX, NoReference)

\* Two milestones over three snapshots: a change of CONTACT against the
\* initial world, then an answer; SETTING changes at any point, or not.
Pairs == [n : {2}, edge_list : {NoEdgeList}, last : {2},
          unguarded : {Nothing, LastLeavesSetting},
          constraints : {(0 :> {On(CONTACT, Initial)} @@ 1 :> {Answer}),
                         (0 :> {On(CONTACT, NoReference)} @@ 1 :> {Answer})},
          world : [Databases -> {[s \in 0..2 |-> 0], [s \in 0..2 |-> IF s < 1 THEN 0 ELSE 1],
                                 [s \in 0..2 |-> IF s = 1 THEN 1 ELSE 0]}],
          likeness : [0..1 -> [0..2 -> {0, 1, 2}]]]

\* Three milestones over two snapshots, as a chain and as the join and the
\* fork the scenarios use; one refers back to milestone 0.
Triples == [n : {3}, last : {1}, unguarded : {Nothing},
            edge_list : {NoEdgeList, {<<0, 2>>, <<1, 2>>}, {<<0, 1>>, <<0, 2>>}},
            constraints : {(0 :> {On(CONTACT, NoReference)} @@ 1 :> {Answer}
                              @@ 2 :> {On(CONTACT, 0)})},
            world : [Databases -> {[s \in 0..1 |-> 0], [s \in 0..1 |-> s]}],
            likeness : [0..2 -> [0..1 -> {0, 1, 2}]]]

\* A single milestone.
Small == [n : {1}, last : {1}, edge_list : {NoEdgeList}, unguarded : {Nothing},
          constraints : {(0 :> {On(CONTACT, Initial)})},
          world : [Databases -> {[s \in 0..1 |-> 0], [s \in 0..1 |-> s]}],
          likeness : [0..0 -> [0..1 -> {0, 1, 2}]]]

MCProblems == Pairs \union Triples \union Small
============================================================================
