-------------------------- MODULE PhoneToolsProofs --------------------------
(***************************************************************************)
(* Proofs about ExecutionContext, and about PhoneTools, which EXTENDS it.  *)
(*                                                                         *)
(* The first part rests on ConstantsAssumption alone: what one table reads *)
(* as after each operation, and that the sparse tables implement a dense   *)
(* history.  The second is for any base world, any calls and any size of a *)
(* batch: what is left of a batch that is tried in every order is what its *)
(* answers tell, and no two entries share an identifier.                   *)
(***************************************************************************)
EXTENDS PhoneTools, FiniteSetTheorems, SequenceTheorems, WellFoundedInduction, TLAPS

-----------------------------------------------------------------------------
(* Greatest and least elements of a set of indices                         *)

(* A non-empty set of naturals has a least element (well-foundedness of <).  *)
LEMMA LeastExists ==
  ASSUME NEW S \in SUBSET Nat, S # {}
  PROVE  Least(S) \in S /\ \A j \in S : Least(S) <= j
<1>1. \E x \in S : \A y \in S : <<y, x>> \notin OpToRel(<, Nat)
  <2>1. \E x \in S : \A y \in S : ~ (<<y, x>> \in OpToRel(<, Nat))
    BY NatLessThanWellFounded, WFMin
  <2> QED BY <2>1
<1>2. \A x, y \in Nat : y < x => <<y, x>> \in OpToRel(<, Nat)
  BY DEF OpToRel
<1>3. \E x \in S : \A y \in S : x <= y
  <2>1. PICK x \in S : \A y \in S : <<y, x>> \notin OpToRel(<, Nat)
    BY <1>1
  <2>2. \A y \in S : ~ (y < x)
    BY <1>2, <2>1
  <2> QED BY <2>2
<1> QED BY <1>3 DEF Least

(* A non-empty set of naturals with an upper bound has a greatest element.   *)
LEMMA GreatestExists ==
  ASSUME NEW n \in Nat, NEW S \in SUBSET (0..n), S # {}
  PROVE  Greatest(S) \in S /\ \A j \in S : j <= Greatest(S)
<1> DEFINE T == {n - i : i \in S}
<1>1. T \in SUBSET Nat /\ T # {}
  OBVIOUS
<1>2. Least(T) \in T /\ \A j \in T : Least(T) <= j
  BY <1>1, LeastExists
<1>3. PICK g \in S : Least(T) = n - g
  BY <1>2
<1>4. \A j \in S : n - g <= n - j
  BY <1>2, <1>3
<1>5. \A j \in S : j <= g
  BY <1>4
<1> QED BY <1>5 DEF Greatest
-----------------------------------------------------------------------------
(* Reading a table                                                         *)

\* m is the latest materialised index up to the query q.
Latest(db, q, m) ==
  /\ m \in Materialised(db)
  /\ m <= q
  /\ \A j \in Materialised(db) : j <= q => j <= m

(* A table with a headguard at 0 has a latest snapshot for every query.      *)
LEMMA LatestExists ==
  ASSUME NEW db \in Table, 0 \in db.heads, NEW q \in Nat
  PROVE  \E m \in Index : Latest(db, q, m)
<1> DEFINE S == {i \in Materialised(db) : i <= q}
<1>1. S \in SUBSET (0..MaxIndex) /\ 0 \in S
  BY ConstantsAssumption DEF Materialised, Index, Table
<1>2. Greatest(S) \in S /\ \A j \in S : j <= Greatest(S)
  BY <1>1, GreatestExists, ConstantsAssumption
<1>3. Greatest(S) \in Index
  BY <1>1, <1>2 DEF Index
<1> QED BY <1>2, <1>3 DEF Latest

(* get_database returns the rows of the latest snapshot; the shortcut for a  *)
(* table without any row makes no difference.                                *)
LEMMA ReadLatest ==
  ASSUME NEW db \in Table, NEW q \in Int, NEW m \in Index, Latest(db, q, m)
  PROVE  /\ GetDatabase(db, q) = db.rows[m]
         /\ ~ HasNoRow(db) => MostRecentSnapshot(db, q) = m
         /\ HasNoRow(db) => MostRecentSnapshot(db, q) = -1
<1> DEFINE S == {i \in Materialised(db) : i <= q}
<1>1. S \in SUBSET Int /\ m \in S /\ \A j \in S : j <= m
  BY DEF Latest, Materialised, Index
<1>2. Greatest(S) = m
  <2>1. Greatest(S) \in S /\ \A j \in S : j <= Greatest(S)
    BY <1>1 DEF Greatest
  <2> QED BY <1>1, <2>1
<1>3. CASE HasNoRow(db)
  <2>1. MostRecentSnapshot(db, q) = -1
    BY <1>3 DEF MostRecentSnapshot
  <2>2. GetDatabase(db, q) = {}
    BY <2>1 DEF GetDatabase
  <2>3. db.rows[m] = {}
    BY <1>3 DEF HasNoRow
  <2> QED BY <1>3, <2>1, <2>2, <2>3
<1>4. CASE ~ HasNoRow(db)
  <2>1. MostRecentSnapshot(db, q) = m
    BY <1>1, <1>2, <1>4 DEF MostRecentSnapshot
  <2>2. m # -1
    BY DEF Index
  <2>3. GetDatabase(db, q) = db.rows[m]
    BY <2>1, <2>2 DEF GetDatabase
  <2> QED BY <1>4, <2>1, <2>3
<1> QED BY <1>3, <1>4

\* Two tables that differ at index k only.
SameElsewhere(db, db2, k) ==
  \A i \in Index \ {k} : /\ i \in db.heads <=> i \in db2.heads
                         /\ db2.rows[i] = db.rows[i]

(* A write at k does not show in a read of an earlier index.                 *)
LEMMA ReadBelow ==
  ASSUME NEW db \in Table, NEW db2 \in Table, NEW k \in Index, NEW i \in Nat,
         0 \in db.heads, SameElsewhere(db, db2, k), i < k
  PROVE  GetDatabase(db2, i) = GetDatabase(db, i)
<1>1. PICK m \in Index : Latest(db, i, m)
  BY LatestExists
<1>2. \A j \in Index : j <= i => (j \in Materialised(db) <=> j \in Materialised(db2))
  BY ConstantsAssumption DEF SameElsewhere, Materialised, Index
<1>3. Latest(db2, i, m)
  BY <1>1, <1>2 DEF Latest, Materialised
<1>4. db2.rows[m] = db.rows[m]
  BY <1>1, ConstantsAssumption DEF Latest, SameElsewhere, Index
<1> QED BY <1>1, <1>3, <1>4, ReadLatest DEF Index

-----------------------------------------------------------------------------
(* Writing a table                                                         *)

(* Restating the latest snapshot at k changes nothing else, shows the same   *)
(* content at k, and goes without a headguard only for a table that held no  *)
(* row or whose snapshot has one to restate.                                 *)
LEMMA SnapshotRestates ==
  ASSUME NEW k \in Index, NEW db, WellFormed(db, k)
  PROVE  LET s == MaybeCreateSnapshot(db, k)
         IN  /\ s \in Table
             /\ SameElsewhere(db, s, k)
             /\ s.rows[k] = GetDatabase(db, k)
             /\ 0 \in s.heads
             /\ k \notin s.heads => HasNoRow(db) \/ s.rows[k] # {}
<1> DEFINE s == MaybeCreateSnapshot(db, k)
<1>0. k \in Int /\ k >= 0 /\ db \in Table /\ 0 \in db.heads /\ 0 \in Index
  BY ConstantsAssumption DEF Index, WellFormed
<1>1. CASE k \in Materialised(db)
  <2>1. s = db
    BY <1>1 DEF MaybeCreateSnapshot
  <2>2. Latest(db, k, k)
    BY <1>1, <1>0 DEF Latest
  <2>3. db.rows[k] = GetDatabase(db, k)
    BY <2>2, <1>0, ReadLatest
  <2>4. k \notin db.heads => db.rows[k] # {}
    BY <1>1 DEF Materialised
  <2> QED BY <2>1, <2>3, <2>4, <1>0 DEF SameElsewhere
<1>2. CASE k \notin Materialised(db)
  <2>1. k - 1 \in Nat
    BY <1>0, <1>2 DEF Materialised
  <2>2. PICK m \in Index : Latest(db, k - 1, m)
    BY <1>0, <2>1, LatestExists
  <2>3. Latest(db, k, m)
    BY <1>2, <2>2, <1>0 DEF Latest, Materialised, Index
  <2>4. GetDatabase(db, k) = db.rows[m]
    BY <2>3, <1>0, ReadLatest
  <2>5. CASE HasNoRow(db)
    <3>1. MostRecentSnapshot(db, k - 1) = -1
      BY <2>2, <2>1, <2>5, <1>0, ReadLatest
    <3>2. s = db
      BY <3>1 DEF MaybeCreateSnapshot
    <3> QED BY <3>2, <2>4, <2>5, <1>0 DEF SameElsewhere, HasNoRow
  <2>6. CASE ~ HasNoRow(db)
    <3>1. MostRecentSnapshot(db, k - 1) = m /\ m # -1
      BY <2>2, <2>1, <2>6, <1>0, ReadLatest DEF Index
    <3>2. s = [heads |-> IF m \in db.heads THEN db.heads \union {k} ELSE db.heads,
               rows  |-> [db.rows EXCEPT ![k] = db.rows[m]]]
      BY <3>1, <1>2 DEF MaybeCreateSnapshot
    <3>3. s \in Table
      BY <3>2, <1>0 DEF Table
    <3>4. s.rows[k] = db.rows[m] /\ SameElsewhere(db, s, k) /\ 0 \in s.heads
      BY <3>2, <1>0 DEF Table, SameElsewhere
    <3>5. k \notin s.heads => db.rows[m] # {}
      BY <3>2, <2>2 DEF Latest, Materialised
    <3> QED BY <3>3, <3>4, <3>5, <2>4
  <2> QED BY <2>5, <2>6
<1> QED BY <1>1, <1>2

(* Restating a snapshot does not lose a headguard while there is a row.      *)
LEMMA SnapshotLosesNoHeadguard ==
  ASSUME NEW k \in Index, NEW db, WellFormed(db, k), ~ HasNoRow(db)
  PROVE  HeadguardLostOnlyWhenEmpty(MaybeCreateSnapshot(db, k))
<1> DEFINE s == MaybeCreateSnapshot(db, k)
<1>0. k \in Int /\ k >= 0 /\ db \in Table /\ 0 \in db.heads
  BY ConstantsAssumption DEF Index, WellFormed
<1>1. CASE k \in Materialised(db)
  BY <1>1 DEF MaybeCreateSnapshot, WellFormed
<1>2. CASE k \notin Materialised(db)
  <2>1. k - 1 \in Nat
    BY <1>0, <1>2 DEF Materialised
  <2>2. PICK m \in Index : Latest(db, k - 1, m)
    BY <1>0, <2>1, LatestExists
  <2>3. MostRecentSnapshot(db, k - 1) = m /\ m # -1
    BY <2>2, <2>1, <1>0, ReadLatest DEF Index
  <2>4. s = [heads |-> IF m \in db.heads THEN db.heads \union {k} ELSE db.heads,
             rows  |-> [db.rows EXCEPT ![k] = db.rows[m]]]
    BY <2>3, <1>2 DEF MaybeCreateSnapshot
  <2>5. SameElsewhere(db, s, k) /\ s.rows[k] = db.rows[m]
    BY <2>4, <1>0 DEF Table, SameElsewhere
  <2>6. k \in s.heads <=> m \in db.heads
    BY <2>4, <1>2 DEF Materialised
  <2> HIDE DEF s
  <2> SUFFICES ASSUME NEW i \in Index, NEW j \in Index, i < j, i \in s.heads,
                      j \notin s.heads, s.rows[j] # {}, NEW h \in 0..i
               PROVE  s.rows[h] = {}
    BY DEF HeadguardLostOnlyWhenEmpty, s
  <2>7. CASE j > k
    BY <2>5, <2>7, <1>0 DEF SameElsewhere, WellFormed, Index
  <2>8. CASE j < k
    <3>1. /\ i \in db.heads /\ j \notin db.heads /\ db.rows[j] # {}
          /\ s.rows[h] = db.rows[h]
      BY <2>5, <2>8, <1>0, ConstantsAssumption DEF SameElsewhere, Index
    <3> QED BY <3>1 DEF WellFormed, HeadguardLostOnlyWhenEmpty
  <2>9. CASE j = k
    <3>1. m \notin db.heads /\ db.rows[m] # {}
      BY <2>5, <2>6, <2>9
    <3>2. /\ i \in db.heads /\ i <= k - 1 /\ h \in Index
          /\ s.rows[h] = db.rows[h]
      BY <2>5, <2>9, <1>0, ConstantsAssumption DEF SameElsewhere, Index
    <3>3. i \in Materialised(db)
      BY <3>2 DEF Materialised
    <3>4. i < m
      BY <2>2, <3>1, <3>2, <3>3 DEF Latest, Index
    <3> QED BY <3>1, <3>2, <3>4 DEF WellFormed, HeadguardLostOnlyWhenEmpty
  <2> QED BY <2>7, <2>8, <2>9, <1>0 DEF Index
<1> QED BY <1>1, <1>2

\* The table an operation leaves: the snapshot at k holds c, with the
\* headguard if it had one or is given one.
Written(db, k, g, c) ==
  LET s == MaybeCreateSnapshot(db, k)
  IN  [heads |-> IF g THEN s.heads \union {k} ELSE s.heads,
       rows  |-> [s.rows EXCEPT ![k] = c]]

(* A write keeps a table well formed and touches index k only.               *)
LEMMA WriteKeepsWellFormed ==
  ASSUME NEW k \in Index, NEW db, WellFormed(db, k),
         NEW g \in BOOLEAN, NEW c \in SUBSET Row
  PROVE  LET w == Written(db, k, g, c)
         IN  /\ WellFormed(w, k)
             /\ SameElsewhere(db, w, k)
             /\ w.rows[k] = c
             /\ k \in w.heads <=> g \/ Guarded(db, k)
<1> DEFINE s == MaybeCreateSnapshot(db, k)
           w == Written(db, k, g, c)
<1>1. /\ s \in Table
      /\ SameElsewhere(db, s, k)
      /\ 0 \in s.heads
      /\ k \notin s.heads => HasNoRow(db) \/ s.rows[k] # {}
  BY SnapshotRestates
<1>2. w = [heads |-> IF g THEN s.heads \union {k} ELSE s.heads,
           rows  |-> [s.rows EXCEPT ![k] = c]]
  BY DEF Written
<1> HIDE DEF s, w
<1>3. w \in Table /\ w.rows[k] = c /\ 0 \in w.heads
  BY <1>1, <1>2 DEF Table
<1>4. SameElsewhere(db, w, k)
  BY <1>1, <1>2 DEF Table, SameElsewhere
<1>5. k \in w.heads <=> g \/ Guarded(db, k)
  BY <1>2 DEF Guarded, s
<1>6. \A i \in Index : i > k => i \notin w.heads /\ w.rows[i] = {}
  BY <1>4 DEF SameElsewhere, WellFormed, Index
<1>7. HeadguardLostOnlyWhenEmpty(w)
  <2> SUFFICES ASSUME NEW i \in Index, NEW j \in Index, i < j, i \in w.heads,
                      j \notin w.heads, w.rows[j] # {}, NEW h \in 0..i
               PROVE  w.rows[h] = {}
    BY DEF HeadguardLostOnlyWhenEmpty
  <2>1. j <= k /\ i # k /\ h # k /\ h \in Index
    BY <1>6, ConstantsAssumption DEF Index
  <2>2. i \in db.heads /\ w.rows[h] = db.rows[h]
    BY <1>4, <2>1 DEF SameElsewhere
  <2>3. CASE j # k
    <3>1. j \notin db.heads /\ db.rows[j] # {}
      BY <1>4, <2>3 DEF SameElsewhere
    <3> QED BY <3>1, <2>2 DEF WellFormed, HeadguardLostOnlyWhenEmpty
  <2>4. CASE j = k /\ HasNoRow(db)
    BY <2>4, <2>1, <2>2 DEF HasNoRow
  <2>5. CASE j = k /\ ~ HasNoRow(db)
    <3>1. k \notin s.heads /\ s.rows[k] # {}
      BY <1>1, <1>2, <2>5
    <3>2. HeadguardLostOnlyWhenEmpty(s)
      BY <2>5, SnapshotLosesNoHeadguard DEF s
    <3>3. i \in s.heads /\ s.rows[h] = db.rows[h]
      BY <1>1, <2>1, <2>2 DEF SameElsewhere
    <3> QED BY <3>1, <3>2, <3>3, <2>2, <2>5 DEF HeadguardLostOnlyWhenEmpty
  <2> QED BY <2>3, <2>4, <2>5
<1> QED BY <1>3, <1>4, <1>5, <1>6, <1>7 DEF WellFormed, w

-----------------------------------------------------------------------------
(* What a read at the current index returns after a write                  *)

(* When a write leaves nothing at k, the snapshot the read falls back to has *)
(* no headguard either, unless the whole table is empty.                     *)
LEMMA FallbackHasNoHeadguard ==
  ASSUME NEW k \in Index, NEW db, WellFormed(db, k), k - 1 \in Index,
         ~ Guarded(db, k), ~ HasNoRow(Written(db, k, FALSE, {})),
         NEW m \in Index, Latest(Written(db, k, FALSE, {}), k - 1, m)
  PROVE  m \notin Written(db, k, FALSE, {}).heads
<1> DEFINE w == Written(db, k, FALSE, {})
<1>1. WellFormed(w, k) /\ SameElsewhere(db, w, k) /\ w.rows[k] = {}
  BY WriteKeepsWellFormed
<1>2. ~ HasNoRow(w) /\ Latest(w, k - 1, m)
  OBVIOUS
<1> HIDE DEF w
<1>0. k \in Int /\ k - 1 \in Nat /\ db \in Table /\ 0 \in db.heads
  BY ConstantsAssumption DEF Index, WellFormed
<1>3. m # k /\ m <= k - 1
  BY <1>2, <1>0 DEF Latest, Index
<1>4. PICK h \in Index : w.rows[h] # {}
  BY <1>2 DEF HasNoRow
<1>5. h <= k - 1
  BY <1>1, <1>4, <1>0 DEF WellFormed, Index
<1>6. h <= m
  BY <1>2, <1>4, <1>5 DEF Latest, Materialised
<1>7. db.rows[h] # {} /\ ~ HasNoRow(db)
  BY <1>1, <1>4, <1>5, <1>0 DEF SameElsewhere, HasNoRow, Index
<1>8. SUFFICES ASSUME m \in db.heads PROVE FALSE
  BY <1>1, <1>3 DEF SameElsewhere, w
<1>9. CASE k \in Materialised(db)
  <2>1. k \notin db.heads /\ db.rows[k] # {}
    BY <1>9 DEF Guarded, MaybeCreateSnapshot, Materialised
  <2>2. \A i \in 0..m : db.rows[i] = {}
    BY <2>1, <1>8, <1>3, <1>0 DEF WellFormed, HeadguardLostOnlyWhenEmpty, Index
  <2> QED BY <2>2, <1>6, <1>7 DEF Index
<1>10. CASE k \notin Materialised(db)
  <2>1. Latest(db, k - 1, m)
    BY <1>1, <1>2, <1>3, <1>8, <1>0 DEF Latest, SameElsewhere, Materialised, Index
  <2>2. MostRecentSnapshot(db, k - 1) = m /\ m # -1
    BY <2>1, <1>7, <1>0, ReadLatest DEF Index
  <2>3. Guarded(db, k)
    BY <2>2, <1>8, <1>10 DEF Guarded, MaybeCreateSnapshot
  <2> QED BY <2>3
<1> QED BY <1>9, <1>10

(* A snapshot with a row or a headguard is read back as written; one with    *)
(* neither is skipped, and the read falls back to the last message's state.  *)
LEMMA ReadBack ==
  ASSUME NEW k \in Index, NEW db, WellFormed(db, k),
         NEW g \in BOOLEAN, NEW c \in SUBSET Row
  PROVE  LET w == Written(db, k, g, c)
         IN  /\ g \/ Guarded(db, k) \/ c # {} =>
                  /\ GetDatabase(w, k) = c
                  /\ Guarded(w, k) <=> g \/ Guarded(db, k)
             /\ ~ (g \/ Guarded(db, k) \/ c # {}) =>
                  /\ k - 1 \in Index
                  /\ GetDatabase(w, k) = GetDatabase(db, k - 1)
                  /\ ~ Guarded(w, k)
<1> DEFINE w == Written(db, k, g, c)
<1>1. /\ WellFormed(w, k)
      /\ SameElsewhere(db, w, k)
      /\ w.rows[k] = c
      /\ k \in w.heads <=> g \/ Guarded(db, k)
  BY WriteKeepsWellFormed
<1> HIDE DEF w
<1>2. k \in Int /\ k >= 0 /\ db \in Table /\ 0 \in db.heads /\ w \in Table /\ 0 \in w.heads
  BY <1>1, ConstantsAssumption DEF Index, WellFormed
<1>3. CASE g \/ Guarded(db, k) \/ c # {}
  <2>1. k \in Materialised(w)
    BY <1>1, <1>3 DEF Materialised
  <2>2. Latest(w, k, k)
    BY <2>1, <1>2 DEF Latest
  <2>3. GetDatabase(w, k) = c
    BY <2>2, <1>1, <1>2, ReadLatest
  <2>4. Guarded(w, k) <=> k \in w.heads
    BY <2>1 DEF Guarded, MaybeCreateSnapshot
  <2> QED BY <2>3, <2>4, <1>1, <1>3 DEF w
<1>4. CASE ~ (g \/ Guarded(db, k) \/ c # {})
  <2>1. k \notin Materialised(w)
    BY <1>1, <1>4 DEF Materialised
  <2>2. k - 1 \in Index /\ k - 1 \in Nat
    BY <1>2, <2>1, ConstantsAssumption DEF Index, Materialised
  <2>3. PICK m \in Index : Latest(w, k - 1, m)
    BY <1>2, <2>2, LatestExists
  <2>4. Latest(w, k, m)
    BY <2>1, <2>3, <1>2 DEF Latest, Materialised, Index
  <2>5. GetDatabase(w, k) = w.rows[m] /\ GetDatabase(w, k - 1) = w.rows[m]
    BY <2>3, <2>4, <1>2, <2>2, ReadLatest
  <2>6. GetDatabase(w, k - 1) = GetDatabase(db, k - 1)
    BY <1>1, <1>2, <2>2, ReadBelow
  <2>7. ~ Guarded(w, k)
    <3>1. CASE HasNoRow(w)
      <4>1. MostRecentSnapshot(w, k - 1) = -1
        <5>1. k - 1 \in Int
          BY <1>2
        <5> QED BY <3>1, <5>1, <2>3, <1>2, ReadLatest
      <4> QED BY <4>1, <1>1, <1>4 DEF Guarded, MaybeCreateSnapshot
    <3>2. CASE ~ HasNoRow(w)
      <4>1. MostRecentSnapshot(w, k - 1) = m
        BY <3>2, <2>2, <2>3, <1>2, ReadLatest
      <4>2. m \notin w.heads
        BY <3>2, <2>1, <2>2, <2>3, <1>1, <1>2, <1>4, FallbackHasNoHeadguard DEF w
      <4> QED BY <4>1, <4>2, <2>1, <1>1, <1>4 DEF Guarded, MaybeCreateSnapshot
    <3> QED BY <3>1, <3>2
  <2> QED BY <2>2, <2>5, <2>6, <2>7, <1>4 DEF w
<1> QED BY <1>3, <1>4

-----------------------------------------------------------------------------
(* The operations as writes                                                *)

LEMMA OperationsAreWrites ==
  ASSUME NEW k \in Index, NEW R \in SUBSET Row, NEW db, WellFormed(db, k)
  PROVE  /\ GetDatabase(db, k) \in SUBSET Row
         /\ Added(db, k, R) = Written(db, k, FALSE, GetDatabase(db, k) \union R)
         /\ Removed(db, k, R) = Written(db, k, FALSE, GetDatabase(db, k) \ R)
         /\ Updated(db, k, R) = Written(db, k, TRUE, R)
         /\ MaybeCreateSnapshot(db, k) = Written(db, k, FALSE, GetDatabase(db, k))
<1> DEFINE s == MaybeCreateSnapshot(db, k)
<1>1. s \in Table /\ s.rows[k] = GetDatabase(db, k)
  BY SnapshotRestates
<1>2. \A c : Written(db, k, FALSE, c) = [heads |-> s.heads, rows |-> [s.rows EXCEPT ![k] = c]]
  BY DEF Written
<1>3. Written(db, k, TRUE, R) = Updated(db, k, R)
  BY DEF Written, Updated
<1>4. Added(db, k, R) = [heads |-> s.heads, rows |-> [s.rows EXCEPT ![k] = s.rows[k] \union R]]
  BY <1>1 DEF Added, Table
<1>5. Removed(db, k, R) = [heads |-> s.heads, rows |-> [s.rows EXCEPT ![k] = s.rows[k] \ R]]
  BY <1>1 DEF Removed, Table
<1> HIDE DEF s
<1>6. s = [heads |-> s.heads, rows |-> s.rows] /\ s.rows \in [Index -> SUBSET Row]
  BY <1>1 DEF Table
<1>7. [s.rows EXCEPT ![k] = s.rows[k]] = s.rows
  BY <1>6
<1>8. s.rows[k] \in SUBSET Row
  BY <1>6
<1> QED BY <1>1, <1>2, <1>3, <1>4, <1>5, <1>6, <1>7, <1>8 DEF s

(* Committing messages keeps a table well formed, every index from k on      *)
(* reads the content of k, and the headguard stays unless there is no row.   *)
LEMMA CommitCarriesOver ==
  ASSUME NEW k \in Index, NEW db, WellFormed(db, k), NEW k2 \in Index, k < k2
  PROVE  /\ WellFormed(db, k2)
         /\ \A i \in k..k2 : GetDatabase(db, i) = GetDatabase(db, k)
         /\ Guarded(db, k2) <=> Guarded(db, k) /\ ~ HasNoRow(db)
         /\ HasNoRow(db) <=> \A i \in 0..k : GetDatabase(db, i) = {}
<1>0. /\ k \in Nat /\ k2 \in Nat /\ db \in Table /\ 0 \in db.heads
      /\ \A i \in Materialised(db) : i <= k
  BY ConstantsAssumption DEF Index, WellFormed, Materialised
<1>1. WellFormed(db, k2)
  BY <1>0 DEF WellFormed, Index
<1>2. PICK m \in Index : Latest(db, k, m)
  BY <1>0, LatestExists
<1>3. \A i \in Nat : i >= k => Latest(db, i, m)
  BY <1>0, <1>2 DEF Latest, Index
<1>4. \A i \in k..k2 : GetDatabase(db, i) = GetDatabase(db, k)
  <2> TAKE i \in k..k2
  <2>1. Latest(db, i, m) /\ i \in Int
    BY <1>0, <1>3
  <2> QED BY <2>1, <1>0, <1>2, ReadLatest
<1>5. Guarded(db, k2) <=> Guarded(db, k) /\ ~ HasNoRow(db)
  <2>1. k2 \notin Materialised(db) /\ k2 - 1 \in Nat /\ Latest(db, k2 - 1, m)
    BY <1>0, <1>3
  <2>2. CASE HasNoRow(db)
    <3>1. MostRecentSnapshot(db, k2 - 1) = -1
      BY <2>1, <2>2, <1>0, ReadLatest
    <3>2. ~ Guarded(db, k2)
      BY <3>1, <2>1 DEF Guarded, MaybeCreateSnapshot, Materialised
    <3> QED BY <3>2, <2>2
  <2>3. CASE ~ HasNoRow(db)
    <3>1. MostRecentSnapshot(db, k2 - 1) = m /\ m # -1
      BY <2>1, <2>3, <1>0, ReadLatest DEF Index
    <3>2. Guarded(db, k2) <=> m \in db.heads
      BY <3>1, <2>1 DEF Guarded, MaybeCreateSnapshot, Materialised
    <3>3. Guarded(db, k) <=> m \in db.heads
      <4>1. CASE k \in Materialised(db)
        <5>1. m = k
          BY <4>1, <1>2, <1>0 DEF Latest, Index
        <5> QED BY <4>1, <5>1 DEF Guarded, MaybeCreateSnapshot
      <4>2. CASE k \notin Materialised(db)
        <5>1. k - 1 \in Int /\ Latest(db, k - 1, m)
          BY <4>2, <1>2, <1>0 DEF Latest, Materialised, Index
        <5>2. MostRecentSnapshot(db, k - 1) = m
          BY <5>1, <2>3, <1>0, ReadLatest
        <5> QED BY <5>2, <3>1, <4>2 DEF Guarded, MaybeCreateSnapshot, Materialised
      <4> QED BY <4>1, <4>2
    <3> QED BY <3>2, <3>3, <2>3
  <2> QED BY <2>2, <2>3
<1>6. HasNoRow(db) <=> \A i \in 0..k : GetDatabase(db, i) = {}
  <2>1. HasNoRow(db) => \A i \in 0..k : GetDatabase(db, i) = {}
    <3> SUFFICES ASSUME HasNoRow(db), NEW i \in 0..k PROVE GetDatabase(db, i) = {}
      OBVIOUS
    <3>1. PICK n \in Index : Latest(db, i, n)
      BY <1>0, LatestExists
    <3>2. GetDatabase(db, i) = db.rows[n]
      BY <3>1, <1>0, ReadLatest
    <3> QED BY <3>2 DEF HasNoRow
  <2>2. ASSUME NEW i \in Index, db.rows[i] # {} PROVE i \in 0..k /\ GetDatabase(db, i) # {}
    <3>1. i \in Materialised(db) /\ i \in Nat
      BY <2>2, ConstantsAssumption DEF Materialised, Index
    <3>2. Latest(db, i, i)
      BY <3>1 DEF Latest, Materialised
    <3>3. GetDatabase(db, i) = db.rows[i]
      BY <3>1, <3>2, <1>0, ReadLatest
    <3> QED BY <3>1, <3>3, <2>2, <1>0
  <2> QED BY <2>1, <2>2 DEF HasNoRow
<1> QED BY <1>1, <1>4, <1>5, <1>6

-----------------------------------------------------------------------------
(* The steps of the specification                                          *)

LEMMA IndexFacts ==
  ASSUME TypeOK
  PROVE  /\ CurrentIndex \in Index /\ CurrentIndex \in Nat /\ maxIndex = CurrentIndex - 1
         /\ dbs \in [Namespaces -> Table]
BY ConstantsAssumption DEF TypeOK, CurrentIndex, Index

\* A step that writes one table at the current index.
WriteStep(ns, g, c) ==
  /\ dbs' = [dbs EXCEPT ![ns] = Written(dbs[ns], CurrentIndex, g, c)]
  /\ maxIndex' = maxIndex

\* A step that commits messages.
CommitStep(n) ==
  /\ CurrentIndex + n \in Index
  /\ maxIndex' = maxIndex + n
  /\ dbs' = dbs

(* Every step is a write of one table or a commit.                           *)
LEMMA StepForms ==
  ASSUME IInv
  PROVE  /\ \A ns \in Namespaces, R \in SUBSET Row :
              LET C == GetDatabase(dbs[ns], CurrentIndex)
              IN  /\ C \in SUBSET Row
                  /\ AddToDatabase(ns, R) => WriteStep(ns, FALSE, C \union R)
                  /\ RemoveFromDatabase(ns, R) => WriteStep(ns, FALSE, C \ R)
                  /\ RemoveNothing(ns, R) => WriteStep(ns, FALSE, C)
                  /\ UpdateDatabase(ns, R) => WriteStep(ns, TRUE, R)
         /\ \A n \in 1..MaxIndex : AddMessages(n) => CommitStep(n)
<1>1. CurrentIndex \in Index /\ dbs \in [Namespaces -> Table]
  BY IndexFacts DEF IInv
<1>2. ASSUME NEW ns \in Namespaces, NEW R \in SUBSET Row
      PROVE  LET C == GetDatabase(dbs[ns], CurrentIndex)
             IN  /\ C \in SUBSET Row
                 /\ AddToDatabase(ns, R) => WriteStep(ns, FALSE, C \union R)
                 /\ RemoveFromDatabase(ns, R) => WriteStep(ns, FALSE, C \ R)
                 /\ RemoveNothing(ns, R) => WriteStep(ns, FALSE, C)
                 /\ UpdateDatabase(ns, R) => WriteStep(ns, TRUE, R)
  <2>1. WellFormed(dbs[ns], CurrentIndex)
    BY DEF IInv
  <2> DEFINE k == CurrentIndex
             db == dbs[ns]
  <2>0. k \in Index /\ WellFormed(db, k)
    BY <1>1, <2>1
  <2> HIDE DEF k, db
  <2>2. /\ GetDatabase(db, k) \in SUBSET Row
        /\ Added(db, k, R) = Written(db, k, FALSE, GetDatabase(db, k) \union R)
        /\ Removed(db, k, R) = Written(db, k, FALSE, GetDatabase(db, k) \ R)
        /\ Updated(db, k, R) = Written(db, k, TRUE, R)
        /\ MaybeCreateSnapshot(db, k) = Written(db, k, FALSE, GetDatabase(db, k))
    BY <2>0, OperationsAreWrites
  <2>3. AddToDatabase(ns, R) => WriteStep(ns, FALSE, GetDatabase(db, k) \union R)
    BY <2>2 DEF AddToDatabase, WriteStep, k, db
  <2>4. RemoveFromDatabase(ns, R) => WriteStep(ns, FALSE, GetDatabase(db, k) \ R)
    BY <2>2 DEF RemoveFromDatabase, WriteStep, k, db
  <2>5. RemoveNothing(ns, R) => WriteStep(ns, FALSE, GetDatabase(db, k))
    BY <2>2 DEF RemoveNothing, WriteStep, k, db
  <2>6. UpdateDatabase(ns, R) => WriteStep(ns, TRUE, R)
    BY <2>2 DEF UpdateDatabase, WriteStep, k, db
  <2> QED BY <2>2, <2>3, <2>4, <2>5, <2>6 DEF k, db
<1>3. ASSUME NEW n \in 1..MaxIndex, AddMessages(n) PROVE CommitStep(n)
  BY <1>3, IndexFacts, ConstantsAssumption
  DEF IInv, TypeOK, AddMessages, CommitStep, CurrentIndex, Index
<1> QED BY <1>2, <1>3

(* A write keeps the invariant, changes no earlier content, and shows its    *)
(* effect at the current index of its own table only.                        *)
LEMMA WriteStepEffect ==
  ASSUME IInv, NEW ns \in Namespaces, NEW g \in BOOLEAN, NEW c \in SUBSET Row,
         WriteStep(ns, g, c)
  PROVE  LET w == Written(dbs[ns], CurrentIndex, g, c)
         IN  /\ IInv'
             /\ CurrentIndex' = CurrentIndex
             /\ \A o \in Namespaces : \A i \in Nat : i < CurrentIndex =>
                  GetDatabase(dbs[o], i)' = GetDatabase(dbs[o], i)
             /\ worldBar' = [worldBar EXCEPT ![ns] =
                               [@ EXCEPT ![CurrentIndex] = GetDatabase(w, CurrentIndex)]]
             /\ guardedBar' = IF Guarded(w, CurrentIndex) THEN guardedBar \union {ns}
                                                          ELSE guardedBar \ {ns}
<1> DEFINE w == Written(dbs[ns], CurrentIndex, g, c)
<1>1. /\ CurrentIndex \in Index /\ CurrentIndex \in Nat
      /\ dbs \in [Namespaces -> Table]
      /\ \A o \in Namespaces : WellFormed(dbs[o], CurrentIndex)
  BY IndexFacts DEF IInv
<1>2. WellFormed(w, CurrentIndex) /\ SameElsewhere(dbs[ns], w, CurrentIndex) /\ w \in Table
  BY <1>1, WriteKeepsWellFormed DEF WellFormed
<1> HIDE DEF w
<1>3. /\ maxIndex' = maxIndex /\ CurrentIndex' = CurrentIndex
      /\ dbs' = [dbs EXCEPT ![ns] = w]
  BY DEF WriteStep, CurrentIndex, w
<1>4. \A o \in Namespaces : dbs'[o] = IF o = ns THEN w ELSE dbs[o]
  BY <1>1, <1>3
<1>5. IInv'
  <2>1. TypeOK'
    BY <1>1, <1>2, <1>3 DEF IInv, TypeOK
  <2>2. \A o \in Namespaces : WellFormed(dbs'[o], CurrentIndex)
    BY <1>1, <1>2, <1>4
  <2> QED BY <2>1, <2>2, <1>3 DEF IInv
<1>6. \A o \in Namespaces : \A i \in Nat : i < CurrentIndex =>
         GetDatabase(dbs'[o], i) = GetDatabase(dbs[o], i)
  BY <1>1, <1>2, <1>4, ReadBelow DEF WellFormed
<1>7. worldBar' = [worldBar EXCEPT ![ns] =
                    [@ EXCEPT ![CurrentIndex] = GetDatabase(w, CurrentIndex)]]
  <2>1. worldBar' = [o \in Namespaces |-> [i \in Index |->
                       IF i <= CurrentIndex THEN GetDatabase(dbs'[o], i) ELSE {}]]
    BY <1>3 DEF worldBar
  <2>2. \A o \in Namespaces, i \in Index :
          (IF i <= CurrentIndex THEN GetDatabase(dbs'[o], i) ELSE {})
            = IF o = ns /\ i = CurrentIndex THEN GetDatabase(w, CurrentIndex)
              ELSE IF i <= CurrentIndex THEN GetDatabase(dbs[o], i) ELSE {}
    BY <1>1, <1>4, <1>6, ConstantsAssumption DEF Index
  <2>3. worldBar' = [o \in Namespaces |-> [i \in Index |->
                       IF o = ns /\ i = CurrentIndex THEN GetDatabase(w, CurrentIndex)
                       ELSE IF i <= CurrentIndex THEN GetDatabase(dbs[o], i) ELSE {}]]
    BY <2>1, <2>2
  <2> QED BY <2>3, <1>1 DEF worldBar
<1>8. guardedBar' = IF Guarded(w, CurrentIndex) THEN guardedBar \union {ns}
                                               ELSE guardedBar \ {ns}
  <2>1. guardedBar' = {o \in Namespaces : Guarded(dbs'[o], CurrentIndex)}
    BY <1>3 DEF guardedBar
  <2> QED BY <2>1, <1>4 DEF guardedBar
<1> QED BY <1>3, <1>5, <1>6, <1>7, <1>8 DEF w

(* A commit keeps the invariant, changes no earlier content and is a Commit  *)
(* of the abstract history.                                                  *)
LEMMA CommitStepEffect ==
  ASSUME IInv, NEW n \in 1..MaxIndex, CommitStep(n)
  PROVE  IInv' /\ History!Commit(n)
<1> DEFINE k == CurrentIndex
<1>1. /\ k \in Index /\ k \in Nat /\ dbs \in [Namespaces -> Table] /\ n \in Nat /\ n > 0
      /\ \A o \in Namespaces : WellFormed(dbs[o], k)
  BY IndexFacts DEF IInv
<1>2. CurrentIndex' = k + n /\ dbs' = dbs /\ k + n \in Index /\ k < k + n
  BY <1>1, IndexFacts, ConstantsAssumption DEF IInv, TypeOK, CommitStep, CurrentIndex
<1> HIDE DEF k
<1>3. \A o \in Namespaces :
        /\ WellFormed(dbs[o], k + n)
        /\ \A i \in k..(k + n) : GetDatabase(dbs[o], i) = GetDatabase(dbs[o], k)
        /\ Guarded(dbs[o], k + n) <=> Guarded(dbs[o], k) /\ ~ HasNoRow(dbs[o])
        /\ HasNoRow(dbs[o]) <=> \A i \in 0..k : GetDatabase(dbs[o], i) = {}
  BY <1>1, <1>2, CommitCarriesOver
<1>4. IInv'
  <2>1. TypeOK'
    BY <1>1, <1>2, IndexFacts, ConstantsAssumption DEF IInv, TypeOK, CommitStep, CurrentIndex, Index, k
  <2> QED BY <2>1, <1>2, <1>3 DEF IInv
<1>5. \A o \in Namespaces, i \in Index : i <= k => worldBar[o][i] = GetDatabase(dbs[o], i)
  BY DEF worldBar, k
<1>6. worldBar' = [o \in Namespaces |-> [i \in 0..MaxIndex |->
                     IF i \in k..(k + n) THEN worldBar[o][k] ELSE worldBar[o][i]]]
  <2>1. worldBar' = [o \in Namespaces |-> [i \in Index |->
                       IF i <= k + n THEN GetDatabase(dbs[o], i) ELSE {}]]
    BY <1>2 DEF worldBar
  <2>2. \A o \in Namespaces, i \in Index :
          (IF i <= k + n THEN GetDatabase(dbs[o], i) ELSE {})
            = IF i \in k..(k + n) THEN GetDatabase(dbs[o], k)
              ELSE IF i <= k THEN GetDatabase(dbs[o], i) ELSE {}
    BY <1>1, <1>3, ConstantsAssumption DEF Index
  <2>3. \A o \in Namespaces, i \in Index :
          worldBar[o][i] = IF i <= k THEN GetDatabase(dbs[o], i) ELSE {}
    BY DEF worldBar, k
  <2>4. \A o \in Namespaces : worldBar[o][k] = GetDatabase(dbs[o], k)
    <3>1. k \in Index /\ k <= k
      BY <1>1
    <3> QED BY <1>5, <3>1
  <2>5. \A o \in Namespaces, i \in Index :
          (IF i <= k + n THEN GetDatabase(dbs[o], i) ELSE {})
            = IF i \in k..(k + n) THEN worldBar[o][k] ELSE worldBar[o][i]
    BY <2>2, <2>3, <2>4
  <2> QED BY <2>1, <2>5 DEF Index
<1>7. guardedBar' = {o \in guardedBar : ~ \A i \in 0..k : worldBar[o][i] = {}}
  <2>1. guardedBar' = {o \in Namespaces : Guarded(dbs[o], k + n)}
    BY <1>2 DEF guardedBar
  <2>2. \A o \in Namespaces : (\A i \in 0..k : worldBar[o][i] = {}) <=> HasNoRow(dbs[o])
    <3> TAKE o \in Namespaces
    <3>1. \A i \in 0..k : i \in Index /\ i <= k
      BY <1>1, ConstantsAssumption DEF Index
    <3>2. \A i \in 0..k : worldBar[o][i] = GetDatabase(dbs[o], i)
      BY <1>5, <3>1
    <3> QED BY <1>3, <3>2
  <2> QED BY <2>1, <2>2, <1>3 DEF guardedBar, k
<1> QED
  BY <1>1, <1>2, <1>4, <1>6, <1>7
  DEF History!Commit, History!Content, History!NeverPopulated, History!HIndex, Index, k

-----------------------------------------------------------------------------
(* Theorems                                                                *)

(* A fresh context has nothing but its headguards and the initial rows.      *)
LEMMA InitHolds ==
  ASSUME Init
  PROVE  IInv
<1>1. CurrentIndex = 0 /\ 0 \in Index
  BY ConstantsAssumption DEF Init, CurrentIndex, Index
<1>2. TypeOK
  BY <1>1, ConstantsAssumption DEF Init, TypeOK, Table, Index
<1>3. \A ns \in Namespaces : WellFormed(dbs[ns], 0)
  <2> TAKE ns \in Namespaces
  <2>1. dbs[ns] = [heads |-> {0},
                   rows |-> [i \in Index |-> IF i = 0 THEN InitialRows[ns] ELSE {}]]
    BY DEF Init
  <2>2. dbs[ns] \in Table
    BY <1>2 DEF TypeOK
  <2>3. \A i \in Index : i # 0 => i \notin dbs[ns].heads /\ dbs[ns].rows[i] = {}
    BY <2>1
  <2>4. 0 \in dbs[ns].heads
    BY <2>1
  <2> HIDE DEF Init
  <2> QED
    BY <2>2, <2>3, <2>4, ConstantsAssumption
    DEF WellFormed, HeadguardLostOnlyWhenEmpty, Index
<1> QED BY <1>1, <1>2, <1>3 DEF IInv

(* Every step writes one table at the current index, or commits, or stutters. *)
LEMMA StepCases ==
  ASSUME IInv, [Next]_vars
  PROVE  \/ \E ns \in Namespaces, g \in BOOLEAN, c \in SUBSET Row : WriteStep(ns, g, c)
         \/ \E n \in 1..MaxIndex : CommitStep(n)
         \/ UNCHANGED vars
<1>1. CASE UNCHANGED vars
  BY <1>1
<1>2. ASSUME NEW ns \in Namespaces, NEW R \in SUBSET Row,
             \/ AddToDatabase(ns, R)
             \/ RemoveFromDatabase(ns, R)
             \/ RemoveNothing(ns, R)
             \/ UpdateDatabase(ns, R)
      PROVE  \E g \in BOOLEAN, c \in SUBSET Row : WriteStep(ns, g, c)
  <2> DEFINE C == GetDatabase(dbs[ns], CurrentIndex)
  <2>1. /\ C \in SUBSET Row
        /\ AddToDatabase(ns, R) => WriteStep(ns, FALSE, C \union R)
        /\ RemoveFromDatabase(ns, R) => WriteStep(ns, FALSE, C \ R)
        /\ RemoveNothing(ns, R) => WriteStep(ns, FALSE, C)
        /\ UpdateDatabase(ns, R) => WriteStep(ns, TRUE, R)
    BY StepForms
  <2> HIDE DEF C
  <2>2. C \union R \in SUBSET Row /\ C \ R \in SUBSET Row
    BY <2>1
  <2> QED BY <1>2, <2>1, <2>2
<1>3. ASSUME NEW n \in 1..MaxIndex, AddMessages(n) PROVE CommitStep(n)
  BY <1>3, StepForms
<1> QED BY <1>1, <1>2, <1>3 DEF Next

LEMMA StepKeepsIInv ==
  ASSUME IInv, [Next]_vars
  PROVE  IInv'
<1>1. ASSUME NEW ns \in Namespaces, NEW g \in BOOLEAN, NEW c \in SUBSET Row,
             WriteStep(ns, g, c)
      PROVE  IInv'
  BY <1>1, WriteStepEffect
<1>2. ASSUME NEW n \in 1..MaxIndex, CommitStep(n) PROVE IInv'
  BY <1>2, CommitStepEffect
<1>3. CASE UNCHANGED vars
  BY <1>3 DEF IInv, TypeOK, CurrentIndex, vars
<1> QED BY <1>1, <1>2, <1>3, StepCases

(* The inductive invariant holds of every state of every run.                *)
THEOREM Invariance == Spec => []IInv
<1>1. Init => IInv
  BY InitHolds
<1>2. IInv /\ [Next]_vars => IInv'
  BY StepKeepsIInv
<1> QED BY <1>1, <1>2, PTL DEF Spec

(* Every variable keeps its type.                                            *)
THEOREM TypeCorrect == Spec => []TypeOK
<1>1. IInv => TypeOK
  BY DEF IInv
<1> QED BY <1>1, Invariance, PTL

(* Nothing is ever stored beyond the index being written, and every table    *)
(* keeps a snapshot at index 0 for a read to fall back to.                   *)
THEOREM Causality == Spec => []NoSnapshotFromTheFuture
<1>1. ASSUME IInv PROVE NoSnapshotFromTheFuture
  <2>1. /\ CurrentIndex \in Nat
        /\ \A ns \in Namespaces : WellFormed(dbs[ns], CurrentIndex)
    BY <1>1, IndexFacts DEF IInv
  <2>2. \A ns \in Namespaces : 0 \in dbs[ns].heads
    BY <2>1 DEF WellFormed
  <2>3. ASSUME NEW ns \in Namespaces, NEW i \in Materialised(dbs[ns])
        PROVE  i <= CurrentIndex
    <3>1. WellFormed(dbs[ns], CurrentIndex) /\ i \in Int
      BY <2>1, ConstantsAssumption DEF Materialised, Index
    <3>2. ~ (i > CurrentIndex)
      BY <3>1 DEF WellFormed, Materialised
    <3> QED BY <2>1, <3>1, <3>2
  <2> QED BY <2>2, <2>3 DEF NoSnapshotFromTheFuture
<1> QED BY <1>1, Invariance, PTL

(* A table loses its headguard only when its whole history is empty.         *)
THEOREM HeadguardsKept == Spec => []HeadguardsPersist
<1>1. IInv => HeadguardsPersist
  BY DEF IInv, WellFormed, HeadguardsPersist
<1> QED BY <1>1, Invariance, PTL

-----------------------------------------------------------------------------
(* The past                                                                *)

(* What is read at a committed index is the same before and after any step:  *)
(* operations write at max_sandbox_message_index + 1 only, and a commit      *)
(* writes no table.                                                          *)
THEOREM PastIsImmutable == Spec => HistoryImmutable
<1> DEFINE A == \A ns \in Namespaces : \A i \in 0..maxIndex :
                  GetDatabase(dbs[ns], i)' = GetDatabase(dbs[ns], i)
<1>1. ASSUME IInv, [Next]_vars PROVE [A]_vars
  <2>0. \A i \in 0..maxIndex : i \in Nat /\ i < CurrentIndex
    BY <1>1, IndexFacts DEF IInv
  <2>1. ASSUME NEW ns \in Namespaces, NEW g \in BOOLEAN, NEW c \in SUBSET Row,
               WriteStep(ns, g, c)
        PROVE  A
    BY <1>1, <2>0, <2>1, WriteStepEffect
  <2>2. ASSUME NEW n \in 1..MaxIndex, CommitStep(n) PROVE A
    BY <2>2 DEF CommitStep
  <2> HIDE DEF A
  <2> QED BY <1>1, <2>1, <2>2, StepCases
<1>2. IInv /\ [Next]_vars => [A]_vars
  BY <1>1
<1> QED BY <1>2, Invariance, PTL DEF Spec, HistoryImmutable

-----------------------------------------------------------------------------
(* The tables implement the dense history                                  *)

(* The initial tables map to the initial history.                            *)
LEMMA InitRefines ==
  ASSUME Init
  PROVE  History!Init
<1>0. IInv /\ CurrentIndex = 0 /\ 0 \in Index
  BY InitHolds, ConstantsAssumption DEF Init, CurrentIndex, Index
<1>1. ASSUME NEW ns \in Namespaces
      PROVE  GetDatabase(dbs[ns], 0) = InitialRows[ns] /\ Guarded(dbs[ns], 0)
  <2>1. dbs[ns] = [heads |-> {0},
                   rows |-> [i \in Index |-> IF i = 0 THEN InitialRows[ns] ELSE {}]]
    BY DEF Init
  <2>2. dbs[ns] \in Table /\ 0 \in dbs[ns].heads /\ dbs[ns].rows[0] = InitialRows[ns]
    BY <1>0, <2>1 DEF IInv, TypeOK
  <2>3. 0 \in Materialised(dbs[ns])
    BY <1>0, <2>2 DEF Materialised
  <2>4. Latest(dbs[ns], 0, 0)
    BY <1>0, <2>3 DEF Latest
  <2>5. GetDatabase(dbs[ns], 0) = dbs[ns].rows[0]
    BY <1>0, <2>2, <2>4, ReadLatest
  <2>6. Guarded(dbs[ns], 0)
    BY <2>2, <2>3 DEF Guarded, MaybeCreateSnapshot
  <2> QED BY <2>2, <2>5, <2>6
<1>2. guardedBar = Namespaces
  BY <1>0, <1>1 DEF guardedBar
<1>3. worldBar = [ns \in Namespaces |->
                    [i \in Index |-> IF i = 0 THEN InitialRows[ns] ELSE {}]]
  <2>1. \A ns \in Namespaces, i \in Index :
          (IF i <= CurrentIndex THEN GetDatabase(dbs[ns], i) ELSE {})
            = IF i = 0 THEN InitialRows[ns] ELSE {}
    BY <1>0, <1>1, ConstantsAssumption DEF Index
  <2> QED BY <2>1 DEF worldBar
<1> QED BY <1>0, <1>2, <1>3 DEF History!Init, History!HIndex, Index

\* A write of content c that the history sees as it is.
ExactWrite(ns, c) ==
  /\ worldBar' = [worldBar EXCEPT ![ns] = [@ EXCEPT ![CurrentIndex] = c]]
  /\ CurrentIndex' = CurrentIndex

(* How a write shows in the history: exactly when the snapshot carries a     *)
(* headguard or a row, and else as a return to the last message's content.   *)
LEMMA WriteShows ==
  ASSUME IInv, NEW ns \in Namespaces, NEW g \in BOOLEAN, NEW c \in SUBSET Row,
         WriteStep(ns, g, c)
  PROVE  /\ ns \in guardedBar <=> Guarded(dbs[ns], CurrentIndex)
         /\ worldBar[ns][CurrentIndex] = GetDatabase(dbs[ns], CurrentIndex)
         /\ g \/ ns \in guardedBar \/ c # {} =>
              /\ ExactWrite(ns, c)
              /\ guardedBar' = IF g THEN guardedBar \union {ns} ELSE guardedBar
         /\ ~ (g \/ ns \in guardedBar \/ c # {}) =>
              /\ ExactWrite(ns, worldBar[ns][CurrentIndex - 1])
              /\ guardedBar' = guardedBar
<1> DEFINE w == Written(dbs[ns], CurrentIndex, g, c)
<1>1. /\ CurrentIndex \in Index /\ CurrentIndex \in Nat
      /\ WellFormed(dbs[ns], CurrentIndex)
  BY IndexFacts DEF IInv
<1>2. /\ CurrentIndex' = CurrentIndex
      /\ worldBar' = [worldBar EXCEPT ![ns] =
                         [@ EXCEPT ![CurrentIndex] = GetDatabase(w, CurrentIndex)]]
      /\ guardedBar' = IF Guarded(w, CurrentIndex) THEN guardedBar \union {ns}
                                                   ELSE guardedBar \ {ns}
  BY WriteStepEffect
<1>3. /\ g \/ Guarded(dbs[ns], CurrentIndex) \/ c # {} =>
            /\ GetDatabase(w, CurrentIndex) = c
            /\ Guarded(w, CurrentIndex) <=> g \/ Guarded(dbs[ns], CurrentIndex)
      /\ ~ (g \/ Guarded(dbs[ns], CurrentIndex) \/ c # {}) =>
            /\ CurrentIndex - 1 \in Index
            /\ GetDatabase(w, CurrentIndex) = GetDatabase(dbs[ns], CurrentIndex - 1)
            /\ ~ Guarded(w, CurrentIndex)
  BY <1>1, ReadBack
<1> HIDE DEF w
<1>4. ns \in guardedBar <=> Guarded(dbs[ns], CurrentIndex)
  BY DEF guardedBar
<1>5. \A i \in Index : i <= CurrentIndex => worldBar[ns][i] = GetDatabase(dbs[ns], i)
  BY DEF worldBar
<1>6. worldBar[ns][CurrentIndex] = GetDatabase(dbs[ns], CurrentIndex)
  BY <1>1, <1>5
<1>7. CASE g \/ ns \in guardedBar \/ c # {}
  <2>1. ExactWrite(ns, c)
    BY <1>2, <1>3, <1>4, <1>7 DEF ExactWrite
  <2>2. guardedBar' = IF g THEN guardedBar \union {ns} ELSE guardedBar
    BY <1>2, <1>3, <1>4, <1>7
  <2> QED BY <1>4, <1>6, <1>7, <2>1, <2>2
<1>8. CASE ~ (g \/ ns \in guardedBar \/ c # {})
  <2>1. GetDatabase(w, CurrentIndex) = worldBar[ns][CurrentIndex - 1]
    BY <1>1, <1>3, <1>4, <1>5, <1>8
  <2>2. ExactWrite(ns, worldBar[ns][CurrentIndex - 1])
    BY <1>2, <2>1 DEF ExactWrite
  <2>3. guardedBar' = guardedBar
    BY <1>2, <1>3, <1>4, <1>8
  <2> QED BY <1>4, <1>6, <1>8, <2>2, <2>3
<1> QED BY <1>7, <1>8

(* Each operation is the operation of the history of the same name, except   *)
(* that a removal that empties a snapshot without a headguard is a Revert.   *)
LEMMA OperationsRefine ==
  ASSUME IInv, NEW ns \in Namespaces, NEW R \in SUBSET Row
  PROVE  /\ AddToDatabase(ns, R) => History!Add(ns, R)
         /\ RemoveFromDatabase(ns, R) => History!Remove(ns, R) \/ History!Revert(ns, R)
         /\ RemoveNothing(ns, R) => History!Add(ns, {}) \/ History!Revert(ns, {})
         /\ UpdateDatabase(ns, R) => History!Replace(ns, R)
<1> DEFINE C == GetDatabase(dbs[ns], CurrentIndex)
<1>1. /\ C \in SUBSET Row
      /\ AddToDatabase(ns, R) => WriteStep(ns, FALSE, C \union R)
      /\ RemoveFromDatabase(ns, R) => WriteStep(ns, FALSE, C \ R)
      /\ RemoveNothing(ns, R) => WriteStep(ns, FALSE, C)
      /\ UpdateDatabase(ns, R) => WriteStep(ns, TRUE, R)
  BY StepForms
<1>2. ASSUME NEW g \in BOOLEAN, NEW c \in SUBSET Row, WriteStep(ns, g, c)
      PROVE  /\ worldBar[ns][CurrentIndex] = C
             /\ g \/ ns \in guardedBar \/ c # {} =>
                  /\ ExactWrite(ns, c)
                  /\ guardedBar' = IF g THEN guardedBar \union {ns} ELSE guardedBar
             /\ ~ (g \/ ns \in guardedBar \/ c # {}) =>
                  /\ ExactWrite(ns, worldBar[ns][CurrentIndex - 1])
                  /\ guardedBar' = guardedBar
  BY <1>2, WriteShows
<1> HIDE DEF C
<1>3. C \union R \in SUBSET Row /\ C \ R \in SUBSET Row /\ C \union {} = C
  BY <1>1
<1>4. ASSUME AddToDatabase(ns, R) PROVE History!Add(ns, R)
  <2>1. WriteStep(ns, FALSE, C \union R) /\ C \union R # {}
    BY <1>1, <1>4 DEF AddToDatabase
  <2>2. /\ worldBar[ns][CurrentIndex] = C
        /\ ExactWrite(ns, C \union R) /\ guardedBar' = guardedBar
    BY <1>2, <1>3, <2>1
  <2> QED BY <2>2 DEF ExactWrite, History!Add, History!SetContent, History!Content
<1>5. ASSUME RemoveFromDatabase(ns, R)
      PROVE  History!Remove(ns, R) \/ History!Revert(ns, R)
  <2>1. WriteStep(ns, FALSE, C \ R)
    BY <1>1, <1>5
  <2>2. /\ worldBar[ns][CurrentIndex] = C
        /\ ns \in guardedBar \/ C \ R # {} =>
             ExactWrite(ns, C \ R) /\ guardedBar' = guardedBar
        /\ ~ (ns \in guardedBar \/ C \ R # {}) =>
             ExactWrite(ns, worldBar[ns][CurrentIndex - 1]) /\ guardedBar' = guardedBar
    BY <1>2, <1>3, <2>1
  <2>3. C \subseteq R <=> C \ R = {}
    OBVIOUS
  <2> QED
    BY <2>2, <2>3
    DEF ExactWrite, History!Remove, History!Revert, History!SetContent, History!Content
<1>6. ASSUME RemoveNothing(ns, R)
      PROVE  History!Add(ns, {}) \/ History!Revert(ns, {})
  <2>1. WriteStep(ns, FALSE, C)
    BY <1>1, <1>6
  <2>2. /\ worldBar[ns][CurrentIndex] = C
        /\ ns \in guardedBar \/ C # {} => ExactWrite(ns, C) /\ guardedBar' = guardedBar
        /\ ~ (ns \in guardedBar \/ C # {}) =>
             ExactWrite(ns, worldBar[ns][CurrentIndex - 1]) /\ guardedBar' = guardedBar
    BY <1>1, <1>2, <2>1
  <2>3. C \subseteq {} <=> C = {}
    OBVIOUS
  <2> QED
    BY <1>3, <2>2, <2>3
    DEF ExactWrite, History!Add, History!Revert, History!SetContent, History!Content
<1>7. ASSUME UpdateDatabase(ns, R) PROVE History!Replace(ns, R)
  <2>1. WriteStep(ns, TRUE, R)
    BY <1>1, <1>7
  <2>2. ExactWrite(ns, R) /\ guardedBar' = guardedBar \union {ns}
    BY <1>2, <2>1
  <2> QED BY <2>2 DEF ExactWrite, History!Replace, History!SetContent
<1> QED BY <1>4, <1>5, <1>6, <1>7

LEMMA StepRefines ==
  ASSUME IInv, [Next]_vars
  PROVE  [History!Next]_(History!hvars)
<1>1. CASE UNCHANGED vars
  BY <1>1 DEF vars, History!hvars, CurrentIndex, worldBar, guardedBar
<1>2. ASSUME NEW ns \in Namespaces, NEW R \in SUBSET Row,
             \/ AddToDatabase(ns, R)
             \/ RemoveFromDatabase(ns, R)
             \/ RemoveNothing(ns, R)
             \/ UpdateDatabase(ns, R)
      PROVE  History!Next
  <2>1. {} \in SUBSET Row
    OBVIOUS
  <2>2. \E S \in SUBSET Row : \/ History!Add(ns, S)
                              \/ History!Remove(ns, S)
                              \/ History!Revert(ns, S)
                              \/ History!Replace(ns, S)
    BY <1>2, <2>1, OperationsRefine
  <2> QED BY <2>2 DEF History!Next
<1>3. ASSUME NEW n \in 1..MaxIndex, AddMessages(n) PROVE History!Next
  <2>1. History!Commit(n)
    BY <1>3, StepForms, CommitStepEffect
  <2> QED BY <2>1 DEF History!Next
<1> QED BY <1>1, <1>2, <1>3 DEF Next

(* The sparse, headguarded tables implement the dense history: what a read   *)
(* returns at any index is what a context that stored every table at every   *)
(* index would return, the one exception being the Revert of WorldHistory.   *)
THEOREM Implementation == Spec => HistorySpec
<1>1. Init => History!Init
  BY InitRefines
<1>2. IInv /\ [Next]_vars => [History!Next]_(History!hvars)
  BY StepRefines
<1> QED BY <1>1, <1>2, Invariance, PTL DEF Spec, HistorySpec, History!Spec

-----------------------------------------------------------------------------
(* The tools that keep contacts, messages and reminders                    *)

-----------------------------------------------------------------------------
(* The operations on one table                                             *)

\* A write that sets no headguard.
PlainlyWritten(db, k, c) == Written(db, k, FALSE, c)

\* What a write leaves: it shows unless it leaves nothing for a read to find.
LEMMA PlainWrite ==
  ASSUME NEW k \in Index, NEW db, WellFormed(db, k), NEW c \in SUBSET Row, NEW w,
         w = PlainlyWritten(db, k, c)
  PROVE  /\ WellFormed(w, k)
         /\ k \in Materialised(w) => GetDatabase(w, k) = c
         /\ k \notin Materialised(w) =>
              ~ Guarded(db, k) /\ c = {} /\ k - 1 \in Index
              /\ GetDatabase(w, k) = GetDatabase(db, k - 1)
<1> DEFINE P(g) ==
      LET v == Written(db, k, g, c)
      IN  /\ WellFormed(v, k) /\ v.rows[k] = c /\ (k \in v.heads <=> g \/ Guarded(db, k))
          /\ g \/ Guarded(db, k) \/ c # {} => GetDatabase(v, k) = c
          /\ ~ (g \/ Guarded(db, k) \/ c # {}) =>
               k - 1 \in Index /\ GetDatabase(v, k) = GetDatabase(db, k - 1)
<1>1. ASSUME NEW g \in BOOLEAN PROVE P(g)
  BY WriteKeepsWellFormed, ReadBack
<1> HIDE DEF P
<1>2. P(FALSE)
  BY <1>1
<1>3. /\ WellFormed(w, k) /\ w.rows[k] = c /\ (k \in w.heads <=> Guarded(db, k))
      /\ Guarded(db, k) \/ c # {} => GetDatabase(w, k) = c
      /\ ~ (Guarded(db, k) \/ c # {}) =>
           k - 1 \in Index /\ GetDatabase(w, k) = GetDatabase(db, k - 1)
  BY <1>2 DEF P, PlainlyWritten
<1>4. k \in Materialised(w) <=> Guarded(db, k) \/ c # {}
  BY <1>3 DEF Materialised
<1> QED
  BY <1>3, <1>4

LEMMA AddingShows ==
  ASSUME NEW k \in Index, NEW db, WellFormed(db, k), NEW R \in SUBSET Row, R # {}
  PROVE  /\ WellFormed(Added(db, k, R), k)
         /\ GetDatabase(Added(db, k, R), k) = GetDatabase(db, k) \union R
<1> DEFINE c == GetDatabase(db, k) \union R
           w == Added(db, k, R)
<1>1. w = PlainlyWritten(db, k, c) /\ c \in SUBSET Row /\ c # {}
  BY OperationsAreWrites DEF PlainlyWritten
<1> HIDE DEF c, w
<1>2. WellFormed(w, k) /\ GetDatabase(w, k) = c
  BY <1>1, PlainWrite
<1> QED
  BY <1>2 DEF c, w

LEMMA UpdatingShows ==
  ASSUME NEW k \in Index, NEW db, WellFormed(db, k), NEW R \in SUBSET Row
  PROVE  /\ WellFormed(Updated(db, k, R), k)
         /\ GetDatabase(Updated(db, k, R), k) = R
<1> DEFINE P(g) ==
      LET v == Written(db, k, g, R)
      IN  WellFormed(v, k) /\ (g => GetDatabase(v, k) = R)
<1>1. ASSUME NEW g \in BOOLEAN PROVE P(g)
  BY WriteKeepsWellFormed, ReadBack
<1>2. Updated(db, k, R) = Written(db, k, TRUE, R)
  BY OperationsAreWrites
<1> HIDE DEF P
<1>3. P(TRUE)
  BY <1>1
<1> QED
  BY <1>2, <1>3 DEF P

\* A removal shows where it leaves something at k for a read to find.
LEMMA RemovingShows ==
  ASSUME NEW k \in Index, NEW db, WellFormed(db, k), NEW R \in SUBSET Row,
         k \in Materialised(Removed(db, k, R))
  PROVE  /\ WellFormed(Removed(db, k, R), k)
         /\ GetDatabase(Removed(db, k, R), k) = GetDatabase(db, k) \ R
<1> DEFINE c == GetDatabase(db, k) \ R
           w == Removed(db, k, R)
<1>1. w = PlainlyWritten(db, k, c) /\ c \in SUBSET Row
  BY OperationsAreWrites DEF PlainlyWritten
<1>2. k \in Materialised(w)
  OBVIOUS
<1> HIDE DEF c, w
<1>3. WellFormed(w, k) /\ GetDatabase(w, k) = c
  BY <1>1, <1>2, PlainWrite
<1> QED
  BY <1>3 DEF c, w

\* Restating a snapshot does not show.
LEMMA RestatingShowsNothing ==
  ASSUME NEW k \in Index, NEW db, WellFormed(db, k)
  PROVE  /\ WellFormed(MaybeCreateSnapshot(db, k), k)
         /\ GetDatabase(MaybeCreateSnapshot(db, k), k) = GetDatabase(db, k)
<1> DEFINE c == GetDatabase(db, k)
           w == MaybeCreateSnapshot(db, k)
<1>1. w = PlainlyWritten(db, k, c) /\ c \in SUBSET Row
  <2>1. {} \in SUBSET Row
    OBVIOUS
  <2> QED
    BY <2>1, OperationsAreWrites DEF PlainlyWritten
<1>2. /\ WellFormed(w, k)
      /\ k \in Materialised(w) => GetDatabase(w, k) = c
      /\ k \notin Materialised(w) =>
           ~ Guarded(db, k) /\ c = {} /\ k - 1 \in Index
           /\ GetDatabase(w, k) = GetDatabase(db, k - 1)
  <2> HIDE DEF c, w
  <2> QED
    BY <1>1, PlainWrite
<1>3. CASE k \notin Materialised(w)
  <2>1. ~ Guarded(db, k) /\ c = {} /\ k - 1 \in Index
        /\ GetDatabase(w, k) = GetDatabase(db, k - 1)
    BY <1>2, <1>3
  <2>2. HasNoRow(db)
    <3>1. /\ w.rows[k] = c
          /\ k \notin w.heads => HasNoRow(db) \/ w.rows[k] # {}
      BY SnapshotRestates
    <3> QED
      BY <2>1, <3>1 DEF Guarded
  <2>3. GetDatabase(db, k - 1) = {}
    BY <2>2 DEF GetDatabase, MostRecentSnapshot
  <2> QED
    BY <1>2, <2>1, <2>3
<1> QED
  BY <1>2, <1>3

-----------------------------------------------------------------------------
(* The entries                                                             *)

\* The entry a call adds is a row of its table, under the new identifier.
LEMMA NewEntries ==
  ASSUME NEW c, Takes(c.tool, c.given), c.tool \in Adding, NEW id \in Ids
  PROVE  LET e == NewEntry(c, id)
         IN  /\ e.id = id
             /\ c.tool = "add_contact" => e \in Contact /\ e.is_self = c.given.is_self
             /\ c.tool = "add_reminder" => e \in Reminder
<1> DEFINE e == NewEntry(c, id)
           g == c.given
<1>1. CASE c.tool = "add_contact"
  <2>1. g \in [phone : Phones, is_self : BOOLEAN]
    BY <1>1 DEF Takes, Removing
  <2>2. DOMAIN g = {"phone", "is_self"}
    BY <2>1
  <2> HIDE DEF g
  <2>3. e = [id |-> id, phone |-> g.phone, is_self |-> g.is_self]
    BY <2>2 DEF NewEntry, g
  <2> HIDE DEF e
  <2> QED
    BY <1>1, <2>1, <2>3 DEF Contact, e, g
<1>2. CASE c.tool = "add_reminder"
  <2>1. g \in [content : Contents]
    BY <1>2 DEF Takes, Removing
  <2>2. DOMAIN g = {"content"}
    BY <2>1
  <2> HIDE DEF g
  <2>3. e = [id |-> id, content |-> g.content]
    BY <2>2 DEF NewEntry, g
  <2> HIDE DEF e
  <2> QED
    BY <1>2, <2>1, <2>3 DEF Reminder, e, g
<1> QED
  BY <1>1, <1>2 DEF Adding

\* A modification keeps the identifier and the table.
LEMMA ChangedContacts ==
  ASSUME NEW c, Takes(c.tool, c.given), c.tool = "modify_contact", NEW r \in Contact
  PROVE  LET e == Changed(r, c)
         IN  /\ e \in Contact /\ e.id = r.id
             /\ e.is_self => ClaimsSelf(c) \/ r.is_self
<1> DEFINE g == c.given
           e == [id |-> r.id,
                 phone |-> IF "phone" \in DOMAIN g THEN g.phone ELSE r.phone,
                 is_self |-> IF "is_self" \in DOMAIN g THEN g.is_self ELSE r.is_self]
<1>1. /\ "id" \notin DOMAIN g
      /\ "phone" \in DOMAIN g => g.phone \in Phones
      /\ "is_self" \in DOMAIN g => g.is_self \in BOOLEAN
  <2>1. g \in [phone : Phones, is_self : BOOLEAN] \union [phone : Phones]
               \union [is_self : BOOLEAN]
    BY DEF Takes, Removing
  <2> HIDE DEF g
  <2>2. CASE g \in [phone : Phones, is_self : BOOLEAN]
    BY <2>2
  <2>3. CASE g \in [phone : Phones]
    BY <2>3
  <2>4. CASE g \in [is_self : BOOLEAN]
    BY <2>4
  <2> QED
    BY <2>1, <2>2, <2>3, <2>4
<1>2. r.id \in Ids /\ r.phone \in Phones /\ r.is_self \in BOOLEAN
      /\ DOMAIN r = {"id", "phone", "is_self"}
  BY DEF Contact
<1>3. Changed(r, c) = e
  <2>1. Changed(r, c) = [f \in DOMAIN r |-> IF f \in DOMAIN g THEN g[f] ELSE r[f]]
    BY DEF Changed
  <2> HIDE DEF g
  <2> QED
    BY <1>1, <1>2, <2>1
<1>4. e \in Contact
  <2> HIDE DEF g
  <2> QED
    BY <1>1, <1>2 DEF Contact
<1>5. e.is_self => ClaimsSelf(c) \/ r.is_self
  BY DEF ClaimsSelf
<1> QED
  BY <1>3, <1>4, <1>5

LEMMA ChangedReminders ==
  ASSUME NEW c, Takes(c.tool, c.given), c.tool = "modify_reminder", NEW r \in Reminder
  PROVE  LET e == Changed(r, c) IN e \in Reminder /\ e.id = r.id
<1> DEFINE g == c.given
<1>1. g \in [content : Contents]
  BY DEF Takes, Removing
<1>2. DOMAIN g = {"content"} /\ g.content \in Contents
  BY <1>1
<1>3. r.id \in Ids /\ DOMAIN r = {"id", "content"}
  BY DEF Reminder
<1>4. Changed(r, c) = [f \in DOMAIN r |-> IF f \in DOMAIN g THEN g[f] ELSE r[f]]
  BY DEF Changed
<1> HIDE DEF g
<1>5. Changed(r, c) = [id |-> r.id, content |-> g.content]
  BY <1>2, <1>3, <1>4
<1> QED
  BY <1>2, <1>3, <1>5 DEF Reminder

-----------------------------------------------------------------------------
(* The contacts and the reminders                                          *)

\* Entries whose identifiers are among U, no two of them with the same.
Distinct(rows, U) ==
  /\ \A r \in rows : r.id \in U
  /\ \A r, s \in rows : r.id = s.id => r = s

OneSelf(contacts) == \A r, s \in contacts : r.is_self /\ s.is_self => r = s

GoodContacts(S, U) == S \subseteq Contact /\ Distinct(S, U) /\ OneSelf(S)

GoodReminders(S, U) == S \subseteq Reminder /\ Distinct(S, U)

\* A set that holds at most one entry, when it is counted.
LEMMA CountOfOne ==
  ASSUME NEW T, \A r, s \in T : r = s
  PROVE  /\ T = {} \/ \E r : T = {r}
         /\ Cardinality(T) <= 1
         /\ Cardinality(T) = 1 => \E r : T = {r}
<1>1. CASE T = {}
  <2>1. Cardinality(T) = 0
    BY <1>1, FS_EmptySet
  <2> QED
    BY <1>1, <2>1
<1>2. CASE T # {}
  <2>1. PICK r \in T : TRUE
    BY <1>2
  <2>2. T = {r}
    BY <2>1
  <2>3. Cardinality(T) = 1
    BY <2>2, FS_Singleton
  <2> QED
    BY <2>2, <2>3
<1> QED
  BY <1>1, <1>2

LEMMA NamedIsOne ==
  ASSUME NEW S, NEW U, Distinct(S, U), NEW c, Cardinality(Named(S, c)) = 1
  PROVE  \E r \in S : Named(S, c) = {r} /\ r.id = c.id
<1>1. \A r, s \in Named(S, c) : r = s
  BY DEF Distinct, Named
<1>2. \E r : Named(S, c) = {r}
  BY <1>1, CountOfOne
<1> QED
  BY <1>2 DEF Named

LEMMA EntriesAdded ==
  ASSUME NEW S, NEW U, Distinct(S, U), NEW e, e.id \notin U
  PROVE  Distinct(S \union {e}, U \union {e.id})
BY DEF Distinct

LEMMA EntriesChanged ==
  ASSUME NEW S, NEW U, Distinct(S, U), NEW r \in S, NEW e, e.id = r.id
  PROVE  Distinct((S \ {r}) \union {e}, U)
BY DEF Distinct

\* A modification is a removal and an addition.
LEMMA ChangedInPlace ==
  ASSUME NEW S, NEW c, NEW r \in S, Named(S, c) = {r}
  PROVE  (S \ {r}) \union {Changed(r, c)}
           = {IF x.id = c.id THEN Changed(x, c) ELSE x : x \in S}
<1>1. \A x \in S : x.id = c.id <=> x = r
  BY DEF Named
<1> QED
  BY <1>1

LEMMA AddedContacts ==
  ASSUME NEW S, NEW U, GoodContacts(S, U), NEW id \in Ids \ U,
         NEW c, Takes(c.tool, c.given), c.tool = "add_contact", LeavesOneSelf(S, c)
  PROVE  /\ NewEntry(c, id) \in Contact
         /\ GoodContacts(S \union {NewEntry(c, id)}, U \union {id})
<1> DEFINE e == NewEntry(c, id)
<1>1. e.id = id /\ e \in Contact /\ e.is_self = c.given.is_self
  <2>1. c.tool \in Adding
    BY DEF Adding
  <2> QED
    BY <2>1, NewEntries
<1>2. "is_self" \in DOMAIN c.given
  <2>1. c.given \in [phone : Phones, is_self : BOOLEAN]
    BY DEF Takes, Removing
  <2> QED
    BY <2>1
<1>3. e.is_self => \A s \in S : ~ s.is_self
  BY <1>1, <1>2 DEF LeavesOneSelf, ClaimsSelf, Selves, Modifying
<1> HIDE DEF e
<1>4. Distinct(S \union {e}, U \union {id})
  BY <1>1, EntriesAdded DEF GoodContacts
<1>5. OneSelf(S \union {e})
  BY <1>3 DEF GoodContacts, OneSelf
<1> QED
  BY <1>1, <1>4, <1>5 DEF GoodContacts, e

LEMMA ModifiedContacts ==
  ASSUME NEW S, NEW U, GoodContacts(S, U), NEW c, Takes(c.tool, c.given),
         c.tool = "modify_contact", LeavesOneSelf(S, c),
         NEW r \in S, Named(S, c) = {r}
  PROVE  /\ Changed(r, c) \in Contact
         /\ GoodContacts((S \ {r}) \union {Changed(r, c)}, U)
<1> DEFINE e == Changed(r, c)
<1>1. e \in Contact /\ e.id = r.id /\ (e.is_self => ClaimsSelf(c) \/ r.is_self)
  <2>1. r \in Contact
    BY DEF GoodContacts
  <2> QED
    BY <2>1, ChangedContacts
<1>2. \A s \in S : s.id = c.id <=> s = r
  BY DEF Named
<1>3. e.is_self => \A s \in S \ {r} : ~ s.is_self
  BY <1>1, <1>2 DEF LeavesOneSelf, Selves, GoodContacts, OneSelf
<1> HIDE DEF e
<1>4. Distinct((S \ {r}) \union {e}, U)
  BY <1>1, EntriesChanged DEF GoodContacts
<1>5. OneSelf((S \ {r}) \union {e})
  BY <1>3 DEF GoodContacts, OneSelf
<1> QED
  BY <1>1, <1>4, <1>5 DEF GoodContacts, e

\* The message that is sent is a row of its table.
LEMMA SentMessages ==
  ASSUME NEW S, NEW U, GoodContacts(S, U), NEW id \in Ids, NEW c, Takes(c.tool, c.given),
         c.tool = "send_message_with_phone_number", Cardinality(Selves(S)) = 1
  PROVE  NewMessage(S, c, id) \in Message
<1> DEFINE sender == CHOOSE s \in Selves(S) : TRUE
           recipients == {r.id : r \in {x \in S : x.phone = c.given.phone}}
<1>1. sender.id \in Ids /\ sender.phone \in Phones
  <2>1. \A r, s \in Selves(S) : r = s
    BY DEF GoodContacts, OneSelf, Selves
  <2>2. \E r : Selves(S) = {r}
    BY <2>1, CountOfOne
  <2>3. sender \in Selves(S)
    BY <2>2
  <2>4. sender \in Contact
    BY <2>3 DEF Selves, GoodContacts
  <2> HIDE DEF sender
  <2> QED
    BY <2>4 DEF Contact
<1>2. c.given.phone \in Phones
  <2>1. c.given \in [phone : Phones]
    BY DEF Takes, Removing
  <2> QED
    BY <2>1
<1>3. recipients \in SUBSET Ids
  <2>1. \A r \in S : r.id \in Ids
    BY DEF GoodContacts, Contact
  <2> QED
    BY <2>1
<1>4. NewMessage(S, c, id) = [id |-> id, sender |-> sender.id, from |-> sender.phone,
                             to |-> c.given.phone, recipients |-> recipients]
  BY DEF NewMessage
<1> HIDE DEF sender, recipients
<1> QED
  BY <1>1, <1>2, <1>3, <1>4 DEF Message

-----------------------------------------------------------------------------
(* One call                                                                *)

Seen(d, k) == [ns \in Namespaces |-> Rows(d, ns, k)]

\* Tables that are in order while messages are processed at k, with the identifiers U.
SoundTables(d, k, U) ==
  /\ d \in [Namespaces -> Table] /\ \A ns \in Namespaces : WellFormed(d[ns], k)
  /\ GoodContacts(Rows(d, "CONTACT", k), U)
  /\ GoodReminders(Rows(d, "REMINDER", k), U)

\* A call that may be made, with a new identifier, and brings no earlier snapshot back.
IsCall(d, k, U, id, c) ==
  /\ SoundTables(d, k, U) /\ id \in Ids \ U
  /\ Takes(c.tool, c.given) /\ ~ Reverts(d, k, c)

Answer(d, k, id, c) == [call |-> c, id |-> id, ok |-> Returns(d, k, c)]

\* The table the call leaves shows what its answer tells.
IsTold(d, k, U, id, c) ==
  LET ns   == NamespaceOf(c.tool)
      t    == TableAfter(d, k, c, id)
      rows == GetDatabase(t, k)
  IN  /\ WellFormed(t, k)
      /\ Told(Seen(d, k), Answer(d, k, id, c)) = [Seen(d, k) EXCEPT ![ns] = rows]
      /\ ns = "CONTACT" => GoodContacts(rows, U \union {id})
      /\ ns = "REMINDER" => GoodReminders(rows, U \union {id})

LEMMA MoreIdentifiers ==
  ASSUME NEW U, NEW V
  PROVE  /\ \A S : GoodContacts(S, U) => GoodContacts(S, U \union V)
         /\ \A S : GoodReminders(S, U) => GoodReminders(S, U \union V)
         /\ \A S, T : GoodContacts(S, U) /\ T \subseteq S => GoodContacts(T, U \union V)
         /\ \A S, T : GoodReminders(S, U) /\ T \subseteq S => GoodReminders(T, U \union V)
BY DEF GoodContacts, GoodReminders, Distinct, OneSelf

LEMMA Tools ==
  ASSUME NEW c, Takes(c.tool, c.given)
  PROVE  /\ NamespaceOf(c.tool) \in Namespaces
         /\ c.tool \in {"add_contact", "modify_contact", "remove_contact"} =>
              NamespaceOf(c.tool) = "CONTACT"
         /\ c.tool \in {"add_reminder", "modify_reminder", "remove_reminder"} =>
              NamespaceOf(c.tool) = "REMINDER"
         /\ c.tool = "send_message_with_phone_number" => NamespaceOf(c.tool) = "MESSAGING"
         /\ c.tool = "set_cellular_service_status" => NamespaceOf(c.tool) = "SETTING"
         /\ c.tool \in {"add_contact", "modify_contact", "remove_contact",
                        "add_reminder", "modify_reminder", "remove_reminder",
                        "send_message_with_phone_number", "set_cellular_service_status"}
BY PhoneAssumption DEF Takes, NamespaceOf, Removing

\* What is read of the table of a call.
LEMMA TableOfACall ==
  ASSUME NEW k \in Index, NEW d, NEW U, SoundTables(d, k, U), NEW c, Takes(c.tool, c.given)
  PROVE  LET ns == NamespaceOf(c.tool)
             S  == GetDatabase(d[ns], k)
         IN  /\ WellFormed(d[ns], k) /\ S \subseteq Row
             /\ Seen(d, k)[ns] = S /\ DOMAIN Seen(d, k) = Namespaces
             /\ Rows(d, ns, k) = S
             /\ Seen(d, k).CONTACT = Rows(d, "CONTACT", k)
             /\ ns = "CONTACT" => GoodContacts(S, U) /\ Rows(d, "CONTACT", k) = S
             /\ ns = "REMINDER" => GoodReminders(S, U)
<1> DEFINE ns == NamespaceOf(c.tool)
<1>1. ns \in Namespaces
  BY Tools
<1>2. WellFormed(d[ns], k)
  BY <1>1 DEF SoundTables
<1>3. {} \in SUBSET Row
  OBVIOUS
<1>4. GetDatabase(d[ns], k) \in SUBSET Row
  BY <1>2, <1>3, OperationsAreWrites
<1>5. "CONTACT" \in Namespaces
  BY PhoneAssumption
<1> QED
  BY <1>1, <1>2, <1>4, <1>5 DEF SoundTables, Seen, Rows

\* A call that raises tells nothing and leaves what was there.
LEMMA FailureIsTold ==
  ASSUME NEW k \in Index, NEW d, NEW U, NEW id, NEW c, IsCall(d, k, U, id, c),
         ~ Returns(d, k, c)
  PROVE  IsTold(d, k, U, id, c)
<1> DEFINE ns == NamespaceOf(c.tool)
           S  == GetDatabase(d[ns], k)
           t  == TableAfter(d, k, c, id)
           w  == Seen(d, k)
<1>1. /\ WellFormed(d[ns], k) /\ w[ns] = S /\ DOMAIN w = Namespaces /\ ns \in Namespaces
      /\ ns = "CONTACT" => GoodContacts(S, U)
      /\ ns = "REMINDER" => GoodReminders(S, U)
  BY TableOfACall, Tools DEF IsCall
<1>2. WellFormed(t, k) /\ GetDatabase(t, k) = S
  <2>1. t = IF c.tool \in Removing THEN MaybeCreateSnapshot(d[ns], k) ELSE d[ns]
    BY DEF TableAfter
  <2> QED
    BY <1>1, <2>1, RestatingShowsNothing
<1>3. Told(w, Answer(d, k, id, c)) = w
  BY DEF Told, Answer
<1>4. [w EXCEPT ![ns] = S] = w
  <2>1. w = [x \in Namespaces |-> w[x]]
    BY DEF Seen
  <2> HIDE DEF w, S
  <2> QED
    BY <1>1, <2>1
<1> HIDE DEF ns, S, t, w
<1> QED
  BY <1>1, <1>2, <1>3, <1>4, MoreIdentifiers DEF IsTold, ns, t, w

LEMMA AdditionIsTold ==
  ASSUME NEW k \in Index, NEW d, NEW U, NEW id, NEW c, IsCall(d, k, U, id, c),
         Returns(d, k, c), c.tool \in Adding
  PROVE  IsTold(d, k, U, id, c)
<1> DEFINE ns == NamespaceOf(c.tool)
           S  == GetDatabase(d[ns], k)
           t  == TableAfter(d, k, c, id)
           w  == Seen(d, k)
           e  == NewEntry(c, id)
<1>1. /\ WellFormed(d[ns], k) /\ w[ns] = S
      /\ ns = "CONTACT" => GoodContacts(S, U) /\ Rows(d, "CONTACT", k) = S
      /\ ns = "REMINDER" => GoodReminders(S, U)
  BY TableOfACall DEF IsCall
<1>2. t = Added(d[ns], k, {e})
  BY DEF TableAfter, Adding, Modifying, Removing
<1>3. Told(w, Answer(d, k, id, c)) = [w EXCEPT ![ns] = S \union {e}]
  BY <1>1 DEF Told, Answer, Adding, Modifying, Removing
<1>4. /\ e \in Row
      /\ ns = "CONTACT" => GoodContacts(S \union {e}, U \union {id})
      /\ ns = "REMINDER" => GoodReminders(S \union {e}, U \union {id})
  <2>1. id \in Ids \ U /\ Takes(c.tool, c.given)
    BY DEF IsCall
  <2>2. CASE c.tool = "add_contact"
    <3>1. ns = "CONTACT"
      BY <2>1, <2>2, Tools
    <3>2. LeavesOneSelf(S, c)
      <4>1. LeavesOneSelf(Rows(d, "CONTACT", k), c)
        BY <2>2 DEF Returns, Adding, Modifying, Removing
      <4> QED
        BY <1>1, <3>1, <4>1
    <3>3. e \in Contact /\ GoodContacts(S \union {e}, U \union {id})
      BY <1>1, <2>1, <2>2, <3>1, <3>2, AddedContacts
    <3> QED
      BY <3>1, <3>3, PhoneAssumption
  <2>3. CASE c.tool = "add_reminder"
    <3>1. ns = "REMINDER"
      BY <2>1, <2>3, Tools
    <3>2. e \in Reminder /\ e.id = id
      BY <2>1, <2>3, NewEntries
    <3> HIDE DEF e
    <3>3. GoodReminders(S \union {e}, U \union {id})
      BY <1>1, <2>1, <3>1, <3>2, EntriesAdded DEF GoodReminders
    <3> QED
      BY <3>1, <3>2, <3>3, PhoneAssumption
  <2> QED
    BY <2>2, <2>3 DEF Adding
<1> HIDE DEF e
<1>5. WellFormed(t, k) /\ GetDatabase(t, k) = S \union {e}
  <2>1. {e} \in SUBSET Row /\ {e} # {}
    BY <1>4
  <2> QED
    BY <1>1, <1>2, <2>1, AddingShows
<1> HIDE DEF ns, S, t, w
<1> QED
  BY <1>3, <1>4, <1>5 DEF IsTold, ns, t, w

LEMMA ModificationIsTold ==
  ASSUME NEW k \in Index, NEW d, NEW U, NEW id, NEW c, IsCall(d, k, U, id, c),
         Returns(d, k, c), c.tool \in Modifying
  PROVE  IsTold(d, k, U, id, c)
<1> DEFINE ns == NamespaceOf(c.tool)
           S  == GetDatabase(d[ns], k)
           t  == TableAfter(d, k, c, id)
           w  == Seen(d, k)
<1>1. /\ WellFormed(d[ns], k) /\ w[ns] = S /\ S \subseteq Row /\ Rows(d, ns, k) = S
      /\ ns = "CONTACT" => GoodContacts(S, U) /\ Rows(d, "CONTACT", k) = S
      /\ ns = "REMINDER" => GoodReminders(S, U)
  BY TableOfACall DEF IsCall
<1>2. Takes(c.tool, c.given) /\ (ns = "CONTACT" \/ ns = "REMINDER")
  <2>1. Takes(c.tool, c.given)
    BY DEF IsCall
  <2> QED
    BY <2>1, Tools DEF Modifying
<1>3. PICK r \in S : Named(S, c) = {r} /\ r.id = c.id
  <2>1. Cardinality(Named(S, c)) = 1
    BY <1>1 DEF Returns, Adding, Modifying, Removing
  <2>2. Distinct(S, U)
    BY <1>1, <1>2 DEF GoodContacts, GoodReminders
  <2> QED
    BY <2>1, <2>2, NamedIsOne
<1> DEFINE e == Changed(r, c)
           m == Removed(d[ns], k, {r})
<1>4. t = Added(m, k, {e}) /\ k \in Materialised(m)
  <2>1. (CHOOSE x \in Named(S, c) : TRUE) = r
    BY <1>3
  <2>2. t = Modified(d[ns], k, c)
    BY DEF TableAfter, Adding, Modifying, Removing
  <2>3. Modified(d[ns], k, c) = Added(m, k, {e})
    BY <1>3, <2>1 DEF Modified
  <2>4. k \in Materialised(Removed(d[ns], k, Named(S, c)))
    BY DEF IsCall, Reverts
  <2> QED
    BY <1>3, <2>2, <2>3, <2>4
<1> DEFINE Edited(T) == {IF x.id = c.id THEN Changed(x, c) ELSE x : x \in T}
<1>5. Told(w, Answer(d, k, id, c)) = [w EXCEPT ![ns] = Edited(S)]
  <2>1. Told(w, Answer(d, k, id, c)) = [w EXCEPT ![ns] = Edited(w[ns])]
    BY DEF Told, Answer, Adding, Modifying, Removing
  <2>2. Edited(w[ns]) = Edited(S)
    <3> HIDE DEF Edited, w, S
    <3> QED
      BY <1>1
  <2> QED
    BY <2>1, <2>2
<1>6. Edited(S) = (S \ {r}) \union {e}
  BY <1>3, ChangedInPlace
<1>7. /\ e \in Row
      /\ ns = "CONTACT" => GoodContacts((S \ {r}) \union {e}, U \union {id})
      /\ ns = "REMINDER" => GoodReminders((S \ {r}) \union {e}, U \union {id})
  <2>2. CASE c.tool = "modify_contact"
    <3>1. ns = "CONTACT"
      BY <1>2, <2>2, Tools
    <3>2. LeavesOneSelf(S, c)
      <4>1. LeavesOneSelf(Rows(d, "CONTACT", k), c)
        BY <2>2 DEF Returns, Adding, Modifying, Removing
      <4> QED
        BY <1>1, <3>1, <4>1
    <3>3. e \in Contact /\ GoodContacts((S \ {r}) \union {e}, U)
      BY <1>1, <1>2, <1>3, <2>2, <3>1, <3>2, ModifiedContacts
    <3> QED
      BY <3>1, <3>3, MoreIdentifiers, PhoneAssumption
  <2>3. CASE c.tool = "modify_reminder"
    <3>1. ns = "REMINDER"
      BY <1>2, <2>3, Tools
    <3>2. S \subseteq Reminder /\ Distinct(S, U)
      BY <1>1, <3>1 DEF GoodReminders
    <3>3. e \in Reminder /\ e.id = r.id
      BY <1>2, <1>3, <2>3, <3>2, ChangedReminders
    <3> HIDE DEF e
    <3>4. GoodReminders((S \ {r}) \union {e}, U)
      BY <3>2, <3>3, EntriesChanged DEF GoodReminders
    <3> QED
      BY <3>1, <3>3, <3>4, MoreIdentifiers, PhoneAssumption
  <2> QED
    BY <2>2, <2>3 DEF Modifying
<1> HIDE DEF e
<1>8. WellFormed(m, k) /\ GetDatabase(m, k) = S \ {r}
  <2>1. {r} \in SUBSET Row
    BY <1>1, <1>3
  <2> QED
    BY <1>1, <1>4, <2>1, RemovingShows
<1> HIDE DEF m
<1>9. WellFormed(t, k) /\ GetDatabase(t, k) = (S \ {r}) \union {e}
  <2>1. {e} \in SUBSET Row /\ {e} # {}
    BY <1>7
  <2> QED
    BY <1>4, <1>8, <2>1, AddingShows
<1> HIDE DEF ns, S, t, w
<1> QED
  BY <1>5, <1>6, <1>7, <1>9 DEF IsTold, ns, t, w

LEMMA RemovalIsTold ==
  ASSUME NEW k \in Index, NEW d, NEW U, NEW id, NEW c, IsCall(d, k, U, id, c),
         Returns(d, k, c), c.tool \in Removing
  PROVE  IsTold(d, k, U, id, c)
<1> DEFINE ns == NamespaceOf(c.tool)
           S  == GetDatabase(d[ns], k)
           t  == TableAfter(d, k, c, id)
           w  == Seen(d, k)
           N  == Named(S, c)
<1>1. /\ WellFormed(d[ns], k) /\ w[ns] = S /\ S \subseteq Row
      /\ ns = "CONTACT" => GoodContacts(S, U)
      /\ ns = "REMINDER" => GoodReminders(S, U)
  BY TableOfACall DEF IsCall
<1>2. t = Removed(d[ns], k, N)
  BY DEF TableAfter, Adding, Modifying, Removing
<1>3. Told(w, Answer(d, k, id, c)) = [w EXCEPT ![ns] = {x \in S : x.id # c.id}]
  BY <1>1 DEF Told, Answer, Adding, Modifying, Removing
<1>4. {x \in S : x.id # c.id} = S \ N /\ N \in SUBSET Row
  BY <1>1 DEF Named
<1>5. k \in Materialised(t)
  BY <1>2 DEF IsCall, Reverts
<1> HIDE DEF N
<1>6. WellFormed(t, k) /\ GetDatabase(t, k) = S \ N
  BY <1>1, <1>2, <1>4, <1>5, RemovingShows
<1>7. /\ ns = "CONTACT" => GoodContacts(S \ N, U \union {id})
      /\ ns = "REMINDER" => GoodReminders(S \ N, U \union {id})
  <2>1. S \ N \subseteq S
    OBVIOUS
  <2> QED
    BY <1>1, <2>1, MoreIdentifiers
<1> HIDE DEF ns, S, t, w
<1> QED
  BY <1>3, <1>4, <1>6, <1>7 DEF IsTold, ns, t, w

LEMMA SendingIsTold ==
  ASSUME NEW k \in Index, NEW d, NEW U, NEW id, NEW c, IsCall(d, k, U, id, c),
         Returns(d, k, c), c.tool = "send_message_with_phone_number"
  PROVE  IsTold(d, k, U, id, c)
<1> DEFINE ns == NamespaceOf(c.tool)
           S  == GetDatabase(d[ns], k)
           t  == TableAfter(d, k, c, id)
           w  == Seen(d, k)
           C  == Rows(d, "CONTACT", k)
           m  == NewMessage(C, c, id)
<1>1. WellFormed(d[ns], k) /\ w[ns] = S /\ w.CONTACT = C
  BY TableOfACall DEF IsCall
<1>2. ns = "MESSAGING"
  BY Tools DEF IsCall
<1>3. t = Added(d[ns], k, {m})
  BY DEF TableAfter, Adding, Modifying, Removing
<1>4. Told(w, Answer(d, k, id, c)) = [w EXCEPT ![ns] = S \union {m}]
  BY <1>1 DEF Told, Answer, Adding, Modifying, Removing
<1>5. m \in Row
  <2>1. Cardinality(Selves(C)) = 1
    BY DEF Returns, Adding, Modifying, Removing
  <2>2. GoodContacts(C, U) /\ id \in Ids /\ Takes(c.tool, c.given)
    BY DEF IsCall, SoundTables
  <2>3. m \in Message
    BY <2>1, <2>2, SentMessages
  <2> QED
    BY <2>3, PhoneAssumption
<1> HIDE DEF m
<1>6. WellFormed(t, k) /\ GetDatabase(t, k) = S \union {m}
  <2>1. {m} \in SUBSET Row /\ {m} # {}
    BY <1>5
  <2> QED
    BY <1>1, <1>3, <2>1, AddingShows
<1> HIDE DEF ns, S, t, w
<1> QED
  BY <1>2, <1>4, <1>6 DEF IsTold, ns, t, w

LEMMA SettingIsTold ==
  ASSUME NEW k \in Index, NEW d, NEW U, NEW id, NEW c, IsCall(d, k, U, id, c),
         Returns(d, k, c), c.tool = "set_cellular_service_status"
  PROVE  IsTold(d, k, U, id, c)
<1> DEFINE ns == NamespaceOf(c.tool)
           t  == TableAfter(d, k, c, id)
           w  == Seen(d, k)
<1>1. WellFormed(d[ns], k)
  BY TableOfACall DEF IsCall
<1>2. ns = "SETTING"
  BY Tools DEF IsCall
<1>3. t = Updated(d[ns], k, {c.given})
  BY DEF TableAfter, Adding, Modifying, Removing
<1>4. Told(w, Answer(d, k, id, c)) = [w EXCEPT ![ns] = {c.given}]
  BY DEF Told, Answer, Adding, Modifying, Removing
<1>5. {c.given} \in SUBSET Row
  <2>1. c.given \in Setting
    BY DEF IsCall, Takes, Removing
  <2> QED
    BY <2>1, PhoneAssumption
<1>6. WellFormed(t, k) /\ GetDatabase(t, k) = {c.given}
  BY <1>1, <1>3, <1>5, UpdatingShows
<1> HIDE DEF ns, t, w
<1> QED
  BY <1>2, <1>4, <1>6 DEF IsTold, ns, t, w

LEMMA CallIsTold ==
  ASSUME NEW k \in Index, NEW d, NEW U, NEW id, NEW c, IsCall(d, k, U, id, c)
  PROVE  IsTold(d, k, U, id, c)
<1>1. c.tool \in {"add_contact", "modify_contact", "remove_contact",
                  "add_reminder", "modify_reminder", "remove_reminder",
                  "send_message_with_phone_number", "set_cellular_service_status"}
  BY Tools DEF IsCall
<1>2. CASE ~ Returns(d, k, c)
  BY <1>2, FailureIsTold
<1>3. CASE Returns(d, k, c)
  <2>1. CASE c.tool \in Adding
    BY <1>3, <2>1, AdditionIsTold
  <2>2. CASE c.tool \in Modifying
    BY <1>3, <2>2, ModificationIsTold
  <2>3. CASE c.tool \in Removing
    BY <1>3, <2>3, RemovalIsTold
  <2>4. CASE c.tool = "send_message_with_phone_number"
    BY <1>3, <2>4, SendingIsTold
  <2>5. CASE c.tool = "set_cellular_service_status"
    BY <1>3, <2>5, SettingIsTold
  <2> QED
    BY <1>1, <2>1, <2>2, <2>3, <2>4, <2>5 DEF Adding, Modifying, Removing
<1> QED
  BY <1>2, <1>3

-----------------------------------------------------------------------------
(* One call after the other                                                *)

\* Induction up to a number.
LEMMA UpTo ==
  ASSUME NEW n \in Nat, NEW T, 0 \in T, \A i \in 1..n : i - 1 \in T => i \in T
  PROVE  \A i \in 0..n : i \in T
<1> DEFINE out == {i \in 0..n : i \notin T}
<1>1. SUFFICES ASSUME out # {} PROVE FALSE
  OBVIOUS
<1>2. out \in SUBSET Nat
  OBVIOUS
<1>3. Least(out) \in out /\ \A j \in out : Least(out) <= j
  <2> HIDE DEF out
  <2> QED
    BY <1>1, <1>2, LeastExists
<1>4. PICK m \in out : \A j \in out : m <= j
  <2> HIDE DEF out
  <2> QED
    BY <1>3
<1>5. m \in 1..n /\ m \notin T
  OBVIOUS
<1>6. m - 1 \in 0..n /\ m - 1 \notin out
  BY <1>4, <1>5
<1> QED
  BY <1>5, <1>6

\* A step of either recursion: what a request leaves, what an answer tells.
Step(tell, x, r) == IF tell THEN Told(x, r) ELSE RunCall(x, r)

Steps(f, n, tell, x, r) == f = [i \in 0..n |-> IF i = 0 THEN x ELSE Step(tell, f[i - 1], r[i])]

LEMMA StepsExist ==
  ASSUME NEW n \in Nat, NEW tell, NEW x, NEW r
  PROVE  \E f : Steps(f, n, tell, x, r)
<1> DEFINE T == {i \in 0..n : \E f : Steps(f, i, tell, x, r)}
<1>1. 0 \in T
  <2>1. Steps([i \in 0..0 |-> x], 0, tell, x, r)
    BY DEF Steps
  <2> QED
    BY <2>1
<1>2. ASSUME NEW m \in 1..n, m - 1 \in T PROVE m \in T
  <2>1. PICK g : Steps(g, m - 1, tell, x, r)
    BY <1>2
  <2> DEFINE h == [i \in 0..m |-> IF i = m THEN Step(tell, g[m - 1], r[m]) ELSE g[i]]
             next == [i \in 0..m |-> IF i = 0 THEN x ELSE Step(tell, h[i - 1], r[i])]
  <2>2. g[0] = x /\ \A i \in 1..(m - 1) : g[i] = Step(tell, g[i - 1], r[i])
    <3>1. \A i \in 0..(m - 1) : g[i] = IF i = 0 THEN x ELSE Step(tell, g[i - 1], r[i])
      BY <2>1 DEF Steps
    <3> QED
      BY <3>1
  <2>3. ASSUME NEW i \in 0..m PROVE h[i] = next[i]
    <3>1. CASE i = 0
      BY <2>2, <3>1
    <3>2. CASE i = m
      BY <3>2
    <3>3. CASE i \in 1..(m - 1)
      <4>1. h[i] = g[i] /\ h[i - 1] = g[i - 1]
        BY <3>3
      <4> QED
        BY <2>2, <3>3, <4>1
    <3> QED
      BY <3>1, <3>2, <3>3
  <2>4. h = next
    <3>1. h = [i \in 0..m |-> h[i]] /\ next = [i \in 0..m |-> next[i]]
      OBVIOUS
    <3> HIDE DEF h, next
    <3> QED
      BY <2>3, <3>1
  <2>5. Steps(h, m, tell, x, r)
    <3> HIDE DEF h
    <3> QED
      BY <2>4 DEF Steps
  <2> QED
    BY <2>5
<1> HIDE DEF T
<1>3. n \in T
  BY <1>1, <1>2, UpTo
<1> QED
  BY <1>3 DEF T

\* f are the contexts in between, ending with that of the batch in the order p.
RunsThrough(f, n, ctx, requests, p) ==
  /\ RunInOrder(ctx, requests, p) = f[n] /\ f[0] = ctx
  /\ \A i \in 1..n : f[i] = RunCall(f[i - 1], requests[p[i]])

\* f are the worlds in between, ending with what the batch tells.
TellsThrough(f, n, world, batch) ==
  /\ ToldByAll(world, batch) = f[n] /\ f[0] = world
  /\ \A i \in 1..n : f[i] = Told(f[i - 1], batch[i])

LEMMA OrderIsRun ==
  ASSUME NEW ctx, NEW n \in Nat, NEW requests, Len(requests) = n, NEW p
  PROVE  \E f : RunsThrough(f, n, ctx, requests, p)
<1> DEFINE r == [i \in 1..n |-> requests[p[i]]]
           f == CHOOSE f : f = [i \in 0..n |-> IF i = 0 THEN ctx
                                               ELSE RunCall(f[i - 1], requests[p[i]])]
<1>1. PICK g : Steps(g, n, FALSE, ctx, r)
  <2> DEFINE E(tell) == \E g : Steps(g, n, tell, ctx, r)
  <2>1. ASSUME NEW tell \in BOOLEAN PROVE E(tell)
    BY StepsExist
  <2> HIDE DEF E
  <2>2. E(FALSE)
    BY <2>1
  <2> QED
    BY <2>2 DEF E
<1>2. g = [i \in 0..n |-> IF i = 0 THEN ctx ELSE RunCall(g[i - 1], requests[p[i]])]
  <2>1. g = [i \in 0..n |-> IF i = 0 THEN ctx ELSE RunCall(g[i - 1], r[i])]
    BY <1>1 DEF Steps, Step
  <2>2. \A i \in 1..n : r[i] = requests[p[i]]
    OBVIOUS
  <2> DEFINE G == [i \in 0..n |-> IF i = 0 THEN ctx ELSE RunCall(g[i - 1], requests[p[i]])]
  <2> HIDE DEF r
  <2>3. ASSUME NEW i \in 0..n PROVE g[i] = G[i]
    <3>1. g[i] = IF i = 0 THEN ctx ELSE RunCall(g[i - 1], r[i])
      BY <2>1
    <3>2. i # 0 => r[i] = requests[p[i]]
      BY <2>2
    <3> QED
      BY <3>1, <3>2
  <2>4. g = [i \in 0..n |-> g[i]] /\ G = [i \in 0..n |-> G[i]]
    BY <2>1
  <2> HIDE DEF G
  <2> QED
    BY <2>3, <2>4 DEF G
<1>3. f = [i \in 0..n |-> IF i = 0 THEN ctx ELSE RunCall(f[i - 1], requests[p[i]])]
  BY <1>2
<1>4. RunInOrder(ctx, requests, p) = f[n]
  BY DEF RunInOrder
<1> HIDE DEF f
<1>5. \A i \in 0..n : f[i] = IF i = 0 THEN ctx ELSE RunCall(f[i - 1], requests[p[i]])
  BY <1>3
<1>6. f[0] = ctx /\ \A i \in 1..n : f[i] = RunCall(f[i - 1], requests[p[i]])
  BY <1>5
<1>7. RunsThrough(f, n, ctx, requests, p)
  BY <1>4, <1>6 DEF RunsThrough
<1> QED
  BY <1>7

LEMMA BatchIsTold ==
  ASSUME NEW world, NEW n \in Nat, NEW batch, Len(batch) = n
  PROVE  \E f : TellsThrough(f, n, world, batch)
<1> DEFINE f == CHOOSE f : f = [i \in 0..n |-> IF i = 0 THEN world ELSE Told(f[i - 1], batch[i])]
<1>1. PICK g : Steps(g, n, TRUE, world, batch)
  <2> DEFINE E(tell) == \E g : Steps(g, n, tell, world, batch)
  <2>1. ASSUME NEW tell \in BOOLEAN PROVE E(tell)
    BY StepsExist
  <2> HIDE DEF E
  <2>2. E(TRUE)
    BY <2>1
  <2> QED
    BY <2>2 DEF E
<1>2. g = [i \in 0..n |-> IF i = 0 THEN world ELSE Told(g[i - 1], batch[i])]
  BY <1>1 DEF Steps, Step
<1>3. f = [i \in 0..n |-> IF i = 0 THEN world ELSE Told(f[i - 1], batch[i])]
  BY <1>2
<1>4. ToldByAll(world, batch) = f[n]
  BY DEF ToldByAll
<1> HIDE DEF f
<1>5. \A i \in 0..n : f[i] = IF i = 0 THEN world ELSE Told(f[i - 1], batch[i])
  BY <1>3
<1>6. f[0] = world /\ \A i \in 1..n : f[i] = Told(f[i - 1], batch[i])
  BY <1>5
<1>7. TellsThrough(f, n, world, batch)
  BY <1>4, <1>6 DEF TellsThrough
<1> QED
  BY <1>7

\* A request that is run leaves what its answer tells.
LEMMA RequestIsTold ==
  ASSUME NEW k \in Index, NEW ctx, ctx.at = k, NEW U, NEW request,
         IsCall(ctx.dbs, k, U, request.id, request.call)
  PROVE  LET next == RunCall(ctx, request)
         IN  /\ SoundTables(next.dbs, k, U \union {request.id})
             /\ Seen(next.dbs, k)
                  = Told(Seen(ctx.dbs, k), Answer(ctx.dbs, k, request.id, request.call))
<1> DEFINE d  == ctx.dbs
           c  == request.call
           ns == NamespaceOf(c.tool)
           t  == TableAfter(d, k, c, request.id)
           e  == [d EXCEPT ![ns] = t]
           V  == U \union {request.id}
<1>1. /\ WellFormed(t, k) /\ t \in Table
      /\ Told(Seen(d, k), Answer(d, k, request.id, c))
           = [Seen(d, k) EXCEPT ![ns] = GetDatabase(t, k)]
      /\ ns = "CONTACT" => GoodContacts(GetDatabase(t, k), V)
      /\ ns = "REMINDER" => GoodReminders(GetDatabase(t, k), V)
  <2>1. IsTold(d, k, U, request.id, c)
    BY CallIsTold
  <2> HIDE DEF d, c
  <2> QED
    BY <2>1 DEF IsTold, WellFormed
<1>2. /\ ns \in Namespaces /\ {"CONTACT", "REMINDER"} \subseteq Namespaces
      /\ d \in [Namespaces -> Table] /\ \A x \in Namespaces : WellFormed(d[x], k)
      /\ GoodContacts(GetDatabase(d["CONTACT"], k), V)
      /\ GoodReminders(GetDatabase(d["REMINDER"], k), V)
  <2>1. ns \in Namespaces /\ {"CONTACT", "REMINDER"} \subseteq Namespaces
    BY Tools, PhoneAssumption DEF IsCall
  <2> QED
    BY <2>1, MoreIdentifiers DEF IsCall, SoundTables, Rows
<1>3. RunCall(ctx, request).dbs = e
  BY DEF RunCall
<1> HIDE DEF d, c, ns, t, V
<1>4. /\ e \in [Namespaces -> Table] /\ e[ns] = t
      /\ \A x \in Namespaces \ {ns} : e[x] = d[x]
  BY <1>1, <1>2
<1> HIDE DEF e
<1>5. SoundTables(e, k, V)
  <2>1. \A x \in Namespaces : WellFormed(e[x], k)
    BY <1>1, <1>2, <1>4
  <2>2. GoodContacts(GetDatabase(e["CONTACT"], k), V)
    BY <1>1, <1>2, <1>4
  <2>3. GoodReminders(GetDatabase(e["REMINDER"], k), V)
    BY <1>1, <1>2, <1>4
  <2> QED
    BY <1>4, <2>1, <2>2, <2>3 DEF SoundTables, Rows
<1>6. Seen(e, k) = [Seen(d, k) EXCEPT ![ns] = GetDatabase(t, k)]
  <2> DEFINE w == Seen(d, k)
             v == [w EXCEPT ![ns] = GetDatabase(t, k)]
  <2>1. w = [x \in Namespaces |-> GetDatabase(d[x], k)]
    BY DEF Seen, Rows
  <2>2. Seen(e, k) = [x \in Namespaces |-> GetDatabase(e[x], k)]
    BY DEF Seen, Rows
  <2>3. \A x \in Namespaces : v[x] = GetDatabase(e[x], k)
    <3> HIDE DEF w
    <3> QED
      BY <1>2, <1>4, <2>1
  <2>4. v = [x \in Namespaces |-> v[x]]
    <3> HIDE DEF w
    <3> QED
      BY <2>1
  <2> HIDE DEF v
  <2> QED
    BY <2>2, <2>3, <2>4 DEF v
<1> QED
  BY <1>1, <1>3, <1>5, <1>6 DEF d, c, V, t, ns

\* Requests for calls that may be made, with new identifiers of their own.
AreRequests(requests, n, U) ==
  /\ Len(requests) = n
  /\ \A i \in 1..n : /\ requests[i].id \in Ids \ U
                     /\ Takes(requests[i].call.tool, requests[i].call.given)
  /\ \A i, j \in 1..n : requests[i].id = requests[j].id => i = j

LEMMA RequestRuns ==
  ASSUME NEW ctx, NEW request
  PROVE  LET next == RunCall(ctx, request)
         IN  /\ next.at = ctx.at
             /\ next.reverted <=> ctx.reverted \/ Reverts(ctx.dbs, ctx.at, request.call)
             /\ next.answers = Append(ctx.answers,
                                  Answer(ctx.dbs, ctx.at, request.id, request.call))
BY DEF RunCall, Answer

\* The answers are those to the calls, one after the other.
LEMMA AnswersInOrder ==
  ASSUME NEW n \in Nat, NEW f, NEW ctx, NEW requests, NEW p, ctx.answers = <<>>,
         NEW k, ctx.at = k, RunsThrough(f, n, ctx, requests, p)
  PROVE  /\ \A i \in 0..n : f[i].at = k
         /\ Len(f[n].answers) = n /\ DOMAIN f[n].answers = 1..n
         /\ \A i \in 1..n : /\ f[n].answers[i] = Answer(f[i - 1].dbs, k,
                                           requests[p[i]].id, requests[p[i]].call)
                            /\ f[i].reverted <=> f[i - 1].reverted \/
                                 Reverts(f[i - 1].dbs, k, requests[p[i]].call)
<1> DEFINE Ans(i) == Answer(f[i - 1].dbs, k, requests[p[i]].id, requests[p[i]].call)
           X == {Ans(i) : i \in 1..n}
           Q(i) == /\ f[i].at = k
                   /\ f[i].answers \in Seq(X) /\ Len(f[i].answers) = i
                   /\ \A j \in 1..i : f[i].answers[j] = Ans(j)
           T == {i \in 0..n : Q(i)}
<1>0. f[0] = ctx
  BY DEF RunsThrough
<1>1. 0 \in T
  <2>1. <<>> \in Seq(X) /\ Len(<<>>) = 0
    BY EmptySeq
  <2>2. Q(0)
    <3> HIDE DEF X
    <3>1. f[0].at = k /\ f[0].answers = <<>>
      BY <1>0
    <3>2. f[0].answers \in Seq(X) /\ Len(f[0].answers) = 0
      BY <2>1, <3>1
    <3>3. \A j \in 1..0 : f[0].answers[j] = Ans(j)
      OBVIOUS
    <3> QED
      BY <3>1, <3>2, <3>3
  <2> HIDE DEF Q
  <2> QED
    BY <2>2
<1>2. ASSUME NEW i \in 1..n
      PROVE  /\ f[i].at = f[i - 1].at
             /\ f[i].reverted <=> f[i - 1].reverted
                    \/ Reverts(f[i - 1].dbs, f[i - 1].at, requests[p[i]].call)
             /\ f[i].answers = Append(f[i - 1].answers,
                  Answer(f[i - 1].dbs, f[i - 1].at, requests[p[i]].id, requests[p[i]].call))
  <2>1. f[i] = RunCall(f[i - 1], requests[p[i]])
    BY DEF RunsThrough
  <2> DEFINE before == f[i - 1]
             r == requests[p[i]]
  <2> HIDE DEF before, r
  <2>2. /\ RunCall(before, r).at = before.at
        /\ RunCall(before, r).reverted <=> before.reverted
                                            \/ Reverts(before.dbs, before.at, r.call)
        /\ RunCall(before, r).answers
             = Append(before.answers, Answer(before.dbs, before.at, r.id, r.call))
    BY RequestRuns
  <2> QED
    BY <2>1, <2>2 DEF before, r
<1>3. ASSUME NEW i \in 1..n, i - 1 \in T PROVE i \in T
  <2>1. Q(i - 1)
    BY <1>3
  <2>2. f[i].answers = Append(f[i - 1].answers, Ans(i)) /\ Ans(i) \in X
    BY <1>2, <2>1
  <2>3. f[i].at = k
    BY <1>2, <2>1
  <2> HIDE DEF X, Ans
  <2>4. /\ f[i].answers \in Seq(X) /\ Len(f[i].answers) = i
        /\ \A j \in 1..(i - 1) : f[i].answers[j] = f[i - 1].answers[j]
        /\ f[i].answers[i] = Ans(i)
    BY <2>1, <2>2, AppendProperties
  <2>5. \A j \in 1..i : j \in 1..(i - 1) \/ j = i
    OBVIOUS
  <2>6. \A j \in 1..i : f[i].answers[j] = Ans(j)
    BY <2>1, <2>4, <2>5
  <2>7. Q(i)
    BY <2>3, <2>4, <2>6
  <2> HIDE DEF Q
  <2> QED
    BY <2>7
<1> HIDE DEF T
<1>4. \A i \in 0..n : i \in T
  BY <1>1, <1>3, UpTo
<1>5. \A i \in 0..n : Q(i)
  BY <1>4 DEF T
<1>6. \A i \in 1..n : i - 1 \in 0..n /\ i \in 0..n
  OBVIOUS
<1>7. n \in 0..n
  OBVIOUS
<1>8. DOMAIN f[n].answers = 1..n
  <2>1. Q(n)
    BY <1>5, <1>7
  <2> HIDE DEF X
  <2> QED
    BY <2>1
<1> QED
  BY <1>2, <1>5, <1>6, <1>7, <1>8

IdsOf(requests, n) == {requests[i].id : i \in 1..n}

LEMMA MoreAreUsed ==
  ASSUME NEW d, NEW k, NEW U, SoundTables(d, k, U), NEW V
  PROVE  SoundTables(d, k, U \union V)
BY MoreIdentifiers DEF SoundTables

\* A context in which a batch begins, while messages are processed at k.
Begins(ctx, k, U) ==
  /\ ctx.at = k /\ ~ ctx.reverted /\ ctx.answers = <<>>
  /\ SoundTables(ctx.dbs, k, U)

\* The answers at the end tell what has become of the world at the beginning.
Explained(ctx, end, k, U) ==
  ~ end.reverted => /\ SoundTables(end.dbs, k, U)
                    /\ Seen(end.dbs, k) = ToldByAll(Seen(ctx.dbs, k), end.answers)

\* A batch that is run in some order leaves what its answers tell.
LEMMA OrderIsTold ==
  ASSUME NEW k \in Index, NEW U, NEW n \in Nat, NEW requests, AreRequests(requests, n, U),
         NEW ctx, Begins(ctx, k, U), NEW p \in Orders(n)
  PROVE  Explained(ctx, RunInOrder(ctx, requests, p), k, U \union IdsOf(requests, n))
<1> DEFINE all    == IdsOf(requests, n)
           ids(i) == {requests[p[j]].id : j \in 1..i}
<1>1. Len(requests) = n
  BY DEF AreRequests
<1>2. PICK f : RunsThrough(f, n, ctx, requests, p)
  BY <1>1, OrderIsRun
<1>3. /\ \A i \in 0..n : f[i].at = k
      /\ Len(f[n].answers) = n
      /\ \A i \in 1..n : /\ f[n].answers[i]
                              = Answer(f[i - 1].dbs, k, requests[p[i]].id, requests[p[i]].call)
                         /\ f[i].reverted <=> f[i - 1].reverted \/
                              Reverts(f[i - 1].dbs, k, requests[p[i]].call)
  BY <1>2, AnswersInOrder DEF Begins
<1>4. PICK g : TellsThrough(g, n, Seen(ctx.dbs, k), f[n].answers)
  BY <1>3, BatchIsTold
<1> DEFINE Q(i) == ~ f[i].reverted => /\ SoundTables(f[i].dbs, k, U \union ids(i))
                                      /\ Seen(f[i].dbs, k) = g[i]
           T == {i \in 0..n : Q(i)}
<1>5. 0 \in T
  <2>1. U \union ids(0) = U
    OBVIOUS
  <2> HIDE DEF ids
  <2>2. Q(0)
    BY <1>2, <1>4, <2>1 DEF RunsThrough, TellsThrough, Begins
  <2> HIDE DEF Q
  <2> QED
    BY <2>2
<1>6. ASSUME NEW i \in 1..n, i - 1 \in T PROVE i \in T
  <2> DEFINE r == requests[p[i]]
             b == f[i - 1]
             V == U \union ids(i - 1)
  <2>0. Q(i - 1) /\ i - 1 \in 0..n
    BY <1>6
  <2>1. SUFFICES ASSUME ~ f[i].reverted
                 PROVE  /\ SoundTables(f[i].dbs, k, U \union ids(i))
                        /\ Seen(f[i].dbs, k) = g[i]
    <3> HIDE DEF ids
    <3>1. Q(i) => i \in T
      <4> HIDE DEF Q
      <4> QED
        OBVIOUS
    <3> HIDE DEF T
    <3> QED
      BY <3>1
  <2>2. ~ b.reverted /\ ~ Reverts(b.dbs, k, r.call) /\ f[i] = RunCall(b, r)
    BY <1>2, <1>3, <2>1 DEF RunsThrough
  <2>3. SoundTables(b.dbs, k, V) /\ Seen(b.dbs, k) = g[i - 1] /\ b.at = k
    BY <1>3, <2>0, <2>2
  <2>4. /\ r.id \in Ids \ V
        /\ Takes(r.call.tool, r.call.given)
    <3>1. p \in [1..n -> 1..n] /\ \A x, y \in 1..n : p[x] = p[y] => x = y
      BY DEF Orders, IsInjective
    <3>2. p[i] \in 1..n
      BY <3>1
    <3>3. r.id \in Ids \ U /\ Takes(r.call.tool, r.call.given)
      BY <3>2 DEF AreRequests
    <3>4. ASSUME NEW j \in 1..(i - 1), requests[p[j]].id = r.id PROVE FALSE
      <4>1. j \in 1..n /\ j # i
        OBVIOUS
      <4>2. p[j] \in 1..n /\ p[j] # p[i]
        BY <3>1, <4>1
      <4> QED
        BY <3>2, <3>4, <4>2 DEF AreRequests
    <3> QED
      BY <3>3, <3>4
  <2>5. U \union ids(i) = V \union {r.id}
    <3>1. \A j : j \in 1..i <=> j \in 1..(i - 1) \/ j = i
      OBVIOUS
    <3> QED
      BY <3>1
  <2> HIDE DEF r, b, V, ids
  <2>6. IsCall(b.dbs, k, V, r.id, r.call)
    BY <2>2, <2>3, <2>4 DEF IsCall
  <2>7. /\ SoundTables(f[i].dbs, k, V \union {r.id})
        /\ Seen(f[i].dbs, k) = Told(Seen(b.dbs, k), Answer(b.dbs, k, r.id, r.call))
    BY <2>2, <2>3, <2>6, RequestIsTold
  <2>8. g[i] = Told(g[i - 1], Answer(b.dbs, k, r.id, r.call))
    BY <1>3, <1>4 DEF b, r, TellsThrough
  <2> QED
    BY <2>3, <2>5, <2>7, <2>8
<1> HIDE DEF T
<1>7. n \in T
  <2>1. n \in 0..n
    OBVIOUS
  <2> QED
    BY <1>5, <1>6, <2>1, UpTo
<1>8. Q(n)
  BY <1>7 DEF T
<1>9. \A d : SoundTables(d, k, U \union ids(n)) => SoundTables(d, k, U \union all)
  <2>1. p \in [1..n -> 1..n]
    BY DEF Orders
  <2>2. (U \union ids(n)) \union all = U \union all
    BY <2>1 DEF IdsOf
  <2> HIDE DEF ids, all
  <2> QED
    BY <2>2, MoreAreUsed
<1> HIDE DEF ids, all
<1> QED
  BY <1>2, <1>4, <1>8, <1>9 DEF all, Explained, RunsThrough, TellsThrough

-----------------------------------------------------------------------------
(* The order that is kept                                                  *)

Agree(p, q, i) == \A j \in 1..i : p[j] = q[j]

\* Of some orders, one comes first.
LEMMA FirstOfIsOne ==
  ASSUME NEW n \in Nat, NEW R \in SUBSET Orders(n), R # {}
  PROVE  FirstOf(R) \in R /\ \A s \in R \ {FirstOf(R)} : Precedes(FirstOf(R), s)
<1> DEFINE First(r, i) == \A s \in R : Agree(r, s, i) \/ Precedes(r, s)
           T == {i \in 0..n : \E r \in R : First(r, i)}
<1>0. \A r \in R : DOMAIN r = 1..n /\ \A i \in 1..n : r[i] \in 1..n
  BY DEF Orders
<1>1. 0 \in T
  BY DEF Agree
<1>2. ASSUME NEW m \in 1..n, m - 1 \in T PROVE m \in T
  <2>1. PICK r \in R : First(r, m - 1)
    BY <1>2
  <2> HIDE DEF T
  <2> DEFINE S == {s \in R : Agree(r, s, m - 1)}
             N == {s[m] : s \in S}
  <2>2. r \in S
    BY DEF Agree
  <2>3. N \in SUBSET Nat /\ N # {}
    BY <1>0, <2>2
  <2>4. Least(N) \in N /\ \A w \in N : Least(N) <= w
    <3> HIDE DEF N
    <3> QED
      BY <2>3, LeastExists
  <2>5. PICK q \in S : q[m] = Least(N)
    BY <2>4
  <2> DEFINE v == Least(N)
  <2>6. v \in Nat /\ q[m] = v /\ \A w \in N : v <= w
    <3> HIDE DEF N
    <3> QED
      BY <2>3, <2>4, <2>5
  <2> HIDE DEF v
  <2>7. ASSUME NEW s \in R PROVE Agree(q, s, m) \/ Precedes(q, s)
    <3>1. Agree(r, q, m - 1) /\ q \in R
      BY <2>5
    <3>2. CASE Agree(r, s, m - 1)
      <4>1. s[m] \in N /\ s[m] \in Nat
        BY <1>0, <3>2
      <4>2. v <= s[m]
        BY <4>1, <2>6
      <4>3. Agree(q, s, m - 1)
        BY <3>1, <3>2 DEF Agree
      <4> HIDE DEF N, S
      <4>4. CASE s[m] = v
        <5>1. \A j \in 1..m : j \in 1..(m - 1) \/ j = m
          OBVIOUS
        <5> QED
          BY <4>3, <4>4, <5>1, <2>6 DEF Agree
      <4>5. CASE v < s[m]
        BY <4>3, <4>5, <2>6, <1>0, <3>1 DEF Agree, Precedes
      <4> QED
        BY <4>1, <4>2, <4>4, <4>5, <2>6
    <3>3. CASE ~ Agree(r, s, m - 1)
      <4>1. PICK i \in 1..n : r[i] < s[i] /\ \A j \in 1..(i - 1) : r[j] = s[j]
        BY <2>1, <1>0, <3>3 DEF Precedes
      <4>2. i <= m - 1
        BY <3>3, <4>1 DEF Agree
      <4>3. \A j \in 1..i : q[j] = r[j]
        BY <3>1, <4>2 DEF Agree
      <4>4. q[i] = r[i] /\ \A j \in 1..(i - 1) : q[j] = r[j]
        BY <4>1, <4>3
      <4>5. q[i] < s[i] /\ \A j \in 1..(i - 1) : q[j] = s[j]
        BY <4>1, <4>4
      <4> QED
        BY <1>0, <3>1, <4>1, <4>5 DEF Precedes
    <3> QED
      BY <3>2, <3>3
  <2> QED
    BY <2>5, <2>7 DEF T
<1>3. n \in T
  <2>1. n \in 0..n
    OBVIOUS
  <2> HIDE DEF T
  <2> QED
    BY <1>1, <1>2, <2>1, UpTo
<1>4. PICK r \in R : First(r, n)
  BY <1>3
<1>5. ASSUME NEW s \in R \ {r} PROVE Precedes(r, s)
  <2>1. r \in [1..n -> 1..n] /\ s \in [1..n -> 1..n]
    BY DEF Orders
  <2>2. Agree(r, s, n) => r = s
    BY <2>1 DEF Agree
  <2> QED
    BY <1>4, <2>2
<1> QED
  BY <1>5 DEF FirstOf

\* What is kept of a batch is what one of its orders leads to.
LEMMA OneOrderIsKept ==
  ASSUME NEW ctx, NEW n \in Nat, NEW requests, Len(requests) = n
  PROVE  \E p \in Orders(n) : RunAllOrders(ctx, requests) = RunInOrder(ctx, requests, p)
<1> DEFINE outcome == Outcomes(ctx, requests)
           failing == {p \in DOMAIN outcome : ~ Succeeds(outcome[p])}
           R == IF failing = {} THEN DOMAIN outcome ELSE failing
<1>1. outcome = [p \in Orders(n) |-> RunInOrder(ctx, requests, p)]
  BY DEF Outcomes
<1>2. RunAllOrders(ctx, requests) = outcome[FirstOf(R)]
  BY DEF RunAllOrders
<1> HIDE DEF outcome
<1>3. [i \in 1..n |-> i] \in Orders(n)
  BY DEF Orders, IsInjective
<1>4. R \in SUBSET Orders(n) /\ R # {}
  BY <1>1, <1>3
<1> HIDE DEF R
<1>5. FirstOf(R) \in R
  BY <1>4, FirstOfIsOne
<1> QED
  BY <1>1, <1>2, <1>4, <1>5

-----------------------------------------------------------------------------
(* The inductive invariant                                                 *)

\* The identifiers of the base rows and of the requests so far.
Used == BaseIds \union 2..maxIndex

(* Unless an earlier snapshot came back, the tables are in order at the     *)
(* index where the next message writes, under identifiers already used.     *)
PhoneIInv ==
  /\ maxIndex \in 1..(MaxIndex - 1)
  /\ reverted \/ SoundTables(dbs, CurrentIndex, Used)

\* More messages change nothing that is seen.
LEMMA MessagesChangeNothing ==
  ASSUME NEW k \in Index, NEW d, NEW U, SoundTables(d, k, U), NEW k2 \in Index, k < k2
  PROVE  SoundTables(d, k2, U) /\ Seen(d, k2) = Seen(d, k)
<1>1. k \in Nat /\ k2 \in Nat /\ k2 \in k..k2
  BY ConstantsAssumption DEF Index
<1>2. ASSUME NEW ns \in Namespaces
      PROVE  WellFormed(d[ns], k2) /\ GetDatabase(d[ns], k2) = GetDatabase(d[ns], k)
  <2>1. WellFormed(d[ns], k)
    BY DEF SoundTables
  <2> QED
    BY <1>1, <2>1, CommitCarriesOver
<1>3. {"CONTACT", "REMINDER"} \subseteq Namespaces
  BY PhoneAssumption
<1> QED
  BY <1>2, <1>3 DEF SoundTables, Seen, Rows

LEMMA BatchesAreRequests ==
  ASSUME NEW n \in Nat, NEW calls \in [1..n -> AgentCalls],
         maxIndex \in 1..(MaxIndex - 1), maxIndex + 2 * n < MaxIndex
  PROVE  /\ AreRequests(Requests(calls), n, Used)
         /\ Len(calls) = n
         /\ IdsOf(Requests(calls), n) \subseteq 2..(maxIndex + 2 * n)
<1> DEFINE requests == Requests(calls)
<1>1. requests = [i \in 1..n |-> [call |-> calls[i], id |-> maxIndex + i]]
  BY DEF Requests
<1>2. Len(requests) = n /\ Len(calls) = n
  BY <1>1
<1>3. \A i \in 1..n : requests[i].call = calls[i] /\ requests[i].id = maxIndex + i
  BY <1>1
<1> HIDE DEF requests
<1>4. MaxIndex \in Nat
  BY ConstantsAssumption
<1>5. ASSUME NEW i \in 1..n
      PROVE  /\ requests[i].id \in Ids \ Used /\ requests[i].id \in 2..(maxIndex + 2 * n)
             /\ Takes(requests[i].call.tool, requests[i].call.given)
  <2>1. /\ maxIndex + i \in 2..MaxIndex /\ maxIndex + i \in 2..(maxIndex + 2 * n)
        /\ maxIndex + i \in Index /\ maxIndex + i \notin 2..maxIndex
    BY <1>4 DEF Index
  <2>2. maxIndex + i \notin BaseIds
    BY <2>1, PhoneAssumption
  <2>3. calls[i] \in AgentCalls
    OBVIOUS
  <2>4. Takes(calls[i].tool, calls[i].given)
    BY <2>3, PhoneAssumption
  <2> QED
    BY <1>3, <2>1, <2>2, <2>4 DEF Ids, Used
<1>6. \A i, j \in 1..n : requests[i].id = requests[j].id => i = j
  BY <1>3
<1> QED
  BY <1>2, <1>5, <1>6 DEF AreRequests, IdsOf, requests

\* A batch leaves the tables in order, and the world that its answers tell.
LEMMA BatchEffect ==
  ASSUME PhoneIInv, NEW n \in Nat \ {0}, NEW calls \in [1..n -> AgentCalls], CallTools(calls)
  PROVE  PhoneIInv' /\ (~ reverted' => World' = ToldByAll(World, answers'))
<1> DEFINE k        == CurrentIndex + n
           ctx      == Start(n)
           requests == Requests(calls)
           ids      == IdsOf(requests, n)
<1>0. MaxIndex \in Nat /\ maxIndex \in Nat /\ maxIndex \in 1..(MaxIndex - 1)
  BY ConstantsAssumption DEF PhoneIInv
<1>1. Len(calls) = n
  OBVIOUS
<1>2. /\ maxIndex + 2 * n < MaxIndex /\ maxIndex' = maxIndex + 2 * n
      /\ SoundTables(dbs, CurrentIndex, Used)
  BY <1>1 DEF CallTools, PhoneIInv
<1>3. PICK end : /\ end = RunAllOrders(ctx, requests)
                 /\ dbs' = end.dbs /\ answers' = end.answers /\ reverted' = end.reverted
  BY <1>1 DEF CallTools
<1>4. AreRequests(requests, n, Used) /\ ids \subseteq 2..maxIndex'
  BY <1>0, <1>2, BatchesAreRequests
<1>5. /\ CurrentIndex \in Index /\ k \in Index /\ CurrentIndex' \in Index
      /\ CurrentIndex < k /\ k < CurrentIndex'
  BY <1>0, <1>2 DEF CurrentIndex, Index
<1>6. SoundTables(dbs, k, Used) /\ Seen(dbs, k) = Seen(dbs, CurrentIndex)
  BY <1>2, <1>5, MessagesChangeNothing
<1>7. ctx.dbs = dbs /\ ctx.at = k /\ ~ ctx.reverted /\ ctx.answers = <<>>
  BY DEF Start
<1> HIDE DEF ctx, requests, k
<1>8. PICK p \in Orders(n) : end = RunInOrder(ctx, requests, p)
  BY <1>3, <1>4, OneOrderIsKept DEF AreRequests
<1>9. ~ end.reverted => /\ SoundTables(end.dbs, k, Used \union ids)
                        /\ Seen(end.dbs, k) = ToldByAll(Seen(dbs, k), end.answers)
  <2>1. Begins(ctx, k, Used)
    BY <1>6, <1>7 DEF Begins
  <2>2. AreRequests(requests, n, Used) /\ n \in Nat
    BY <1>4
  <2>3. Explained(ctx, end, k, Used \union ids)
    BY <1>5, <1>8, <2>1, <2>2, OrderIsTold
  <2> QED
    BY <1>7, <2>3 DEF Explained
<1> HIDE DEF ids
<1>10. ASSUME ~ reverted'
       PROVE  /\ SoundTables(dbs', CurrentIndex', Used')
              /\ Seen(dbs', CurrentIndex') = ToldByAll(Seen(dbs, CurrentIndex), answers')
  <2>1. /\ SoundTables(dbs', k, Used \union ids)
        /\ Seen(dbs', k) = ToldByAll(Seen(dbs, CurrentIndex), answers')
    BY <1>3, <1>6, <1>9, <1>10
  <2>2. (Used \union ids) \union Used' = Used'
    <3>1. 2..maxIndex \subseteq 2..maxIndex'
      BY <1>0, <1>2
    <3> QED
      BY <3>1, <1>4 DEF Used
  <2>3. SoundTables(dbs', k, Used')
    BY <2>1, <2>2, MoreAreUsed
  <2> QED
    BY <1>5, <2>1, <2>3, MessagesChangeNothing
<1>11. maxIndex' \in 1..(MaxIndex - 1)
  BY <1>0, <1>2
<1>12. PhoneIInv'
  BY <1>10, <1>11 DEF PhoneIInv
<1>13. World = Seen(dbs, CurrentIndex) /\ World' = Seen(dbs', CurrentIndex')
  BY DEF World, Seen
<1> QED
  BY <1>10, <1>12, <1>13

\* The tables of the base scenario hold what the scenario gives them.
LEMMA BaseTables ==
  ASSUME NEW ns \in Namespaces
  PROVE  /\ WellFormed(BaseTable(ns), 1)
         /\ GetDatabase(BaseTable(ns), 1) = BaseContent(ns)
<1> DEFINE created == [heads |-> {0},
                       rows |-> [i \in Index |-> IF i = 0 THEN InitialRows[ns] ELSE {}]]
<1>1. MaxIndex \in Nat /\ 0 \in Index /\ 1 \in Index /\ 0 < 1 /\ 1 \in 0..1
  BY ConstantsAssumption, PhoneAssumption DEF Index
<1>2. InitialRows[ns] \in SUBSET Row /\ BaseRows[ns] \in SUBSET Row
  BY ConstantsAssumption, PhoneAssumption
<1>3. /\ created \in Table /\ created.heads = {0} /\ created.rows[0] = InitialRows[ns]
      /\ \A i \in Index : i # 0 => created.rows[i] = {}
  BY <1>1, <1>2 DEF Table
<1>4. BaseTable(ns) = IF BaseRows[ns] = {} THEN created ELSE Added(created, 1, BaseRows[ns])
  BY DEF BaseTable
<1> HIDE DEF created
<1>5. WellFormed(created, 0)
  BY <1>1, <1>3 DEF WellFormed, HeadguardLostOnlyWhenEmpty, Index
<1>6. GetDatabase(created, 0) = InitialRows[ns]
  <2>1. 0 \in Materialised(created)
    BY <1>1, <1>3 DEF Materialised
  <2>2. Latest(created, 0, 0)
    BY <2>1 DEF Latest
  <2> QED
    BY <1>1, <1>3, <2>2, ReadLatest
<1>7. WellFormed(created, 1) /\ GetDatabase(created, 1) = InitialRows[ns]
  <2>1. /\ WellFormed(created, 1)
        /\ \A i \in 0..1 : GetDatabase(created, i) = GetDatabase(created, 0)
    BY <1>1, <1>5, CommitCarriesOver
  <2> QED
    BY <1>1, <1>6, <2>1
<1>8. CASE BaseRows[ns] = {}
  BY <1>4, <1>7, <1>8 DEF BaseContent
<1>9. CASE BaseRows[ns] # {}
  BY <1>1, <1>2, <1>4, <1>7, <1>9, AddingShows DEF BaseContent
<1> QED
  BY <1>8, <1>9

LEMMA PhoneInitHolds ==
  ASSUME PhoneInit
  PROVE  PhoneIInv
<1>1. /\ MaxIndex \in Nat /\ MaxIndex > 1 /\ 1 \in Index /\ 2 \in Index
      /\ maxIndex = 1 /\ CurrentIndex = 2 /\ Used = BaseIds
  BY ConstantsAssumption, PhoneAssumption DEF PhoneInit, CurrentIndex, Index, Used
<1>2. /\ dbs = [ns \in Namespaces |-> BaseTable(ns)]
      /\ {"CONTACT", "REMINDER"} \subseteq Namespaces
  BY PhoneAssumption DEF PhoneInit
<1>3. \A ns \in Namespaces : /\ WellFormed(BaseTable(ns), 1) /\ BaseTable(ns) \in Table
                             /\ GetDatabase(BaseTable(ns), 1) = BaseContent(ns)
  BY BaseTables DEF WellFormed
<1>4. SoundTables(dbs, 1, BaseIds)
  <2>1. dbs \in [Namespaces -> Table] /\ \A ns \in Namespaces : WellFormed(dbs[ns], 1)
    BY <1>2, <1>3
  <2>2. /\ Rows(dbs, "CONTACT", 1) = BaseContent("CONTACT")
        /\ Rows(dbs, "REMINDER", 1) = BaseContent("REMINDER")
    BY <1>2, <1>3 DEF Rows
  <2>3. GoodContacts(BaseContent("CONTACT"), BaseIds)
    BY PhoneAssumption DEF GoodContacts, Distinct, OneSelf
  <2>4. GoodReminders(BaseContent("REMINDER"), BaseIds)
    BY PhoneAssumption DEF GoodReminders, Distinct
  <2> QED
    BY <2>1, <2>2, <2>3, <2>4 DEF SoundTables
<1>5. SoundTables(dbs, 2, BaseIds)
  <2>1. 1 < 2
    OBVIOUS
  <2> QED
    BY <1>1, <1>4, <2>1, MessagesChangeNothing
<1> QED
  BY <1>1, <1>5 DEF PhoneIInv

LEMMA PhoneStep ==
  ASSUME PhoneIInv, [PhoneNext]_pvars
  PROVE  PhoneIInv' /\ [~ reverted' => World' = ToldByAll(World, answers')]_pvars
<1>1. CASE UNCHANGED pvars
  <2>1. dbs' = dbs /\ maxIndex' = maxIndex /\ reverted' = reverted
    BY <1>1 DEF pvars
  <2> QED
    BY <1>1, <2>1 DEF PhoneIInv, CurrentIndex, Used
<1>2. CASE PhoneNext
  <2>1. PICK n \in 1..MaxBatch : \E calls \in [1..n -> AgentCalls] : CallTools(calls)
    BY <1>2 DEF PhoneNext
  <2>2. PICK calls \in [1..n -> AgentCalls] : CallTools(calls)
    BY <2>1
  <2>3. n \in Nat \ {0}
    BY PhoneAssumption
  <2> QED
    BY <2>2, <2>3, BatchEffect
<1> QED
  BY <1>1, <1>2

-----------------------------------------------------------------------------
(* The tables stay in order, under identifiers used only once, for as long  *)
(* as no removal brings an earlier snapshot back.                           *)
THEOREM PhoneInvariance == PhoneSpec => []PhoneIInv
<1>1. PhoneInit => PhoneIInv
  BY PhoneInitHolds
<1>2. PhoneIInv /\ [PhoneNext]_pvars => PhoneIInv'
  BY PhoneStep
<1> QED
  BY <1>1, <1>2, PTL DEF PhoneSpec

(* No two contacts or reminders ever share an identifier, and no two        *)
(* contacts are self: the DuplicateError of contact.py:127, reminder.py:124 *)
(* and messaging.py:63 is never met.                                        *)
THEOREM EntriesAreUnique == PhoneSpec => []NoDuplicates
<1>1. ASSUME PhoneIInv, ~ reverted
      PROVE  /\ \A ns \in {"CONTACT", "REMINDER"} :
                  \A r, s \in World[ns] : r.id = s.id => r = s
             /\ Cardinality(Selves(World.CONTACT)) <= 1
  <2>1. /\ GoodContacts(World["CONTACT"], Used)
        /\ GoodReminders(World["REMINDER"], Used)
    BY <1>1, PhoneAssumption DEF PhoneIInv, SoundTables, World
  <2>2. \A r, s \in Selves(World.CONTACT) : r = s
    BY <2>1 DEF GoodContacts, OneSelf, Selves
  <2>3. Cardinality(Selves(World.CONTACT)) <= 1
    BY <2>2, CountOfOne
  <2> QED
    BY <2>1, <2>3 DEF GoodContacts, GoodReminders, Distinct
<1>2. PhoneIInv => NoDuplicates
  BY <1>1 DEF NoDuplicates
<1> QED
  BY <1>2, PhoneInvariance, PTL

(* The world after a batch is the world before it as changed by the calls   *)
(* that are answered, in the order of the answers: what the orders that     *)
(* were tried and dropped did is gone, whatever their number.               *)
THEOREM AnswersAreTrue == PhoneSpec => AnswersExplainTheWorld
<1>1. PhoneIInv /\ [PhoneNext]_pvars
        => [~ reverted' => World' = ToldByAll(World, answers')]_pvars
  BY PhoneStep
<1> QED
  BY <1>1, PhoneInvariance, PTL DEF PhoneSpec, AnswersExplainTheWorld

-----------------------------------------------------------------------------
(* An accepted batch: what its calls leave in whatever order               *)

\* The entry with all the fields that some modifications give.
Merged(entry, mods) ==
  [f \in DOMAIN entry |->
     IF \E c \in mods : f \in DOMAIN c.given
     THEN CHOOSE v : \E c \in mods : f \in DOMAIN c.given /\ c.given[f] = v
     ELSE entry[f]]

\* Of the entries `old', those with an identifier in `gone' are removed, the
\* others have the modifications `mods' of theirs, and `new' are added.
Entries(old, mods, gone, new) ==
  {Merged(r, {c \in mods : c.id = r.id}) : r \in {x \in old : x.id \notin gone}} \union new

\* Modifications of one entry give a field one value, and never an identifier.
Agreeing(mods) ==
  /\ \A c \in mods : "id" \notin DOMAIN c.given
  /\ \A c, e \in mods : c.id = e.id =>
        \A f \in DOMAIN c.given \intersect DOMAIN e.given : c.given[f] = e.given[f]

IsEntry(r) == r = [f \in DOMAIN r |-> r[f]] /\ "id" \in DOMAIN r

OfOneEntry(mods) == \A c, e \in mods : c.id = e.id

\* The fields of m are those of r, but for the ones that the modifications give.
AreMerged(m, r, mods) ==
  /\ DOMAIN m = DOMAIN r /\ m = [f \in DOMAIN r |-> m[f]]
  /\ \A f \in DOMAIN r : \A c \in mods : f \in DOMAIN c.given => m[f] = c.given[f]
  /\ \A f \in DOMAIN r : (\A c \in mods : f \notin DOMAIN c.given) => m[f] = r[f]
  /\ m.id = r.id

\* The fields of an entry after its modifications.
LEMMA MergedFields ==
  ASSUME NEW r, IsEntry(r), NEW mods, Agreeing(mods), OfOneEntry(mods)
  PROVE  AreMerged(Merged(r, mods), r, mods)
<1> DEFINE m == Merged(r, mods)
           v(f) == CHOOSE v : \E c \in mods : f \in DOMAIN c.given /\ c.given[f] = v
<1>1. m = [f \in DOMAIN r |-> IF \E c \in mods : f \in DOMAIN c.given THEN v(f) ELSE r[f]]
  BY DEF Merged
<1>2. ASSUME NEW f, NEW c \in mods, f \in DOMAIN c.given
      PROVE  v(f) = c.given[f]
  <2>1. \E e \in mods : f \in DOMAIN e.given /\ e.given[f] = v(f)
    <3> DEFINE P(w) == \E e \in mods : f \in DOMAIN e.given /\ e.given[f] = w
    <3>1. P(c.given[f])
      BY <1>2
    <3>2. P(CHOOSE w : P(w))
      <4> HIDE DEF P
      <4> QED
        BY <3>1
    <3> QED
      BY <3>2
  <2> HIDE DEF v
  <2> QED
    BY <1>2, <2>1 DEF Agreeing, OfOneEntry
<1> HIDE DEF m, v
<1>3. DOMAIN m = DOMAIN r /\ m = [f \in DOMAIN r |-> m[f]]
  BY <1>1
<1>4. \A f \in DOMAIN r : \A c \in mods : f \in DOMAIN c.given => m[f] = c.given[f]
  BY <1>1, <1>2
<1>5. \A f \in DOMAIN r : (\A c \in mods : f \notin DOMAIN c.given) => m[f] = r[f]
  BY <1>1
<1>6. m["id"] = r["id"]
  BY <1>5 DEF Agreeing, IsEntry
<1> QED
  BY <1>3, <1>4, <1>5, <1>6 DEF m, AreMerged

\* One more modification changes the fields that it gives.
LEMMA MergedOnce ==
  ASSUME NEW r, IsEntry(r), NEW mods, NEW c, Agreeing(mods \union {c}),
         \A e \in mods : e.id = c.id
  PROVE  Merged(r, mods \union {c}) = Changed(Merged(r, mods), c)
<1> DEFINE both == mods \union {c}
           m == Merged(r, mods)
           n == Merged(r, both)
           h == Changed(m, c)
<1>1. Agreeing(mods) /\ OfOneEntry(mods) /\ OfOneEntry(both)
  BY DEF Agreeing, OfOneEntry
<1>2. AreMerged(m, r, mods) /\ AreMerged(n, r, both)
  BY <1>1, MergedFields
<1>3. \A e : e \in both <=> e \in mods \/ e = c
  OBVIOUS
<1>4. h = [f \in DOMAIN m |-> IF f \in DOMAIN c.given THEN c.given[f] ELSE m[f]]
  BY DEF Changed
<1> HIDE DEF m, n, h, both
<1>5. ASSUME NEW f \in DOMAIN r PROVE n[f] = h[f]
  <2>1. CASE f \in DOMAIN c.given
    BY <1>2, <1>3, <1>4, <2>1 DEF AreMerged
  <2>2. CASE f \notin DOMAIN c.given
    <3>1. h[f] = m[f]
      BY <1>2, <1>4, <2>2 DEF AreMerged
    <3>2. CASE \E e \in mods : f \in DOMAIN e.given
      BY <1>2, <1>3, <3>1, <3>2 DEF AreMerged
    <3>3. CASE \A e \in mods : f \notin DOMAIN e.given
      <4>1. \A e \in both : f \notin DOMAIN e.given
        BY <1>3, <2>2, <3>3
      <4> QED
        BY <1>2, <3>1, <3>3, <4>1 DEF AreMerged
    <3> QED
      BY <3>2, <3>3
  <2> QED
    BY <2>1, <2>2
<1>6. n = h
  <2>1. h = [f \in DOMAIN r |-> h[f]] /\ n = [f \in DOMAIN r |-> n[f]]
    BY <1>2, <1>4 DEF AreMerged
  <2> QED
    BY <1>5, <2>1
<1> QED
  BY <1>6 DEF n, h, m, both

\* An entry that none of the modifications is of stays as it is.
LEMMA MergedNever ==
  ASSUME NEW r, IsEntry(r)
  PROVE  Merged(r, {}) = r
<1>1. Merged(r, {}) = [f \in DOMAIN r |-> r[f]]
  BY DEF Merged
<1> QED
  BY <1>1 DEF IsEntry

ChangedAmong(rows, c) == {IF r.id = c.id THEN Changed(r, c) ELSE r : r \in rows}
Without(rows, i) == {r \in rows : r.id # i}

\* What a modification tells of entries that have been changed before.
LEMMA EntriesModified ==
  ASSUME NEW old, \A r \in old : IsEntry(r), NEW mods, NEW gone, NEW new,
         NEW c, Agreeing(mods \union {c}), \A e \in new : e.id # c.id
  PROVE  Entries(old, mods \union {c}, gone, new)
           = ChangedAmong(Entries(old, mods, gone, new), c)
<1> DEFINE kept == {x \in old : x.id \notin gone}
           both == mods \union {c}
           Before(r) == Merged(r, {e \in mods : e.id = r.id})
           Now(r) == Merged(r, {e \in both : e.id = r.id})
           H(r) == IF r.id = c.id THEN Changed(r, c) ELSE r
<1>1. ASSUME NEW r \in kept PROVE Now(r) = H(Before(r))
  <2> DEFINE T == {e \in mods : e.id = r.id}
  <2>1. Before(r).id = r.id
    <3>1. Agreeing(T) /\ OfOneEntry(T)
      BY DEF Agreeing, OfOneEntry
    <3> HIDE DEF T
    <3>2. IsEntry(r)
      OBVIOUS
    <3>3. Merged(r, T).id = r.id
      BY <3>1, <3>2, MergedFields DEF AreMerged
    <3> QED
      BY <3>3 DEF T
  <2>2. CASE r.id = c.id
    <3>1. {e \in both : e.id = r.id} = T \union {c}
      BY <2>2
    <3>2. Agreeing(T \union {c}) /\ \A e \in T : e.id = c.id
      BY <2>2 DEF Agreeing
    <3>3. IsEntry(r)
      OBVIOUS
    <3> HIDE DEF T, both
    <3>4. Merged(r, T \union {c}) = Changed(Merged(r, T), c)
      BY <3>2, <3>3, MergedOnce
    <3>5. Now(r) = Changed(Merged(r, T), c)
      BY <3>1, <3>4
    <3> QED
      BY <2>1, <2>2, <3>5 DEF T
  <2>3. CASE r.id # c.id
    <3>1. {e \in both : e.id = r.id} = T
      BY <2>3
    <3> HIDE DEF both
    <3> QED
      BY <2>1, <2>3, <3>1
  <2> QED
    BY <2>2, <2>3
<1>2. \A e \in new : H(e) = e
  OBVIOUS
<1>3. /\ Entries(old, both, gone, new) = {Now(r) : r \in kept} \union new
      /\ Entries(old, mods, gone, new) = {Before(r) : r \in kept} \union new
  BY DEF Entries
<1>4. {H(x) : x \in {Before(r) : r \in kept} \union new} = {H(Before(r)) : r \in kept} \union new
  <2> HIDE DEF H, Before, kept
  <2> QED
    BY <1>2
<1>5. {Now(r) : r \in kept} = {H(Before(r)) : r \in kept}
  <2> HIDE DEF Now, H, Before, kept
  <2> QED
    BY <1>1
<1> HIDE DEF Now, Before, kept
<1> QED
  BY <1>3, <1>4, <1>5 DEF ChangedAmong

\* What a removal tells of them.
LEMMA EntriesRemoved ==
  ASSUME NEW old, \A r \in old : IsEntry(r), NEW mods, Agreeing(mods), NEW gone, NEW new,
         NEW i, \A e \in new : e.id # i
  PROVE  Entries(old, mods, gone \union {i}, new)
           = Without(Entries(old, mods, gone, new), i)
<1> DEFINE Now(r) == Merged(r, {e \in mods : e.id = r.id})
           kept == {x \in old : x.id \notin gone}
           left == {x \in old : x.id \notin gone \union {i}}
<1>1. ASSUME NEW r \in old PROVE Now(r).id = r.id
  <2> DEFINE T == {e \in mods : e.id = r.id}
  <2>1. Agreeing(T) /\ OfOneEntry(T)
    BY DEF Agreeing, OfOneEntry
  <2>2. IsEntry(r)
    OBVIOUS
  <2> HIDE DEF T
  <2>3. Merged(r, T).id = r.id
    BY <2>1, <2>2, MergedFields DEF AreMerged
  <2> QED
    BY <2>3 DEF T
<1>2. /\ Entries(old, mods, gone \union {i}, new) = {Now(r) : r \in left} \union new
      /\ Entries(old, mods, gone, new) = {Now(r) : r \in kept} \union new
  BY DEF Entries
<1>3. left = {r \in kept : r.id # i} /\ kept \subseteq old
  OBVIOUS
<1> HIDE DEF Now, kept, left
<1>4. {Now(r) : r \in left} = {x \in {Now(r) : r \in kept} : x.id # i}
  BY <1>1, <1>3
<1> QED
  BY <1>2, <1>4 DEF Without

\* Of the entries, neither self nor those with the phone number ph are changed,
\* removed or added.
LeftAlone(old, mods, gone, new, ph) ==
  /\ \A e \in mods : /\ ~ ClaimsSelf(e)
                     /\ "is_self" \in DOMAIN e.given => e.given.is_self \in BOOLEAN
                     /\ "phone" \in DOMAIN e.given => e.given.phone # ph
  /\ \A r \in old : r.is_self \/ r.phone = ph =>
        r.id \notin gone /\ \A e \in mods : e.id # r.id
  /\ \A e \in new : e.phone # ph /\ ~ e.is_self

\* Then a message is from and to the same.
LEMMA MessageUndisturbed ==
  ASSUME NEW old, NEW mods, Agreeing(mods), NEW gone, NEW new, NEW c, NEW id,
         \A r \in old : IsEntry(r) /\ "is_self" \in DOMAIN r /\ "phone" \in DOMAIN r,
         LeftAlone(old, mods, gone, new, c.given.phone)
  PROVE  NewMessage(Entries(old, mods, gone, new), c, id) = NewMessage(old, c, id)
<1> DEFINE E == Entries(old, mods, gone, new)
           T(r) == {e \in mods : e.id = r.id}
           ph == c.given.phone
<1>1. E = {Merged(r, T(r)) : r \in {x \in old : x.id \notin gone}} \union new
  BY DEF Entries
<1>2. ASSUME NEW r \in old
      PROVE  LET m == Merged(r, T(r))
             IN  /\ m.id = r.id
                 /\ m.is_self => r.is_self
                 /\ m.phone = ph => r.phone = ph
  <2> DEFINE U == T(r)
             m == Merged(r, U)
  <2>1. Agreeing(U) /\ U \subseteq mods /\ OfOneEntry(U)
    BY DEF Agreeing, OfOneEntry
  <2>2. IsEntry(r) /\ "is_self" \in DOMAIN r /\ "phone" \in DOMAIN r
    OBVIOUS
  <2> HIDE DEF U
  <2>3. /\ \A f \in DOMAIN r : \A e \in U : f \in DOMAIN e.given => m[f] = e.given[f]
        /\ \A f \in DOMAIN r : (\A e \in U : f \notin DOMAIN e.given) => m[f] = r[f]
        /\ m.id = r.id
    BY <2>1, <2>2, MergedFields DEF AreMerged
  <2> HIDE DEF m
  <2>4. m["is_self"] => r["is_self"]
    <3>1. CASE \E e \in U : "is_self" \in DOMAIN e.given
      <4>1. PICK e \in U : "is_self" \in DOMAIN e.given
        BY <3>1
      <4>2. m["is_self"] = e.given["is_self"]
        BY <2>2, <2>3, <4>1
      <4>3. ~ e.given["is_self"]
        BY <2>1, <4>1 DEF ClaimsSelf, LeftAlone
      <4> QED
        BY <4>2, <4>3
    <3>2. CASE \A e \in U : "is_self" \notin DOMAIN e.given
      BY <2>2, <2>3, <3>2
    <3> QED
      BY <3>1, <3>2
  <2>5. m["phone"] = ph => r["phone"] = ph
    <3>1. CASE \E e \in U : "phone" \in DOMAIN e.given
      BY <2>1, <2>2, <2>3, <3>1 DEF LeftAlone
    <3>2. CASE \A e \in U : "phone" \notin DOMAIN e.given
      BY <2>2, <2>3, <3>2
    <3> QED
      BY <3>1, <3>2
  <2> QED
    BY <2>3, <2>4, <2>5 DEF m, U
<1>3. ASSUME NEW r \in old, r.is_self \/ r.phone = ph PROVE r \in E
  <2>1. r.id \notin gone /\ T(r) = {}
    BY <1>3 DEF LeftAlone
  <2>2. IsEntry(r)
    OBVIOUS
  <2>3. Merged(r, T(r)) = r
    BY <2>1, <2>2, MergedNever
  <2> QED
    BY <1>1, <2>1, <2>3
<1> HIDE DEF E, T
<1>4. Selves(E) = Selves(old)
  <2>1. ASSUME NEW t \in Selves(E) PROVE t \in Selves(old)
    <3>1. t \in E /\ t.is_self
      BY DEF Selves
    <3>2. PICK r \in old : t = Merged(r, T(r)) /\ r.id \notin gone
      BY <1>1, <3>1 DEF LeftAlone
    <3>3. r.is_self
      BY <1>2, <3>1, <3>2
    <3>4. T(r) = {} /\ IsEntry(r)
      BY <3>3 DEF T, LeftAlone
    <3> QED
      BY <3>2, <3>3, <3>4, MergedNever DEF Selves
  <2>2. ASSUME NEW t \in Selves(old) PROVE t \in Selves(E)
    BY <1>3 DEF Selves
  <2> QED
    BY <2>1, <2>2
<1>5. {r.id : r \in {x \in E : x.phone = ph}} = {r.id : r \in {x \in old : x.phone = ph}}
  <2>1. ASSUME NEW t \in E, t.phone = ph PROVE \E r \in old : r.phone = ph /\ r.id = t.id
    BY <1>1, <1>2, <2>1 DEF LeftAlone
  <2> QED
    BY <1>3, <2>1
<1> HIDE DEF ph
<1>6. NewMessage(E, c, id) = NewMessage(old, c, id)
  BY <1>4, <1>5 DEF NewMessage, ph
<1> QED
  BY <1>6 DEF E

-----------------------------------------------------------------------------
\* The calls of a tool among the requests D.
CallsOf(requests, D, tool) == {requests[i].call : i \in {j \in D : requests[j].call.tool = tool}}

AddedBy(requests, D, tool) ==
  {NewEntry(requests[i].call, requests[i].id) : i \in {j \in D : requests[j].call.tool = tool}}

\* What the requests D leave of the entries `old', given the three tools for them.
Left(old, requests, D, add, modify, remove) ==
  Entries(old, CallsOf(requests, D, modify), {c.id : c \in CallsOf(requests, D, remove)},
          AddedBy(requests, D, add))

\* What the requests D leave of the world w.
Leaves(w, requests, D) ==
  [ns \in Namespaces |->
     CASE ns = "CONTACT" ->
            Left(w.CONTACT, requests, D, "add_contact", "modify_contact", "remove_contact")
       [] ns = "REMINDER" ->
            Left(w.REMINDER, requests, D, "add_reminder", "modify_reminder", "remove_reminder")
       [] ns = "MESSAGING" ->
            w.MESSAGING \union
              {NewMessage(w.CONTACT, requests[i].call, requests[i].id) :
                 i \in {j \in D : requests[j].call.tool = "send_message_with_phone_number"}}
       [] ns = "SETTING" ->
            IF CallsOf(requests, D, "set_cellular_service_status") = {}
            THEN w.SETTING ELSE Setting \ w.SETTING]

\* What a call that succeeds finds in the world w.
Finds(w, c) ==
  /\ c.tool \in Adding \union Modifying => LeavesOneSelf(w.CONTACT, c)
  /\ c.tool \in Modifying \union Removing => \E r \in w[NamespaceOf(c.tool)] : r.id = c.id
  /\ c.tool = "send_message_with_phone_number" => \E s : Selves(w.CONTACT) = {s}
  /\ c.tool = "set_cellular_service_status" => c.given \notin w.SETTING

\* A world with the identifiers U, in order and with one row of settings.
GoodWorld(w, U) ==
  /\ DOMAIN w = Namespaces
  /\ GoodContacts(w.CONTACT, U) /\ GoodReminders(w.REMINDER, U)
  /\ \E s \in Setting : w.SETTING = {s}

\* Requests each of which succeeds alone, and of which no two clash.
Compatible(requests, n, U) ==
  /\ AreRequests(requests, n, U)
  /\ \A i \in 1..n : Finds(World, requests[i].call)
  /\ \A i, j \in 1..n : i # j => ~ Clash(requests[i].call, requests[j].call)

With(D, j) == D \union {j}

LEMMA OneMoreCall ==
  ASSUME NEW requests, NEW D, NEW j, NEW tool
  PROVE  /\ requests[j].call.tool = tool =>
              CallsOf(requests, With(D, j), tool) = CallsOf(requests, D, tool) \union {requests[j].call}
         /\ requests[j].call.tool # tool =>
              CallsOf(requests, With(D, j), tool) = CallsOf(requests, D, tool)
BY DEF CallsOf, With

LEMMA OneMoreAdded ==
  ASSUME NEW requests, NEW D, NEW j, NEW tool
  PROVE  /\ requests[j].call.tool = tool =>
              AddedBy(requests, With(D, j), tool) = AddedBy(requests, D, tool)
                \union {NewEntry(requests[j].call, requests[j].id)}
         /\ requests[j].call.tool # tool =>
              AddedBy(requests, With(D, j), tool) = AddedBy(requests, D, tool)
BY DEF AddedBy, With

\* What a call, with one of three tools or another, leaves of some entries.
IsLeftBy(now, before, c, id, add, modify, remove) ==
  /\ c.tool = add => now = before \union {NewEntry(c, id)}
  /\ c.tool = modify => now = ChangedAmong(before, c)
  /\ c.tool = remove => now = Without(before, c.id)
  /\ c.tool \notin {add, modify, remove} => now = before

\* What one more request does to the entries.
LEMMA LeftOneMore ==
  ASSUME NEW old, \A r \in old : IsEntry(r), NEW requests, NEW D, NEW j,
         NEW add, NEW modify, NEW remove, add # modify, modify # remove, add # remove,
         Agreeing(CallsOf(requests, With(D, j), modify)),
         requests[j].call.tool \in {modify, remove} =>
           \A e \in AddedBy(requests, D, add) : e.id # requests[j].call.id
  PROVE  LET c == requests[j].call
             before == Left(old, requests, D, add, modify, remove)
             now == Left(old, requests, With(D, j), add, modify, remove)
         IN  IsLeftBy(now, before, c, requests[j].id, add, modify, remove)
<1> DEFINE c == requests[j].call
           D1 == With(D, j)
           G(S) == {e.id : e \in CallsOf(requests, S, remove)}
           m == CallsOf(requests, D, modify)
           g == G(D)
           a == AddedBy(requests, D, add)
           before == Left(old, requests, D, add, modify, remove)
           now == Left(old, requests, D1, add, modify, remove)
           e == NewEntry(c, requests[j].id)
<1>0. D1 = With(D, j) /\ c = requests[j].call /\ e = NewEntry(requests[j].call, requests[j].id)
  OBVIOUS
<1> HIDE DEF D1, c, e
<1>1. /\ c.tool = modify => CallsOf(requests, D1, modify) = m \union {c}
      /\ c.tool # modify => CallsOf(requests, D1, modify) = m
  BY <1>0, OneMoreCall
<1>2. /\ c.tool = remove => CallsOf(requests, D1, remove) = CallsOf(requests, D, remove) \union {c}
      /\ c.tool # remove => CallsOf(requests, D1, remove) = CallsOf(requests, D, remove)
  BY <1>0, OneMoreCall
<1>3. /\ c.tool = add => AddedBy(requests, D1, add) = a \union {e}
      /\ c.tool # add => AddedBy(requests, D1, add) = a
  <2> HIDE DEF a
  <2>1. /\ requests[j].call.tool = add =>
             AddedBy(requests, D1, add)
               = AddedBy(requests, D, add) \union {NewEntry(requests[j].call, requests[j].id)}
        /\ requests[j].call.tool # add => AddedBy(requests, D1, add) = AddedBy(requests, D, add)
    BY OneMoreAdded DEF D1
  <2> QED
    BY <1>0, <2>1 DEF a
<1>4. /\ c.tool = remove => G(D1) = g \union {c.id}
      /\ c.tool # remove => G(D1) = g
  BY <1>2
<1>5. /\ before = Entries(old, m, g, a)
      /\ now = Entries(old, CallsOf(requests, D1, modify), G(D1), AddedBy(requests, D1, add))
  BY DEF Left
<1>6. c.tool \in {modify, remove} => \A x \in a : x.id # c.id
  BY <1>0
<1>7. Agreeing(CallsOf(requests, D1, modify))
  BY <1>0
<1> HIDE DEF m, g, a, G, before, now
<1>8. ASSUME c.tool = add PROVE now = before \union {e}
  <2>1. now = Entries(old, m, g, a \union {e})
    BY <1>1, <1>3, <1>4, <1>5, <1>8
  <2> QED
    BY <1>5, <2>1 DEF Entries
<1>9. ASSUME c.tool = modify PROVE now = ChangedAmong(before, c)
  <2>1. now = Entries(old, m \union {c}, g, a) /\ Agreeing(m \union {c})
    BY <1>1, <1>3, <1>4, <1>5, <1>7, <1>9
  <2>2. \A x \in a : x.id # c.id
    BY <1>6, <1>9
  <2> QED
    BY <1>5, <2>1, <2>2, EntriesModified
<1>10. ASSUME c.tool = remove PROVE now = Without(before, c.id)
  <2> DEFINE i == c.id
  <2>1. now = Entries(old, m, g \union {i}, a) /\ Agreeing(m)
    BY <1>1, <1>3, <1>4, <1>5, <1>7, <1>10
  <2>2. \A x \in a : x.id # i
    BY <1>6, <1>10
  <2> HIDE DEF i
  <2>3. now = Without(before, i)
    BY <1>5, <2>1, <2>2, EntriesRemoved
  <2> QED
    BY <2>3 DEF i
<1>11. ASSUME c.tool \notin {add, modify, remove} PROVE now = before
  BY <1>1, <1>3, <1>4, <1>5, <1>11
<1> QED
  BY <1>8, <1>9, <1>10, <1>11 DEF c, before, now, D1, e, IsLeftBy

\* The modifications among compatible requests.
LEMMA CompatibleAgree ==
  ASSUME NEW U, NEW n \in Nat, NEW requests, Compatible(requests, n, U),
         NEW D \in SUBSET (1..n), NEW tool \in Modifying
  PROVE  Agreeing(CallsOf(requests, D, tool))
<1>1. ASSUME NEW i \in D, requests[i].call.tool = tool
      PROVE  "id" \notin DOMAIN requests[i].call.given
  <2> DEFINE c == requests[i].call
  <2>1. Takes(c.tool, c.given) /\ c.tool = tool
    BY <1>1 DEF Compatible, AreRequests
  <2> HIDE DEF c
  <2>2. c.given \in [phone : Phones, is_self : BOOLEAN] \union [phone : Phones]
                      \union [is_self : BOOLEAN] \union [content : Contents]
    BY <2>1 DEF Takes, Modifying, Removing
  <2> QED
    BY <2>2 DEF c
<1>2. ASSUME NEW i \in D, NEW j \in D, requests[i].call.tool = tool,
             requests[j].call.tool = tool, requests[i].call.id = requests[j].call.id,
             NEW f \in DOMAIN requests[i].call.given \intersect DOMAIN requests[j].call.given
      PROVE  requests[i].call.given[f] = requests[j].call.given[f]
  <2>1. CASE i = j
    BY <2>1
  <2>2. CASE i # j
    <3>1. ~ Clash(requests[i].call, requests[j].call)
      BY <2>2 DEF Compatible
    <3> QED
      BY <1>2, <3>1 DEF Clash
  <2> QED
    BY <2>1, <2>2
<1> QED
  BY <1>1, <1>2 DEF Agreeing, CallsOf

LEMMA EntriesOfGoodWorlds ==
  ASSUME NEW w, NEW U, GoodWorld(w, U)
  PROVE  /\ \A r \in w.CONTACT : IsEntry(r) /\ r.id \in U
                                 /\ "is_self" \in DOMAIN r /\ "phone" \in DOMAIN r
         /\ \A r \in w.REMINDER : IsEntry(r) /\ r.id \in U
<1>1. \A r \in Contact : IsEntry(r) /\ "is_self" \in DOMAIN r /\ "phone" \in DOMAIN r
  BY DEF Contact, IsEntry
<1>2. \A r \in Reminder : IsEntry(r)
  BY DEF Reminder, IsEntry
<1> QED
  BY <1>1, <1>2 DEF GoodWorld, GoodContacts, GoodReminders, Distinct

\* An entry that is changed or removed is none that the batch adds.
LEMMA AddedAreOther ==
  ASSUME NEW U, GoodWorld(World, U), NEW n \in Nat, NEW requests, Compatible(requests, n, U),
         NEW D \in SUBSET (1..n), NEW j \in 1..n, NEW add \in Adding,
         requests[j].call.tool \in Modifying \union Removing
  PROVE  \A e \in AddedBy(requests, D, add) : e.id # requests[j].call.id
<1> DEFINE c == requests[j].call
<1>1. c.id \in U
  <2>1. Takes(c.tool, c.given) /\ Finds(World, c)
    BY DEF Compatible, AreRequests
  <2> HIDE DEF c
  <2>2. NamespaceOf(c.tool) \in {"CONTACT", "REMINDER"}
    BY Tools, <2>1 DEF Modifying, Removing, c
  <2>3. PICK r \in World[NamespaceOf(c.tool)] : r.id = c.id
    BY <2>1 DEF Finds, c
  <2> QED
    BY <2>2, <2>3, EntriesOfGoodWorlds
<1>2. ASSUME NEW i \in D, requests[i].call.tool = add
      PROVE  NewEntry(requests[i].call, requests[i].id).id \notin U
  <2> DEFINE e == requests[i].call
             id == requests[i].id
  <2>1. Takes(e.tool, e.given) /\ id \in Ids \ U /\ e.tool \in Adding
    BY <1>2 DEF Compatible, AreRequests
  <2> HIDE DEF e, id
  <2>2. NewEntry(e, id).id = id
    BY <2>1, NewEntries
  <2> QED
    BY <2>1, <2>2 DEF e, id
<1> QED
  BY <1>1, <1>2 DEF AddedBy

\* A message is from and to the same, whichever of the other calls came first.
LEMMA MessageIsSame ==
  ASSUME NEW U, GoodWorld(World, U), NEW n \in Nat, NEW requests, Compatible(requests, n, U),
         NEW D \in SUBSET (1..n), NEW j \in (1..n) \ D,
         requests[j].call.tool = "send_message_with_phone_number", NEW id
  PROVE  NewMessage(Left(World.CONTACT, requests, D,
                         "add_contact", "modify_contact", "remove_contact"),
                    requests[j].call, id)
           = NewMessage(World.CONTACT, requests[j].call, id)
<1> DEFINE c == requests[j].call
           ph == c.given.phone
           old == World.CONTACT
           mods == CallsOf(requests, D, "modify_contact")
           gone == {e.id : e \in CallsOf(requests, D, "remove_contact")}
           new == AddedBy(requests, D, "add_contact")
<1>1. PICK s : Selves(old) = {s}
  BY DEF Compatible, Finds
<1>2. s \in old /\ s.is_self
  BY <1>1 DEF Selves
<1>3. ASSUME NEW i \in D
      PROVE  LET e == requests[i].call
             IN  /\ Takes(e.tool, e.given) /\ Finds(World, e) /\ ~ Clash(c, e)
                 /\ requests[i].id \in Ids
  BY DEF Compatible, AreRequests
<1>4. c.tool = "send_message_with_phone_number"
  OBVIOUS
<1>5. /\ \A t \in {"add_contact", "modify_contact", "remove_contact"} :
             NamespaceOf(t) = "CONTACT"
      /\ "modify_contact" \in Modifying /\ "add_contact" \in Adding
      /\ "modify_contact" \notin Adding /\ "remove_contact" \notin Adding
      /\ "add_contact" \notin Modifying
  BY DEF NamespaceOf, Modifying, Adding
<1> HIDE DEF c, ph, old
<1>6. ASSUME NEW i \in D, requests[i].call.tool \in {"modify_contact", "remove_contact"},
             NEW r \in old, r.is_self \/ r.phone = ph
      PROVE  r.id # requests[i].call.id
  BY <1>3, <1>4, <1>5, <1>6 DEF Clash, old, ph
<1>7. ASSUME NEW i \in D,
             requests[i].call.tool \in {"add_contact", "modify_contact"},
             "phone" \in DOMAIN requests[i].call.given
      PROVE  requests[i].call.given.phone # ph
  BY <1>3, <1>4, <1>5, <1>7 DEF Clash, ph
<1>8. ASSUME NEW i \in D, requests[i].call.tool \in {"add_contact", "modify_contact"}
      PROVE  ~ ClaimsSelf(requests[i].call)
  <2> DEFINE e == requests[i].call
  <2>1. LeavesOneSelf(old, e)
    BY <1>3, <1>5, <1>8 DEF Finds, old
  <2>2. ASSUME ClaimsSelf(e) PROVE e.tool \in Modifying /\ s.id = e.id
    BY <1>1, <2>1, <2>2 DEF LeavesOneSelf
  <2> QED
    BY <1>2, <1>5, <1>6, <1>8, <2>2
<1>9. \A e \in mods : /\ ~ ClaimsSelf(e)
                      /\ "is_self" \in DOMAIN e.given => e.given.is_self \in BOOLEAN
                      /\ "phone" \in DOMAIN e.given => e.given.phone # ph
  <2>1. ASSUME NEW i \in D, requests[i].call.tool = "modify_contact"
        PROVE  "is_self" \in DOMAIN requests[i].call.given
                 => requests[i].call.given.is_self \in BOOLEAN
    <3> DEFINE e == requests[i].call
    <3>1. e.given \in [phone : Phones, is_self : BOOLEAN] \union [phone : Phones]
                        \union [is_self : BOOLEAN]
      BY <1>3, <2>1 DEF Takes, Removing
    <3> HIDE DEF e
    <3> QED
      BY <3>1 DEF e
  <2> QED
    BY <1>7, <1>8, <2>1 DEF CallsOf
<1>10. \A r \in old : r.is_self \/ r.phone = ph =>
          r.id \notin gone /\ \A e \in mods : e.id # r.id
  BY <1>6 DEF CallsOf
<1>11. \A e \in new : e.phone # ph /\ ~ e.is_self
  <2>1. ASSUME NEW i \in D, requests[i].call.tool = "add_contact"
        PROVE  LET e == NewEntry(requests[i].call, requests[i].id)
               IN  e.phone # ph /\ ~ e.is_self
    <3> DEFINE a == requests[i].call
               g == a.given
               e == NewEntry(a, requests[i].id)
    <3>1. g \in [phone : Phones, is_self : BOOLEAN]
      BY <1>3, <2>1 DEF Takes, Removing, Adding, Modifying
    <3>2. e = [f \in DOMAIN g \union {"id"} |-> IF f = "id" THEN requests[i].id ELSE g[f]]
      BY DEF NewEntry
    <3>3. ~ ClaimsSelf(a) /\ ("phone" \in DOMAIN g => g.phone # ph)
      BY <1>7, <1>8, <2>1
    <3> HIDE DEF g, e
    <3>4. DOMAIN g = {"phone", "is_self"} /\ e.phone = g.phone /\ e.is_self = g.is_self
      BY <3>1, <3>2
    <3>5. ~ g.is_self
      BY <3>3, <3>4 DEF ClaimsSelf, g
    <3> QED
      BY <3>3, <3>4, <3>5 DEF e
  <2> QED
    BY <2>1 DEF AddedBy
<1>12. Agreeing(mods)
  BY <1>5, CompatibleAgree
<1>13. \A r \in old : IsEntry(r) /\ "is_self" \in DOMAIN r /\ "phone" \in DOMAIN r
  BY EntriesOfGoodWorlds DEF old
<1> HIDE DEF mods, gone, new
<1>14. LeftAlone(old, mods, gone, new, c.given.phone)
  BY <1>9, <1>10, <1>11 DEF LeftAlone, ph
<1>15. NewMessage(Entries(old, mods, gone, new), c, id) = NewMessage(old, c, id)
  BY <1>12, <1>13, <1>14, MessageUndisturbed
<1> QED
  BY <1>15 DEF Left, mods, gone, new, old, c

LEMMA LeavesParts ==
  ASSUME NEW w, NEW requests, NEW D
  PROVE  LET v == Leaves(w, requests, D)
         IN  /\ v = [ns \in Namespaces |-> v[ns]]
             /\ v.CONTACT = Left(w.CONTACT, requests, D,
                                 "add_contact", "modify_contact", "remove_contact")
             /\ v.REMINDER = Left(w.REMINDER, requests, D,
                                  "add_reminder", "modify_reminder", "remove_reminder")
             /\ v.SETTING = IF CallsOf(requests, D, "set_cellular_service_status") = {}
                            THEN w.SETTING ELSE Setting \ w.SETTING
BY PhoneAssumption DEF Leaves

\* The requests D and one more change one namespace as its answer tells.
LEMMA LeavesOneMore ==
  ASSUME NEW U, GoodWorld(World, U), NEW n \in Nat, NEW requests, Compatible(requests, n, U),
         NEW D \in SUBSET (1..n), NEW j \in (1..n) \ D,
         NEW answer, answer.call = requests[j].call, answer.id = requests[j].id, answer.ok
  PROVE  Told(Leaves(World, requests, D), answer) = Leaves(World, requests, With(D, j))
<1> DEFINE c == requests[j].call
           id == requests[j].id
           v == Leaves(World, requests, D)
           u == Leaves(World, requests, With(D, j))
           ns == NamespaceOf(c.tool)
<1>1. /\ Takes(c.tool, c.given) /\ Finds(World, c)
      /\ answer.call = c /\ answer.id = id /\ answer.ok
  BY DEF Compatible, AreRequests
<1>2. /\ c.tool \in {"add_contact", "modify_contact", "remove_contact",
                     "add_reminder", "modify_reminder", "remove_reminder",
                     "send_message_with_phone_number", "set_cellular_service_status"}
      /\ c.tool \in {"add_contact", "modify_contact", "remove_contact"} => ns = "CONTACT"
      /\ c.tool \in {"add_reminder", "modify_reminder", "remove_reminder"} => ns = "REMINDER"
      /\ c.tool = "send_message_with_phone_number" => ns = "MESSAGING"
      /\ c.tool = "set_cellular_service_status" => ns = "SETTING"
  BY <1>1, Tools
<1>3. With(D, j) \in SUBSET (1..n)
  BY DEF With
<1>4. ASSUME NEW add, NEW modify, NEW remove, NEW old, \A r \in old : IsEntry(r),
             add \in Adding, modify \in Modifying, remove \in Removing
      PROVE  LET before == Left(old, requests, D, add, modify, remove)
                 now == Left(old, requests, With(D, j), add, modify, remove)
             IN  IsLeftBy(now, before, c, id, add, modify, remove)
  <2>1. add # modify /\ modify # remove /\ add # remove
    BY <1>4 DEF Adding, Modifying, Removing
  <2>2. Agreeing(CallsOf(requests, With(D, j), modify))
    BY <1>3, <1>4, CompatibleAgree
  <2>3. c.tool \in {modify, remove} => \A e \in AddedBy(requests, D, add) : e.id # c.id
    BY <1>4, AddedAreOther
  <2> QED
    BY <1>4, <2>1, <2>2, <2>3, LeftOneMore
<1>5. /\ c.tool = "add_contact" => u.CONTACT = v.CONTACT \union {NewEntry(c, id)}
      /\ c.tool = "modify_contact" => u.CONTACT = ChangedAmong(v.CONTACT, c)
      /\ c.tool = "remove_contact" => u.CONTACT = Without(v.CONTACT, c.id)
      /\ c.tool \notin {"add_contact", "modify_contact", "remove_contact"}
           => u.CONTACT = v.CONTACT
  <2>1. /\ v.CONTACT = Left(World.CONTACT, requests, D,
                            "add_contact", "modify_contact", "remove_contact")
        /\ u.CONTACT = Left(World.CONTACT, requests, With(D, j),
                            "add_contact", "modify_contact", "remove_contact")
    BY LeavesParts
  <2>2. \A r \in World.CONTACT : IsEntry(r)
    BY EntriesOfGoodWorlds
  <2>3. "add_contact" \in Adding /\ "modify_contact" \in Modifying /\ "remove_contact" \in Removing
    BY DEF Adding, Modifying, Removing
  <2> HIDE DEF c, id, u, v
  <2> QED
    BY <1>4, <2>1, <2>2, <2>3 DEF IsLeftBy
<1>6. /\ c.tool = "add_reminder" => u.REMINDER = v.REMINDER \union {NewEntry(c, id)}
      /\ c.tool = "modify_reminder" => u.REMINDER = ChangedAmong(v.REMINDER, c)
      /\ c.tool = "remove_reminder" => u.REMINDER = Without(v.REMINDER, c.id)
      /\ c.tool \notin {"add_reminder", "modify_reminder", "remove_reminder"}
           => u.REMINDER = v.REMINDER
  <2>1. /\ v.REMINDER = Left(World.REMINDER, requests, D,
                            "add_reminder", "modify_reminder", "remove_reminder")
        /\ u.REMINDER = Left(World.REMINDER, requests, With(D, j),
                            "add_reminder", "modify_reminder", "remove_reminder")
    BY LeavesParts
  <2>2. \A r \in World.REMINDER : IsEntry(r)
    BY EntriesOfGoodWorlds
  <2>3. /\ "add_reminder" \in Adding /\ "modify_reminder" \in Modifying
        /\ "remove_reminder" \in Removing
    BY DEF Adding, Modifying, Removing
  <2> HIDE DEF c, id, u, v
  <2> QED
    BY <1>4, <2>1, <2>2, <2>3 DEF IsLeftBy
<1>7. /\ c.tool = "send_message_with_phone_number" =>
           u.MESSAGING = v.MESSAGING \union {NewMessage(v.CONTACT, c, id)}
      /\ c.tool # "send_message_with_phone_number" => u.MESSAGING = v.MESSAGING
  <2> DEFINE Msg(i) == NewMessage(World.CONTACT, requests[i].call, requests[i].id)
             before == {i \in D : requests[i].call.tool = "send_message_with_phone_number"}
             now == {i \in With(D, j) :
                        requests[i].call.tool = "send_message_with_phone_number"}
  <2>1. /\ v.MESSAGING = World.MESSAGING \union {Msg(i) : i \in before}
        /\ u.MESSAGING = World.MESSAGING \union {Msg(i) : i \in now}
    BY PhoneAssumption DEF Leaves
  <2>2. /\ c.tool = "send_message_with_phone_number" => now = before \union {j}
        /\ c.tool # "send_message_with_phone_number" => now = before
    BY DEF With
  <2>3. c.tool = "send_message_with_phone_number" => NewMessage(v.CONTACT, c, id) = Msg(j)
    <3>1. v.CONTACT = Left(World.CONTACT, requests, D,
                           "add_contact", "modify_contact", "remove_contact")
      BY LeavesParts
    <3> HIDE DEF v
    <3> QED
      BY <3>1, MessageIsSame
  <2> HIDE DEF v, u, Msg, before, now, c, id
  <2> QED
    BY <2>1, <2>2, <2>3
<1>8. /\ c.tool = "set_cellular_service_status" => u.SETTING = {c.given}
      /\ c.tool # "set_cellular_service_status" => u.SETTING = v.SETTING
  <2> DEFINE t == "set_cellular_service_status"
  <2>1. /\ v.SETTING = IF CallsOf(requests, D, t) = {}
                       THEN World.SETTING ELSE Setting \ World.SETTING
        /\ u.SETTING = IF CallsOf(requests, With(D, j), t) = {}
                       THEN World.SETTING ELSE Setting \ World.SETTING
    BY LeavesParts
  <2>2. /\ c.tool = t => CallsOf(requests, With(D, j), t) = CallsOf(requests, D, t) \union {c}
        /\ c.tool # t => CallsOf(requests, With(D, j), t) = CallsOf(requests, D, t)
    BY OneMoreCall
  <2>3. ASSUME c.tool = t PROVE Setting \ World.SETTING = {c.given}
    <3>1. c.given \in Setting /\ c.given \notin World.SETTING
      <4> HIDE DEF c
      <4> QED
        BY <1>1, <2>3 DEF Takes, Finds, Removing
    <3>2. PICK s \in Setting : World.SETTING = {s}
      BY DEF GoodWorld
    <3>3. Setting = {[cellular |-> TRUE], [cellular |-> FALSE]}
      <4>1. \A r \in Setting : r = [cellular |-> r.cellular] /\ r.cellular \in BOOLEAN
        BY DEF Setting
      <4>2. [cellular |-> TRUE] \in Setting /\ [cellular |-> FALSE] \in Setting
        BY DEF Setting
      <4> QED
        BY <4>1, <4>2
    <3> HIDE DEF c
    <3> QED
      BY <3>1, <3>2, <3>3
  <2> HIDE DEF v, u, c
  <2> QED
    BY <2>1, <2>2, <2>3
<1>9. /\ u = [x \in Namespaces |-> u[x]] /\ v = [x \in Namespaces |-> v[x]]
      /\ Namespaces = {"CONTACT", "MESSAGING", "REMINDER", "SETTING"}
  BY PhoneAssumption DEF Leaves
<1> DEFINE rows == u[ns]
<1>10. u = [v EXCEPT ![ns] = rows]
  <2> HIDE DEF u, v, c, ns
  <2>1. ASSUME NEW x \in Namespaces, x # ns PROVE u[x] = v[x]
    BY <1>2, <1>5, <1>6, <1>7, <1>8, <1>9, <2>1
  <2>2. ns \in Namespaces
    BY <1>2, <1>9
  <2> QED
    BY <1>9, <2>1, <2>2
<1>11. Told(v, answer) = [v EXCEPT ![ns] = rows]
  <2> HIDE DEF u, v, c, ns, id
  <2>1. CASE c.tool \in Adding
    <3>1. Told(v, answer) = [v EXCEPT ![ns] = v[ns] \union {NewEntry(c, id)}]
      BY <1>1, <2>1 DEF Told, ns, Adding, Modifying, Removing
    <3>2. rows = v[ns] \union {NewEntry(c, id)}
      BY <1>2, <1>5, <1>6, <2>1 DEF Adding
    <3> QED
      BY <3>1, <3>2
  <2>2. CASE c.tool \in Modifying
    <3>1. Told(v, answer) = [v EXCEPT ![ns] = ChangedAmong(v[ns], c)]
      <4>1. Told(v, answer)
              = [v EXCEPT ![ns] = {IF r.id = c.id THEN Changed(r, c) ELSE r : r \in v[ns]}]
        BY <1>1, <2>2 DEF Told, ns, Adding, Modifying, Removing
      <4> QED
        BY <4>1 DEF ChangedAmong
    <3>2. rows = ChangedAmong(v[ns], c)
      BY <1>2, <1>5, <1>6, <2>2 DEF Modifying
    <3> QED
      BY <3>1, <3>2
  <2>3. CASE c.tool \in Removing
    <3>1. Told(v, answer) = [v EXCEPT ![ns] = Without(v[ns], c.id)]
      BY <1>1, <2>3 DEF Told, ns, Adding, Modifying, Removing, Without
    <3>2. rows = Without(v[ns], c.id)
      BY <1>2, <1>5, <1>6, <2>3 DEF Removing
    <3> QED
      BY <3>1, <3>2
  <2>4. CASE c.tool = "send_message_with_phone_number"
    <3>1. Told(v, answer) = [v EXCEPT ![ns] = v[ns] \union {NewMessage(v.CONTACT, c, id)}]
      BY <1>1, <2>4 DEF Told, ns, Adding, Modifying, Removing
    <3>2. rows = v[ns] \union {NewMessage(v.CONTACT, c, id)}
      BY <1>2, <1>7, <2>4
    <3> QED
      BY <3>1, <3>2
  <2>5. CASE c.tool = "set_cellular_service_status"
    <3>1. Told(v, answer) = [v EXCEPT ![ns] = {c.given}]
      BY <1>1, <2>5 DEF Told, ns, Adding, Modifying, Removing
    <3>2. rows = {c.given}
      BY <1>2, <1>8, <2>5
    <3> QED
      BY <3>1, <3>2
  <2> QED
    BY <1>2, <2>1, <2>2, <2>3, <2>4, <2>5 DEF Adding, Modifying, Removing
<1> QED
  BY <1>10, <1>11 DEF u, v

LEMMA NothingDone ==
  ASSUME NEW U, GoodWorld(World, U), NEW requests
  PROVE  Leaves(World, requests, {}) = World
<1> DEFINE v == Leaves(World, requests, {})
<1>1. ASSUME NEW old, \A r \in old : IsEntry(r), NEW add, NEW modify, NEW remove
      PROVE  Left(old, requests, {}, add, modify, remove) = old
  <2>1. Left(old, requests, {}, add, modify, remove) = Entries(old, {}, {}, {})
    BY DEF Left, CallsOf, AddedBy
  <2>2. Entries(old, {}, {}, {}) = {Merged(r, {}) : r \in old}
    BY DEF Entries
  <2>3. \A r \in old : Merged(r, {}) = r
    BY <1>1, MergedNever
  <2> QED
    BY <2>1, <2>2, <2>3
<1>2. v.CONTACT = World.CONTACT /\ v.REMINDER = World.REMINDER
  <2>1. (\A r \in World.CONTACT : IsEntry(r)) /\ \A r \in World.REMINDER : IsEntry(r)
    BY EntriesOfGoodWorlds
  <2>2. /\ v.CONTACT = Left(World.CONTACT, requests, {},
                            "add_contact", "modify_contact", "remove_contact")
        /\ v.REMINDER = Left(World.REMINDER, requests, {},
                             "add_reminder", "modify_reminder", "remove_reminder")
    BY LeavesParts
  <2> HIDE DEF v
  <2>3. v.CONTACT = World.CONTACT
    BY <1>1, <2>1, <2>2
  <2>4. v.REMINDER = World.REMINDER
    BY <1>1, <2>1, <2>2
  <2> QED
    BY <2>3, <2>4
<1>3. v.MESSAGING = World.MESSAGING /\ v.SETTING = World.SETTING
  BY PhoneAssumption DEF Leaves, CallsOf
<1>4. /\ v = [ns \in Namespaces |-> v[ns]] /\ World = [ns \in Namespaces |-> World[ns]]
      /\ Namespaces = {"CONTACT", "MESSAGING", "REMINDER", "SETTING"}
  BY PhoneAssumption DEF Leaves, World
<1> HIDE DEF v
<1> QED
  BY <1>2, <1>3, <1>4 DEF v

\* An order runs every request.
LEMMA OrdersRunAll ==
  ASSUME NEW n \in Nat, NEW p \in Orders(n)
  PROVE  {p[i] : i \in 1..n} = 1..n
<1>1. IsFiniteSet(1..n)
  BY FS_Interval
<1>2. p \in [1..n -> 1..n] /\ \A a, b \in 1..n : p[a] = p[b] => a = b
  BY DEF Orders, IsInjective
<1>3. p \in Injection(1..n, 1..n)
  BY <1>2 DEF Injection, IsInjective
<1>4. p \in Surjection(1..n, 1..n)
  BY <1>1, <1>3, FS_Injection
<1> QED
  BY <1>2, <1>4 DEF Surjection

\* The answers to compatible requests tell the same in whatever order.
LEMMA ToldInAnyOrder ==
  ASSUME NEW U, GoodWorld(World, U), NEW n \in Nat, NEW requests, Compatible(requests, n, U),
         NEW p \in Orders(n), NEW batch, Len(batch) = n,
         \A i \in 1..n : /\ batch[i].call = requests[p[i]].call
                         /\ batch[i].id = requests[p[i]].id /\ batch[i].ok
  PROVE  ToldByAll(World, batch) = Leaves(World, requests, 1..n)
<1>1. PICK g : TellsThrough(g, n, World, batch)
  BY BatchIsTold
<1> DEFINE Upto(i) == {p[j] : j \in 1..i}
           T == {i \in 0..n : g[i] = Leaves(World, requests, Upto(i))}
<1>2. p \in [1..n -> 1..n] /\ \A a, b \in 1..n : p[a] = p[b] => a = b
  BY DEF Orders, IsInjective
<1>3. 0 \in T
  <2>1. Upto(0) = {}
    OBVIOUS
  <2>2. g[0] = World
    BY <1>1 DEF TellsThrough
  <2>3. g[0] = Leaves(World, requests, Upto(0))
    <3> HIDE DEF Upto
    <3> QED
      BY <2>1, <2>2, NothingDone
  <2>4. 0 \in 0..n
    OBVIOUS
  <2> HIDE DEF Upto
  <2> QED
    BY <2>3, <2>4
<1>4. ASSUME NEW i \in 1..n, i - 1 \in T PROVE i \in T
  <2> DEFINE D == Upto(i - 1)
             j == p[i]
             answer == batch[i]
  <2>1. g[i - 1] = Leaves(World, requests, D)
    BY <1>4
  <2>2. Upto(i) = With(D, j)
    <3>1. \A x : x \in 1..i <=> x \in 1..(i - 1) \/ x = i
      OBVIOUS
    <3> QED
      BY <3>1 DEF With
  <2>3. D \in SUBSET (1..n) /\ j \in (1..n) \ D
    <3>1. \A x \in 1..(i - 1) : x \in 1..n /\ x # i
      OBVIOUS
    <3> QED
      BY <1>2, <3>1
  <2>4. answer.call = requests[j].call /\ answer.id = requests[j].id /\ answer.ok
    OBVIOUS
  <2>5. g[i] = Told(g[i - 1], answer)
    BY <1>1 DEF TellsThrough
  <2> HIDE DEF D, j, answer
  <2>6. Told(Leaves(World, requests, D), answer) = Leaves(World, requests, With(D, j))
    BY <2>3, <2>4, LeavesOneMore
  <2>7. g[i] = Leaves(World, requests, Upto(i))
    <3> HIDE DEF Upto
    <3> QED
      BY <2>1, <2>2, <2>5, <2>6
  <2> HIDE DEF Upto
  <2> QED
    BY <2>7
<1> HIDE DEF T
<1>5. n \in T
  <2>1. n \in 0..n
    OBVIOUS
  <2> QED
    BY <1>3, <1>4, <2>1, UpTo
<1>6. g[n] = Leaves(World, requests, Upto(n))
  BY <1>5 DEF T
<1>7. Upto(n) = 1..n
  BY OrdersRunAll
<1> HIDE DEF Upto
<1> QED
  BY <1>1, <1>6, <1>7 DEF TellsThrough

-----------------------------------------------------------------------------
\* The answers to a batch that is run in some order.
LEMMA AnswersOfAnOrder ==
  ASSUME NEW ctx, ctx.answers = <<>>, NEW n \in Nat, NEW requests, Len(requests) = n,
         NEW p \in Orders(n)
  PROVE  LET batch == RunInOrder(ctx, requests, p).answers
         IN  /\ Len(batch) = n /\ DOMAIN batch = 1..n
             /\ \A i \in 1..n : /\ batch[i].call = requests[p[i]].call
                                /\ batch[i].id = requests[p[i]].id
             /\ n > 0 => batch[1].ok = Returns(ctx.dbs, ctx.at, requests[p[1]].call)
<1>1. PICK f : RunsThrough(f, n, ctx, requests, p)
  BY OrderIsRun
<1> DEFINE k == ctx.at
<1>2. /\ Len(f[n].answers) = n /\ DOMAIN f[n].answers = 1..n
      /\ \A i \in 1..n : f[n].answers[i] = Answer(f[i - 1].dbs, k,
                                                  requests[p[i]].id, requests[p[i]].call)
  <2>1. ctx.at = k
    OBVIOUS
  <2> HIDE DEF k
  <2> QED
    BY <1>1, <2>1, AnswersInOrder
<1>3. f[n] = RunInOrder(ctx, requests, p) /\ f[0] = ctx
  BY <1>1 DEF RunsThrough
<1>4. \A i \in 1..n : /\ f[n].answers[i].call = requests[p[i]].call
                      /\ f[n].answers[i].id = requests[p[i]].id
                      /\ f[n].answers[i].ok = Returns(f[i - 1].dbs, k, requests[p[i]].call)
  <2> SUFFICES ASSUME NEW i \in 1..n
               PROVE  /\ f[n].answers[i].call = requests[p[i]].call
                      /\ f[n].answers[i].id = requests[p[i]].id
                      /\ f[n].answers[i].ok = Returns(f[i - 1].dbs, k, requests[p[i]].call)
    OBVIOUS
  <2> DEFINE c == requests[p[i]].call
             id == requests[p[i]].id
             d == f[i - 1].dbs
             a == f[n].answers[i]
  <2>1. a = Answer(d, k, id, c)
    BY <1>2
  <2> HIDE DEF c, id, d, a, k
  <2>2. a.call = c /\ a.id = id /\ a.ok = Returns(d, k, c)
    BY <2>1 DEF Answer
  <2> QED
    BY <2>2 DEF c, id, d, a
<1>5. n > 0 => f[n].answers[1].ok = Returns(f[0].dbs, k, requests[p[1]].call)
  BY <1>4
<1> QED
  BY <1>2, <1>3, <1>4, <1>5

\* Requests that succeed in every order succeed first.
LEMMA EachSucceedsAlone ==
  ASSUME NEW ctx, ctx.answers = <<>>, NEW n \in Nat, NEW requests, Len(requests) = n,
         \A p \in Orders(n) : Succeeds(RunInOrder(ctx, requests, p))
  PROVE  \A i \in 1..n : Returns(ctx.dbs, ctx.at, requests[i].call)
<1> SUFFICES ASSUME NEW i \in 1..n PROVE Returns(ctx.dbs, ctx.at, requests[i].call)
  OBVIOUS
<1> DEFINE p == [x \in 1..n |-> IF x = 1 THEN i ELSE IF x = i THEN 1 ELSE x]
<1>1. p \in Orders(n) /\ p[1] = i
  BY DEF Orders, IsInjective
<1> HIDE DEF p
<1>2. Succeeds(RunInOrder(ctx, requests, p))
  BY <1>1
<1>3. 1 \in 1..n /\ n > 0
  OBVIOUS
<1>4. RunInOrder(ctx, requests, p).answers[1].ok
  BY <1>1, <1>2, <1>3, AnswersOfAnOrder DEF Succeeds
<1> QED
  BY <1>1, <1>3, <1>4, AnswersOfAnOrder

\* A call that succeeds has found what it needs.
LEMMA SuccessFinds ==
  ASSUME NEW k \in Index, NEW d, NEW U, SoundTables(d, k, U), Seen(d, k) = World,
         NEW c, Takes(c.tool, c.given), Returns(d, k, c)
  PROVE  Finds(World, c)
<1> DEFINE ns == NamespaceOf(c.tool)
<1>1. /\ Rows(d, ns, k) = World[ns] /\ Rows(d, "CONTACT", k) = World.CONTACT
      /\ GoodContacts(World.CONTACT, U)
      /\ ns \in {"CONTACT", "REMINDER"} => \E V : Distinct(World[ns], V)
  <2>1. ns \in Namespaces /\ {"CONTACT", "REMINDER"} \subseteq Namespaces
    BY Tools, PhoneAssumption
  <2>2. \A x \in Namespaces : Rows(d, x, k) = World[x]
    <3>1. \A x \in Namespaces : Seen(d, k)[x] = Rows(d, x, k)
      BY DEF Seen
    <3> QED
      BY <3>1
  <2>3. Distinct(World["CONTACT"], U) /\ Distinct(World["REMINDER"], U)
    BY <2>1, <2>2 DEF SoundTables, GoodContacts, GoodReminders
  <2> QED
    BY <2>1, <2>2, <2>3 DEF SoundTables
<1>2. /\ c.tool \in Modifying \union Removing => ns \in {"CONTACT", "REMINDER"}
      /\ c.tool = "set_cellular_service_status" => ns = "SETTING"
  BY Tools DEF Modifying, Removing
<1> HIDE DEF ns
<1>3. c.tool \in Adding \union Modifying => LeavesOneSelf(World.CONTACT, c)
  BY <1>1 DEF Returns, Adding, Modifying, Removing
<1>4. c.tool \in Modifying => \E r \in World[ns] : r.id = c.id
  <2>1. SUFFICES ASSUME c.tool \in Modifying PROVE \E r \in World[ns] : r.id = c.id
    OBVIOUS
  <2>2. Cardinality(Named(World[ns], c)) = 1
    BY <1>1, <2>1 DEF Returns, Adding, Modifying, Removing, ns
  <2>3. PICK V : Distinct(World[ns], V)
    BY <1>1, <1>2, <2>1
  <2> QED
    BY <2>2, <2>3, NamedIsOne
<1>5. c.tool \in Removing => \E r \in World[ns] : r.id = c.id
  BY <1>1 DEF Returns, Adding, Modifying, Removing, Named, ns
<1>6. c.tool = "send_message_with_phone_number" => \E s : Selves(World.CONTACT) = {s}
  <2>1. \A r, s \in Selves(World.CONTACT) : r = s
    BY <1>1 DEF GoodContacts, OneSelf, Selves
  <2>2. c.tool = "send_message_with_phone_number" => Cardinality(Selves(World.CONTACT)) = 1
    BY <1>1 DEF Returns, Adding, Modifying, Removing
  <2> QED
    BY <2>1, <2>2, CountOfOne
<1>7. c.tool = "set_cellular_service_status" => c.given \notin World.SETTING
  BY <1>1, <1>2 DEF Returns, Adding, Modifying, Removing, ns
<1> QED
  BY <1>3, <1>4, <1>5, <1>6, <1>7 DEF Finds, ns

\* Of all orders, that of the message is the first.
LEMMA FirstIsAsAsked ==
  ASSUME NEW n \in Nat
  PROVE  [i \in 1..n |-> i] \in Orders(n) /\ FirstOf(Orders(n)) = [i \in 1..n |-> i]
<1> DEFINE asked == [i \in 1..n |-> i]
           p == FirstOf(Orders(n))
<1>1. asked \in Orders(n)
  BY DEF Orders, IsInjective
<1>2. p \in Orders(n) /\ \A s \in Orders(n) \ {p} : Precedes(p, s)
  <2> DEFINE R == Orders(n)
  <2>1. R \in SUBSET Orders(n) /\ R # {}
    BY <1>1
  <2> HIDE DEF R
  <2>2. FirstOf(R) \in R /\ \A s \in R \ {FirstOf(R)} : Precedes(FirstOf(R), s)
    BY <2>1, FirstOfIsOne
  <2> QED
    BY <2>2 DEF R
<1>3. asked = p
  <2>1. SUFFICES ASSUME asked # p PROVE FALSE
    OBVIOUS
  <2> HIDE DEF p
  <2>2. p \in [1..n -> 1..n] /\ \A a, b \in 1..n : p[a] = p[b] => a = b
    BY <1>2 DEF Orders, IsInjective
  <2>3. PICK i \in 1..n : p[i] < i /\ \A j \in 1..(i - 1) : p[j] = j
    <3>1. Precedes(p, asked)
      BY <1>1, <1>2, <2>1
    <3>2. DOMAIN p = 1..n
      BY <2>2
    <3>3. PICK i \in 1..n : p[i] < asked[i] /\ \A j \in 1..(i - 1) : p[j] = asked[j]
      BY <3>1, <3>2 DEF Precedes
    <3>4. asked[i] = i /\ \A j \in 1..(i - 1) : asked[j] = j
      OBVIOUS
    <3> QED
      BY <3>3, <3>4
  <2>4. p[i] \in 1..n /\ p[i] \in 1..(i - 1)
    BY <2>2, <2>3
  <2>5. p[p[i]] = p[i]
    BY <2>3, <2>4
  <2> QED
    BY <2>2, <2>3, <2>4, <2>5
<1> QED
  BY <1>1, <1>3

OneRow(w) == DOMAIN w = Namespaces /\ \E s \in Setting : w.SETTING = {s}

\* The settings stay one row, whatever is told.
LEMMA SettingsStay ==
  ASSUME NEW w, OneRow(w), NEW answer, Takes(answer.call.tool, answer.call.given)
  PROVE  OneRow(Told(w, answer))
<1> DEFINE c == answer.call
           ns == NamespaceOf(c.tool)
           v == Told(w, answer)
<1>1. /\ c.tool \in {"add_contact", "modify_contact", "remove_contact",
                     "add_reminder", "modify_reminder", "remove_reminder",
                     "send_message_with_phone_number", "set_cellular_service_status"}
      /\ c.tool # "set_cellular_service_status" => ns # "SETTING"
      /\ c.tool = "set_cellular_service_status" => ns = "SETTING" /\ c.given \in Setting
  BY Tools DEF Takes, Removing
<1>2. {"SETTING"} \subseteq Namespaces
  BY PhoneAssumption
<1>3. CASE ~ answer.ok
  BY <1>3 DEF Told
<1>4. CASE answer.ok /\ c.tool = "set_cellular_service_status"
  <2>1. v = [w EXCEPT !["SETTING"] = {c.given}]
    BY <1>1, <1>4 DEF Told, Adding, Modifying, Removing
  <2> QED
    BY <1>1, <1>2, <1>4, <2>1 DEF OneRow
<1>5. CASE answer.ok /\ c.tool # "set_cellular_service_status"
  <2>1. PICK rows : v = [w EXCEPT ![ns] = rows]
    BY <1>1, <1>5 DEF Told, Adding, Modifying, Removing
  <2> HIDE DEF v, ns
  <2>2. DOMAIN v = Namespaces /\ v["SETTING"] = w["SETTING"]
    BY <1>1, <1>2, <1>5, <2>1 DEF OneRow
  <2> QED
    BY <2>2 DEF OneRow, v
<1> QED
  BY <1>3, <1>4, <1>5

LEMMA SettingsStayThroughout ==
  ASSUME NEW w, OneRow(w), NEW n \in Nat, NEW batch, Len(batch) = n,
         \A i \in 1..n : Takes(batch[i].call.tool, batch[i].call.given)
  PROVE  OneRow(ToldByAll(w, batch))
<1>1. PICK f : TellsThrough(f, n, w, batch)
  BY BatchIsTold
<1> DEFINE T == {i \in 0..n : OneRow(f[i])}
<1>2. 0 \in T
  BY <1>1 DEF TellsThrough
<1>3. ASSUME NEW i \in 1..n, i - 1 \in T PROVE i \in T
  <2>1. f[i] = Told(f[i - 1], batch[i])
    BY <1>1 DEF TellsThrough
  <2>2. OneRow(Told(f[i - 1], batch[i]))
    BY <1>3, SettingsStay
  <2> QED
    BY <2>1, <2>2
<1>4. n \in 0..n
  OBVIOUS
<1> HIDE DEF T
<1>5. n \in T
  BY <1>2, <1>3, <1>4, UpTo
<1> QED
  BY <1>1, <1>5 DEF T, TellsThrough

\* A batch that is accepted succeeds in every order, and is run as it was asked.
LEMMA AcceptedAsAsked ==
  ASSUME NEW ctx, NEW n \in Nat, NEW requests, Len(requests) = n,
         Succeeds(RunAllOrders(ctx, requests))
  PROVE  /\ \A p \in Orders(n) : Succeeds(RunInOrder(ctx, requests, p))
         /\ RunAllOrders(ctx, requests) = RunInOrder(ctx, requests, [i \in 1..n |-> i])
<1> DEFINE outcome == Outcomes(ctx, requests)
           failing == {p \in DOMAIN outcome : ~ Succeeds(outcome[p])}
           R == IF failing = {} THEN DOMAIN outcome ELSE failing
<1>1. outcome = [p \in Orders(n) |-> RunInOrder(ctx, requests, p)]
  BY DEF Outcomes
<1>2. RunAllOrders(ctx, requests) = outcome[FirstOf(R)]
  BY DEF RunAllOrders
<1> HIDE DEF outcome
<1>3. failing = {}
  <2>1. SUFFICES ASSUME failing # {} PROVE FALSE
    OBVIOUS
  <2>2. R = failing /\ R \in SUBSET Orders(n) /\ R # {}
    BY <1>1, <2>1
  <2> HIDE DEF R
  <2>3. FirstOf(R) \in R
    BY <2>2, FirstOfIsOne
  <2> QED
    BY <1>2, <2>2, <2>3
<1>4. R = Orders(n)
  BY <1>1, <1>3
<1>5. FirstOf(R) = [i \in 1..n |-> i] /\ [i \in 1..n |-> i] \in Orders(n)
  <2> HIDE DEF R
  <2> QED
    BY <1>4, FirstIsAsAsked
<1> HIDE DEF R
<1> QED
  BY <1>1, <1>2, <1>3, <1>5

\* Every order of requests that succeed in every order, and of which no two
\* clash, leaves the same.
LEMMA EveryOrderLeaves ==
  ASSUME NEW k \in Index, NEW U, NEW n \in Nat, NEW requests, AreRequests(requests, n, U),
         NEW ctx, Begins(ctx, k, U), Seen(ctx.dbs, k) = World, OneRow(World),
         \A p \in Orders(n) : Succeeds(RunInOrder(ctx, requests, p)),
         \A i, j \in 1..n : i # j => ~ Clash(requests[i].call, requests[j].call),
         NEW p \in Orders(n), ~ RunInOrder(ctx, requests, p).reverted
  PROVE  /\ RunInOrder(ctx, requests, p).at = k
         /\ Seen(RunInOrder(ctx, requests, p).dbs, k) = Leaves(World, requests, 1..n)
<1> DEFINE end == RunInOrder(ctx, requests, p)
<1>1. /\ ctx.at = k /\ ctx.answers = <<>> /\ SoundTables(ctx.dbs, k, U)
      /\ Len(requests) = n
  BY DEF Begins, AreRequests
<1>2. GoodWorld(World, U)
  <2>1. World.CONTACT = Rows(ctx.dbs, "CONTACT", k) /\ World.REMINDER = Rows(ctx.dbs, "REMINDER", k)
    <3>1. {"CONTACT", "REMINDER"} \subseteq Namespaces
      BY PhoneAssumption
    <3>2. /\ Seen(ctx.dbs, k).CONTACT = Rows(ctx.dbs, "CONTACT", k)
          /\ Seen(ctx.dbs, k).REMINDER = Rows(ctx.dbs, "REMINDER", k)
      BY <3>1 DEF Seen
    <3> QED
      BY <3>2
  <2>2. OneRow(World)
    OBVIOUS
  <2> QED
    BY <1>1, <2>1, <2>2 DEF GoodWorld, OneRow, SoundTables
<1>3. \A i \in 1..n : Returns(ctx.dbs, k, requests[i].call)
  BY <1>1, EachSucceedsAlone
<1>4. ASSUME NEW i \in 1..n PROVE Finds(World, requests[i].call)
  <2> DEFINE c == requests[i].call
  <2>1. Takes(c.tool, c.given) /\ Returns(ctx.dbs, k, c)
    BY <1>3 DEF AreRequests
  <2> HIDE DEF c
  <2>2. Finds(World, c)
    BY <1>1, <2>1, SuccessFinds
  <2> QED
    BY <2>2 DEF c
<1>5. Compatible(requests, n, U)
  BY <1>4 DEF Compatible
<1>6. /\ Len(end.answers) = n /\ DOMAIN end.answers = 1..n
      /\ \A i \in 1..n : /\ end.answers[i].call = requests[p[i]].call
                         /\ end.answers[i].id = requests[p[i]].id
                         /\ end.answers[i].ok
  <2>1. Succeeds(end)
    OBVIOUS
  <2> QED
    BY <1>1, <2>1, AnswersOfAnOrder DEF Succeeds
<1>7. Explained(ctx, end, k, U \union IdsOf(requests, n))
  BY OrderIsTold
<1>8. end.at = k
  <2>1. PICK f : RunsThrough(f, n, ctx, requests, p)
    BY <1>1, OrderIsRun
  <2>2. f[n].at = k
    <3>1. n \in 0..n
      OBVIOUS
    <3> QED
      BY <1>1, <2>1, <3>1, AnswersInOrder
  <2> QED
    BY <2>1, <2>2 DEF RunsThrough
<1>9. ~ end.reverted
  OBVIOUS
<1> HIDE DEF end
<1>10. Seen(end.dbs, k) = ToldByAll(World, end.answers)
  BY <1>7, <1>9 DEF Explained
<1> DEFINE batch == end.answers
<1>11. Len(batch) = n /\ \A i \in 1..n : /\ batch[i].call = requests[p[i]].call
                                         /\ batch[i].id = requests[p[i]].id /\ batch[i].ok
  BY <1>6
<1> HIDE DEF batch
<1>12. ToldByAll(World, batch) = Leaves(World, requests, 1..n)
  BY <1>2, <1>5, <1>11, ToldInAnyOrder
<1> QED
  BY <1>8, <1>10, <1>12 DEF end, batch

-----------------------------------------------------------------------------
\* What the environment begins a batch with, and what it leaves of it.
LEMMA BatchBegins ==
  ASSUME PhoneIInv, NEW n \in Nat \ {0}, NEW calls \in [1..n -> AgentCalls], CallTools(calls)
  PROVE  LET k == CurrentIndex + n
             end == RunAllOrders(Start(n), Requests(calls))
         IN  /\ k \in Index /\ CurrentIndex' \in Index /\ k < CurrentIndex'
             /\ Begins(Start(n), k, Used) /\ Seen(Start(n).dbs, k) = World
             /\ AreRequests(Requests(calls), n, Used)
             /\ dbs' = end.dbs /\ answers' = end.answers /\ reverted' = end.reverted
<1> DEFINE k        == CurrentIndex + n
           ctx      == Start(n)
<1>0. MaxIndex \in Nat /\ maxIndex \in Nat /\ maxIndex \in 1..(MaxIndex - 1)
  BY ConstantsAssumption DEF PhoneIInv
<1>1. Len(calls) = n
  OBVIOUS
<1>2. /\ maxIndex + 2 * n < MaxIndex /\ maxIndex' = maxIndex + 2 * n
      /\ SoundTables(dbs, CurrentIndex, Used)
  BY <1>1 DEF CallTools, PhoneIInv
<1>3. LET end == RunAllOrders(ctx, Requests(calls))
      IN  dbs' = end.dbs /\ answers' = end.answers /\ reverted' = end.reverted
  BY <1>1 DEF CallTools
<1>4. AreRequests(Requests(calls), n, Used)
  BY <1>0, <1>2, BatchesAreRequests
<1>5. /\ CurrentIndex \in Index /\ k \in Index /\ CurrentIndex' \in Index
      /\ CurrentIndex < k /\ k < CurrentIndex'
  BY <1>0, <1>2 DEF CurrentIndex, Index
<1>6. SoundTables(dbs, k, Used) /\ Seen(dbs, k) = Seen(dbs, CurrentIndex)
  BY <1>2, <1>5, MessagesChangeNothing
<1>7. ctx.dbs = dbs /\ ctx.at = k /\ ~ ctx.reverted /\ ctx.answers = <<>>
  BY DEF Start
<1>8. World = Seen(dbs, CurrentIndex)
  BY DEF World, Seen
<1> HIDE DEF ctx, k
<1>9. Begins(ctx, k, Used) /\ Seen(ctx.dbs, k) = World
  BY <1>6, <1>7, <1>8 DEF Begins
<1> QED
  BY <1>3, <1>4, <1>5, <1>9 DEF ctx, k

(* Unless an earlier snapshot came back, the settings are one row.          *)
PhoneSettled == reverted \/ OneRow(World)

LEMMA BatchKeepsSettings ==
  ASSUME PhoneIInv, PhoneSettled,
         NEW n \in Nat \ {0}, NEW calls \in [1..n -> AgentCalls], CallTools(calls)
  PROVE  PhoneSettled'
<1> SUFFICES ASSUME ~ reverted' PROVE OneRow(World')
  BY DEF PhoneSettled
<1> DEFINE ctx == Start(n)
           requests == Requests(calls)
<1>1. /\ ctx.answers = <<>> /\ n \in Nat
      /\ AreRequests(requests, n, Used) /\ answers' = RunAllOrders(ctx, requests).answers
  BY BatchBegins DEF Begins
<1>2. OneRow(World)
  BY DEF PhoneSettled, CallTools
<1>3. World' = ToldByAll(World, answers')
  BY BatchEffect
<1> HIDE DEF ctx, requests
<1>4. Len(requests) = n
  BY <1>1 DEF AreRequests
<1>5. PICK p \in Orders(n) : RunAllOrders(ctx, requests) = RunInOrder(ctx, requests, p)
  BY <1>1, <1>4, OneOrderIsKept
<1> DEFINE batch == answers'
<1>6. Len(batch) = n /\ \A i \in 1..n : batch[i].call = requests[p[i]].call
  BY <1>1, <1>4, <1>5, AnswersOfAnOrder
<1>7. \A i \in 1..n : p[i] \in 1..n
  BY DEF Orders
<1>8. \A i \in 1..n : Takes(batch[i].call.tool, batch[i].call.given)
  BY <1>1, <1>6, <1>7 DEF AreRequests
<1> HIDE DEF batch
<1>9. OneRow(ToldByAll(World, batch))
  BY <1>1, <1>2, <1>6, <1>8, SettingsStayThroughout
<1> QED
  BY <1>3, <1>9 DEF batch

LEMMA SettledAtFirst ==
  ASSUME PhoneInit
  PROVE  PhoneSettled
<1>1. /\ 1 \in Index /\ 2 \in Index /\ 1 < 2 /\ CurrentIndex = 2
      /\ "SETTING" \in Namespaces /\ {"CONTACT", "REMINDER"} \subseteq Namespaces
  BY ConstantsAssumption, PhoneAssumption DEF PhoneInit, CurrentIndex, Index
<1>2. dbs = [ns \in Namespaces |-> BaseTable(ns)]
  BY DEF PhoneInit
<1>3. WellFormed(dbs["SETTING"], 1) /\ GetDatabase(dbs["SETTING"], 1) = BaseContent("SETTING")
  BY <1>1, <1>2, BaseTables
<1>4. GetDatabase(dbs["SETTING"], 2) = BaseContent("SETTING")
  <2>1. 1 \in Nat /\ 2 \in Nat /\ 2 \in 1..2
    OBVIOUS
  <2> QED
    BY <1>1, <1>3, <2>1, CommitCarriesOver
<1>5. World["SETTING"] = BaseContent("SETTING") /\ DOMAIN World = Namespaces
  BY <1>1, <1>4 DEF World, Rows
<1> QED
  BY <1>5, PhoneAssumption DEF PhoneSettled, OneRow

LEMMA StepKeepsSettings ==
  ASSUME PhoneIInv, PhoneSettled, [PhoneNext]_pvars
  PROVE  PhoneSettled'
<1>1. CASE UNCHANGED pvars
  BY <1>1 DEF pvars, PhoneSettled, World, CurrentIndex
<1>2. CASE PhoneNext
  <2>1. PICK n \in 1..MaxBatch : \E calls \in [1..n -> AgentCalls] : CallTools(calls)
    BY <1>2 DEF PhoneNext
  <2>2. PICK calls \in [1..n -> AgentCalls] : CallTools(calls)
    BY <2>1
  <2>3. n \in Nat \ {0}
    BY PhoneAssumption
  <2> QED
    BY <2>2, <2>3, BatchKeepsSettings
<1> QED
  BY <1>1, <1>2

\* What an accepted batch is, and what it leaves in each of the orders.
AcceptedStep ==
  LET calls == [i \in DOMAIN answers' |-> answers'[i].call]
      outcome == Outcomes(Start(Len(calls)), Requests(calls))
      WorldIn(ctx) == [ns \in Namespaces |-> Rows(ctx.dbs, ns, ctx.at)]
  IN  /\ \A i \in DOMAIN answers' : answers'[i].ok
      /\ \A i, j \in DOMAIN calls : i # j => ~ Clash(calls[i], calls[j])
      /\ \A p \in DOMAIN outcome : ~ outcome[p].reverted
      => \A p \in DOMAIN outcome : WorldIn(outcome[p]) = World'

\* The calls that are answered are those of the message, when all succeed.
LEMMA AnswersAreToTheCalls ==
  ASSUME PhoneIInv, NEW n \in Nat \ {0}, NEW calls \in [1..n -> AgentCalls], CallTools(calls),
         \A i \in DOMAIN answers' : answers'[i].ok
  PROVE  /\ [i \in DOMAIN answers' |-> answers'[i].call] = calls
         /\ \A p \in Orders(n) : Succeeds(RunInOrder(Start(n), Requests(calls), p))
         /\ RunAllOrders(Start(n), Requests(calls))
              = RunInOrder(Start(n), Requests(calls), [i \in 1..n |-> i])
<1> DEFINE ctx == Start(n)
           requests == Requests(calls)
           asked == [i \in 1..n |-> i]
<1>1. /\ ctx.answers = <<>> /\ n \in Nat
      /\ AreRequests(requests, n, Used) /\ answers' = RunAllOrders(ctx, requests).answers
  BY BatchBegins DEF Begins
<1>2. \A i \in 1..n : requests[i].call = calls[i]
  BY DEF Requests
<1>3. asked \in Orders(n) /\ \A i \in 1..n : asked[i] = i
  BY FirstIsAsAsked
<1> HIDE DEF ctx, requests, asked
<1>4. Len(requests) = n
  BY <1>1 DEF AreRequests
<1>5. Succeeds(RunAllOrders(ctx, requests))
  BY <1>1 DEF Succeeds
<1>6. /\ \A p \in Orders(n) : Succeeds(RunInOrder(ctx, requests, p))
      /\ RunAllOrders(ctx, requests) = RunInOrder(ctx, requests, asked)
  BY <1>1, <1>4, <1>5, AcceptedAsAsked DEF asked
<1>7. /\ DOMAIN answers' = 1..n
      /\ \A i \in 1..n : answers'[i].call = requests[asked[i]].call
  BY <1>1, <1>3, <1>4, <1>6, AnswersOfAnOrder
<1>8. \A i \in 1..n : answers'[i].call = calls[i]
  BY <1>2, <1>3, <1>7
<1>9. [i \in DOMAIN answers' |-> answers'[i].call] = calls
  BY <1>7, <1>8
<1> QED
  BY <1>6, <1>9 DEF ctx, requests, asked

LEMMA BatchCommutes ==
  ASSUME PhoneIInv, PhoneSettled,
         NEW n \in Nat \ {0}, NEW calls \in [1..n -> AgentCalls], CallTools(calls)
  PROVE  AcceptedStep
<1> DEFINE told == [i \in DOMAIN answers' |-> answers'[i].call]
           outcome == Outcomes(Start(Len(told)), Requests(told))
<1> SUFFICES ASSUME \A i \in DOMAIN answers' : answers'[i].ok,
                    \A i, j \in DOMAIN told : i # j => ~ Clash(told[i], told[j]),
                    \A p \in DOMAIN outcome : ~ outcome[p].reverted,
                    NEW p \in DOMAIN outcome
             PROVE  [ns \in Namespaces |-> Rows(outcome[p].dbs, ns, outcome[p].at)] = World'
  BY DEF AcceptedStep
<1> DEFINE k == CurrentIndex + n
           ctx == Start(n)
           requests == Requests(calls)
           asked == [i \in 1..n |-> i]
<1>1. /\ told = calls
      /\ \A q \in Orders(n) : Succeeds(RunInOrder(ctx, requests, q))
      /\ RunAllOrders(ctx, requests) = RunInOrder(ctx, requests, asked)
  BY AnswersAreToTheCalls
<1>2. Len(calls) = n /\ DOMAIN calls = 1..n /\ n \in Nat
  OBVIOUS
<1>3. /\ k \in Index /\ CurrentIndex' \in Index /\ k < CurrentIndex'
      /\ Begins(ctx, k, Used) /\ Seen(ctx.dbs, k) = World
      /\ AreRequests(requests, n, Used)
      /\ dbs' = RunAllOrders(ctx, requests).dbs
      /\ reverted' = RunAllOrders(ctx, requests).reverted
  BY BatchBegins
<1>4. \A i, j \in 1..n : i # j => ~ Clash(requests[i].call, requests[j].call)
  <2>1. \A i \in 1..n : requests[i].call = calls[i]
    BY DEF Requests
  <2>2. \A i, j \in 1..n : i # j => ~ Clash(calls[i], calls[j])
    <3>1. told = calls
      BY <1>1
    <3> HIDE DEF told
    <3> QED
      BY <1>2, <3>1
  <2> HIDE DEF requests
  <2> QED
    BY <2>1, <2>2
<1>5. OneRow(World)
  BY DEF PhoneSettled, CallTools
<1>6. outcome = [q \in Orders(n) |-> RunInOrder(ctx, requests, q)]
  <2>1. Len(requests) = n
    BY <1>3 DEF AreRequests
  <2>2. outcome = Outcomes(ctx, requests)
    BY <1>1, <1>2
  <2> HIDE DEF outcome, requests, ctx
  <2> QED
    BY <2>1, <2>2 DEF Outcomes
<1>7. asked \in Orders(n)
  BY FirstIsAsAsked
<1> HIDE DEF told, ctx, requests, asked, k, outcome
<1>8. p \in Orders(n) /\ \A q \in Orders(n) : ~ RunInOrder(ctx, requests, q).reverted
  BY <1>6
<1>9. ASSUME NEW q \in Orders(n)
      PROVE  /\ RunInOrder(ctx, requests, q).at = k
             /\ Seen(RunInOrder(ctx, requests, q).dbs, k) = Leaves(World, requests, 1..n)
  BY <1>1, <1>2, <1>3, <1>4, <1>5, <1>8, EveryOrderLeaves
<1>10. World' = Leaves(World, requests, 1..n)
  <2>1. Seen(dbs', k) = Leaves(World, requests, 1..n)
    BY <1>1, <1>3, <1>7, <1>9
  <2>2. \E U : SoundTables(dbs', k, U)
    <3>1. Explained(ctx, RunInOrder(ctx, requests, asked), k, Used \union IdsOf(requests, n))
      BY <1>2, <1>3, <1>7, OrderIsTold
    <3> QED
      BY <1>1, <1>3, <1>7, <1>8, <3>1 DEF Explained
  <2>3. Seen(dbs', CurrentIndex') = Seen(dbs', k)
    BY <1>3, <2>2, MessagesChangeNothing
  <2>4. World' = Seen(dbs', CurrentIndex')
    BY DEF World, Seen
  <2> QED
    BY <2>1, <2>3, <2>4
<1>11. outcome[p] = RunInOrder(ctx, requests, p)
  BY <1>6, <1>8
<1>12. outcome[p].at = k /\ Seen(outcome[p].dbs, k) = World'
  BY <1>8, <1>9, <1>10, <1>11
<1> QED
  BY <1>12 DEF Seen

LEMMA AcceptedStepOrStutter ==
  ASSUME PhoneIInv, PhoneSettled, [PhoneNext]_pvars
  PROVE  [AcceptedStep]_pvars
<1>1. CASE UNCHANGED pvars
  BY <1>1
<1>2. CASE PhoneNext
  <2>1. PICK n \in 1..MaxBatch : \E calls \in [1..n -> AgentCalls] : CallTools(calls)
    BY <1>2 DEF PhoneNext
  <2>2. PICK calls \in [1..n -> AgentCalls] : CallTools(calls)
    BY <2>1
  <2>3. n \in Nat \ {0}
    BY PhoneAssumption
  <2> QED
    BY <2>2, <2>3, BatchCommutes
<1> QED
  BY <1>1, <1>2

(* Calls of one message whose every order succeeds, and of which no two     *)
(* clash, leave one world in whatever order, whichever calls they are and   *)
(* however many: what an addition, a modification, a removal, a message and *)
(* the setting do to the rows is a union of what each of them does.         *)
THEOREM AcceptedOrdersAgree == PhoneSpec => AcceptedBatchesCommute
<1>1. PhoneInit => PhoneSettled
  BY SettledAtFirst
<1>2. PhoneIInv /\ PhoneSettled /\ [PhoneNext]_pvars => PhoneSettled' /\ [AcceptedStep]_pvars
  BY StepKeepsSettings, AcceptedStepOrStutter
<1>3. AcceptedBatchesCommute <=> [][AcceptedStep]_pvars
  BY DEF AcceptedBatchesCommute, AcceptedStep
<1> QED
  BY <1>1, <1>2, <1>3, PhoneInvariance, PTL DEF PhoneSpec

==============================================================================
