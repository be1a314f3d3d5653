--------------------------- MODULE ExecutionContext ---------------------------
(***************************************************************************)
(* The versioned world state of tool_sandbox/common/execution_context.py.  *)
(*                                                                         *)
(* Every namespace (CONTACT, MESSAGING, REMINDER, SETTING) is a table of   *)
(* rows tagged with a sandbox_message_index.  The rows of one index are a  *)
(* snapshot.  A snapshot is only materialised when an operation writes at  *)
(* index max_sandbox_message_index + 1, so the table is sparse: a read     *)
(* falls back to the greatest materialised index.  An all-null row, the    *)
(* headguard, is what lets a snapshot without rows count as materialised.  *)
(*                                                                         *)
(* A table is modelled by the set `heads' of the indices that carry a      *)
(* headguard and the function `rows' from an index to its non-null rows.   *)
(* Row order and columns are abstracted.  Of the SANDBOX namespace this    *)
(* module keeps the number of messages (maxIndex); Rollout has the rest.   *)
(***************************************************************************)
EXTENDS Integers

CONSTANTS
  Namespaces,   \* the namespaces other than SANDBOX
  Row,          \* the non-null rows a table may hold
  InitialRows,  \* [Namespaces -> SUBSET Row]: what __init__ puts at index 0
  MaxIndex      \* bound on sandbox_message_index

ASSUME ConstantsAssumption ==
  /\ MaxIndex \in Nat
  /\ InitialRows \in [Namespaces -> SUBSET Row]

VARIABLES
  dbs,          \* [Namespaces -> Table]
  maxIndex      \* max_sandbox_message_index, -1 when there is no message

vars == <<dbs, maxIndex>>

Index == 0..MaxIndex

Table == [heads : SUBSET Index, rows : [Index -> SUBSET Row]]

TypeOK ==
  /\ dbs \in [Namespaces -> Table]
  /\ maxIndex \in -1..(MaxIndex - 1)

(* The index at which the message being processed writes.                  *)
CurrentIndex == maxIndex + 1

-----------------------------------------------------------------------------
(* Reading a table                                                         *)

\* The indices that occur in a table.
Materialised(db) == {i \in Index : i \in db.heads \/ db.rows[i] # {}}

\* drop_headguard(table).is_empty(): there is no row in the whole history.
HasNoRow(db) == \A i \in Index : db.rows[i] = {}

Greatest(S) == CHOOSE i \in S : \A j \in S : j <= i
Least(S) == CHOOSE i \in S : \A j \in S : i <= j

\* Mutant: the snapshot at the queried index itself is missed.
MostRecentBefore(db, query) ==
  LET before == {i \in Materialised(db) : i < query}
  IN  IF HasNoRow(db) THEN -1
      ELSE IF before # {} THEN Greatest(before)
      ELSE Least(Materialised(db))

\* get_most_recent_snapshot_sandbox_message_index for a query no greater than
\* CurrentIndex: the greatest materialised index up to the query, the first one
\* when there is none, and -1 for a table that never held a row.
MostRecentSnapshot(db, query) ==
  LET upTo == {i \in Materialised(db) : i <= query}
  IN  IF HasNoRow(db) THEN -1
      ELSE IF upTo # {} THEN Greatest(upTo)
      ELSE Least(Materialised(db))

\* get_database with the headguard dropped.
GetDatabase(db, query) ==
  LET i == MostRecentSnapshot(db, query)
  IN  IF i = -1 THEN {} ELSE db.rows[i]

-----------------------------------------------------------------------------
(* Writing a table, at index k = CurrentIndex                              *)

\* Mutant: the snapshot is restated with the headguard dropped.
SnapshotWithoutHeadguard(db, k) ==
  LET i == MostRecentSnapshot(db, k - 1)
  IN  IF k \in Materialised(db) \/ i = -1 THEN db
      ELSE [db EXCEPT !.rows = [@ EXCEPT ![k] = db.rows[i]]]

\* _maybe_create_snapshot: when nothing is stored at k yet, restate there the
\* most recent snapshot, headguard included; nothing when it is -1.
MaybeCreateSnapshot(db, k) ==
  LET i == MostRecentSnapshot(db, k - 1)
  IN  IF k \in Materialised(db) \/ i = -1 THEN db
      ELSE [heads |-> IF i \in db.heads THEN db.heads \union {k} ELSE db.heads,
            rows  |-> [db.rows EXCEPT ![k] = db.rows[i]]]

\* Mutant: rows are added without restating the snapshot first.
AddedWithoutSnapshot(db, k, new) ==
  [db EXCEPT !.rows = [@ EXCEPT ![k] = @ \union new]]

Added(db, k, new) ==
  LET s == MaybeCreateSnapshot(db, k)
  IN  [heads |-> s.heads, rows |-> [s.rows EXCEPT ![k] = @ \union new]]

\* Mutant: rows are removed from the snapshot that was read, in place.
RemovedInPlace(db, k, match) ==
  LET i == MostRecentSnapshot(db, k)
  IN  [db EXCEPT !.rows = [@ EXCEPT ![i] = @ \ match]]

Removed(db, k, match) ==
  LET s == MaybeCreateSnapshot(db, k)
  IN  [heads |-> s.heads, rows |-> [s.rows EXCEPT ![k] = @ \ match]]

Updated(db, k, content) ==
  LET s == MaybeCreateSnapshot(db, k)
  IN  [heads |-> s.heads \union {k}, rows |-> [s.rows EXCEPT ![k] = content]]

-----------------------------------------------------------------------------

Init ==
  /\ dbs = [ns \in Namespaces |->
              [heads |-> {0},
               rows  |-> [i \in Index |-> IF i = 0 THEN InitialRows[ns] ELSE {}]]]
  /\ maxIndex = -1

\* add_to_database outside SANDBOX.
AddToDatabase(ns, new) ==
  /\ new # {}
  /\ dbs' = [dbs EXCEPT ![ns] = Added(@, CurrentIndex, new)]
  /\ UNCHANGED maxIndex

\* remove_from_database: `match' are the rows the predicate is true of.
RemoveFromDatabase(ns, match) ==
  /\ GetDatabase(dbs[ns], CurrentIndex) \intersect match # {}
  /\ dbs' = [dbs EXCEPT ![ns] = Removed(@, CurrentIndex, match)]
  /\ UNCHANGED maxIndex

\* remove_from_database raising NoDataError: the snapshot was created before.
RemoveNothing(ns, match) ==
  /\ GetDatabase(dbs[ns], CurrentIndex) \intersect match = {}
  /\ dbs' = [dbs EXCEPT ![ns] = MaybeCreateSnapshot(@, CurrentIndex)]
  /\ UNCHANGED maxIndex

\* update_database outside SANDBOX: replaces the snapshot, always headguarded.
UpdateDatabase(ns, content) ==
  /\ dbs' = [dbs EXCEPT ![ns] = Updated(@, CurrentIndex, content)]
  /\ UNCHANGED maxIndex

\* add_to_database on SANDBOX: n messages get the next n indices.
AddMessages(n) ==
  /\ maxIndex + n < MaxIndex          \* bound
  /\ maxIndex' = maxIndex + n
  /\ UNCHANGED dbs

Next ==
  \/ \E ns \in Namespaces, R \in SUBSET Row :
       \/ AddToDatabase(ns, R)
       \/ RemoveFromDatabase(ns, R)
       \/ RemoveNothing(ns, R)
       \/ UpdateDatabase(ns, R)
  \/ \E n \in 1..MaxIndex : AddMessages(n)

Spec == Init /\ [][Next]_vars

-----------------------------------------------------------------------------
(* Safety                                                                  *)

(* Every table keeps a materialised index 0 and nothing is stored beyond   *)
(* the index being written: a read can neither see a later state than it   *)
(* asked for nor fall through to the "first available" branch              *)
(* (execution_context.py:518-524).                                         *)
NoSnapshotFromTheFuture ==
  \A ns \in Namespaces :
    /\ 0 \in dbs[ns].heads
    /\ \A i \in Materialised(dbs[ns]) : i <= CurrentIndex

\* Once a headguarded snapshot precedes one without a headguard, the table
\* held no row up to it: the headguard is lost only by an empty history.
HeadguardLostOnlyWhenEmpty(db) ==
  \A i, j \in Index :
    i < j /\ i \in db.heads /\ j \notin db.heads /\ db.rows[j] # {}
      => \A h \in 0..i : db.rows[h] = {}

(* A table loses its headguard only at a moment when its history holds no  *)
(* row at all: a message boundary crossed with an empty, never populated   *)
(* (or emptied before the first message) table.                            *)
HeadguardsPersist ==
  \A ns \in Namespaces : HeadguardLostOnlyWhenEmpty(dbs[ns])

(* What a query for a committed message returns never changes again,       *)
(* whatever is added, removed, replaced or appended later: evaluation      *)
(* reads the world as of each message after the rollout has ended.         *)
HistoryImmutable ==
  [][\A ns \in Namespaces : \A i \in 0..maxIndex :
       GetDatabase(dbs[ns], i)' = GetDatabase(dbs[ns], i)]_vars

-----------------------------------------------------------------------------
\* What holds of every table while messages are processed at index k.
WellFormed(db, k) ==
  /\ db \in Table
  /\ 0 \in db.heads
  /\ \A i \in Index : i > k => i \notin db.heads /\ db.rows[i] = {}
  /\ HeadguardLostOnlyWhenEmpty(db)

(* The inductive invariant the proofs use.                                 *)
IInv == TypeOK /\ \A ns \in Namespaces : WellFormed(dbs[ns], CurrentIndex)

-----------------------------------------------------------------------------
(* Refinement: the sparse tables implement a dense history                 *)

\* The snapshot the next write starts from carries the headguard.
Guarded(db, k) == k \in MaybeCreateSnapshot(db, k).heads

worldBar ==
  [ns \in Namespaces |->
     [i \in Index |-> IF i <= CurrentIndex THEN GetDatabase(dbs[ns], i) ELSE {}]]

guardedBar == {ns \in Namespaces : Guarded(dbs[ns], CurrentIndex)}

History == INSTANCE WorldHistory
             WITH now <- CurrentIndex, world <- worldBar, guarded <- guardedBar

(* The tables implement WorldHistory.                                      *)
HistorySpec == History!Spec
=============================================================================
