----------------------------- MODULE WorldHistory -----------------------------
(***************************************************************************)
(* What the execution context promises: a dense history.  world[ns][i] is  *)
(* the content of namespace ns as of message i, `now' the index at which   *)
(* the message being processed writes; only world[ns][now] ever changes.   *)
(*                                                                         *)
(* The one irregularity the code has is part of the promise: in a          *)
(* namespace whose current snapshot carries no headguard (not in           *)
(* `guarded'), removing the last row undoes everything done since the last *)
(* message instead of leaving the namespace empty.                         *)
(***************************************************************************)
EXTENDS Integers

CONSTANTS Namespaces, Row, InitialRows, MaxIndex

VARIABLES now, world, guarded

hvars == <<now, world, guarded>>

HIndex == 0..MaxIndex

Content(ns) == world[ns][now]

NeverPopulated(ns) == \A i \in 0..now : world[ns][i] = {}

Init ==
  /\ now = 0
  /\ world = [ns \in Namespaces |->
                [i \in HIndex |-> IF i = 0 THEN InitialRows[ns] ELSE {}]]
  /\ guarded = Namespaces

\* The message being processed makes `content' the content of ns.
SetContent(ns, content) == world' = [world EXCEPT ![ns] = [@ EXCEPT ![now] = content]]

Add(ns, new) ==
  /\ SetContent(ns, Content(ns) \union new)
  /\ UNCHANGED <<now, guarded>>

Remove(ns, match) ==
  /\ \/ ns \in guarded
     \/ ~ Content(ns) \subseteq match
  /\ SetContent(ns, Content(ns) \ match)
  /\ UNCHANGED <<now, guarded>>

\* Removing the last row without a headguard: back to the last message's state.
Revert(ns, match) ==
  /\ ns \notin guarded
  /\ Content(ns) \subseteq match
  /\ SetContent(ns, world[ns][now - 1])
  /\ UNCHANGED <<now, guarded>>

\* A wholesale replacement is exact, and puts the headguard back.
Replace(ns, content) ==
  /\ SetContent(ns, content)
  /\ guarded' = guarded \union {ns}
  /\ UNCHANGED now

\* n messages are committed: time moves on, the content stays.  A namespace
\* that never held a row loses its headguard here.
Commit(n) ==
  /\ now + n <= MaxIndex
  /\ now' = now + n
  /\ world' = [ns \in Namespaces |->
                 [i \in HIndex |->
                    IF i \in now..(now + n) THEN Content(ns) ELSE world[ns][i]]]
  /\ guarded' = {ns \in guarded : ~ NeverPopulated(ns)}

Next ==
  \/ \E ns \in Namespaces, R \in SUBSET Row :
       Add(ns, R) \/ Remove(ns, R) \/ Revert(ns, R) \/ Replace(ns, R)
  \/ \E n \in 1..MaxIndex : Commit(n)

Spec == Init /\ [][Next]_hvars
=============================================================================
