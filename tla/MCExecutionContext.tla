-------------------------- MODULE MCExecutionContext --------------------------
(* Instances of ExecutionContext: the table `contact', which __init__ leaves *)
(* with its headguard alone, and `setting', which also gets a row at 0.      *)
EXTENDS ExecutionContext, TLC

CONSTANTS contact, setting, r1, r2

MCContactOnly == {contact}
MCUnseeded == contact :> {}

MCBothTables == {contact, setting}
MCSeeded == (contact :> {}) @@ (setting :> {r1})

MCRow == {r1, r2}
MCOneRow == {r1}
=============================================================================
