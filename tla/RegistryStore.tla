---------------------------- MODULE RegistryStore ----------------------------
(***************************************************************************)
(* The generated-tool registry of sage_ts: registry/store.py and           *)
(* registry/manifest.py.                                                   *)
(*                                                                         *)
(* RegistryStore keeps no state in memory: every operation loads the       *)
(* manifest, changes it and writes it back whole through a temporary file  *)
(* and os.replace.  So an operation is a function from the manifest on     *)
(* disk to the manifest on disk, and the operators below are those         *)
(* functions.  A manifest maps every tool name to its entry or to NoEntry. *)
(***************************************************************************)
EXTENDS Naturals

CONSTANTS
    ToolNames,  \* the names a generated tool may have
    NoEntry     \* what load_entries().get(name) gives for an unknown name

\* How the hash stored in the manifest relates to the code stored beside it:
\* they agree, the code was changed after it was accepted, or (manifests
\* written before the field existed) there is no stored hash.
Hashes == {"match", "mismatch", "absent"}

\* RegistryEntry.  `validated` stands for the part of the proof that no
\* operation changes: validation.accepted, the held-out and negative counts,
\* the smoke test, both schema versions and the candidate gate's verdict.
Entry == [version : Nat \ {0}, reuse_count : Nat, diagnostic_only : BOOLEAN,
          retired : BOOLEAN, validated : BOOLEAN, hash : Hashes]

Manifests == [ToolNames -> Entry \union {NoEntry}]

ASSUME NoEntryAssumption == NoEntry \notin Entry

\* manifest.has_current_validation_proof
HasCurrentProof(entry) == entry.validated /\ ~entry.retired /\ entry.hash = "match"

\* The tools whose entry exists and is proved.
Proved(entries) ==
    {t \in ToolNames : entries[t] # NoEntry /\ HasCurrentProof(entries[t])}

\* RegistryEntry.accepted: the entry of a tool that has just been validated.
Accepted(diagnostic) ==
    [version |-> 1, reuse_count |-> 0, diagnostic_only |-> diagnostic,
     retired |-> FALSE, validated |-> TRUE, hash |-> "match"]

\* Mutant: the hash is recomputed for every entry on every save.
SaveRecomputesHashes(entries) ==
    [t \in ToolNames |->
        IF entries[t] # NoEntry THEN [entries[t] EXCEPT !.hash = "match"]
                                ELSE entries[t]]

\* save_entries: to_json writes `stored_code_hash or code_hash(code)`, so an
\* entry without a stored hash gets that of the code it now has.
SaveEntries(entries) ==
    [t \in ToolNames |->
        IF entries[t] # NoEntry /\ entries[t].hash = "absent"
        THEN [entries[t] EXCEPT !.hash = "match"]
        ELSE entries[t]]

\* Mutant: a replacement keeps the reuse count of the tool it replaces.
PutKeepsReuses(entries, name, entry) ==
    SaveEntries([entries EXCEPT ![name] =
        IF entries[name] = NoEntry THEN entry
        ELSE [entry EXCEPT !.version = entries[name].version + 1,
                           !.reuse_count = entries[name].reuse_count]])

\* put: a new entry replaces the old one under the next version number, and
\* starts without reuses.
Put(entries, name, entry) ==
    SaveEntries([entries EXCEPT ![name] =
        IF entries[name] = NoEntry THEN entry
        ELSE [entry EXCEPT !.version = entries[name].version + 1]])

\* record_reuse; its callers only name tools that are in the manifest.
RecordReuse(entries, name) ==
    SaveEntries([entries EXCEPT ![name].reuse_count = @ + 1])
==============================================================================
