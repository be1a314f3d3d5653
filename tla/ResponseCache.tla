---------------------------- MODULE ResponseCache ----------------------------
(***************************************************************************)
(* The exact cache of agent completions (cache/openai_response_cache.py).  *)
(*                                                                         *)
(* A store is a set of entries, one for every key at most: the rows of the *)
(* sqlite database and the json files of an older layout, which are only   *)
(* read.  An answer is abstracted to the situation in which the model gave *)
(* it; who is served an entry can so be compared with what it was given    *)
(* for.  Messages and tools belong to the scenario that is played.         *)
(***************************************************************************)
EXTENDS Naturals, FiniteSets

CONSTANT NoAnswer   \* the cache holds nothing for a key

CacheModes == {"off", "read_write", "read_only", "write_only"}

\* Mutant: the arm is no part of the context.
KeyWithoutArm(model, environment) ==
    [model |-> model, context |-> [environment EXCEPT !.arm = "any"]]

\* _context_payload and build_response_cache_key: the model, the messages and
\* tools of the scenario, and what the environment says of the run.  Messages
\* and tools alone do not tell two arms, runs or scenarios apart.
Key(model, environment) == [model |-> model, context |-> environment]

\* configure_response_cache_context, once for an arm: the arm, and the digest of
\* the run's configuration.  A control arm has no registry.
Configure(arm, names, parallel) ==
    [arm |-> arm, names |-> names, parallel |-> parallel, scenario |-> "", index |-> 0]

\* The two variables that are set before each scenario.
Enter(environment, scenario, index) ==
    [environment EXCEPT !.scenario = scenario, !.index = index]

EntriesFor(entries, key) == {e \in entries : e.key = key}

\* INSERT OR REPLACE INTO responses.
Stored(entries, key, answer) ==
    (entries \ EntriesFor(entries, key)) \union {[key |-> key, answer |-> answer]}

\* _read_cached_response: the database, else the old file.
Read(entries, files, key) ==
    LET found == IF EntriesFor(entries, key) # {} THEN EntriesFor(entries, key)
                                                  ELSE EntriesFor(files, key)
    IN  IF found = {} THEN NoAnswer ELSE (CHOOSE e \in found : TRUE).answer

\* cached_model_inference: the modes that read serve what they find ...
Served(entries, files, cacheMode, key) ==
    IF cacheMode \in {"read_write", "read_only"} THEN Read(entries, files, key)
                                                 ELSE NoAnswer

\* ... and the modes that write store an answer of the model, or move the answer
\* of an old file into the database.
AfterCall(entries, cacheMode, key, served, answer) ==
    IF \/ cacheMode = "read_write" /\ EntriesFor(entries, key) = {}
       \/ cacheMode = "write_only"
    THEN Stored(entries, key, IF served = NoAnswer THEN answer ELSE served)
    ELSE entries
==============================================================================
