-------------------------- MODULE ScenarioLanguage --------------------------
(***************************************************************************)
(* What a benchmark scenario is made of: SnapshotConstraint and Milestone  *)
(* (tool_sandbox/common/evaluation.py), ScenarioExtension                  *)
(* (tool_sandbox/common/scenario.py), and the base scenarios               *)
(* (tool_sandbox/scenarios/base_scenarios.py) that the extensions start    *)
(* from.  The words of the conversation are left out; so are the values in *)
(* a target, but for what tells two rows of a database apart.              *)
(***************************************************************************)
EXTENDS Integers, Sequences

NoMilestone == -2       \* reference_milestone_node_index is None

\* A constraint.  `name` is the tool of a trace, or the column of a setting;
\* `arguments` the arguments of a trace that must match; `rows` the rows of
\* the target, each with the value that tells it apart.
SnapshotConstraint(database, kind, name, arguments, rows, reference) ==
    [database |-> database, kind |-> kind, name |-> name,
     arguments |-> arguments, rows |-> rows, reference |-> reference]

\* A result of `tool` whose trace has these arguments (others are ignored).
ToolTrace(tool, arguments) ==
    SnapshotConstraint("SANDBOX", "trace", tool, arguments, {}, NoMilestone)

\* A message of the agent to the execution environment that names `tool`.
ToolCall(tool) == SnapshotConstraint("SANDBOX", "call", tool, {}, {}, NoMilestone)

\* A message of the agent to the user like the one given (ROUGE-L), or one
\* that contains the text given (column_contains_similarity).
Answer   == SnapshotConstraint("SANDBOX", "answer", "", {}, {}, NoMilestone)
Mentions == SnapshotConstraint("SANDBOX", "mentions", "", {}, {}, NoMilestone)

\* tool_trace_dependant_similarity: the target is completed with the result of
\* the trace at the snapshot of the reference milestone.
Filled(constraint, reference) == [constraint EXCEPT !.reference = reference]

Setting(column, on) ==
    SnapshotConstraint("SETTING", "setting", column, {}, {<<column, on>>}, NoMilestone)

\* addition_similarity, removal_similarity, update_similarity.
Addition(database, rows, reference) ==
    SnapshotConstraint(database, "addition", "", {}, rows, reference)
Removal(database, rows, reference) ==
    SnapshotConstraint(database, "removal", "", {}, rows, reference)
Update(database, rows, reference) ==
    SnapshotConstraint(database, "update", "", {}, rows, reference)

Milestone(constraints) ==
    [snapshot_constraints |-> constraints, guardrail_database_exclusion_list |-> {}]

Excluding(milestone, databases) ==
    [milestone EXCEPT !.guardrail_database_exclusion_list = databases]

\* The milestones with a single constraint, and those of an answer.
Traced(tool)              == Milestone({ToolTrace(tool, {})})
TracedWith(tool, args)    == Milestone({ToolTrace(tool, args)})
TracedFrom(tool, args, reference) ==
    Milestone({Filled(ToolTrace(tool, args), reference)})
Switched(column, on)      == Milestone({Setting(column, on)})
Added(database, rows, reference)   == Milestone({Addition(database, rows, reference)})
Removed(database, rows, reference) == Milestone({Removal(database, rows, reference)})
Updated(database, rows, reference) == Milestone({Update(database, rows, reference)})
Answered                  == Milestone({Answer})
AnsweredWith              == Milestone({Answer, Mentions})
AnsweredFrom(reference)   == Milestone({Filled(Answer, reference)})
AnsweredWithValueOf(reference) ==
    Milestone({Filled(Answer, reference), Filled(Mentions, reference)})

\* edge_list None: the milestones form a linked list.
LinkedList(milestones) == {<<m, m + 1>> : m \in 0 .. Len(milestones) - 2}

\* ScenarioExtension, with the defaults of its fields.
Scenario(base_scenario, tool_allow_list, milestones) ==
    [base_scenario       |-> base_scenario,
     tool_allow_list     |-> tool_allow_list,
     tool_deny_list      |-> {},
     milestones          |-> milestones,
     milestone_edge_list |-> LinkedList(milestones),
     minefields          |-> <<>>]

\* Mutant: the deny list of the extension is not taken over.
MinedScenarioUndenied(base_scenario, tool_allow_list, tool_deny_list, minefield) ==
    [Scenario(base_scenario, tool_allow_list, <<>>) EXCEPT !.minefields = <<minefield>>]

\* A scenario that is scored by what must not happen alone.
MinedScenario(base_scenario, tool_allow_list, tool_deny_list, minefield) ==
    [Scenario(base_scenario, tool_allow_list, <<>>) EXCEPT
        !.tool_deny_list = tool_deny_list, !.minefields = <<minefield>>]

-----------------------------------------------------------------------------
Settings == {"low_battery_mode", "wifi", "location_service", "cellular"}

\* The rows of the base scenario and the value in them that a scenario sets.
BaseWorld ==
    [SETTING   |-> {<<c, c # "low_battery_mode">> : c \in Settings},
     CONTACT   |-> {<<"Tomas Haake", "self">>, <<"Fredrik Thordendal", "friend">>,
                    <<"John Petrucci", "friend">>, <<"Homer S", "boss">>},
     MESSAGING |-> {<<"message_0", "received">>, <<"message_2", "sent">>},
     REMINDER  |-> {<<"reminder_0", "yesterday">>, <<"reminder_1", "a minute ago">>,
                    <<"reminder_2", "in an hour">>}]

\* A variant of the base scenario, with some settings flipped.
Flipped(columns) ==
    [BaseWorld EXCEPT !.SETTING =
        {<<s[1], IF s[1] \in columns THEN ~s[2] ELSE s[2]>> : s \in @}]

base                 == Flipped({})
base_wifi_off        == Flipped({"wifi"})
base_cellular_off    == Flipped({"cellular"})
base_low_battery     == Flipped(Settings)
=============================================================================
