---------------------------- MODULE ScenarioPlay ----------------------------
(***************************************************************************)
(* The plays of a benchmark scenario and what Evaluation.evaluate makes of *)
(* them (tool_sandbox/common/evaluation.py).  An agent that knows the task *)
(* carries out its calls in any order and in any batches that the          *)
(* milestone DAG allows, and may stray once: ask back, call a tool in a    *)
(* way nobody asked for, make a call too early, change something it was    *)
(* not asked to, do what a minefield forbids, or give up.  The settings    *)
(* decide which calls raise (tool_sandbox/tools).                          *)
(***************************************************************************)
EXTENDS SingleToolCallScenarios, MultipleUserTurnScenarios,
        InsufficientInformationScenarios, FiniteSetsExt, SequencesExt

CONSTANTS
    Scenarios,      \* the scenarios that are played
    MaxBatch,       \* calls in one message of the agent
    OrderSensitive, Unfinished, Leaky
                    \* those with a flaw of their own: see the properties

ASSUME MaxBatchAssumption == MaxBatch \in Nat \ {0}

VARIABLES
    scenario,
    trail,          \* the messages from the first of the user, with the world at each
    pending,        \* the calls that are still to be made
    stray,          \* what the agent did apart from the task
    problem, guardrails, result,    \* of the matcher at work
    scores,         \* the similarity sums of milestones and of minefields
    outcome         \* the checks of compute_outcome_score: a milestone's score

playing   == <<scenario, trail, pending, stray>>
matching  == <<problem, guardrails, result>>
vars == <<playing, matching, scores, outcome>>

Databases == DOMAIN BaseWorld
Unit == 2
NoProblem == [n |-> -1]

-----------------------------------------------------------------------------
(* Messages and calls.                                                     *)

SetTool == [c \in Settings |->
              CASE c = "cellular"         -> "set_cellular_service_status"
                [] c = "wifi"             -> "set_wifi_status"
                [] c = "location_service" -> "set_location_service_status"
                [] c = "low_battery_mode" -> "set_low_battery_mode_status"]

\* The tool that makes a change of the given kind.
WriteTool(kind, d) ==
    CASE d = "MESSAGING" -> "send_message_with_phone_number"
      [] d = "CONTACT"   -> [addition |-> "add_contact", removal |-> "remove_contact",
                             update |-> "modify_contact"][kind]
      [] d = "REMINDER"  -> [addition |-> "add_reminder", removal |-> "remove_reminder",
                             update |-> "modify_reminder"][kind]

\* A call made for a milestone: of a tool that reads, that writes `row` of a
\* database, or (tool "") what the agent tells the user.
Call(m, tool, arguments, kind, database, row) ==
    [milestone |-> m, tool |-> tool, arguments |-> arguments,
     kind |-> kind, database |-> database, row |-> row]

NoRow == <<"", "">>
MilestoneAt(m) == scenario.milestones[m + 1]
MilestonesOf(s) == 0 .. Len(s.milestones) - 1

\* The calls that meet one constraint of milestone m.
CallsFor(m, c) ==
    CASE c.kind = "trace" -> {Call(m, c.name, c.arguments, "read", "", NoRow)}
      [] c.kind \in {"answer", "mentions"} -> {Call(m, "", {}, "read", "", NoRow)}
      [] c.kind = "setting" ->
           {Call(m, SetTool[c.name], {}, "update", "SETTING", r) : r \in c.rows}
      [] OTHER -> {Call(m, WriteTool(c.kind, c.database), {}, c.kind, c.database, r) :
                      r \in c.rows}

TaskOf(s) ==
    UNION {UNION {CallsFor(m, c) : c \in s.milestones[m + 1].snapshot_constraints} :
              m \in MilestonesOf(s)}

\* A message: who wrote it to whom, the call it makes or returns from and the
\* milestone (-1: none) that the call is for, whether it carries a trace, the
\* results that went into it, and the world when it was written.
Message(from, to, call, traced, uses, world) ==
    [from |-> from, to |-> to, tool |-> call.tool, arguments |-> call.arguments,
     milestone |-> call.milestone, traced |-> traced, uses |-> uses, world |-> world]

Silence == Call(-1, "", {}, "read", "", NoRow)
Request(call, uses, world) ==
    Message("AGENT", "EXECUTION_ENVIRONMENT", call, FALSE, uses, world)
Response(call, traced, uses, world) ==
    Message("EXECUTION_ENVIRONMENT", "AGENT", call, traced, uses, world)

World == Last(trail).world
On(column) == <<column, TRUE>> \in World.SETTING

\* The services without which a tool raises.
OnlineTools == {"search_lat_lon", "search_location_around_lat_lon",
                "search_weather_around_lat_lon", "search_stock",
                "convert_currency", "search_holiday"}
LocatedTools == {"search_location_around_lat_lon", "search_weather_around_lat_lon"}

ServicesOf(call) ==
    {"wifi" : t \in {call.tool} \intersect OnlineTools} \union
    {"cellular" : t \in {call.tool} \intersect {"send_message_with_phone_number"}} \union
    {"location_service" : t \in ({call.tool} \intersect {"get_current_location"}) \union
        {u \in {call.tool} \intersect LocatedTools : "latitude" \notin call.arguments}}

\* Mutant: in low battery mode no setting can be changed.
WorksInLowBattery(call) ==
    /\ \A c \in ServicesOf(call) : On(c)
    /\ call.database = "SETTING" =>
           call.row \notin World.SETTING /\ ~On("low_battery_mode")

\* A setting that already is as asked raises, and so does a service that is
\* turned on in low battery mode.
Works(call) ==
    /\ \A c \in ServicesOf(call) : On(c)
    /\ call.database = "SETTING" =>
           /\ call.row \notin World.SETTING
           /\ call.row[2] /\ call.row[1] # "low_battery_mode" => ~On("low_battery_mode")

\* The contents of a database after a call.
Written(rows, call) ==
    IF call.kind = "removal" THEN rows \ {call.row}
    ELSE {r \in rows : r[1] # call.row[1]} \union {call.row}

After(world, call) ==
    IF call.database = "" THEN world
    ELSE [world EXCEPT ![call.database] = Written(@, call)]

-----------------------------------------------------------------------------
(* What a play is worth.                                                   *)

\* tool_trace of a message, compared with a target trace: only the arguments
\* that the target has count.
IsTraceOf(c, message) ==
    /\ message.from = "EXECUTION_ENVIRONMENT" /\ message.traced
    /\ c.kind = "trace" /\ message.tool = c.name
    /\ c.arguments = {} \/ message.arguments = c.arguments

\* Mutant: a call counts when it returns.
IsReturnOf(c, message) ==
    message.from = "EXECUTION_ENVIRONMENT" /\ message.traced /\ message.tool = c.name

\* A message to the execution environment that names the tool.
IsCallOf(c, message) ==
    message.to = "EXECUTION_ENVIRONMENT" /\ message.tool = c.name

\* The snapshots whose results go into the calls of a milestone: those of the
\* calls made for the milestones that a constraint is filled from.
ResultsFor(m) ==
    LET refers == {c.reference : c \in {k \in MilestoneAt(m).snapshot_constraints :
                                           k.database = "SANDBOX"}} \ {NoMilestone}
        Met(r) == {i \in DOMAIN trail : trail[i].milestone = r /\ trail[i].traced}
    IN  {Max(Met(r)) - 1 : r \in {q \in refers : Met(q) # {}}}

\* update_similarity is 1: these rows are as the target says, the others as before.
IsUpdate(before, now, rows) ==
    Cardinality(now) = Cardinality(before) /\ now \ before = rows

\* The similarity of one constraint of milestone m to snapshot s; at[r] is the
\* snapshot of reference r.  An answer in other words is worth something, one
\* that lacks the words looked for is worth nothing.
ConstraintLikeness(p, m, c, s, at) ==
    LET message == p.trail[s + 1]
        filled  == c.database # "SANDBOX" \/ c.reference = NoMilestone
                   \/ at[c.reference] \in message.uses
        now    == message.world[c.database]
        before == p.trail[at[c.reference] + 1].world[c.database]
        met ==
          CASE c.kind = "trace"    -> IsTraceOf(c, message) /\ filled
            [] c.kind = "call"     -> IsCallOf(c, message)
            [] c.kind \in {"answer", "mentions"} -> message.to = "USER" /\ message.milestone = m /\ filled
            [] c.kind = "setting"  -> c.rows \subseteq now
            [] c.kind = "addition" -> before \subseteq now /\ now \ before = c.rows
            [] c.kind = "removal"  -> now \subseteq before /\ before \ now = c.rows
            [] c.kind = "update"   -> IsUpdate(before, now, c.rows)
    IN  IF met THEN Unit
        ELSE IF c.kind = "answer" /\ message.to = "USER" THEN 1 ELSE 0

\* calculate_similarity: a mean that is 0 if any of its parts is.
Likeness(p, m, s, at) ==
    LET parts == {ConstraintLikeness(p, m, c, s, at) :
                     c \in p.milestones[m + 1].snapshot_constraints}
    IN  Min(parts)

\* Mutant: the last message is not looked at.
LastButOne(messages) == Len(messages) - 2

\* The largest index of a snapshot; the first one is 0.
LastSnapshot(messages) == Len(messages) - 1

\* What their constraints are on and refer to.
ConstraintsOf(milestones) ==
    [m \in 0 .. Len(milestones) - 1 |->
        {[database |-> c.database, reference |-> c.reference] :
            c \in milestones[m + 1].snapshot_constraints}]

\* What a MilestoneMatcher is given.
AsProblem(milestones, edge_list) ==
    [n |-> Len(milestones), edge_list |-> edge_list,
     constraints |-> ConstraintsOf(milestones),
     unguarded |-> [m \in 0 .. Len(milestones) - 1 |->
         milestones[m + 1].guardrail_database_exclusion_list],
     last  |-> LastSnapshot(trail),
     world |-> [d \in Databases |-> [s \in 0 .. LastSnapshot(trail) |-> trail[s + 1].world[d]]],
     milestones |-> milestones,
     trail |-> trail]

Matcher == INSTANCE MilestoneMatcher WITH
    Problems <- {}, SANDBOX <- "SANDBOX", NoReference <- NoMilestone, NoEdgeList <- {}

\* No milestone of a scenario looks for the snapshot of one that may come after it.
ASSUME ScenariosAssumption ==
    \A s \in Scenarios :
        \A part \in {<<s.milestones, s.milestone_edge_list>>,
                     <<s.minefields, LinkedList(s.minefields)>>} :
            Matcher!CanBeSearched([n |-> Len(part[1]), edge_list |-> part[2],
                                   constraints |-> ConstraintsOf(part[1])])

\* A minefield is one call: a message that makes it, or the trace it leaves.
ASSUME MinefieldsAssumption ==
    \A s \in Scenarios :
        /\ s.minefields \in Seq(ToSet(s.minefields))
        /\ \A x \in ToSet(s.minefields) : \E c \in x.snapshot_constraints :
              /\ x.snapshot_constraints = {c}
              /\ c.kind \in {"call", "trace"} /\ c.reference = NoMilestone

-----------------------------------------------------------------------------
(* compute_outcome_score (src/sage_ts/evaluation/outcome_score.py): the    *)
(* milestones again, without the route.                                    *)

\* All that a route-only milestone looks for are traces.
IsRouteOnly(m) == \A c \in MilestoneAt(m).snapshot_constraints : c.kind = "trace"

\* The constraints that give texts to compare answers with.
AnswerTemplates(m) ==
    {c \in MilestoneAt(m).snapshot_constraints : c.kind \in {"answer", "mentions"}}

\* Mutant: every message to the user is looked at.
AllAgentMessages == {i \in DOMAIN trail : trail[i].from = "AGENT" /\ trail[i].to = "USER"}

\* The message that counts: the last one of the agent to the user.
AgentMessages ==
    LET told == {i \in DOMAIN trail : trail[i].from = "AGENT" /\ trail[i].to = "USER"}
    IN  {i \in told : \A j \in told : j <= i}

\* The text of another message may be alike.
AnswerScore(m) ==
    IF \E i \in AgentMessages : trail[i].milestone = m THEN Unit
    ELSE IF AgentMessages # {} THEN 1 ELSE 0

\* What the matcher has given a milestone.
CanonicalScore(m) ==
    LET given == {a \in ToSet(result.mapping) : a.milestone = m}
    IN  IF given = {} THEN 0 ELSE (CHOOSE a \in given : TRUE).similarity

NoChecks == [m \in {} |-> 0]

\* Mutant: the route is checked too.
ChecksOfAllMilestones ==
    [m \in MilestonesOf(scenario) |->
        IF AnswerTemplates(m) # {} THEN AnswerScore(m) ELSE CanonicalScore(m)]

\* An answer is compared with the message that counts; a milestone about the
\* world keeps what the matcher has given it.
OutcomeChecks ==
    [m \in {k \in MilestonesOf(scenario) : ~IsRouteOnly(k)} |->
        IF AnswerTemplates(m) # {} THEN AnswerScore(m) ELSE CanonicalScore(m)]

-----------------------------------------------------------------------------
NoStray == [kind |-> "none", database |-> "", at |-> 0, tool |-> ""]

Init ==
    /\ scenario \in Scenarios
    /\ trail = <<Message("USER", "AGENT", Silence, FALSE, {}, scenario.base_scenario)>>
    /\ pending = TaskOf(scenario)
    /\ stray = NoStray
    /\ problem = NoProblem /\ guardrails = Matcher!NoGuardrails
    /\ result = Matcher!NoResult /\ scores = <<>> /\ outcome = NoChecks

Playing == problem = NoProblem /\ scores = <<>> /\ stray.kind # "gave up"

\* The tools the agent is offered: the denied ones are taken out last.
Offered == scenario.tool_allow_list \ scenario.tool_deny_list

\* The calls all of whose predecessors in the DAG are done.
Due(call) ==
    /\ call \in pending
    /\ \A e \in scenario.milestone_edge_list :
          e[2] = call.milestone => \A c \in pending : c.milestone # e[1]

CanCall(call) == call.tool \in Offered \union {""} /\ Works(call)

\* A batch is answered in its order; what it writes is there from its first
\* result on (execution_environment.py keeps one copy of the context).
Batch(calls) ==
    LET uses(c) == ResultsFor(c.milestone)
        later == FoldLeft(After, World, calls)
    IN  trail \o [i \in DOMAIN calls |-> Request(calls[i], uses(calls[i]), World)]
              \o [i \in DOMAIN calls |-> Response(calls[i], TRUE, uses(calls[i]), later)]

\* The agent makes calls that are due, in one message.
CarryOut ==
    \E calls \in {s \in UNION {[1 .. n -> pending] : n \in 1 .. MaxBatch} : IsInjective(s)} :
        /\ Playing
        /\ \A i \in DOMAIN calls : Due(calls[i]) /\ calls[i].tool # "" /\ CanCall(calls[i])
        /\ trail' = Batch(calls)
        /\ pending' = pending \ ToSet(calls)
        /\ UNCHANGED <<scenario, stray, matching, scores, outcome>>

\* It tells the user what a milestone waits for.
Tell ==
    \E call \in pending :
        /\ Playing /\ Due(call) /\ call.tool = ""
        /\ trail' = Append(trail, Message("AGENT", "USER", call, FALSE,
                                          ResultsFor(call.milestone), World))
        /\ pending' = pending \ {call}
        /\ UNCHANGED <<scenario, stray, matching, scores, outcome>>

\* It turns on a service without which a call that is due would raise, when
\* that is not a milestone of its own.
TurnOn ==
    \E call \in pending : \E c \in ServicesOf(call) :
        LET turn == Call(-1, SetTool[c], {}, "update", "SETTING", <<c, TRUE>>)
        IN  /\ Playing /\ Due(call) /\ CanCall(turn)
            /\ \A p \in pending : p.row # turn.row
            /\ trail' = trail \o <<Request(turn, {}, World),
                                   Response(turn, TRUE, {}, After(World, turn))>>
            /\ UNCHANGED <<scenario, pending, stray, matching, scores, outcome>>

-----------------------------------------------------------------------------
(* Straying: once in a play.                                               *)

Strays(kind, database, tool) ==
    /\ Playing /\ stray = NoStray
    /\ stray' = [kind |-> kind, database |-> database, at |-> Len(trail), tool |-> tool]
    /\ UNCHANGED <<scenario, matching, scores, outcome>>

\* The agent asks the user, who answers.
AskBack ==
    /\ Strays("asked", "", "")
    /\ trail' = trail \o <<Message("AGENT", "USER", Silence, FALSE, {}, World),
                           Message("USER", "AGENT", Silence, FALSE, {}, World)>>
    /\ UNCHANGED pending

Forbidden == {c.name : c \in UNION {x.snapshot_constraints : x \in ToSet(scenario.minefields)}}

ReadTools == OnlineTools \union
    {"search_contacts", "search_messages", "search_reminder", "get_current_location",
     "get_current_timestamp", "timestamp_diff", "unit_conversion"}

\* It calls a tool with arguments of its own; the call may raise.
Look ==
    \E tool \in (Offered \intersect ReadTools) \ Forbidden :
        LET call == Call(-1, tool, {"of its own"}, "read", "", NoRow)
        IN  /\ Strays("looked", "", tool)
            /\ trail' = trail \o <<Request(call, {}, World), Response(call, Works(call), {}, World)>>
            /\ UNCHANGED pending

\* It makes a call of the task that raises: the world and the trace stay empty.
Fumble ==
    \E call \in pending :
        /\ call.tool \in Offered /\ ~Works(call)
        /\ Strays("fumbled", "", call.tool)
        /\ trail' = trail \o <<Request(call, {}, World), Response(call, FALSE, {}, World)>>
        /\ UNCHANGED pending

\* It makes a call of the task before what must come first.
TooEarly ==
    \E call \in pending :
        /\ ~Due(call) /\ CanCall(call) /\ call.tool # ""
        /\ Strays("too early", call.database, call.tool)
        /\ trail' = Batch(<<call>>)
        /\ pending' = pending \ {call}

\* The databases that a scenario is about, or that it takes no guard over.
Concerned ==
    UNION {{c.database : c \in x.snapshot_constraints}
              \union x.guardrail_database_exclusion_list : x \in ToSet(scenario.milestones)}

AnyOf(S) == {x \in S : x = CHOOSE y \in S : TRUE}

\* It writes something it was not asked to: a row of its own in a database the
\* scenario is not about, or a setting it has no use for.  One database, and
\* one setting, stands for the others.
UnaskedCalls ==
    {Call(-1, WriteTool("addition", d), {}, "addition", d, <<"unasked", "new">>) :
        d \in AnyOf(Databases \ (Concerned \union {"SETTING"}))} \union
    {Call(-1, SetTool[c], {}, "update", "SETTING", <<c, ~On(c)>>) :
        c \in AnyOf({k \in Settings \ {"low_battery_mode"} :
                  \A p \in TaskOf(scenario) : k \notin ServicesOf(p) \union {p.row[1]}})}

Unasked ==
    \E call \in UnaskedCalls :
        /\ call.tool \notin Forbidden /\ Works(call)
        /\ Strays("unasked", call.database, call.tool)
        /\ trail' = trail \o <<Request(call, {}, World),
                               Response(call, TRUE, {}, After(World, call))>>
        /\ UNCHANGED pending

\* It does what the minefield forbids.  A tool that is not offered, or is
\* called wrongly, raises.
StepOnMine ==
    \E x \in ToSet(scenario.minefields) : \E c \in x.snapshot_constraints :
        LET call == Call(-1, c.name, c.arguments, "read", "", NoRow)
        IN  \E raises \in {TRUE, ~CanCall(call)} :
              /\ Strays(IF raises THEN "tried the forbidden" ELSE "did the forbidden", "", c.name)
              /\ trail' = trail \o <<Request(call, {}, World),
                                     Response(call, ~raises, {}, World)>>
              /\ UNCHANGED pending

\* The conversation ends before the task is done.
GiveUp ==
    /\ pending # {}
    /\ Strays("gave up", "", "")
    /\ UNCHANGED <<trail, pending>>

-----------------------------------------------------------------------------
(* Evaluation.evaluate: the milestones, then the minefields.               *)

Over == pending = {} \/ stray.kind = "gave up"

StartMatching ==
    /\ Over /\ problem = NoProblem /\ Len(scores) < 2
    /\ problem' = IF scores = <<>>
                  THEN AsProblem(scenario.milestones, scenario.milestone_edge_list)
                  ELSE AsProblem(scenario.minefields, LinkedList(scenario.minefields))
    /\ UNCHANGED <<playing, guardrails, result, scores, outcome>>

AddGuardrails ==
    /\ problem.n > 0 /\ Matcher!AddGuardrails
    /\ UNCHANGED <<playing, scores, outcome>>

Match ==
    /\ problem.n > 0 /\ Matcher!Match
    /\ UNCHANGED <<playing, scores, outcome>>

\* Without milestones there is nothing to match.
Collect ==
    /\ problem.n = 0 \/ result # Matcher!NoResult
    /\ scores' = Append(scores, IF problem.n = 0 THEN 0 ELSE result.sum)
    /\ outcome' = IF scores = <<>> THEN OutcomeChecks ELSE outcome
    /\ problem' = NoProblem /\ guardrails' = Matcher!NoGuardrails
    /\ result' = Matcher!NoResult
    /\ UNCHANGED playing

Evaluate == StartMatching \/ AddGuardrails \/ Match \/ Collect
OnTask == CarryOut \/ Tell \/ TurnOn
Straying == AskBack \/ Look \/ Fumble \/ TooEarly \/ Unasked \/ StepOnMine \/ GiveUp

Next == OnTask \/ Straying \/ Evaluate

\* The agent goes on with its task; nothing makes it stray.
Spec == Init /\ [][Next]_vars /\ WF_vars(OnTask)

-----------------------------------------------------------------------------
Finished == Len(scores) = 2
Full == scores[1] = Unit * Len(scenario.milestones)

\* A play that follows the milestone DAG, whichever order and batches it takes,
\* is worth the full score and steps on no minefield; asking the user, looking
\* something up besides, or a call that raises costs nothing.
GoodPlaysScoreFull ==
    /\ Finished /\ stray.kind \in {"none", "asked", "looked", "fumbled"}
    /\ scenario \notin OrderSensitive
    => Full /\ scores[2] = 0

\* The outcome score is 1.
OutcomeIsFull == scores[2] = 0 /\ \A m \in DOMAIN outcome : outcome[m] = Unit

\* The outcome does not depend on the route: who has done the whole task, with
\* lookups before what should have come before them if need be, and ends by
\* telling the answer, has the full outcome score, whatever the matcher made of
\* the traces.  (Asking back is left out: a question after the answer replaces
\* it.  So does a second answer the first: where a scenario waits for two, no
\* play has the full outcome score.)
OutcomeIgnoresTheRoute ==
    /\ Finished
    /\ \/ stray.kind \in {"none", "looked", "fumbled"}
       \/ stray.kind = "too early" /\ stray.database = ""
    => OutcomeIsFull <=> Cardinality({m \in DOMAIN outcome : AnswerTemplates(m) # {}}) <= 1

\* The messages that only one snapshot can be matched with, for milestone m.
AnchorsOf(m) ==
    {i \in DOMAIN trail :
        /\ trail[i].milestone = m
        /\ trail[i].traced \/ trail[i].to = "USER"
        /\ \A c \in MilestoneAt(m).snapshot_constraints : c.database = "SANDBOX"}

\* The agent changed something nobody asked for between the calls of two
\* milestones of which one follows the other in the DAG.
WroteUnaskedInBetween ==
    /\ stray.kind = "unasked" /\ stray.database \notin Concerned
    /\ \E e \in scenario.milestone_edge_list :
          /\ \E i \in AnchorsOf(e[1]) : i <= stray.at
          /\ \E j \in AnchorsOf(e[2]) : j > stray.at

\* Nobody gets the full score who leaves out a part of the task, reads before
\* what must come before it, or changes something besides where the guardrails
\* are to see it.  (A write stays in the world, so one that is made too early can
\* be matched later.)
CreditIsEarned ==
    /\ Finished
    /\ \/ stray.kind = "gave up"
       \/ stray.kind = "too early" /\ stray.database = ""
       \/ WroteUnaskedInBetween
    => ~Full

\* A play that does what the minefield forbids is worth nothing: its minefield
\* similarity is not 0, even if the call raised, where calling is forbidden.
ForbiddenCallsNullify ==
    /\ Finished
    /\ \/ stray.kind = "did the forbidden"
       \/ /\ stray.kind = "tried the forbidden"
          /\ \A x \in ToSet(scenario.minefields) :
                \E c \in x.snapshot_constraints : c.kind = "call"
    => scores[2] > 0

\* Every scenario that is not about insufficient information can be done with
\* the tools it offers: an agent that goes on with its task completes it.
EveryTaskCanBeDone == <>(Over \/ scenario \in Unfinished)

-----------------------------------------------------------------------------
(* What is withheld in the scenarios of insufficient information.          *)

\* The tools that tell a fact, each set of them together.
Tellers(fact) ==
    CASE fact = "now" ->
           {{"get_current_timestamp"}, {"search_stock"}, {"search_weather_around_lat_lon"},
            {"add_reminder", "search_reminder"}, {"modify_reminder", "search_reminder"},
            {"send_message_with_phone_number", "search_messages"}}
      [] fact = "here" ->
           {{"get_current_location"}, {"search_location_around_lat_lon"},
            {"search_weather_around_lat_lon"}}
      [] fact = "weather"  -> {{"search_weather_around_lat_lon"}}
      [] fact = "messages" -> {{"search_messages"}}
      [] fact = "phone number of a name" -> {{"search_contacts"}}
      [] fact = "person of a phone number" -> {{"search_contacts"}, {"search_messages"}}

\* What the agent must not know to be right not to call a tool.
NeededBy(tool) ==
    CASE tool \in {"search_lat_lon", "calculate_lat_lon_distance"} -> {"here"}
      [] tool = "search_weather_around_lat_lon" -> {"now", "here"}
      [] tool \in {"timestamp_diff", "search_reminder", "modify_reminder",
                   "remove_reminder"} -> {"now"}
      [] tool = "unit_conversion" -> {"weather"}
      [] tool = "modify_contact"  -> {"messages"}
      [] tool = "remove_contact"  -> {"person of a phone number"}
      [] tool = "send_message_with_phone_number" -> {"phone number of a name"}

\* named_scenarios offers each scenario with all tools too; what is denied stays
\* denied.
Revealed(fact) ==
    \E tools \in Tellers(fact) : tools \intersect (scenario.tool_deny_list \union Forbidden) = {}

\* Whatever tools are offered besides, what a forbidden call lacks cannot be
\* found out with those that are not denied.
InformationIsWithheld ==
    scenario \notin Leaky =>
        \A tool \in Forbidden : \E fact \in NeededBy(tool) : ~Revealed(fact)
=============================================================================
