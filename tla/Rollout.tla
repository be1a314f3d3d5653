------------------------------- MODULE Rollout -------------------------------
(***************************************************************************)
(* Scenario.play of tool_sandbox/common/scenario.py: the roles take turns   *)
(* on the SANDBOX messages, each turn being the respond() of the role the  *)
(* last message is addressed to.                                           *)
(*                                                                         *)
(* The agent may ask for several tool calls at once.  The execution        *)
(* environment (roles/execution_environment.py) tries such a batch in      *)
(* every order, on copies of the context, and keeps the first order when   *)
(* all succeed and the first failing one otherwise.  Tools act on the      *)
(* SETTING row (tools/setting.py), end the conversation                    *)
(* (tools/user_tools.py), or are generated helpers                         *)
(* (sage_ts/runtime/toolsandbox_integration.py), whose reuse callback      *)
(* writes to disk and is not undone with the context.                      *)
(*                                                                         *)
(* Message texts, tool arguments other than on/off, and the language       *)
(* models are abstracted: a model's answer is any answer the role accepts. *)
(***************************************************************************)
EXTENDS Integers, SequencesExt, FiniteSetsExt

CONSTANTS
  AgentCalls,    \* the tool calls the agent may ask for: [tool, on] records
  MaxBatch,      \* the most tool calls in one model answer
  MaxMessages    \* Scenario.max_messages

ASSUME RolloutAssumption ==
  /\ MaxBatch \in Nat \ {0} /\ MaxMessages \in Nat
  /\ AgentCalls \subseteq [tool : STRING, on : BOOLEAN]

VARIABLES
  msgs,          \* the SANDBOX rows
  settings,      \* the SETTING row of the current context
  reuses,        \* reuse callbacks of generated helpers so far
  status         \* "ready", "running", "done" or "failed" (play raised)

rvars == <<msgs, settings, reuses, status>>

Services == {"cellular", "wifi", "location_service"}
LowBattery == "low_battery_mode"
Settings == Services \union {LowBattery}

None == 0     \* no request, no trace

-----------------------------------------------------------------------------
(* Tools                                                                   *)

\* Whether the tool returns: otherwise it raises and leaves no trace.  A helper
\* always returns; "noisy" is a call that returns but also writes to stderr.
Succeeds(ctx, c) ==
  CASE c.tool \in Services ->
         /\ ctx.settings[c.tool] # c.on
         /\ ~ (c.on /\ ctx.settings[LowBattery])
    [] c.tool = LowBattery -> ctx.settings[LowBattery] # c.on
    [] c.tool = "end_conversation" -> ctx.active
    [] c.tool = "broken" -> FALSE
    [] OTHER -> TRUE

\* Mutant: the first service that is off already ends the loop over them.
SettingsAfterUncaught(s, c) ==
  CASE c.tool = LowBattery /\ c.on ->
         [x \in Settings |-> \/ x = LowBattery
                             \/ ~ s["cellular"] /\ s[x]
                             \/ x = "location_service" /\ ~ s["wifi"] /\ s[x]]
    [] c.tool \in Services \/ (c.tool = LowBattery /\ ~ c.on) -> [s EXCEPT ![c.tool] = c.on]
    [] OTHER -> s

\* Turning low battery mode on turns every service off, those already off too.
SettingsAfter(s, c) ==
  CASE c.tool = LowBattery /\ c.on -> [x \in Settings |-> x = LowBattery]
    [] c.tool \in Services \/ (c.tool = LowBattery /\ ~ c.on) -> [s EXCEPT ![c.tool] = c.on]
    [] OTHER -> s

\* respond_to_single_message: the context and the responses after one more call.
\* stderr decides tool_call_exception, the tool itself the trace.
RunCall(ctx, m) ==
  LET ok == Succeeds(ctx, m.call)
  IN  [settings  |-> IF ok THEN SettingsAfter(ctx.settings, m.call) ELSE ctx.settings,
       active    |-> IF ok /\ m.call.tool = "end_conversation" THEN ~ ctx.active ELSE ctx.active,
       traces    |-> IF ok THEN Append(ctx.traces, m.req) ELSE ctx.traces,
       responses |-> Append(ctx.responses,
                            [m EXCEPT !.from = "execution_environment", !.to = m.from,
                                      !.exc = ~ ok \/ m.call.tool = "noisy"])]

Failure(ctx) == \E r \in ToSet(ctx.responses) : r.exc

-----------------------------------------------------------------------------
(* A batch of requests                                                     *)

\* A run, with one of the requests that it has not run yet.
OneMoreCall(run, requests) ==
  {[order |-> Append(run.order, i), ctx |-> RunCall(run.ctx, requests[i])] :
     i \in DOMAIN requests \ ToSet(run.order)}

\* The requests run from ctx in every order (itertools.permutations), each time
\* on a copy of the context: the orders, with the contexts they lead to.
RunsInAllOrders(ctx, requests) ==
  LET runs[n \in 0..Len(requests)] ==
        IF n = 0 THEN {[order |-> <<>>, ctx |-> ctx]}
        ELSE UNION {OneMoreCall(r, requests) : r \in runs[n - 1]}
  IN  runs[Len(requests)]

\* The order in which itertools.permutations yields them.
Earlier(p, q) ==
  \E i \in DOMAIN p : p[i] < q[i] /\ \A j \in 1..(i - 1) : p[j] = q[j]

FirstOf(runs) == CHOOSE r \in runs : \A s \in runs \ {r} : Earlier(r.order, s.order)
LastOf(runs)  == CHOOSE r \in runs : \A s \in runs \ {r} : Earlier(s.order, r.order)

\* Mutant: a failing batch answers with the responses of the first order, in the
\* context of the last.
KeepMixed(runs) ==
  [ctx |-> [LastOf(runs).ctx EXCEPT !.responses = FirstOf(runs).ctx.responses],
   ran |-> Cardinality(runs)]

\* respond_to_messages_set_all_order_permutations: of the runs, the first that
\* fails, and the first if none does; and how many of them were run.
Keep(runs) ==
  LET failing == {r \in runs : Failure(r.ctx)}
  IN  IF failing = {}
      THEN [ctx |-> FirstOf(runs).ctx, ran |-> Cardinality(runs)]
      ELSE [ctx |-> FirstOf(failing).ctx,
            ran |-> Cardinality({r \in runs : ~ Earlier(FirstOf(failing).order, r.order)})]

\* Mutant: traces go by position, failed calls included.
TracesByPosition(responses, traces) ==
  [i \in DOMAIN responses |->
     IF responses[i].exc \/ i \notin DOMAIN traces THEN responses[i]
     ELSE [responses[i] EXCEPT !.trace = traces[i]]]

\* Mutant: only successful calls are answered.
ExceptionsSwallowed(responses, traces) == SelectSeq(responses, LAMBDA r : ~ r.exc)

\* The responses in order, the i-th successful one with the i-th trace.
WithTraces(responses, traces) ==
  [i \in DOMAIN responses |->
     IF responses[i].exc \/ traces = <<>> THEN responses[i]
     ELSE LET n == Cardinality({j \in 1..i : ~ responses[j].exc})
          IN  [responses[i] EXCEPT !.trace = traces[n]]]

-----------------------------------------------------------------------------
(* The conversation                                                        *)

\* Mutant: only the last message is processed.
LastMessageToProcess == <<Last(msgs)>>

\* get_messages_to_process: the messages at the end addressed to the role.
MessagesToProcess ==
  LET from == Min({i \in DOMAIN msgs :
                     \A j \in i..Len(msgs) : msgs[j].to = "execution_environment"})
  IN  SubSeq(msgs, from, Len(msgs))

\* add_messages: conversation_active carries over from the message before.
AddMessages(old, new) ==
  msgs' = old \o [i \in DOMAIN new |-> [new[i] EXCEPT !.active = Last(old).active]]

Message(from, to, call, req) ==
  [from |-> from, to |-> to, call |-> call, req |-> req,
   exc |-> FALSE, trace |-> None, active |-> TRUE]

Text == [tool |-> "none", on |-> FALSE]

\* Natural language from one role to the other.
SendText(from, to) ==
  AddMessages(msgs, <<Message(from, to, Text, None)>>)

\* Tool calls, one message each.
SendCalls(from, calls) ==
  AddMessages(msgs,
              [i \in DOMAIN calls |->
                 Message(from, "execution_environment", calls[i], Len(msgs) + i)])

\* The starting context: the imports for the console, then the user's request.
StartMessages ==
  <<Message("system", "execution_environment", Text, None),
    Message("user", "agent", Text, None)>>

\* Mutant: the end of the conversation is not looked at.
ContinuesRegardless == Len(msgs) < MaxMessages + Len(StartMessages)

\* The loop condition of play; indices count from 0.
Continues ==
  /\ Last(msgs).active
  /\ Len(msgs) < MaxMessages + Len(StartMessages)

Init ==
  /\ msgs = StartMessages
  /\ settings \in [Settings -> BOOLEAN]
  /\ settings[LowBattery] => \A x \in Services : ~ settings[x]
  /\ reuses = 0
  /\ status = "ready"

\* The console consumes the system message, without an answer.
Prepare ==
  /\ status = "ready"
  /\ status' = "running"
  /\ UNCHANGED <<msgs, settings, reuses>>

Turn(role) == status = "running" /\ Continues /\ Last(msgs).to = role

\* OpenAIAPIAgent.respond.  Only a missing list of tool calls is text: an empty one
\* adds no message, and play gives the same role the next turn.
AgentRespond ==
  /\ Turn("agent")
  /\ \/ SendText("agent", "user")
     \/ \E n \in 0..MaxBatch : \E calls \in [1..n -> AgentCalls] : SendCalls("agent", calls)
  /\ UNCHANGED <<settings, reuses, status>>

EndConversation == [tool |-> "end_conversation", on |-> FALSE]

\* OpenAIAPIUser.respond: the tools are offered only in answer to the agent.  Here
\* too the list may be empty.
UserRespond ==
  /\ Turn("user")
  /\ \/ SendText("user", "agent")
     \/ /\ Last(msgs).from = "agent"
        /\ \E n \in 0..MaxBatch : SendCalls("user", [i \in 1..n |-> EndConversation])
  /\ UNCHANGED <<settings, reuses, status>>

\* The requests at the end of the conversation, in all orders.
Runs ==
  RunsInAllOrders([settings |-> settings, active |-> Last(msgs).active,
                   traces |-> <<>>, responses |-> <<>>],
                  MessagesToProcess)

TracesMatch(ctx) ==
  \/ ctx.traces = <<>>
  \/ Len(ctx.traces) = Cardinality({i \in DOMAIN ctx.responses : ~ ctx.responses[i].exc})

HelperCalls(requests) ==
  Cardinality({i \in DOMAIN requests : requests[i].call.tool = "helper"})

\* ExecutionEnvironment.respond.  Every successful response takes a trace;
\* traces left over fail the assertion, and play with it.
ExecutionRespond ==
  /\ Turn("execution_environment")
  /\ \E runs \in {Runs} : \E run \in {Keep(runs)} :
       /\ settings' = run.ctx.settings
       /\ reuses' = reuses + run.ran * HelperCalls(MessagesToProcess)
       /\ \/ /\ ~ TracesMatch(run.ctx)
             /\ status' = "failed"
             /\ UNCHANGED msgs
          \/ /\ TracesMatch(run.ctx)
             /\ AddMessages([msgs EXCEPT ![Len(msgs)].active = run.ctx.active],
                            WithTraces(run.ctx.responses, run.ctx.traces))
             /\ UNCHANGED status

\* A model gives no usable answer: three failed attempts, or an unknown tool.
ModelFails ==
  /\ Turn("agent") \/ Turn("user")
  /\ status' = "failed"
  /\ UNCHANGED <<msgs, settings, reuses>>

Finish ==
  /\ status = "running" /\ ~ Continues
  /\ status' = "done"
  /\ UNCHANGED <<msgs, settings, reuses>>

Next ==
  \/ Prepare \/ AgentRespond \/ UserRespond \/ ExecutionRespond
  \/ ModelFails \/ Finish

Spec == Init /\ [][Next]_rvars

\* The turn of a model that is offered tools, which may come to nothing any number
\* of times.
MayAddNothing ==
  \/ Turn("agent")
  \/ Turn("user") /\ Last(msgs).from = "agent"

(* play is one thread that loops until it is done: every turn has an effect, *)
(* save those of a model that may add nothing.                             *)
FairSpec == Spec /\ WF_rvars(~ MayAddNothing /\ Next)

-----------------------------------------------------------------------------
(* Safety                                                                  *)

Calls == AgentCalls \union {EndConversation, Text}

Roles == {"system", "user", "agent", "execution_environment"}
SandboxRow == [from : Roles, to : Roles, call : Calls, req : Nat, exc : BOOLEAN,
               trace : Nat, active : BOOLEAN]

TypeOK ==
  /\ msgs \in Seq(SandboxRow) /\ Len(msgs) >= 2
  /\ settings \in [Settings -> BOOLEAN]
  /\ reuses \in Nat
  /\ status \in {"ready", "running", "done", "failed"}

IsRequest(m) == m.to = "execution_environment" /\ m.from # "system"
IsResponse(m) == m.from = "execution_environment"

(* base_scenarios.py:219 "when low_battery_mode is on, all other services   *)
(* must be off": no sequence or batch of set_* calls, in any of the orders *)
(* tried, and no rejected batch leaves a service on in low battery mode.   *)
LowBatteryExcludesServices ==
  settings[LowBattery] => \A x \in Services : ~ settings[x]

(* A response carries the trace of its own call, and carries one exactly   *)
(* when the call succeeded, whatever order the batch was run in; requests  *)
(* keep none (execution_environment.py:295-328).                           *)
TracesBelongToTheirCalls ==
  \A i \in DOMAIN msgs :
    msgs[i].trace = IF IsResponse(msgs[i]) /\ ~ msgs[i].exc THEN msgs[i].req ELSE None

(* Every tool call is answered exactly once, to the role that made it, also *)
(* when the batch is rejected and the answers come in another order.       *)
EveryRequestAnsweredOnce ==
  \A i \in DOMAIN msgs :
    IsRequest(msgs[i]) /\ (\E j \in i..Len(msgs) : ~ IsRequest(msgs[j])) =>
      LET answers == {j \in DOMAIN msgs : IsResponse(msgs[j]) /\ msgs[j].req = i}
      IN  /\ Cardinality(answers) = 1
          /\ \A j \in answers : /\ j > i
                                /\ msgs[j].to = msgs[i].from
                                /\ msgs[j].call = msgs[i].call

(* Once end_conversation succeeded the flag never comes back, and nobody but *)
(* the execution environment, answering the batch at hand, speaks again.   *)
ConversationEndsOnce ==
  \A i, j \in DOMAIN msgs :
    i < j /\ ~ msgs[i].active => ~ msgs[j].active /\ IsResponse(msgs[j])

\* What a response says has become of the settings.
Said(s, m) == IF IsResponse(m) /\ ~ m.exc THEN SettingsAfter(s, m.call) ELSE s

\* What the messages say, one after the other.
Replay(s, messages) ==
  LET after[i \in 0..Len(messages)] == IF i = 0 THEN s ELSE Said(after[i - 1], messages[i])
  IN  after[Len(messages)]

NewMessages == SubSeq(msgs', Len(msgs) + 1, Len(msgs'))

(* The settings a turn leaves are those the new responses account for, in  *)
(* the order in which they appear: the context that is kept and the        *)
(* messages that are kept come from the same order of the batch.           *)
ResponsesExplainSettings ==
  [][status' # "failed" => settings' = Replay(settings, NewMessages)]_rvars

-----------------------------------------------------------------------------
(* Liveness: every rollout ends, whatever the models answer, unless one of  *)
(* them answers every call from some point on with an empty list of tool   *)
(* calls (or no more): play counts messages, not turns (scenario.py:97-106). *)
Terminates == <>(status \in {"done", "failed"}) \/ <>[]MayAddNothing

-----------------------------------------------------------------------------
(* What is said of the code and does not hold                              *)

(* docs/artifact_schema.md:11 "`reuse_events.jsonl`: later-scenario         *)
(* generated-tool invocations": one event for each call of a helper.       *)
ReusesAreCalls ==
  reuses <= Cardinality({i \in DOMAIN msgs :
                           IsRequest(msgs[i]) /\ msgs[i].call.tool = "helper"})
=============================================================================
