----------------------------- MODULE PhoneTools -----------------------------
(***************************************************************************)
(* The tools that keep contacts, messages and reminders                    *)
(* (tool_sandbox/tools/contact.py, messaging.py, reminder.py) on the       *)
(* versioned tables of ExecutionContext, called in batches that the        *)
(* execution environment runs in every order.                              *)
(*                                                                         *)
(* A modification is a removal followed by an addition, so it relies on    *)
(* the table in between.  The base scenarios fill these tables after their *)
(* first messages, when the headguards are lost: a removal that leaves no  *)
(* row brings the snapshot of an earlier message back.  `reverted' says    *)
(* that this has happened; the model stops there.                          *)
(***************************************************************************)
EXTENDS ExecutionContext, FiniteSets, SequencesExt

CONSTANTS
  Phones, Contents, BaseIds,  \* phone numbers, contents of reminders, identifiers of base rows
  BaseRows,     \* [Namespaces -> SUBSET Row]: what base_scenarios adds
  AgentCalls,   \* the calls an agent may make
  MaxBatch      \* bound on the calls in one message

VARIABLES
  answers,      \* the calls of the last batch in the order that was kept, each
                \* with its new identifier and with whether it succeeded
  reverted      \* a removal has brought an earlier snapshot back

pvars == <<dbs, maxIndex, answers, reverted>>

NamespaceOf(tool) ==
  CASE tool \in {"add_contact", "modify_contact", "remove_contact"} -> "CONTACT"
    [] tool \in {"add_reminder", "modify_reminder", "remove_reminder"} -> "REMINDER"
    [] tool = "send_message_with_phone_number" -> "MESSAGING"
    [] tool = "set_cellular_service_status" -> "SETTING"

Adding == {"add_contact", "add_reminder"}
Modifying == {"modify_contact", "modify_reminder"}
Removing == {"remove_contact", "remove_reminder"}

\* The columns of the four tables; a new identifier is a message index.
Ids == BaseIds \union Index
Contact  == [id : Ids, phone : Phones, is_self : BOOLEAN]
Reminder == [id : Ids, content : Contents]
Message  == [id : Ids, sender : Ids, from : Phones, to : Phones, recipients : SUBSET Ids]
Setting  == [cellular : BOOLEAN]

\* The arguments a tool takes; those of a modification are optional.
Takes(tool, given) ==
  \/ tool = "add_contact" /\ given \in [phone : Phones, is_self : BOOLEAN]
  \/ /\ tool = "modify_contact"
     /\ given \in [phone : Phones, is_self : BOOLEAN] \union [phone : Phones]
                 \union [is_self : BOOLEAN]
  \/ tool \in {"add_reminder", "modify_reminder"} /\ given \in [content : Contents]
  \/ tool \in Removing
  \/ tool = "send_message_with_phone_number" /\ given \in [phone : Phones]
  \/ tool = "set_cellular_service_status" /\ given \in Setting

\* What a table holds before the request of the user.
BaseContent(ns) == InitialRows[ns] \union BaseRows[ns]

\* The identifiers of base rows are none of the new ones, and are unique like the
\* self entry (base_scenarios.py:76-211); the settings are one row
\* (execution_context.py:216-236), which a scenario replaces (base_scenarios.py:228).
ASSUME PhoneAssumption ==
  /\ Namespaces = {"CONTACT", "MESSAGING", "REMINDER", "SETTING"}
  /\ Contact \union Reminder \union Message \union Setting \subseteq Row
  /\ MaxIndex > 1 /\ MaxBatch \in Nat
  /\ BaseIds \intersect (2..MaxIndex) = {}
  /\ BaseRows \in [Namespaces -> SUBSET Row]
  /\ BaseContent("CONTACT") \subseteq Contact /\ BaseContent("REMINDER") \subseteq Reminder
  /\ \A ns \in {"CONTACT", "REMINDER"} :
       /\ \A r \in BaseContent(ns) : r.id \in BaseIds
       /\ \A r, s \in BaseContent(ns) : r.id = s.id => r = s
  /\ \A r, s \in BaseContent("CONTACT") : r.is_self /\ s.is_self => r = s
  /\ \E s \in Setting : BaseContent("SETTING") = {s}
  /\ \A c \in AgentCalls : Takes(c.tool, c.given)

-----------------------------------------------------------------------------
(* One call, on the tables d as of message k                               *)

Rows(d, ns, k) == GetDatabase(d[ns], k)

\* search_contacts(is_self=True)
Selves(contacts) == {r \in contacts : r.is_self}

ClaimsSelf(call) == "is_self" \in DOMAIN call.given /\ call.given.is_self

Named(rows, call) == {r \in rows : r.id = call.id}

CellularIsOn(settings) == \E r \in settings : r.cellular

\* Mutant: only an addition looks for another self entry.
AdditionsLeaveOneSelf(contacts, call) ==
  call.tool \in Adding /\ ClaimsSelf(call) => Selves(contacts) = {}

\* The check of add_contact and modify_contact for another self entry.
LeavesOneSelf(contacts, call) ==
  ClaimsSelf(call) =>
    \A s \in Selves(contacts) : call.tool \in Modifying /\ s.id = call.id

\* Whether the call returns.  NoDataError and DuplicateError for an entry that
\* is not there or not alone, DuplicateError for a second self entry and for a
\* sender who is not the only one, ConnectionError without cellular service,
\* ValueError for a setting that is as asked.
Returns(d, k, call) ==
  LET rows == Rows(d, NamespaceOf(call.tool), k)
      contacts == Rows(d, "CONTACT", k)
  IN  \/ call.tool \in Adding /\ LeavesOneSelf(contacts, call)
      \/ /\ call.tool \in Modifying
         /\ LeavesOneSelf(contacts, call) /\ Cardinality(Named(rows, call)) = 1
      \/ call.tool \in Removing /\ Named(rows, call) # {}
      \/ /\ call.tool = "send_message_with_phone_number"
         /\ CellularIsOn(Rows(d, "SETTING", k)) /\ Cardinality(Selves(contacts)) = 1
      \/ call.tool = "set_cellular_service_status" /\ call.given \notin rows

\* The entry of an addition; `id' is the new uuid.
NewEntry(call, id) == [f \in DOMAIN call.given \union {"id"} |->
                         IF f = "id" THEN id ELSE call.given[f]]

\* The entry with the fields that are given.
Changed(entry, call) ==
  [f \in DOMAIN entry |-> IF f \in DOMAIN call.given THEN call.given[f] ELSE entry[f]]

\* A message from the self entry.  The recipient is the first contact with the
\* number; which one that is depends on the order of the rows, which is
\* abstracted, so the model keeps all of them.
NewMessage(contacts, call, id) ==
  LET sender == CHOOSE s \in Selves(contacts) : TRUE
  IN  [id |-> id, sender |-> sender.id, from |-> sender.phone, to |-> call.given.phone,
       recipients |-> {r.id : r \in {c \in contacts : c.phone = call.given.phone}}]

\* remove_from_database, then add_to_database.
Modified(db, k, call) ==
  LET rows  == GetDatabase(db, k)
      entry == CHOOSE r \in Named(rows, call) : TRUE
  IN  Added(Removed(db, k, Named(rows, call)), k, {Changed(entry, call)})

\* The table a call leaves.  One that raises has changed nothing, but for a
\* removal, which has restated the snapshot.
TableAfter(d, k, call, id) ==
  LET db == d[NamespaceOf(call.tool)]
  IN  IF Returns(d, k, call)
      THEN CASE call.tool \in Adding -> Added(db, k, {NewEntry(call, id)})
             [] call.tool \in Modifying -> Modified(db, k, call)
             [] call.tool \in Removing -> Removed(db, k, Named(GetDatabase(db, k), call))
             [] call.tool = "send_message_with_phone_number" ->
                  Added(db, k, {NewMessage(Rows(d, "CONTACT", k), call, id)})
             [] call.tool = "set_cellular_service_status" -> Updated(db, k, {call.given})
      ELSE IF call.tool \in Removing THEN MaybeCreateSnapshot(db, k) ELSE db

\* The call leaves nothing at k for a read to find, if only between the two
\* steps of a modification.
Reverts(d, k, call) ==
  /\ call.tool \in Modifying \union Removing
  /\ Returns(d, k, call)
  /\ LET db == d[NamespaceOf(call.tool)]
     IN  k \notin Materialised(Removed(db, k, Named(GetDatabase(db, k), call)))

-----------------------------------------------------------------------------
(* A batch                                                                 *)

\* respond_to_single_message, for a call whose new entry would be `id'.
RunCall(ctx, request) ==
  LET call == request.call
  IN  [dbs      |-> [ctx.dbs EXCEPT ![NamespaceOf(call.tool)] =
                       TableAfter(ctx.dbs, ctx.at, call, request.id)],
       at       |-> ctx.at,
       reverted |-> ctx.reverted \/ Reverts(ctx.dbs, ctx.at, call),
       answers  |-> Append(ctx.answers, [call |-> call, id |-> request.id,
                                         ok |-> Returns(ctx.dbs, ctx.at, call)])]

Orders(n) == {p \in [1..n -> 1..n] : IsInjective(p)}

\* Of two different orders, the one itertools.permutations yields first.
Precedes(p, q) ==
  \E i \in DOMAIN p : p[i] < q[i] /\ \A j \in 1..(i - 1) : p[j] = q[j]

FirstOf(orders) == CHOOSE p \in orders : \A q \in orders \ {p} : Precedes(p, q)

Succeeds(ctx) == \A i \in DOMAIN ctx.answers : ctx.answers[i].ok

\* The requests in the order p, one after the other.
RunInOrder(ctx, requests, p) ==
  LET after[i \in 0..Len(requests)] ==
        IF i = 0 THEN ctx ELSE RunCall(after[i - 1], requests[p[i]])
  IN  after[Len(requests)]

\* The contexts that the orders of a batch lead to, each on a copy of ctx.
Outcomes(ctx, requests) ==
  [p \in Orders(Len(requests)) |-> RunInOrder(ctx, requests, p)]

\* Mutant: only the order of the message is run.
RunAsAsked(ctx, requests) == FoldLeft(RunCall, ctx, requests)

\* Mutant: the order that fails is not run on a copy, and then the batch is run.
RunInPlace(ctx, requests) ==
  LET outcome == Outcomes(ctx, requests)
      failing == {p \in DOMAIN outcome : ~ Succeeds(outcome[p])}
  IN  IF failing = {} THEN outcome[FirstOf(DOMAIN outcome)]
      ELSE [FoldLeft(RunCall, outcome[FirstOf(failing)], requests)
              EXCEPT !.answers = outcome[FirstOf(failing)].answers]

\* respond_to_messages_set_all_order_permutations: the first order when all
\* succeed, else the first that fails.
RunAllOrders(ctx, requests) ==
  LET outcome == Outcomes(ctx, requests)
      failing == {p \in DOMAIN outcome : ~ Succeeds(outcome[p])}
  IN  outcome[FirstOf(IF failing = {} THEN DOMAIN outcome ELSE failing)]

\* What the environment starts with once the n requests are messages.
Start(n) == [dbs |-> dbs, at |-> CurrentIndex + n, reverted |-> FALSE, answers |-> <<>>]

Requests(calls) == [i \in DOMAIN calls |-> [call |-> calls[i], id |-> maxIndex + i]]

-----------------------------------------------------------------------------
\* The tables of the base scenario: filled after its first messages (index 0
\* stands for them), before the request of the user (1).
BaseTable(ns) ==
  LET created == [heads |-> {0},
                  rows |-> [i \in Index |-> IF i = 0 THEN InitialRows[ns] ELSE {}]]
  IN  IF BaseRows[ns] = {} THEN created ELSE Added(created, 1, BaseRows[ns])

PhoneInit ==
  /\ dbs = [ns \in Namespaces |-> BaseTable(ns)]
  /\ maxIndex = 1
  /\ answers = <<>>
  /\ reverted = FALSE

\* The agent sends a batch of calls and the environment answers it: as many
\* messages again.
CallTools(calls) ==
  /\ ~ reverted                              \* bound
  /\ maxIndex + 2 * Len(calls) < MaxIndex    \* bound
  /\ \E outcome \in {RunAllOrders(Start(Len(calls)), Requests(calls))} :
       /\ dbs' = outcome.dbs
       /\ answers' = outcome.answers
       /\ reverted' = outcome.reverted
  /\ maxIndex' = maxIndex + 2 * Len(calls)

PhoneNext == \E n \in 1..MaxBatch : \E calls \in [1..n -> AgentCalls] : CallTools(calls)

PhoneSpec == PhoneInit /\ [][PhoneNext]_pvars

-----------------------------------------------------------------------------
World == [ns \in Namespaces |-> Rows(dbs, ns, CurrentIndex)]

(* Whatever was added, modified and removed, in any batches, no two entries *)
(* share an identifier and no two are self: modify_contact,                *)
(* modify_reminder and send_message_with_phone_number would raise          *)
(* DuplicateError for ever (contact.py:127, reminder.py:124,               *)
(* messaging.py:63).                                                       *)
NoDuplicates ==
  ~ reverted =>
    /\ \A ns \in {"CONTACT", "REMINDER"} : \A r, s \in World[ns] : r.id = s.id => r = s
    /\ Cardinality(Selves(World.CONTACT)) <= 1

\* What a call that succeeded says it did, on tables without a history.
Told(world, answer) ==
  LET call == answer.call
      ns   == NamespaceOf(call.tool)
      Now(rows) == [world EXCEPT ![ns] = rows]
  IN  IF ~ answer.ok THEN world ELSE
      CASE call.tool \in Adding -> Now(world[ns] \union {NewEntry(call, answer.id)})
        [] call.tool \in Modifying ->
             Now({IF r.id = call.id THEN Changed(r, call) ELSE r : r \in world[ns]})
        [] call.tool \in Removing -> Now({r \in world[ns] : r.id # call.id})
        [] call.tool = "send_message_with_phone_number" ->
             Now(world[ns] \union {NewMessage(world.CONTACT, call, answer.id)})
        [] OTHER -> Now({call.given})

\* What a batch of answers says it did.
ToldByAll(world, batch) ==
  LET after[i \in 0..Len(batch)] == IF i = 0 THEN world ELSE Told(after[i - 1], batch[i])
  IN  after[Len(batch)]

(* The tables are what the answers tell, one after the other, of the world *)
(* as it was: nothing of the orders that were tried and dropped is left,   *)
(* a modification changes one entry in place and a removal takes one away. *)
AnswersExplainTheWorld ==
  [][~ reverted' => World' = ToldByAll(World, answers')]_pvars

\* Two calls whose order matters although both orders succeed: they give one
\* field of one entry two values, or one changes who a message is from or to.
Clash(c, e) ==
  \/ /\ {c.tool, e.tool} \subseteq Modifying /\ c.tool = e.tool /\ c.id = e.id
     /\ \E f \in DOMAIN c.given \intersect DOMAIN e.given : c.given[f] # e.given[f]
  \/ /\ c.tool = "send_message_with_phone_number" /\ NamespaceOf(e.tool) = "CONTACT"
     /\ \/ "phone" \in DOMAIN e.given /\ e.given.phone = c.given.phone
        \/ \E r \in World.CONTACT :
             e.tool \notin Adding /\ r.id = e.id /\ (r.is_self \/ r.phone = c.given.phone)

(* A batch that is accepted, because every order of it succeeds, leaves the *)
(* same world in every order, as accepting it presumes                     *)
(* (execution_environment.py:172), unless two of its calls clash.          *)
AcceptedBatchesCommute ==
  [][LET calls == [i \in DOMAIN answers' |-> answers'[i].call]
         outcome == Outcomes(Start(Len(calls)), Requests(calls))
         WorldIn(ctx) == [ns \in Namespaces |-> Rows(ctx.dbs, ns, ctx.at)]
     IN  /\ \A i \in DOMAIN answers' : answers'[i].ok
         /\ \A i, j \in DOMAIN calls : i # j => ~ Clash(calls[i], calls[j])
         /\ \A p \in DOMAIN outcome : ~ outcome[p].reverted
         => \A p \in DOMAIN outcome : WorldIn(outcome[p]) = World']_pvars
=============================================================================
