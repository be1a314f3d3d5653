---------------------------- MODULE RolloutProofs ----------------------------
(***************************************************************************)
(* Proofs about Rollout, for any calls, any size of a batch and any length *)
(* of a conversation: what a batch that is tried in every order leaves     *)
(* behind, and what that makes of the conversation.                        *)
(***************************************************************************)
EXTENDS Rollout, FiniteSetTheorems, SequenceTheorems, WellFoundedInduction, TLAPS

-----------------------------------------------------------------------------
(* The inductive invariant                                                 *)

\* Who speaks to whom: the system and the user begin, tool calls carry the number of
\* their row, and an answer names an earlier call, to whoever made it.
Answers(j, i) == IsResponse(msgs[j]) /\ msgs[j].req = i

RowIsOrderly(i) ==
  LET m == msgs[i]
  IN  /\ m.from # "system"
      /\ IsRequest(m) => m.from \in {"agent", "user"} /\ m.req = i /\ ~ m.exc
      /\ IsResponse(m) => /\ m.req \in 1..(i - 1) /\ IsRequest(msgs[m.req])
                          /\ m.to = msgs[m.req].from /\ m.call = msgs[m.req].call

MessagesAreOrderly ==
  /\ msgs[1].from = "system" /\ msgs[2].from = "user" /\ msgs[2].to = "agent"
  /\ \A i \in 2..Len(msgs) : RowIsOrderly(i)

\* A call that is not among the last ones has its answer, and only one.
RequestsAreAnswered ==
  \A i \in 1..Len(msgs) :
    IsRequest(msgs[i]) /\ (\E j \in i..Len(msgs) : ~ IsRequest(msgs[j])) =>
      \E j \in 1..Len(msgs) : /\ Answers(j, i)
                              /\ \A k \in 1..Len(msgs) : Answers(k, i) => k = j

IInv == /\ TypeOK /\ MessagesAreOrderly
        /\ LowBatteryExcludesServices
        /\ TracesBelongToTheirCalls
        /\ RequestsAreAnswered
        /\ ConversationEndsOnce

-----------------------------------------------------------------------------
(* Numbers                                                                 *)

\* A set of natural numbers has a least one.
LEMMA Least ==
  ASSUME NEW T \in SUBSET Nat, T # {}
  PROVE  \E m \in T : \A j \in T : m <= j
<1>1. PICK m \in T : \A j \in T : <<j, m>> \notin OpToRel(<, Nat)
  BY WFMin, NatLessThanWellFounded, Zenon
<1>2. ASSUME NEW j \in T PROVE ~ (j < m)
  BY <1>1, <1>2, Zenon DEF OpToRel
<1> QED
  BY <1>2

-----------------------------------------------------------------------------
(* The runs of a batch, request by request                                 *)

NewRun(ctx) == [order |-> <<>>, ctx |-> ctx]

\* f[k] are the runs of k of the requests.
IsBuildUp(f, n, ctx, requests) ==
  f = [k \in 0..n |-> IF k = 0 THEN {NewRun(ctx)}
                      ELSE UNION {OneMoreCall(r, requests) : r \in f[k - 1]}]

\* The recursion of RunsInAllOrders defines something.
LEMMA BuildUpExists ==
  ASSUME NEW n \in Nat, NEW ctx, NEW requests
  PROVE  \E f : IsBuildUp(f, n, ctx, requests)
<1> DEFINE T == {k \in Nat : ~ \E f : IsBuildUp(f, k, ctx, requests)}
<1>1. SUFFICES ASSUME T # {} PROVE FALSE
  OBVIOUS
<1>2. PICK m \in T : \A j \in T : m <= j
  <2>1. T \in SUBSET Nat
    OBVIOUS
  <2> HIDE DEF T
  <2> QED
    BY <1>1, <2>1, Least
<1>3. m \in Nat /\ ~ (\E f : IsBuildUp(f, m, ctx, requests))
  OBVIOUS
<1>4. CASE m = 0
  <2> DEFINE f == [k \in 0..0 |-> {NewRun(ctx)}]
  <2>1. IsBuildUp(f, 0, ctx, requests)
    BY DEF IsBuildUp
  <2> QED
    BY <1>3, <1>4, <2>1
<1>5. CASE m # 0
  <2>1. m - 1 \in Nat /\ m - 1 \notin T
    BY <1>2, <1>3, <1>5
  <2>2. PICK g : IsBuildUp(g, m - 1, ctx, requests)
    BY <2>1
  <2> DEFINE more(R) == UNION {OneMoreCall(r, requests) : r \in R}
             h == [k \in 0..m |-> IF k = m THEN more(g[m - 1]) ELSE g[k]]
             next == [k \in 0..m |-> IF k = 0 THEN {NewRun(ctx)} ELSE more(h[k - 1])]
  <2>3. /\ g[0] = {NewRun(ctx)}
        /\ \A k \in 1..(m - 1) : g[k] = more(g[k - 1])
    <3>1. g = [k \in 0..(m - 1) |-> IF k = 0 THEN {NewRun(ctx)} ELSE more(g[k - 1])]
      BY <2>2 DEF IsBuildUp
    <3> HIDE DEF more
    <3>2. \A k \in 0..(m - 1) : g[k] = IF k = 0 THEN {NewRun(ctx)} ELSE more(g[k - 1])
      BY <3>1
    <3> QED
      BY <2>1, <3>2
  <2>4. \A k \in 0..m : h[k] = next[k]
    <3> HIDE DEF more
    <3>1. SUFFICES ASSUME NEW k \in 0..m PROVE h[k] = next[k]
      OBVIOUS
    <3>2. CASE k = 0
      BY <1>5, <2>3, <3>2, <1>3
    <3>3. CASE k = m
      BY <1>3, <1>5, <2>1, <3>3
    <3>4. CASE k # 0 /\ k # m
      <4>1. k \in 1..(m - 1) /\ k - 1 \in 0..m /\ k - 1 # m
        BY <1>3, <3>4
      <4>2. h[k] = g[k] /\ h[k - 1] = g[k - 1]
        BY <4>1, <3>4
      <4> QED
        BY <2>3, <3>4, <4>1, <4>2
    <3> QED
      BY <3>2, <3>3, <3>4
  <2>5. h = next
    <3>1. h = [k \in 0..m |-> h[k]] /\ next = [k \in 0..m |-> next[k]]
      OBVIOUS
    <3> HIDE DEF h, next
    <3> QED
      BY <2>4, <3>1
  <2>6. IsBuildUp(h, m, ctx, requests)
    <3> HIDE DEF h
    <3> QED
      BY <2>5 DEF IsBuildUp
  <2> QED
    BY <1>3, <2>6
<1> QED
  BY <1>4, <1>5

LEMMA RunsBuildUp ==
  ASSUME NEW requests \in Seq(SandboxRow), NEW ctx
  PROVE  \E f : /\ RunsInAllOrders(ctx, requests) = f[Len(requests)]
                /\ f[0] = {NewRun(ctx)}
                /\ \A k \in 1..Len(requests) :
                     f[k] = UNION {OneMoreCall(r, requests) : r \in f[k - 1]}
<1> DEFINE n == Len(requests)
           more(R) == UNION {OneMoreCall(r, requests) : r \in R}
           f == CHOOSE f : f = [k \in 0..n |-> IF k = 0 THEN {NewRun(ctx)} ELSE more(f[k - 1])]
<1>1. n \in Nat
  OBVIOUS
<1>2. \E g : IsBuildUp(g, n, ctx, requests)
  BY <1>1, BuildUpExists
<1>3. f = [k \in 0..n |-> IF k = 0 THEN {NewRun(ctx)} ELSE more(f[k - 1])]
  BY <1>2 DEF IsBuildUp
<1>4. RunsInAllOrders(ctx, requests) = f[n]
  BY DEF RunsInAllOrders, NewRun
<1> HIDE DEF f, more
<1>5. \A k \in 0..n : f[k] = IF k = 0 THEN {NewRun(ctx)} ELSE more(f[k - 1])
  BY <1>3
<1>6. f[0] = {NewRun(ctx)} /\ \A k \in 1..n : f[k] = more(f[k - 1])
  BY <1>1, <1>5
<1> QED
  BY <1>4, <1>6 DEF more

-----------------------------------------------------------------------------
(* What a run of a batch is                                                *)

GoodSettings(s) ==
  s \in [Settings -> BOOLEAN] /\ (s[LowBattery] => \A x \in Services : ~ s[x])

\* No tool that succeeds leaves a service on in low battery mode.
LEMMA SettingsStayGood ==
  ASSUME NEW ctx, GoodSettings(ctx.settings), NEW c \in Calls, Succeeds(ctx, c)
  PROVE  GoodSettings(SettingsAfter(ctx.settings, c))
<1>2. c.on \in BOOLEAN
  <2>1. EndConversation.on \in BOOLEAN /\ Text.on \in BOOLEAN
    BY DEF EndConversation, Text
  <2>2. \A x \in [tool : STRING, on : BOOLEAN] : x.on \in BOOLEAN
    OBVIOUS
  <2> QED
    BY <2>1, <2>2, RolloutAssumption DEF Calls
<1> DEFINE s == ctx.settings
<1>3. s \in [Settings -> BOOLEAN] /\ (s[LowBattery] => \A x \in Services : ~ s[x])
  BY DEF GoodSettings
<1>4. CASE c.tool = LowBattery /\ c.on
  <2>1. SettingsAfter(s, c) = [x \in Settings |-> x = LowBattery]
    BY <1>4 DEF SettingsAfter, Services, LowBattery
  <2>2. \A x \in Services : x # LowBattery /\ x \in Settings
    BY DEF Services, LowBattery, Settings
  <2>3. \A x \in Settings : (x = LowBattery) \in BOOLEAN
    OBVIOUS
  <2> QED
    BY <2>1, <2>2, <2>3 DEF GoodSettings
<1>5. CASE c.tool \in Settings /\ ~ (c.tool = LowBattery /\ c.on)
  <2>3. c.tool = LowBattery \/ c.tool \in Services
    BY <1>5 DEF Settings
  <2>1. SettingsAfter(s, c) = [s EXCEPT ![c.tool] = c.on]
    BY <1>2, <1>5, <2>3 DEF SettingsAfter
  <2>2. c.tool \in Services /\ c.on => ~ s[LowBattery]
    BY <1>5 DEF Succeeds, Services, LowBattery
  <2>4. LowBattery \notin Services /\ LowBattery \in Settings /\ Services \subseteq Settings
    BY DEF Services, LowBattery, Settings
  <2> DEFINE t == [s EXCEPT ![c.tool] = c.on]
  <2>5. t \in [Settings -> BOOLEAN]
    BY <1>2, <1>3, <1>5
  <2>6. \A x \in Settings : t[x] = IF x = c.tool THEN c.on ELSE s[x]
    BY <1>3
  <2> HIDE DEF t, s
  <2>7. ASSUME t[LowBattery], NEW x \in Services PROVE ~ t[x]
    <3>1. CASE c.tool = LowBattery
      BY <3>1, <1>5, <2>4, <2>6, <2>7
    <3>2. CASE c.tool \in Services
      <4>1. s[LowBattery]
        BY <3>2, <2>4, <2>6, <2>7
      <4>2. ~ s[x] /\ (x = c.tool => ~ c.on)
        BY <4>1, <3>2, <1>3, <2>2
      <4> QED
        BY <4>2, <2>4, <2>6
    <3> QED
      BY <3>1, <3>2, <2>3
  <2> QED
    BY <2>1, <2>5, <2>7 DEF GoodSettings, t, s
<1>6. CASE c.tool \notin Settings
  <2>1. SettingsAfter(s, c) = s
    BY <1>6 DEF SettingsAfter, Settings, Services
  <2> QED
    BY <2>1
<1> QED
  BY <1>4, <1>5, <1>6

IsResponseTo(a, m) ==
  /\ a.from = "execution_environment" /\ a.to = m.from
  /\ a.call = m.call /\ a.req = m.req /\ a.trace = m.trace

\* The calls that returned: those without an exception and the noisy ones.
Returned(a) == ~ a.exc \/ a.call.tool = "noisy"
Done(responses, k) == {j \in 1..k : Returned(responses[j])}

\* A run of n of the requests: an order of n of them, a response to each, and one
\* trace for every call that returned.
IsRun(r, n, requests) ==
  /\ r.order \in Seq(1..Len(requests)) /\ Len(r.order) = n
  /\ \A i, j \in 1..n : r.order[i] = r.order[j] => i = j
  /\ Cardinality(ToSet(r.order)) = n
  /\ GoodSettings(r.ctx.settings) /\ r.ctx.active \in BOOLEAN
  /\ r.ctx.responses \in Seq(SandboxRow) /\ Len(r.ctx.responses) = n
  /\ \A k \in 1..n : IsResponseTo(r.ctx.responses[k], requests[r.order[k]])
  /\ r.ctx.traces \in Seq(Nat)
  /\ Len(r.ctx.traces) = Cardinality(Done(r.ctx.responses, n))
  /\ \A k \in Done(r.ctx.responses, n) :
       r.ctx.traces[Cardinality(Done(r.ctx.responses, k))] = r.ctx.responses[k].req

LEMMA DoneIsFinite ==
  ASSUME NEW responses, NEW k \in Nat
  PROVE  /\ IsFiniteSet(Done(responses, k)) /\ Cardinality(Done(responses, k)) \in Nat
         /\ Done(responses, k) \subseteq 1..k
<1>1. IsFiniteSet(1..k) /\ Done(responses, k) \subseteq 1..k
  BY FS_Interval DEF Done
<1>2. IsFiniteSet(Done(responses, k))
  BY <1>1, FS_Subset
<1> QED
  BY <1>1, <1>2, FS_CardinalityType

\* The context after one more call is the context of a run.
LEMMA OneMoreIsARun ==
  ASSUME NEW requests \in Seq(SandboxRow), NEW n \in Nat, NEW r, IsRun(r, n, requests),
         NEW i \in DOMAIN requests \ ToSet(r.order)
  PROVE  IsRun([order |-> Append(r.order, i), ctx |-> RunCall(r.ctx, requests[i])],
               n + 1, requests)
<1> DEFINE m == requests[i]
           ok == Succeeds(r.ctx, m.call)
           a == [m EXCEPT !.from = "execution_environment", !.to = m.from,
                          !.exc = ~ ok \/ m.call.tool = "noisy"]
           order == Append(r.order, i)
           responses == Append(r.ctx.responses, a)
           traces == IF ok THEN Append(r.ctx.traces, m.req) ELSE r.ctx.traces
           after == IF ok THEN SettingsAfter(r.ctx.settings, m.call) ELSE r.ctx.settings
           on == IF ok /\ m.call.tool = "end_conversation" THEN ~ r.ctx.active ELSE r.ctx.active
           new == [order |-> order, ctx |-> RunCall(r.ctx, m)]
<1>1. /\ new.order = order /\ new.ctx.settings = after /\ new.ctx.active = on
      /\ new.ctx.traces = traces /\ new.ctx.responses = responses
  BY DEF RunCall
<1>2. i \in 1..Len(requests) /\ m \in SandboxRow /\ i \notin ToSet(r.order)
  BY ElementOfSeq
<1>3. m.call \in Calls /\ m.req \in Nat /\ m.from \in Roles
  BY <1>2 DEF SandboxRow
<1>4. a \in SandboxRow /\ IsResponseTo(a, m) /\ a.exc = (~ ok \/ m.call.tool = "noisy")
  <2> DEFINE e == ~ ok \/ m.call.tool = "noisy"
  <2>1. e \in BOOLEAN
    OBVIOUS
  <2> HIDE DEF e, m
  <2>2. [m EXCEPT !.from = "execution_environment", !.to = m.from, !.exc = e] \in SandboxRow
    BY <1>2, <1>3, <2>1 DEF SandboxRow, Roles
  <2> QED
    BY <1>2, <2>2 DEF e, m, SandboxRow, IsResponseTo
<1>5. Returned(a) <=> ok
  <2>1. m.call.tool = "noisy" => ok
    BY DEF Succeeds, Services, LowBattery
  <2> QED
    BY <1>4, <2>1 DEF Returned, IsResponseTo
<1>6. GoodSettings(after) /\ on \in BOOLEAN
  BY <1>3, SettingsStayGood DEF IsRun
<1> HIDE DEF a, ok, m, new, after, on
<1>7. /\ order \in Seq(1..Len(requests)) /\ Len(order) = n + 1
      /\ \A k \in 1..n : order[k] = r.order[k]
      /\ order[n + 1] = i
  <2>1. r.order \in Seq(1..Len(requests)) /\ Len(r.order) = n
    BY DEF IsRun
  <2> QED
    BY <1>2, <2>1, AppendProperties
<1> HIDE DEF order
<1>8. ToSet(order) = ToSet(r.order) \cup {i}
  <2>1. DOMAIN order = 1..(n + 1) /\ DOMAIN r.order = 1..n
    BY <1>7 DEF IsRun
  <2>2. (\A k \in 1..n : order[k] = r.order[k]) /\ order[n + 1] = i
    BY <1>7
  <2>3. 1..(n + 1) = 1..n \cup {n + 1}
    OBVIOUS
  <2>4. ToSet(order) = {order[k] : k \in 1..n} \cup {order[n + 1]}
    BY <2>1, <2>3 DEF ToSet
  <2>5. {order[k] : k \in 1..n} = {r.order[k] : k \in 1..n}
    BY <2>2
  <2> QED
    BY <2>1, <2>2, <2>4, <2>5 DEF ToSet
<1>9. Cardinality(ToSet(order)) = n + 1
  <2>1. ToSet(r.order) \subseteq 1..Len(requests)
    BY ElementOfSeq DEF IsRun, ToSet
  <2>2. IsFiniteSet(1..Len(requests))
    BY FS_Interval
  <2>3. IsFiniteSet(ToSet(r.order))
    BY <2>1, <2>2, FS_Subset
  <2> QED
    BY <1>2, <1>8, <2>3, FS_AddElement DEF IsRun
<1>10. \A k, l \in 1..(n + 1) : order[k] = order[l] => k = l
  <2>1. \A k \in 1..n : order[k] # i
    BY <1>2, <1>7 DEF ToSet, IsRun
  <2>2. \A k \in 1..(n + 1) : k \in 1..n \/ k = n + 1
    OBVIOUS
  <2> QED
    BY <1>7, <2>1, <2>2 DEF IsRun
<1>11. /\ responses \in Seq(SandboxRow) /\ Len(responses) = n + 1
       /\ \A k \in 1..n : responses[k] = r.ctx.responses[k]
       /\ responses[n + 1] = a
  BY <1>4, AppendProperties DEF IsRun
<1> HIDE DEF responses
<1>12. \A k \in 1..(n + 1) : IsResponseTo(responses[k], requests[order[k]])
  <2>1. \A k \in 1..(n + 1) : k \in 1..n \/ k = n + 1
    OBVIOUS
  <2>2. IsResponseTo(responses[n + 1], requests[order[n + 1]])
    BY <1>4, <1>7, <1>11 DEF m
  <2>3. \A k \in 1..n : IsResponseTo(responses[k], requests[order[k]])
    BY <1>7, <1>11 DEF IsRun
  <2> QED
    BY <2>1, <2>2, <2>3
<1>13. \A k \in 1..n : Done(responses, k) = Done(r.ctx.responses, k)
  BY <1>11 DEF Done
<1> DEFINE done == Done(r.ctx.responses, n)
<1>14. Done(responses, n + 1) = IF ok THEN done \cup {n + 1} ELSE done
  BY <1>5, <1>11 DEF Done
<1>15. /\ IsFiniteSet(done) /\ Cardinality(done) \in Nat /\ n + 1 \notin done
       /\ done \subseteq 1..n
  <2>1. IsFiniteSet(done) /\ Cardinality(done) \in Nat /\ done \subseteq 1..n
    BY DoneIsFinite
  <2> QED
    BY <2>1
<1>16. Cardinality(Done(responses, n + 1)) = IF ok THEN Cardinality(done) + 1
                                             ELSE Cardinality(done)
  BY <1>14, <1>15, FS_AddElement
<1>17. /\ r.ctx.traces \in Seq(Nat) /\ Len(r.ctx.traces) = Cardinality(done)
       /\ \A k \in done :
            r.ctx.traces[Cardinality(Done(r.ctx.responses, k))] = r.ctx.responses[k].req
  BY DEF IsRun
<1>18. \A k \in done : /\ Cardinality(Done(r.ctx.responses, k)) \in 1..Cardinality(done)
                       /\ k \in 1..n
  <2>1. SUFFICES ASSUME NEW k \in done
                 PROVE  Cardinality(Done(r.ctx.responses, k)) \in 1..Cardinality(done)
    BY <1>15
  <2> DEFINE upto == Done(r.ctx.responses, k)
  <2>2. k \in 1..n /\ k \in upto /\ upto \subseteq done
    BY <1>15 DEF Done
  <2>3. IsFiniteSet(upto) /\ Cardinality(upto) \in Nat
    BY <2>2, DoneIsFinite
  <2> HIDE DEF upto
  <2>4. Cardinality(upto) <= Cardinality(done)
    BY <1>15, <2>2, FS_Subset
  <2>5. Cardinality(upto) # 0
    BY <2>2, <2>3, FS_EmptySet
  <2> QED
    BY <1>15, <2>3, <2>4, <2>5 DEF upto
<1> HIDE DEF done
<1>19. /\ traces \in Seq(Nat) /\ Len(traces) = Cardinality(Done(responses, n + 1))
       /\ \A k \in Done(responses, n + 1) :
            traces[Cardinality(Done(responses, k))] = responses[k].req
  <2>1. CASE ok
    <3> DEFINE longer == Append(r.ctx.traces, m.req)
    <3>1. /\ longer \in Seq(Nat) /\ Len(longer) = Cardinality(done) + 1
          /\ \A k \in 1..Cardinality(done) : longer[k] = r.ctx.traces[k]
          /\ longer[Cardinality(done) + 1] = m.req
      BY <1>3, <1>15, <1>17, AppendProperties
    <3>2. traces = longer
      BY <2>1
    <3> HIDE DEF longer, traces
    <3>3. ASSUME NEW k \in done
          PROVE  traces[Cardinality(Done(responses, k))] = responses[k].req
      BY <1>11, <1>13, <1>17, <1>18, <3>1, <3>2
    <3>4. traces[Cardinality(Done(responses, n + 1))] = responses[n + 1].req
      BY <2>1, <1>4, <1>11, <1>16, <3>1, <3>2 DEF IsResponseTo
    <3> QED
      BY <2>1, <1>14, <1>16, <3>1, <3>2, <3>3, <3>4
  <2>2. CASE ~ ok
    <3>1. traces = r.ctx.traces /\ Done(responses, n + 1) = done
      BY <2>2, <1>14
    <3> HIDE DEF traces
    <3> QED
      BY <2>2, <1>11, <1>13, <1>16, <1>17, <1>18, <3>1
  <2> QED
    BY <2>1, <2>2
<1> HIDE DEF traces
<1> QED
  BY <1>1, <1>6, <1>7, <1>9, <1>10, <1>11, <1>12, <1>19 DEF IsRun, new, m, order

-----------------------------------------------------------------------------
(* All runs of a batch                                                     *)

\* R is what is to be known of the runs of n of the requests.
AreRuns(R, n, requests) ==
  /\ R # {} /\ IsFiniteSet(R)
  /\ \A r \in R : IsRun(r, n, requests)
  /\ \A r, s \in R : r.order = s.order => r = s

Fresh(ctx) ==
  /\ GoodSettings(ctx.settings) /\ ctx.active \in BOOLEAN
  /\ ctx.traces = <<>> /\ ctx.responses = <<>>

LEMMA NoCallIsARun ==
  ASSUME NEW requests \in Seq(SandboxRow), NEW ctx, Fresh(ctx)
  PROVE  AreRuns({NewRun(ctx)}, 0, requests)
<1> DEFINE r == NewRun(ctx)
<1>1. r.order = <<>> /\ r.ctx = ctx
  BY DEF NewRun
<1>2. /\ r.order \in Seq(1..Len(requests)) /\ Len(r.order) = 0 /\ r.ctx.traces \in Seq(Nat)
      /\ Len(r.ctx.traces) = 0 /\ r.ctx.responses \in Seq(SandboxRow)
      /\ Len(r.ctx.responses) = 0
  BY <1>1, EmptySeq DEF Fresh
<1>3. ToSet(r.order) = {} /\ Done(r.ctx.responses, 0) = {} /\ 1..0 = {}
  BY <1>1 DEF ToSet, Done
<1> HIDE DEF r
<1>4. IsRun(r, 0, requests)
  BY <1>1, <1>2, <1>3, FS_EmptySet DEF IsRun, Fresh
<1>5. IsFiniteSet({r})
  BY FS_Singleton
<1> QED
  BY <1>4, <1>5 DEF AreRuns, r

\* The runs with one call more are finitely many.
LEMMA FinitelyManyMore ==
  ASSUME NEW requests \in Seq(SandboxRow), NEW R, IsFiniteSet(R)
  PROVE  IsFiniteSet(UNION {OneMoreCall(r, requests) : r \in R})
<1> DEFINE L == {OneMoreCall(r, requests) : r \in R}
           g == [r \in R |-> OneMoreCall(r, requests)]
<1>1. g \in Surjection(R, L)
  BY DEF Surjection
<1>2. IsFiniteSet(L)
  <2> HIDE DEF L, g
  <2> QED
    BY <1>1, FS_Surjection
<1>3. ASSUME NEW r \in R PROVE IsFiniteSet(OneMoreCall(r, requests))
  <2> DEFINE T == DOMAIN requests \ ToSet(r.order)
             h == [i \in T |-> [order |-> Append(r.order, i),
                                ctx |-> RunCall(r.ctx, requests[i])]]
  <2>1. h \in Surjection(T, OneMoreCall(r, requests))
    BY DEF Surjection, OneMoreCall
  <2>2. DOMAIN requests = 1..Len(requests) /\ Len(requests) \in Nat
    OBVIOUS
  <2>3. IsFiniteSet(DOMAIN requests)
    BY <2>2, FS_Interval
  <2>4. T \in SUBSET DOMAIN requests
    OBVIOUS
  <2>5. IsFiniteSet(T)
    BY <2>3, <2>4, FS_Subset
  <2> HIDE DEF T, h
  <2> QED
    BY <2>1, <2>5, FS_Surjection
<1>4. \A x \in L : IsFiniteSet(x)
  BY <1>3
<1> HIDE DEF L
<1> QED
  BY <1>2, <1>4, FS_UNION DEF L

LEMMA OneMoreCallAreRuns ==
  ASSUME NEW requests \in Seq(SandboxRow), NEW n \in 0..(Len(requests) - 1),
         NEW R, AreRuns(R, n, requests)
  PROVE  AreRuns(UNION {OneMoreCall(r, requests) : r \in R}, n + 1, requests)
<1> DEFINE Q == UNION {OneMoreCall(r, requests) : r \in R}
           With(r, i) == [order |-> Append(r.order, i), ctx |-> RunCall(r.ctx, requests[i])]
<1>1. n \in Nat /\ DOMAIN requests = 1..Len(requests) /\ Len(requests) \in Nat
  OBVIOUS
<1>2. \A s \in Q : \E r \in R : \E i \in DOMAIN requests \ ToSet(r.order) : s = With(r, i)
  BY DEF OneMoreCall
<1>3. ASSUME NEW r \in R, NEW i \in DOMAIN requests \ ToSet(r.order) PROVE With(r, i) \in Q
  <2>1. With(r, i) \in OneMoreCall(r, requests)
    BY DEF OneMoreCall
  <2> QED
    BY <2>1
<1>4. IsFiniteSet(Q)
  BY FinitelyManyMore DEF AreRuns
<1> HIDE DEF Q
<1>5. Q # {}
  <2>1. PICK r \in R : TRUE
    BY DEF AreRuns
  <2>2. Cardinality(ToSet(r.order)) = n
    BY DEF AreRuns, IsRun
  <2>3. IsFiniteSet(DOMAIN requests) /\ Cardinality(DOMAIN requests) = Len(requests)
    BY <1>1, FS_Interval
  <2>4. ToSet(r.order) # DOMAIN requests
    BY <2>2, <2>3, <1>1
  <2>5. ToSet(r.order) \subseteq DOMAIN requests
    <3>1. r.order \in Seq(1..Len(requests))
      BY DEF AreRuns, IsRun
    <3>2. \A k \in DOMAIN r.order : r.order[k] \in 1..Len(requests)
      BY <3>1, ElementOfSeq
    <3> QED
      BY <1>1, <3>2 DEF ToSet
  <2>6. PICK i \in DOMAIN requests : i \notin ToSet(r.order)
    BY <2>4, <2>5
  <2> HIDE DEF With
  <2> QED
    BY <1>3, <2>6
<1>6. \A s \in Q : IsRun(s, n + 1, requests)
  BY <1>1, <1>2, OneMoreIsARun DEF AreRuns
<1>7. ASSUME NEW s \in Q, NEW t \in Q, s.order = t.order PROVE s = t
  <2>1. PICK r \in R, i \in DOMAIN requests : s = With(r, i)
    BY <1>2
  <2>2. PICK q \in R, j \in DOMAIN requests : t = With(q, j)
    BY <1>2
  <2>3. Append(r.order, i) = Append(q.order, j)
    BY <1>7, <2>1, <2>2
  <2>4. /\ r.order \in Seq(1..Len(requests)) /\ Len(r.order) = n
        /\ q.order \in Seq(1..Len(requests)) /\ Len(q.order) = n
    BY DEF AreRuns, IsRun
  <2> HIDE DEF With
  <2>5. /\ \A k \in 1..n : Append(r.order, i)[k] = r.order[k]
        /\ \A k \in 1..n : Append(q.order, j)[k] = q.order[k]
        /\ Append(r.order, i)[n + 1] = i /\ Append(q.order, j)[n + 1] = j
    BY <1>1, <2>4, AppendProperties
  <2>6. i = j /\ \A k \in 1..n : r.order[k] = q.order[k]
    BY <2>3, <2>5
  <2>7. r.order = q.order
    BY <2>4, <2>6, SeqEqual
  <2> QED
    BY <2>1, <2>2, <2>6, <2>7 DEF AreRuns
<1> QED
  BY <1>4, <1>5, <1>6, <1>7 DEF AreRuns, Q

\* What the recursion gives: runs of the whole batch, one for each order.
LEMMA RunsAreRuns ==
  ASSUME NEW requests \in Seq(SandboxRow), NEW ctx, Fresh(ctx)
  PROVE  AreRuns(RunsInAllOrders(ctx, requests), Len(requests), requests)
<1>1. PICK f : /\ RunsInAllOrders(ctx, requests) = f[Len(requests)]
               /\ f[0] = {NewRun(ctx)}
               /\ \A k \in 1..Len(requests) :
                    f[k] = UNION {OneMoreCall(r, requests) : r \in f[k - 1]}
  BY RunsBuildUp
<1> DEFINE T == {k \in 0..Len(requests) : ~ AreRuns(f[k], k, requests)}
<1>2. SUFFICES ASSUME T # {} PROVE FALSE
  BY <1>1
<1>3. PICK m \in T : \A j \in T : m <= j
  <2>1. T \in SUBSET Nat
    OBVIOUS
  <2> HIDE DEF T
  <2> QED
    BY <1>2, <2>1, Least
<1>4. m # 0
  BY <1>1, NoCallIsARun
<1>5. m \in 1..Len(requests) /\ m - 1 \in 0..(Len(requests) - 1)
  BY <1>4
<1>6. AreRuns(f[m - 1], m - 1, requests)
  BY <1>3, <1>5
<1>7. AreRuns(f[m], m - 1 + 1, requests)
  BY <1>1, <1>5, <1>6, OneMoreCallAreRuns
<1> QED
  BY <1>5, <1>7

-----------------------------------------------------------------------------
(* What the responses of a run say                                         *)

\* By t each of the n messages has said what became of s.
IsReplay(t, s, messages, n) ==
  \E f : /\ f[0] = s /\ f[n] = t
         /\ \A k \in 1..n : f[k] = Said(f[k - 1], messages[k])

SaysBuildUp(f, n, s, messages) ==
  f = [k \in 0..n |-> IF k = 0 THEN s ELSE Said(f[k - 1], messages[k])]

\* The recursion of Replay defines something.
LEMMA SaysBuildUpExists ==
  ASSUME NEW n \in Nat, NEW s, NEW messages
  PROVE  \E f : SaysBuildUp(f, n, s, messages)
<1> DEFINE T == {k \in Nat : ~ \E f : SaysBuildUp(f, k, s, messages)}
<1>1. SUFFICES ASSUME T # {} PROVE FALSE
  OBVIOUS
<1>2. PICK m \in T : \A j \in T : m <= j
  <2>1. T \in SUBSET Nat
    OBVIOUS
  <2> HIDE DEF T
  <2> QED
    BY <1>1, <2>1, Least
<1>3. m \in Nat /\ ~ (\E f : SaysBuildUp(f, m, s, messages))
  OBVIOUS
<1>4. m # 0
  <2>1. SaysBuildUp([k \in 0..0 |-> s], 0, s, messages)
    BY DEF SaysBuildUp
  <2> QED
    BY <1>3, <2>1
<1>5. m - 1 \in Nat /\ m - 1 \notin T
  BY <1>2, <1>3, <1>4
<1>6. PICK g : SaysBuildUp(g, m - 1, s, messages)
  BY <1>5
<1> DEFINE h == [k \in 0..m |-> IF k = m THEN Said(g[m - 1], messages[m]) ELSE g[k]]
           next == [k \in 0..m |-> IF k = 0 THEN s ELSE Said(h[k - 1], messages[k])]
<1>7. g[0] = s /\ \A k \in 1..(m - 1) : g[k] = Said(g[k - 1], messages[k])
  <2>1. g = [k \in 0..(m - 1) |-> IF k = 0 THEN s ELSE Said(g[k - 1], messages[k])]
    BY <1>6 DEF SaysBuildUp
  <2>2. \A k \in 0..(m - 1) : g[k] = IF k = 0 THEN s ELSE Said(g[k - 1], messages[k])
    BY <2>1
  <2> QED
    BY <1>5, <2>2
<1>8. ASSUME NEW k \in 0..m PROVE h[k] = next[k]
  <2>1. CASE k = 0
    BY <1>4, <1>7, <2>1, <1>3
  <2>2. CASE k = m
    BY <1>3, <1>4, <1>5, <2>2
  <2>3. CASE k \in 1..(m - 1)
    <3>1. h[k] = g[k] /\ h[k - 1] = g[k - 1]
      BY <1>3, <2>3
    <3> QED
      BY <1>7, <2>3, <3>1
  <2> QED
    BY <1>3, <2>1, <2>2, <2>3
<1>9. h = next
  <2>1. h = [k \in 0..m |-> h[k]] /\ next = [k \in 0..m |-> next[k]]
    OBVIOUS
  <2> HIDE DEF h, next
  <2> QED
    BY <1>8, <2>1
<1>10. SaysBuildUp(h, m, s, messages)
  <2> HIDE DEF h
  <2> QED
    BY <1>9 DEF SaysBuildUp
<1> QED
  BY <1>3, <1>10

\* Whatever the messages say one by one is what Replay makes of them.
LEMMA ReplaysAreReplay ==
  ASSUME NEW n \in Nat, NEW messages, Len(messages) = n, NEW s, NEW t,
         IsReplay(t, s, messages, n)
  PROVE  t = Replay(s, messages)
<1> DEFINE f == CHOOSE f : f = [k \in 0..n |-> IF k = 0 THEN s ELSE Said(f[k - 1], messages[k])]
<1>1. \E g : SaysBuildUp(g, n, s, messages)
  BY SaysBuildUpExists
<1>2. f = [k \in 0..n |-> IF k = 0 THEN s ELSE Said(f[k - 1], messages[k])]
  BY <1>1 DEF SaysBuildUp
<1>3. Replay(s, messages) = f[n]
  BY DEF Replay
<1> HIDE DEF f
<1>4. \A k \in 0..n : f[k] = IF k = 0 THEN s ELSE Said(f[k - 1], messages[k])
  BY <1>2
<1>5. f[0] = s /\ \A k \in 1..n : f[k] = Said(f[k - 1], messages[k])
  BY <1>4
<1>6. PICK g : /\ g[0] = s /\ g[n] = t
               /\ \A k \in 1..n : g[k] = Said(g[k - 1], messages[k])
  BY DEF IsReplay
<1> DEFINE T == {k \in 0..n : f[k] # g[k]}
<1>7. SUFFICES ASSUME T # {} PROVE FALSE
  BY <1>3, <1>6
<1>8. PICK m \in T : \A j \in T : m <= j
  <2>1. T \in SUBSET Nat
    OBVIOUS
  <2> HIDE DEF T
  <2> QED
    BY <1>7, <2>1, Least
<1>9. m \in 1..n /\ m - 1 \in 0..n /\ f[m] # g[m]
  BY <1>5, <1>6
<1>10. f[m - 1] = g[m - 1]
  BY <1>8, <1>9
<1> QED
  BY <1>5, <1>6, <1>9, <1>10

\* The responses of a run say what has become of the settings s it began with.
IsExplained(r, n, s) == IsReplay(r.ctx.settings, s, r.ctx.responses, n)

\* One call more is explained too: a failed one and a noisy one change nothing.
LEMMA OneMoreIsExplained ==
  ASSUME NEW requests \in Seq(SandboxRow), NEW n \in Nat, NEW s,
         NEW r, IsRun(r, n, requests), IsExplained(r, n, s),
         NEW i \in DOMAIN requests
  PROVE  IsExplained([order |-> Append(r.order, i), ctx |-> RunCall(r.ctx, requests[i])],
                     n + 1, s)
<1> DEFINE m == requests[i]
           ok == Succeeds(r.ctx, m.call)
           a == [m EXCEPT !.from = "execution_environment", !.to = m.from,
                          !.exc = ~ ok \/ m.call.tool = "noisy"]
           before == r.ctx.settings
           after == IF ok THEN SettingsAfter(before, m.call) ELSE before
           old == r.ctx.responses
           new == Append(old, a)
           run == [order |-> Append(r.order, i), ctx |-> RunCall(r.ctx, m)]
<1>1. run.ctx.settings = after /\ run.ctx.responses = new
  BY DEF RunCall
<1>2. m \in SandboxRow
  BY ElementOfSeq
<1>3. /\ a.from = "execution_environment" /\ a.call = m.call
      /\ a.exc = (~ ok \/ m.call.tool = "noisy")
  BY <1>2 DEF SandboxRow
<1>4. m.call.tool = "noisy" => SettingsAfter(before, m.call) = before
  BY DEF SettingsAfter, LowBattery, Services
<1>5. after = Said(before, a)
  <2>1. IsResponse(a)
    BY <1>3 DEF IsResponse
  <2> HIDE DEF a, ok, before, m
  <2> QED
    BY <1>3, <1>4, <2>1 DEF Said
<1>6. old \in Seq(SandboxRow) /\ Len(old) = n
  BY DEF IsRun
<1>7. a \in SandboxRow
  <2>1. m.from \in Roles /\ "execution_environment" \in Roles /\ a.exc \in BOOLEAN
    BY <1>2, <1>3 DEF SandboxRow, Roles
  <2>2. (~ ok \/ m.call.tool = "noisy") \in BOOLEAN
    OBVIOUS
  <2> HIDE DEF ok, m
  <2> QED
    BY <1>2, <2>1, <2>2 DEF SandboxRow
<1> HIDE DEF a, after, before, old
<1>8. (\A k \in 1..n : new[k] = old[k]) /\ new[n + 1] = a
  BY <1>6, <1>7
<1> HIDE DEF new
<1>9. PICK f : /\ f[0] = s /\ f[n] = before
               /\ \A k \in 1..n : f[k] = Said(f[k - 1], old[k])
  BY DEF IsExplained, IsReplay, before, old
<1> DEFINE g == [k \in 0..(n + 1) |-> IF k = n + 1 THEN after ELSE f[k]]
<1>10. g[0] = s /\ g[n + 1] = after
  BY <1>9
<1>11. ASSUME NEW k \in 1..(n + 1) PROVE g[k] = Said(g[k - 1], new[k])
  <2>1. CASE k = n + 1
    BY <1>5, <1>8, <1>9, <2>1
  <2>2. CASE k \in 1..n
    <3>1. g[k] = f[k] /\ g[k - 1] = f[k - 1]
      BY <2>2
    <3> QED
      BY <1>8, <1>9, <2>2, <3>1
  <2> QED
    BY <2>1, <2>2
<1> HIDE DEF g
<1>12. IsReplay(after, s, new, n + 1)
  BY <1>10, <1>11 DEF IsReplay
<1> QED
  BY <1>1, <1>12 DEF IsExplained, run

\* So are the runs of the whole batch, in every order.
LEMMA RunsAreExplained ==
  ASSUME NEW requests \in Seq(SandboxRow), NEW ctx, Fresh(ctx)
  PROVE  \A r \in RunsInAllOrders(ctx, requests) : IsExplained(r, Len(requests), ctx.settings)
<1> DEFINE n == Len(requests)
           s == ctx.settings
           Known(R, k) == AreRuns(R, k, requests) /\ \A r \in R : IsExplained(r, k, s)
<1>1. PICK f : /\ RunsInAllOrders(ctx, requests) = f[n]
               /\ f[0] = {NewRun(ctx)}
               /\ \A k \in 1..n :
                    f[k] = UNION {OneMoreCall(r, requests) : r \in f[k - 1]}
  BY RunsBuildUp
<1> DEFINE T == {k \in 0..n : ~ Known(f[k], k)}
<1>2. SUFFICES ASSUME T # {} PROVE FALSE
  BY <1>1
<1>3. PICK m \in T : \A j \in T : m <= j
  <2>1. T \in SUBSET Nat
    OBVIOUS
  <2> HIDE DEF T
  <2> QED
    BY <1>2, <2>1, Least
<1>4. Known(f[0], 0)
  <2>1. IsExplained(NewRun(ctx), 0, s)
    <3> DEFINE g == [k \in 0..0 |-> s]
    <3>1. g[0] = s
      OBVIOUS
    <3> HIDE DEF g
    <3>2. NewRun(ctx).ctx.settings = s
      BY DEF NewRun
    <3> QED
      BY <3>1, <3>2 DEF IsExplained, IsReplay
  <2> QED
    BY <1>1, <2>1, NoCallIsARun
<1>5. m \in 1..n /\ m - 1 \in 0..(n - 1) /\ ~ Known(f[m], m)
  BY <1>4
<1>6. Known(f[m - 1], m - 1)
  BY <1>3, <1>5
<1>7. AreRuns(f[m], m, requests)
  <2>1. AreRuns(f[m], m - 1 + 1, requests)
    BY <1>1, <1>5, <1>6, OneMoreCallAreRuns
  <2> QED
    BY <1>5, <2>1
<1>8. ASSUME NEW q \in f[m] PROVE IsExplained(q, m, s)
  <2>1. PICK r \in f[m - 1] : q \in OneMoreCall(r, requests)
    BY <1>1, <1>5
  <2>2. PICK i \in DOMAIN requests :
          q = [order |-> Append(r.order, i), ctx |-> RunCall(r.ctx, requests[i])]
    BY <2>1 DEF OneMoreCall
  <2>3. IsRun(r, m - 1, requests) /\ IsExplained(r, m - 1, s) /\ m - 1 \in Nat
    BY <1>5, <1>6 DEF AreRuns
  <2>4. IsExplained(q, m - 1 + 1, s)
    BY <2>2, <2>3, OneMoreIsExplained
  <2> QED
    BY <1>5, <2>4
<1> QED
  BY <1>5, <1>7, <1>8

-----------------------------------------------------------------------------
(* The run that is kept                                                    *)

Agree(p, q, k) == \A j \in 1..k : p[j] = q[j]

\* Of runs of the same length in different orders, one comes first.
LEMMA FirstOfIsOne ==
  ASSUME NEW n \in Nat, NEW R, R # {},
         \A r \in R : r.order \in Seq(Nat) /\ Len(r.order) = n,
         \A r, s \in R : r.order = s.order => r = s
  PROVE  FirstOf(R) \in R
<1> DEFINE First(r, k) == \A s \in R : \/ Agree(r.order, s.order, k)
                                       \/ Earlier(r.order, s.order)
           T == {k \in 0..n : ~ \E r \in R : First(r, k)}
<1>1. T = {}
  <2>1. SUFFICES ASSUME T # {} PROVE FALSE
    OBVIOUS
  <2>2. PICK m \in T : \A j \in T : m <= j
    <3>1. T \in SUBSET Nat
      OBVIOUS
    <3> HIDE DEF T
    <3> QED
      BY <2>1, <3>1, Least
  <2>3. m \in 0..n /\ ~ \E r \in R : First(r, m)
    OBVIOUS
  <2>4. m # 0
    BY <2>3 DEF Agree
  <2>5. m - 1 \in 0..n /\ m - 1 \notin T
    BY <2>2, <2>3, <2>4
  <2>6. PICK r \in R : First(r, m - 1)
    BY <2>5
  <2> HIDE DEF T
  <2> DEFINE S == {s \in R : Agree(r.order, s.order, m - 1)}
             N == {s.order[m] : s \in S}
  <2>7. m \in 1..n
    BY <2>3, <2>4
  <2>8. r \in S
    BY DEF Agree
  <2>9. N \in SUBSET Nat /\ N # {}
    BY <2>7, <2>8, ElementOfSeq
  <2>10. PICK v \in N : \A w \in N : v <= w
    BY <2>9, Least
  <2>11. PICK q \in S : q.order[m] = v
    OBVIOUS
  <2>12. ASSUME NEW s \in R
         PROVE  Agree(q.order, s.order, m) \/ Earlier(q.order, s.order)
    <3>1. DOMAIN q.order = 1..n /\ DOMAIN r.order = 1..n
      BY <2>11
    <3>2. Agree(r.order, q.order, m - 1)
      BY <2>11
    <3>3. CASE Agree(r.order, s.order, m - 1)
      <4>1. s.order[m] \in N /\ s.order[m] \in Nat /\ v \in Nat
        BY <3>3, <2>7, <2>9, ElementOfSeq
      <4>2. v <= s.order[m]
        BY <4>1, <2>10
      <4>3. Agree(q.order, s.order, m - 1)
        BY <3>2, <3>3 DEF Agree
      <4> HIDE DEF N, S
      <4>4. CASE s.order[m] = v
        <5>1. \A j \in 1..m : j \in 1..(m - 1) \/ j = m
          BY <2>7
        <5> QED
          BY <4>3, <4>4, <5>1, <2>11 DEF Agree
      <4>5. CASE v < s.order[m]
        BY <4>3, <4>5, <2>7, <2>11, <3>1 DEF Agree, Earlier
      <4> QED
        BY <4>1, <4>2, <4>4, <4>5
    <3>4. CASE ~ Agree(r.order, s.order, m - 1)
      <4>1. PICK i \in 1..n : r.order[i] < s.order[i]
                              /\ \A j \in 1..(i - 1) : r.order[j] = s.order[j]
        BY <2>6, <3>1, <3>4 DEF Earlier
      <4>2. i <= m - 1
        BY <3>4, <4>1, <2>7 DEF Agree
      <4>3. \A j \in 1..i : q.order[j] = r.order[j]
        BY <3>2, <4>2, <2>7 DEF Agree
      <4>4. q.order[i] = r.order[i] /\ \A j \in 1..(i - 1) : q.order[j] = r.order[j]
        BY <4>1, <4>3
      <4>5. q.order[i] < s.order[i] /\ \A j \in 1..(i - 1) : q.order[j] = s.order[j]
        BY <4>1, <4>4
      <4> QED
        BY <3>1, <4>1, <4>5 DEF Earlier
    <3> QED
      BY <3>3, <3>4
  <2> QED
    BY <2>3, <2>11, <2>12
<1>2. PICK r \in R : First(r, n)
  <2>1. n \in 0..n
    OBVIOUS
  <2>2. n \notin T
    <3> HIDE DEF T
    <3> QED
      BY <1>1
  <2> QED
    BY <2>1, <2>2
<1>3. ASSUME NEW s \in R \ {r} PROVE Earlier(r.order, s.order)
  <2>1. Agree(r.order, s.order, n) => r.order = s.order
    BY SeqEqual DEF Agree
  <2> QED
    BY <1>2, <2>1
<1> QED
  BY <1>3 DEF FirstOf

LEMMA KeepsARun ==
  ASSUME NEW requests \in Seq(SandboxRow), NEW R, AreRuns(R, Len(requests), requests)
  PROVE  /\ \E r \in R : Keep(R).ctx = r.ctx
         /\ Keep(R).ran \in Nat
<1> DEFINE failing == {r \in R : Failure(r.ctx)}
           upto == {r \in R : ~ Earlier(FirstOf(failing).order, r.order)}
<1>1. /\ \A r \in R : r.order \in Seq(Nat) /\ Len(r.order) = Len(requests)
      /\ \A r, s \in R : r.order = s.order => r = s
  <2>1. 1..Len(requests) \subseteq Nat
    OBVIOUS
  <2>2. \A r \in R : r.order \in Seq(1..Len(requests)) /\ Len(r.order) = Len(requests)
    BY DEF AreRuns, IsRun
  <2>3. \A r \in R : r.order \in Seq(Nat)
    BY <2>1, <2>2, SeqMonotonic
  <2> QED
    BY <2>2, <2>3 DEF AreRuns
<1>2. Len(requests) \in Nat /\ R # {} /\ IsFiniteSet(R)
  BY DEF AreRuns
<1>3. Cardinality(R) \in Nat /\ Cardinality(upto) \in Nat
  <2>1. upto \in SUBSET R
    OBVIOUS
  <2> HIDE DEF upto
  <2>2. IsFiniteSet(upto)
    BY <1>2, <2>1, FS_Subset
  <2> QED
    BY <1>2, <2>2, FS_CardinalityType
<1>4. CASE failing = {}
  <2>1. FirstOf(R) \in R
    BY <1>1, <1>2, FirstOfIsOne
  <2>2. Keep(R) = [ctx |-> FirstOf(R).ctx, ran |-> Cardinality(R)]
    BY <1>4 DEF Keep
  <2> QED
    BY <1>3, <2>1, <2>2
<1>5. CASE failing # {}
  <2>1. /\ \A r \in failing : r.order \in Seq(Nat) /\ Len(r.order) = Len(requests)
        /\ \A r, s \in failing : r.order = s.order => r = s
    BY <1>1
  <2>2. Keep(R) = [ctx |-> FirstOf(failing).ctx, ran |-> Cardinality(upto)]
    BY <1>5 DEF Keep
  <2>3. FirstOf(failing) \in failing
    <3> HIDE DEF failing
    <3> QED
      BY <1>2, <1>5, <2>1, FirstOfIsOne
  <2> HIDE DEF upto
  <2>4. FirstOf(failing) \in R
    BY <2>3
  <2> HIDE DEF failing
  <2> QED
    BY <1>3, <2>2, <2>4
<1> QED
  BY <1>4, <1>5

LEMMA FunctionIsASeq ==
  ASSUME NEW S, NEW n \in Nat, NEW f \in [1..n -> S]
  PROVE  f \in Seq(S) /\ Len(f) = n /\ DOMAIN f = 1..n
  OBVIOUS

\* In a run of the whole batch every request has its place.
LEMMA EveryRequestIsRun ==
  ASSUME NEW requests \in Seq(SandboxRow), NEW r, IsRun(r, Len(requests), requests),
         NEW i \in 1..Len(requests)
  PROVE  \E k \in 1..Len(requests) : r.order[k] = i
<1> DEFINE n == Len(requests)
<1>1. n \in Nat /\ IsFiniteSet(1..n) /\ Cardinality(1..n) = n
  <2>1. n \in Nat
    OBVIOUS
  <2> HIDE DEF n
  <2> QED
    BY <2>1, FS_Interval
<1>2. DOMAIN r.order = 1..n /\ \A k \in 1..n : r.order[k] \in 1..n
  <2>1. r.order \in Seq(1..n) /\ Len(r.order) = n
    BY DEF IsRun
  <2> HIDE DEF n
  <2>2. DOMAIN r.order = 1..n
    BY <2>1
  <2>3. \A k \in 1..n : r.order[k] \in 1..n
    BY <2>1, ElementOfSeq
  <2> QED
    BY <2>2, <2>3
<1>3. ToSet(r.order) \in SUBSET (1..n) /\ Cardinality(ToSet(r.order)) = n
  BY <1>2 DEF ToSet, IsRun
<1> HIDE DEF n
<1>4. ToSet(r.order) = 1..n
  BY <1>1, <1>3, FS_Subset
<1> QED
  BY <1>2, <1>4 DEF ToSet, n

\* Where the count of traces fits, every response has the trace of its own call.
LEMMA TracesFitTheRun ==
  ASSUME NEW n \in Nat, NEW requests \in Seq(SandboxRow), NEW r, IsRun(r, n, requests),
         TracesMatch(r.ctx)
  PROVE  LET old == r.ctx.responses
             new == WithTraces(old, r.ctx.traces)
         IN  /\ new \in Seq(SandboxRow) /\ Len(new) = n /\ DOMAIN new = 1..n
             /\ \A k \in 1..n :
                  /\ new[k].from = old[k].from /\ new[k].to = old[k].to
                  /\ new[k].call = old[k].call /\ new[k].req = old[k].req
                  /\ new[k].exc = old[k].exc
                  /\ new[k].trace = IF old[k].exc THEN old[k].trace ELSE old[k].req
<1> DEFINE old == r.ctx.responses
           traces == r.ctx.traces
           E == {i \in 1..n : ~ old[i].exc}
           place(k) == Cardinality({j \in 1..k : ~ old[j].exc})
<1>1. /\ old \in Seq(SandboxRow) /\ Len(old) = n /\ DOMAIN old = 1..n
      /\ traces \in Seq(Nat) /\ Len(traces) = Cardinality(Done(old, n))
      /\ \A k \in Done(old, n) : traces[Cardinality(Done(old, k))] = old[k].req
  BY DEF IsRun
<1>2. \A k \in 1..n : old[k] \in SandboxRow
  BY <1>1, ElementOfSeq
<1>3. \A k \in 1..n : old[k].exc \in BOOLEAN /\ old[k].req \in Nat
  BY <1>2 DEF SandboxRow
<1>4. traces = <<>> \/ Len(traces) = Cardinality(E)
  BY <1>1 DEF TracesMatch
<1> HIDE DEF old, traces
<1>5. IsFiniteSet(Done(old, n)) /\ E \in SUBSET Done(old, n)
  BY DoneIsFinite DEF Done, Returned
<1>6. ASSUME NEW k \in 1..n, ~ old[k].exc
      PROVE  traces # <<>> /\ traces[place(k)] = old[k].req
  <2>1. k \in Done(old, n)
    BY <1>6, <1>5
  <2>2. Cardinality(Done(old, n)) # 0
    BY <1>5, <2>1, FS_EmptySet
  <2>3. traces # <<>>
    BY <1>1, <2>2, EmptySeq
  <2>4. E = Done(old, n)
    BY <1>1, <1>4, <1>5, <2>3, FS_Subset
  <2>5. {j \in 1..k : ~ old[j].exc} = Done(old, k)
    BY <2>4 DEF Done
  <2> QED
    BY <1>1, <2>1, <2>3, <2>5
<1> DEFINE new == WithTraces(old, traces)
           row(k) == IF old[k].exc \/ traces = <<>> THEN old[k]
                     ELSE [old[k] EXCEPT !.trace = traces[place(k)]]
<1>7. new = [k \in 1..n |-> row(k)]
  BY <1>1 DEF WithTraces
<1>8. ASSUME NEW k \in 1..n
      PROVE  /\ row(k) \in SandboxRow
             /\ row(k).from = old[k].from /\ row(k).to = old[k].to
             /\ row(k).call = old[k].call /\ row(k).req = old[k].req
             /\ row(k).exc = old[k].exc
             /\ row(k).trace = IF old[k].exc THEN old[k].trace ELSE old[k].req
  <2> HIDE DEF place
  <2>1. CASE old[k].exc
    BY <2>1, <1>2
  <2>2. CASE ~ old[k].exc
    <3>1. row(k) = [old[k] EXCEPT !.trace = old[k].req]
      BY <2>2, <1>6
    <3> HIDE DEF row
    <3> QED
      BY <2>2, <3>1, <1>2, <1>3 DEF SandboxRow
  <2> QED
    BY <2>1, <2>2
<1> HIDE DEF new, row
<1>9. new \in [1..n -> SandboxRow] /\ \A k \in 1..n : new[k] = row(k)
  BY <1>7, <1>8
<1>10. new \in Seq(SandboxRow) /\ Len(new) = n /\ DOMAIN new = 1..n
  BY <1>9, FunctionIsASeq
<1> QED
  BY <1>8, <1>9, <1>10 DEF new, old, traces

-----------------------------------------------------------------------------
(* The conversation                                                        *)

\* What the execution environment finds at the end of the conversation.
IsBlock(b) ==
  /\ b \in 2..(Len(msgs) - 1)
  /\ MessagesToProcess \in Seq(SandboxRow) /\ Len(MessagesToProcess) = Len(msgs) - b
  /\ \A k \in 1..(Len(msgs) - b) : MessagesToProcess[k] = msgs[b + k]
  /\ \A i \in (b + 1)..Len(msgs) : IsRequest(msgs[i])
  /\ ~ IsRequest(msgs[b])

LEMMA LastBlock ==
  ASSUME TypeOK, MessagesAreOrderly, Last(msgs).to = "execution_environment"
  PROVE  \E b : IsBlock(b)
<1> DEFINE L == Len(msgs)
           T == {i \in DOMAIN msgs : \A j \in i..L : msgs[j].to = "execution_environment"}
<1>1. L \in Nat /\ L >= 2 /\ DOMAIN msgs = 1..L /\ msgs \in Seq(SandboxRow)
  BY DEF TypeOK
<1>2. L \in T /\ T \in SUBSET Nat
  BY <1>1 DEF Last
<1>3. PICK m \in T : \A j \in T : m <= j
  <2> HIDE DEF T
  <2> QED
    BY <1>2, Least
<1>4. Min(T) = m
  <2>1. \A x \in T : (\A y \in T : x <= y) => x = m
    BY <1>2, <1>3
  <2> HIDE DEF T
  <2> QED
    BY <1>3, <2>1 DEF Min
<1>5. MessagesToProcess = SubSeq(msgs, m, L)
  BY <1>4 DEF MessagesToProcess
<1>6. m \in 1..L /\ \A i \in m..L : msgs[i].to = "execution_environment"
  BY <1>1
<1>7. m >= 3
  <2>1. msgs[2].to = "agent"
    BY DEF MessagesAreOrderly
  <2>2. m \notin 1..2
    BY <1>1, <1>6, <2>1
  <2> QED
    BY <1>6, <2>2
<1>8. msgs[m - 1].to # "execution_environment"
  <2>1. m - 1 \in 1..L /\ m - 1 \notin T
    BY <1>3, <1>6, <1>7
  <2>2. \A i \in (m - 1)..L : i = m - 1 \/ i \in m..L
    BY <1>6
  <2> QED
    BY <1>1, <1>6, <2>1, <2>2
<1> HIDE DEF T
<1>9. \A i \in m..L : IsRequest(msgs[i])
  BY <1>1, <1>6, <1>7 DEF IsRequest, MessagesAreOrderly, RowIsOrderly
<1>10. /\ MessagesToProcess \in Seq(SandboxRow) /\ Len(MessagesToProcess) = L - m + 1
       /\ \A k \in 1..(L - m + 1) : MessagesToProcess[k] = msgs[m + k - 1]
  <2>1. \A i \in m..L : msgs[i] \in SandboxRow
    BY <1>1, <1>6, ElementOfSeq
  <2> HIDE DEF L
  <2> QED
    BY <1>1, <1>5, <1>6, <2>1, SubSeqProperties
<1>11. IsBlock(m - 1)
  <2>1. m - 1 \in 2..(L - 1) /\ L - (m - 1) = L - m + 1 /\ (m - 1) + 1 = m
    BY <1>1, <1>6, <1>7
  <2>2. \A k \in 1..(L - m + 1) : m + k - 1 = (m - 1) + k
    BY <1>1, <1>6
  <2> QED
    BY <1>8, <1>9, <1>10, <2>1, <2>2 DEF IsBlock, IsRequest
<1> QED
  BY <1>11

LEMMA MessagesAdded ==
  ASSUME NEW old \in Seq(SandboxRow), old # <<>>, NEW new \in Seq(SandboxRow),
         AddMessages(old, new)
  PROVE  /\ msgs' \in Seq(SandboxRow) /\ Len(msgs') = Len(old) + Len(new)
         /\ \A i \in 1..Len(old) : msgs'[i] = old[i]
         /\ \A k \in 1..Len(new) :
              msgs'[Len(old) + k] = [new[k] EXCEPT !.active = old[Len(old)].active]
<1> DEFINE n == Len(new)
           act == old[Len(old)].active
           added == [k \in 1..n |-> [new[k] EXCEPT !.active = act]]
<1>1. n \in Nat /\ DOMAIN new = 1..n /\ Len(old) \in 1..Len(old) /\ Len(old) \in Nat
  BY EmptySeq
<1>2. act \in BOOLEAN
  <2>1. old[Len(old)] \in SandboxRow
    BY <1>1, ElementOfSeq
  <2> QED
    BY <2>1 DEF SandboxRow
<1>3. msgs' = old \o added
  BY <1>1 DEF AddMessages, Last
<1>4. \A k \in 1..n : new[k] \in SandboxRow
  BY ElementOfSeq
<1> HIDE DEF act, n
<1>5. \A k \in 1..n : [new[k] EXCEPT !.active = act] \in SandboxRow
  BY <1>2, <1>4 DEF SandboxRow
<1>6. added \in [1..n -> SandboxRow]
  BY <1>5
<1>7. \A k \in 1..n : added[k] = [new[k] EXCEPT !.active = act]
  OBVIOUS
<1> HIDE DEF added
<1>8. added \in Seq(SandboxRow) /\ Len(added) = n
  BY <1>1, <1>6, FunctionIsASeq
<1>9. /\ msgs' \in Seq(SandboxRow) /\ Len(msgs') = Len(old) + n
      /\ \A i \in 1..(Len(old) + n) : msgs'[i] = IF i <= Len(old) THEN old[i]
                                                 ELSE added[i - Len(old)]
  BY <1>3, <1>8, ConcatProperties
<1>10. \A i \in 1..Len(old) : msgs'[i] = old[i]
  BY <1>1, <1>9
<1>11. \A k \in 1..n : /\ Len(old) + k \in 1..(Len(old) + n)
                       /\ ~ (Len(old) + k <= Len(old)) /\ Len(old) + k - Len(old) = k
  BY <1>1
<1>12. \A k \in 1..n : msgs'[Len(old) + k] = added[k]
  BY <1>9, <1>11
<1> QED
  BY <1>7, <1>9, <1>10, <1>12 DEF n, act

\* A row as it was, whether or not the conversation has ended meanwhile.
SameRow(m, o) ==
  /\ m.from = o.from /\ m.to = o.to /\ m.call = o.call /\ m.req = o.req
  /\ m.exc = o.exc /\ m.trace = o.trace

\* A turn: n rows more, and the flag of the last row and of the new ones.
IsTurn(n, act) ==
  /\ n \in Nat /\ Last(msgs).active
  /\ msgs' \in Seq(SandboxRow) /\ Len(msgs') = Len(msgs) + n
  /\ \A i \in 1..Len(msgs) : SameRow(msgs'[i], msgs[i])
  /\ \A i \in 1..(Len(msgs) - 1) : msgs'[i].active = msgs[i].active
  /\ \A i \in Len(msgs)..(Len(msgs) + n) : msgs'[i].active = act
  /\ \A i \in (Len(msgs) + 1)..(Len(msgs) + n) : RowIsOrderly(i)'

LEMMA TurnsAreOrderly ==
  ASSUME TypeOK, MessagesAreOrderly, NEW n, NEW act, IsTurn(n, act)
  PROVE  MessagesAreOrderly'
<1> DEFINE L == Len(msgs)
<1>1. L \in Nat /\ L >= 2 /\ n \in Nat /\ Len(msgs') = L + n
  BY DEF TypeOK, IsTurn
<1>2. \A i \in 1..L : SameRow(msgs'[i], msgs[i])
  BY DEF IsTurn
<1> HIDE DEF L
<1>3. ASSUME NEW i \in 2..L PROVE RowIsOrderly(i)'
  <2>1. RowIsOrderly(i)
    BY <1>3 DEF MessagesAreOrderly, L
  <2>2. SameRow(msgs'[i], msgs[i])
    BY <1>1, <1>2
  <2>3. \A r \in 1..(i - 1) : SameRow(msgs'[r], msgs[r])
    BY <1>1, <1>2
  <2> QED
    BY <2>1, <2>2, <2>3 DEF RowIsOrderly, SameRow, IsRequest, IsResponse
<1>4. \A i \in (L + 1)..(L + n) : RowIsOrderly(i)'
  BY DEF IsTurn, L
<1>5. \A i \in 2..(L + n) : i \in 2..L \/ i \in (L + 1)..(L + n)
  BY <1>1
<1>6. /\ msgs'[1].from = "system" /\ msgs'[2].from = "user" /\ msgs'[2].to = "agent"
  BY <1>1, <1>2 DEF MessagesAreOrderly, SameRow
<1> QED
  BY <1>1, <1>3, <1>4, <1>5, <1>6 DEF MessagesAreOrderly

LEMMA TurnsKeepTraces ==
  ASSUME TypeOK, TracesBelongToTheirCalls, NEW n, NEW act, IsTurn(n, act),
         \A i \in (Len(msgs) + 1)..(Len(msgs) + n) :
           msgs'[i].trace = IF IsResponse(msgs'[i]) /\ ~ msgs'[i].exc THEN msgs'[i].req ELSE None
  PROVE  TracesBelongToTheirCalls'
<1> DEFINE L == Len(msgs)
<1>1. L \in Nat /\ n \in Nat /\ DOMAIN msgs' = 1..(L + n) /\ DOMAIN msgs = 1..L
  BY DEF TypeOK, IsTurn
<1>2. \A i \in 1..L : SameRow(msgs'[i], msgs[i])
  BY DEF IsTurn
<1>3. ASSUME NEW i \in 1..L
      PROVE  msgs'[i].trace = IF IsResponse(msgs'[i]) /\ ~ msgs'[i].exc THEN msgs'[i].req
                              ELSE None
  BY <1>1, <1>2 DEF TracesBelongToTheirCalls, SameRow, IsResponse
<1> HIDE DEF L
<1>4. \A i \in 1..(L + n) : i \in 1..L \/ i \in (L + 1)..(L + n)
  BY <1>1
<1> QED
  BY <1>1, <1>3, <1>4 DEF TracesBelongToTheirCalls, L

\* While the conversation goes on, it has not ended before.
LEMMA TurnsEndOnce ==
  ASSUME TypeOK, ConversationEndsOnce, NEW n, NEW act, IsTurn(n, act),
         \/ act = TRUE
         \/ act = FALSE /\ \A i \in (Len(msgs) + 1)..(Len(msgs) + n) : IsResponse(msgs'[i])
  PROVE  ConversationEndsOnce'
<1> DEFINE L == Len(msgs)
<1>1. L \in Nat /\ L >= 2 /\ n \in Nat /\ DOMAIN msgs' = 1..(L + n) /\ DOMAIN msgs = 1..L
  BY DEF TypeOK, IsTurn
<1>2. \A i \in 1..(L - 1) : msgs[i].active
  BY <1>1 DEF ConversationEndsOnce, IsTurn, Last
<1>3. \A i \in 1..(L - 1) : msgs'[i].active
  BY <1>2 DEF IsTurn
<1>4. \A i \in L..(L + n) : msgs'[i].active = act
  BY DEF IsTurn
<1>5. \A i \in 1..(L + n) : i \in 1..(L - 1) \/ i \in L..(L + n)
  BY <1>1
<1>6. ASSUME NEW i \in DOMAIN msgs', NEW j \in DOMAIN msgs', i < j, ~ msgs'[i].active
      PROVE  ~ msgs'[j].active /\ IsResponse(msgs'[j])
  <2> HIDE DEF L
  <2>1. i \in L..(L + n) /\ ~ act
    BY <1>1, <1>3, <1>4, <1>5, <1>6
  <2>2. j \in L..(L + n) /\ j \in (L + 1)..(L + n)
    BY <1>1, <1>6, <2>1
  <2> QED
    BY <1>4, <2>1, <2>2 DEF L
<1> QED
  BY <1>6 DEF ConversationEndsOnce, IsResponse

-----------------------------------------------------------------------------
(* The models speak                                                        *)

\* What the agent or the user adds, after a row addressed to one of them.
IsSpoken(new) ==
  /\ new \in Seq(SandboxRow)
  /\ \A k \in 1..Len(new) :
       /\ new[k].from \in {"agent", "user"} /\ ~ new[k].exc /\ new[k].trace = None
       /\ IsRequest(new[k]) => new[k].req = Len(msgs) + k
  /\ (\A k \in 1..Len(new) : IsRequest(new[k])) \/ (\A k \in 1..Len(new) : ~ IsRequest(new[k]))

LEMMA SpeakingIsATurn ==
  ASSUME TypeOK, Last(msgs).active, NEW new, IsSpoken(new), AddMessages(msgs, new)
  PROVE  /\ IsTurn(Len(new), TRUE)
         /\ \A k \in 1..Len(new) : SameRow(msgs'[Len(msgs) + k], new[k])
<1> DEFINE L == Len(msgs)
           n == Len(new)
<1>1. msgs \in Seq(SandboxRow) /\ L \in Nat /\ L >= 2 /\ msgs # <<>>
  BY EmptySeq DEF TypeOK
<1>2. new \in Seq(SandboxRow) /\ n \in Nat
  BY DEF IsSpoken
<1>3. /\ msgs' \in Seq(SandboxRow) /\ Len(msgs') = L + n
      /\ \A i \in 1..L : msgs'[i] = msgs[i]
      /\ \A k \in 1..n : msgs'[L + k] = [new[k] EXCEPT !.active = msgs[L].active]
  BY <1>1, <1>2, MessagesAdded
<1>4. msgs[L].active = TRUE
  <2>1. msgs[L] \in SandboxRow
    BY <1>1, ElementOfSeq
  <2> QED
    BY <2>1 DEF Last, SandboxRow
<1>5. ASSUME NEW k \in 1..n
      PROVE  SameRow(msgs'[L + k], new[k]) /\ msgs'[L + k].active = TRUE
  <2>1. new[k] \in SandboxRow
    BY <1>2, ElementOfSeq
  <2>2. msgs'[L + k] = [new[k] EXCEPT !.active = TRUE]
    BY <1>3, <1>4
  <2> QED
    BY <2>1, <2>2 DEF SameRow, SandboxRow
<1> HIDE DEF L, n
<1>6. \A i \in (L + 1)..(L + n) : i - L \in 1..n /\ L + (i - L) = i
  BY <1>1, <1>2 DEF L
<1>7. ASSUME NEW i \in (L + 1)..(L + n) PROVE RowIsOrderly(i)' /\ msgs'[i].active = TRUE
  <2>1. i - L \in 1..n /\ L + (i - L) = i
    BY <1>6
  <2> DEFINE k == i - L
  <2>2. SameRow(msgs'[i], new[k]) /\ msgs'[i].active = TRUE
    BY <1>5, <2>1
  <2>3. /\ new[k].from \in {"agent", "user"} /\ ~ new[k].exc
        /\ IsRequest(new[k]) => new[k].req = i
    BY <2>1 DEF IsSpoken, n, L
  <2> HIDE DEF k
  <2> QED
    BY <2>2, <2>3 DEF RowIsOrderly, SameRow, IsRequest, IsResponse
<1>8. \A i \in L..(L + n) : i = L \/ i \in (L + 1)..(L + n)
  BY <1>1, <1>2 DEF L
<1>9. \A i \in L..(L + n) : msgs'[i].active = TRUE
  <2>1. msgs'[L] = msgs[L]
    BY <1>1, <1>3 DEF L
  <2>2. msgs'[L].active = TRUE
    BY <1>4, <2>1 DEF L
  <2> QED
    BY <1>7, <1>8, <2>2
<1>10. \A i \in 1..L : SameRow(msgs'[i], msgs[i])
  BY <1>3 DEF SameRow, L
<1>11. \A i \in 1..(L - 1) : msgs'[i].active = msgs[i].active
  BY <1>1, <1>3 DEF L
<1>12. IsTurn(n, TRUE)
  BY <1>1, <1>2, <1>3, <1>7, <1>9, <1>10, <1>11 DEF IsTurn, L, n
<1> QED
  BY <1>5, <1>12 DEF L, n

LEMMA SpeakingAnswersNothing ==
  ASSUME TypeOK, MessagesAreOrderly, RequestsAreAnswered, Last(msgs).active,
         Last(msgs).to # "execution_environment",
         NEW new, IsSpoken(new), AddMessages(msgs, new)
  PROVE  RequestsAreAnswered'
<1> DEFINE L == Len(msgs)
           n == Len(new)
<1>1. L \in Nat /\ L >= 2 /\ n \in Nat
  BY DEF TypeOK, IsSpoken
<1>2. /\ Len(msgs') = L + n
      /\ \A i \in 1..L : SameRow(msgs'[i], msgs[i])
      /\ \A k \in 1..n : SameRow(msgs'[L + k], new[k])
  BY SpeakingIsATurn DEF IsTurn
<1>3. ~ IsRequest(msgs[L])
  BY DEF IsRequest, Last
<1> HIDE DEF L, n
<1>4. ASSUME NEW i \in (L + 1)..(L + n)
      PROVE  ~ IsResponse(msgs'[i]) /\ (IsRequest(msgs'[i]) <=> IsRequest(new[i - L]))
  <2>1. i - L \in 1..n /\ L + (i - L) = i
    BY <1>1
  <2> DEFINE k == i - L
  <2>2. SameRow(msgs'[i], new[k]) /\ new[k].from \in {"agent", "user"}
    BY <1>2, <2>1 DEF IsSpoken, n
  <2> HIDE DEF k
  <2> QED
    BY <2>2 DEF SameRow, IsRequest, IsResponse, k
<1>5. \A k \in 1..(L + n) : k \in 1..L \/ k \in (L + 1)..(L + n)
  BY <1>1
<1>6. SUFFICES ASSUME NEW i \in 1..(L + n), IsRequest(msgs'[i]),
                      NEW j \in i..(L + n), ~ IsRequest(msgs'[j])
               PROVE  \E a \in 1..(L + n) :
                        Answers(a, i)' /\ \A k \in 1..(L + n) : Answers(k, i)' => k = a
  BY <1>2 DEF RequestsAreAnswered
<1>7. CASE i \in 1..L
  <2>1. IsRequest(msgs[i]) /\ L \in i..L
    BY <1>1, <1>2, <1>6, <1>7 DEF SameRow, IsRequest
  <2>2. PICK a \in 1..L : Answers(a, i) /\ \A k \in 1..L : Answers(k, i) => k = a
    BY <1>3, <1>7, <2>1 DEF RequestsAreAnswered, L
  <2>3. \A k \in 1..L : Answers(k, i)' <=> Answers(k, i)
    BY <1>2 DEF Answers, IsResponse, SameRow
  <2>4. \A k \in (L + 1)..(L + n) : ~ Answers(k, i)'
    BY <1>4 DEF Answers
  <2>5. a \in 1..(L + n)
    BY <1>1
  <2> QED
    BY <1>5, <2>2, <2>3, <2>4, <2>5
<1>8. CASE i \in (L + 1)..(L + n)
  <2>1. j \in (L + 1)..(L + n) /\ i - L \in 1..n /\ j - L \in 1..n
    BY <1>1, <1>6, <1>8
  <2>2. IsRequest(new[i - L]) /\ ~ IsRequest(new[j - L])
    BY <1>4, <1>6, <1>8, <2>1
  <2> QED
    BY <2>1, <2>2 DEF IsSpoken, n
<1> QED
  BY <1>5, <1>7, <1>8

\* Whatever a model says, the conversation stays in order.
LEMMA Speaking ==
  ASSUME IInv, Last(msgs).active, Last(msgs).to # "execution_environment",
         NEW new, IsSpoken(new), AddMessages(msgs, new),
         UNCHANGED <<settings, reuses, status>>
  PROVE  IInv'
<1>1. /\ IsTurn(Len(new), TRUE)
      /\ \A k \in 1..Len(new) : SameRow(msgs'[Len(msgs) + k], new[k])
  BY SpeakingIsATurn DEF IInv
<1>2. TypeOK' /\ LowBatteryExcludesServices'
  BY <1>1 DEF IInv, TypeOK, LowBatteryExcludesServices, IsTurn
<1>3. MessagesAreOrderly' /\ ConversationEndsOnce'
  BY <1>1, TurnsAreOrderly, TurnsEndOnce DEF IInv
<1>4. RequestsAreAnswered'
  BY SpeakingAnswersNothing DEF IInv
<1> DEFINE L == Len(msgs)
           n == Len(new)
<1>5. L \in Nat /\ n \in Nat
  BY DEF IInv, TypeOK, IsSpoken
<1>6. ASSUME NEW i \in (L + 1)..(L + n)
      PROVE  msgs'[i].trace = IF IsResponse(msgs'[i]) /\ ~ msgs'[i].exc THEN msgs'[i].req
                              ELSE None
  <2>1. i - L \in 1..n /\ L + (i - L) = i
    BY <1>5
  <2> DEFINE k == i - L
  <2>2. SameRow(msgs'[i], new[k])
    BY <1>1, <2>1
  <2>3. new[k].from \in {"agent", "user"} /\ new[k].trace = None
    BY <2>1 DEF IsSpoken
  <2> HIDE DEF k, L, n
  <2> QED
    BY <2>2, <2>3 DEF SameRow, IsResponse
<1>7. TracesBelongToTheirCalls'
  BY <1>1, <1>6, TurnsKeepTraces DEF IInv
<1> QED
  BY <1>2, <1>3, <1>4, <1>7 DEF IInv

LEMMA Messages ==
  ASSUME NEW from \in Roles, NEW to \in Roles, NEW c \in Calls, NEW req \in Nat
  PROVE  Message(from, to, c, req) \in SandboxRow
  BY DEF Message, SandboxRow, None

LEMMA TextIsSpoken ==
  ASSUME TypeOK, NEW from \in {"agent", "user"}, NEW to \in {"agent", "user"}
  PROVE  IsSpoken(<<Message(from, to, Text, None)>>)
<1> DEFINE m == Message(from, to, Text, None)
<1>1. m \in SandboxRow
  BY Messages DEF Roles, Calls, None
<1>2. m.from = from /\ m.to = to /\ ~ m.exc /\ m.trace = None
  BY DEF Message
<1> HIDE DEF m
<1>3. ~ IsRequest(m)
  BY <1>2 DEF IsRequest
<1>4. <<m>> \in Seq(SandboxRow) /\ Len(<<m>>) = 1 /\ \A k \in 1..1 : <<m>>[k] = m
  BY <1>1
<1> QED
  BY <1>2, <1>3, <1>4 DEF IsSpoken, m

LEMMA CallsAreSpoken ==
  ASSUME TypeOK, NEW from \in {"agent", "user"}, NEW n \in Nat, NEW calls \in [1..n -> Calls]
  PROVE  IsSpoken([i \in DOMAIN calls |->
                     Message(from, "execution_environment", calls[i], Len(msgs) + i)])
<1> DEFINE row(i) == Message(from, "execution_environment", calls[i], Len(msgs) + i)
           new == [i \in 1..n |-> row(i)]
<1>1. Len(msgs) \in Nat
  BY DEF TypeOK
<1>2. ASSUME NEW i \in 1..n
      PROVE  /\ row(i) \in SandboxRow /\ row(i).from = from /\ IsRequest(row(i))
             /\ ~ row(i).exc /\ row(i).trace = None /\ row(i).req = Len(msgs) + i
  <2>1. row(i) \in SandboxRow
    <3>1. calls[i] \in Calls /\ Len(msgs) + i \in Nat
      BY <1>1
    <3> QED
      BY <3>1, Messages DEF Roles
  <2> QED
    BY <2>1 DEF Message, IsRequest
<1> HIDE DEF row
<1>3. new \in [1..n -> SandboxRow] /\ \A i \in 1..n : new[i] = row(i)
  BY <1>2
<1> HIDE DEF new
<1>4. new \in Seq(SandboxRow) /\ Len(new) = n
  BY <1>3, FunctionIsASeq
<1>5. IsSpoken(new)
  BY <1>2, <1>3, <1>4 DEF IsSpoken
<1>6. DOMAIN calls = 1..n
  OBVIOUS
<1> QED
  BY <1>5, <1>6 DEF new, row

LEMMA AgentTurn ==
  ASSUME IInv, AgentRespond PROVE IInv'
<1>1. /\ Last(msgs).active /\ Last(msgs).to = "agent" /\ TypeOK
      /\ UNCHANGED <<settings, reuses, status>>
  BY DEF AgentRespond, Turn, Continues, IInv
<1>2. CASE SendText("agent", "user")
  BY <1>1, <1>2, TextIsSpoken, Speaking DEF SendText
<1>3. ASSUME NEW n \in 0..MaxBatch, NEW calls \in [1..n -> AgentCalls],
             SendCalls("agent", calls)
      PROVE  IInv'
  <2>1. n \in Nat /\ calls \in [1..n -> Calls]
    BY RolloutAssumption DEF Calls
  <2> QED
    BY <1>1, <1>3, <2>1, CallsAreSpoken, Speaking DEF SendCalls
<1> QED
  BY <1>2, <1>3 DEF AgentRespond

LEMMA UserTurn ==
  ASSUME IInv, UserRespond PROVE IInv'
<1>1. /\ Last(msgs).active /\ Last(msgs).to = "user" /\ TypeOK
      /\ UNCHANGED <<settings, reuses, status>>
  BY DEF UserRespond, Turn, Continues, IInv
<1>2. CASE SendText("user", "agent")
  BY <1>1, <1>2, TextIsSpoken, Speaking DEF SendText
<1>3. ASSUME NEW n \in 0..MaxBatch, SendCalls("user", [i \in 1..n |-> EndConversation])
      PROVE  IInv'
  <2> DEFINE calls == [i \in 1..n |-> EndConversation]
  <2>1. n \in Nat /\ calls \in [1..n -> Calls]
    BY RolloutAssumption DEF Calls
  <2> HIDE DEF calls
  <2> QED
    BY <1>1, <1>3, <2>1, CallsAreSpoken, Speaking DEF SendCalls, calls
<1> QED
  BY <1>2, <1>3 DEF UserRespond

-----------------------------------------------------------------------------
(* The execution environment answers                                       *)

LEMMA BatchesAreRun ==
  ASSUME IInv, NEW b, IsBlock(b)
  PROVE  /\ AreRuns(Runs, Len(MessagesToProcess), MessagesToProcess)
         /\ \A r \in Runs : IsExplained(r, Len(MessagesToProcess), settings)
<1> DEFINE ctx == [settings |-> settings, active |-> Last(msgs).active,
                   traces |-> <<>>, responses |-> <<>>]
<1>1. MessagesToProcess \in Seq(SandboxRow)
  BY DEF IsBlock
<1>2. Last(msgs).active \in BOOLEAN
  <2>1. msgs \in Seq(SandboxRow) /\ Len(msgs) \in 1..Len(msgs)
    BY DEF IInv, TypeOK
  <2>2. msgs[Len(msgs)] \in SandboxRow
    BY <2>1, ElementOfSeq
  <2> QED
    BY <2>2 DEF Last, SandboxRow
<1>3. Fresh(ctx)
  BY <1>2 DEF Fresh, GoodSettings, IInv, TypeOK, LowBatteryExcludesServices
<1>4. Runs = RunsInAllOrders(ctx, MessagesToProcess)
  BY DEF Runs
<1>5. ctx.settings = settings
  OBVIOUS
<1> HIDE DEF ctx
<1> QED
  BY <1>1, <1>3, <1>4, <1>5, RunsAreRuns, RunsAreExplained

\* What is kept is a run of the whole batch; how often helpers ran is a number.
LEMMA TheBatchIsRun ==
  ASSUME IInv, NEW b, IsBlock(b)
  PROVE  /\ \E r : IsRun(r, Len(MessagesToProcess), MessagesToProcess)
                  /\ IsExplained(r, Len(MessagesToProcess), settings)
                  /\ Keep(Runs).ctx = r.ctx
         /\ Keep(Runs).ran * HelperCalls(MessagesToProcess) \in Nat
<1>1. MessagesToProcess \in Seq(SandboxRow)
  BY DEF IsBlock
<1>2. /\ AreRuns(Runs, Len(MessagesToProcess), MessagesToProcess)
      /\ \A r \in Runs : IsExplained(r, Len(MessagesToProcess), settings)
  BY BatchesAreRun
<1>3. /\ \E r \in Runs : Keep(Runs).ctx = r.ctx
      /\ Keep(Runs).ran \in Nat
  BY <1>1, <1>2, KeepsARun
<1> DEFINE helpers == {i \in DOMAIN MessagesToProcess : MessagesToProcess[i].call.tool = "helper"}
<1>4. helpers \in SUBSET (1..Len(MessagesToProcess)) /\ Len(MessagesToProcess) \in Nat
  BY <1>1
<1>5. Cardinality(helpers) \in Nat
  <2> HIDE DEF helpers
  <2>1. IsFiniteSet(1..Len(MessagesToProcess))
    BY <1>4, FS_Interval
  <2>2. IsFiniteSet(helpers)
    BY <1>4, <2>1, FS_Subset
  <2> QED
    BY <2>2, FS_CardinalityType
<1>6. Keep(Runs).ran * HelperCalls(MessagesToProcess) \in Nat
  BY <1>3, <1>5 DEF HelperCalls
<1> QED
  BY <1>2, <1>3, <1>6 DEF AreRuns

\* Row m answers the request of row i.
IsAnswer(m, i) ==
  /\ IsResponse(m) /\ m.to = msgs[i].from /\ m.call = msgs[i].call /\ m.req = i
  /\ m.trace = IF ~ m.exc THEN m.req ELSE None

\* Both say the same of the settings.
SameNews(m, a) == m.from = a.from /\ m.call = a.call /\ m.exc = a.exc

\* The responses that a run of the whole batch adds.
IsAnswered(ctx) ==
  AddMessages([msgs EXCEPT ![Len(msgs)].active = ctx.active],
              WithTraces(ctx.responses, ctx.traces))

LEMMA AnsweringIsATurn ==
  ASSUME IInv, Last(msgs).active, NEW b, IsBlock(b),
         NEW r, IsRun(r, Len(MessagesToProcess), MessagesToProcess),
         TracesMatch(r.ctx), IsAnswered(r.ctx)
  PROVE  /\ IsTurn(Len(msgs) - b, r.ctx.active)
         /\ \A k \in 1..(Len(msgs) - b) : IsAnswer(msgs'[Len(msgs) + k], b + r.order[k])
         /\ \A k \in 1..(Len(msgs) - b) : r.order[k] \in 1..(Len(msgs) - b)
         /\ \A k \in 1..(Len(msgs) - b) : SameNews(msgs'[Len(msgs) + k], r.ctx.responses[k])
<1> DEFINE L == Len(msgs)
           n == L - b
           q == MessagesToProcess
           act == r.ctx.active
           old == [msgs EXCEPT ![L].active = act]
           new == WithTraces(r.ctx.responses, r.ctx.traces)
<1>1. /\ msgs \in Seq(SandboxRow) /\ L \in Nat /\ L \in 1..L /\ b \in 2..(L - 1)
      /\ n \in Nat /\ q \in Seq(SandboxRow) /\ Len(q) = n
      /\ \A k \in 1..n : q[k] = msgs[b + k]
      /\ \A i \in (b + 1)..L : IsRequest(msgs[i])
  BY DEF IInv, TypeOK, IsBlock
<1>2. act \in BOOLEAN /\ \A k \in 1..n : r.order[k] \in 1..n
  <2>1. r.order \in Seq(1..n) /\ Len(r.order) = n /\ act \in BOOLEAN
    BY <1>1 DEF IsRun
  <2> QED
    BY <2>1, ElementOfSeq
<1>3. \A i \in 1..L : msgs[i] \in SandboxRow
  BY <1>1, ElementOfSeq
<1>4. /\ old \in Seq(SandboxRow) /\ Len(old) = L
      /\ \A i \in 1..L : old[i] = IF i = L THEN [msgs[L] EXCEPT !.active = act] ELSE msgs[i]
  <2> DEFINE e == [msgs[L] EXCEPT !.active = act]
  <2> HIDE DEF act
  <2>1. e \in SandboxRow
    BY <1>1, <1>2, <1>3 DEF SandboxRow
  <2>2. old = [msgs EXCEPT ![L] = e]
    BY <1>1
  <2> HIDE DEF e, L
  <2>3. /\ [msgs EXCEPT ![L] = e] \in Seq(SandboxRow) /\ Len([msgs EXCEPT ![L] = e]) = L
        /\ \A i \in 1..L : [msgs EXCEPT ![L] = e][i] = IF i = L THEN e ELSE msgs[i]
    BY <1>1, <2>1, ExceptSeq DEF L
  <2> QED
    BY <2>2, <2>3 DEF e
<1>5. old[L].active = act
  BY <1>1, <1>3, <1>4 DEF SandboxRow
<1>6. /\ new \in Seq(SandboxRow) /\ Len(new) = n
      /\ \A k \in 1..n :
           /\ new[k].from = r.ctx.responses[k].from /\ new[k].to = r.ctx.responses[k].to
           /\ new[k].call = r.ctx.responses[k].call /\ new[k].req = r.ctx.responses[k].req
           /\ new[k].exc = r.ctx.responses[k].exc
           /\ new[k].trace = IF r.ctx.responses[k].exc THEN r.ctx.responses[k].trace
                             ELSE r.ctx.responses[k].req
  <2>1. IsRun(r, n, q)
    BY <1>1
  <2> HIDE DEF n, q
  <2> QED
    BY <1>1, <2>1, TracesFitTheRun
<1>7. \A k \in 1..n : IsResponseTo(r.ctx.responses[k], q[r.order[k]])
  BY <1>1 DEF IsRun
<1>8. AddMessages(old, new)
  BY DEF IsAnswered
<1> HIDE DEF old, new, act, q
<1>9. old # <<>>
  BY <1>1, <1>4, EmptySeq
<1>10. /\ msgs' \in Seq(SandboxRow) /\ Len(msgs') = L + n
       /\ \A i \in 1..L : msgs'[i] = old[i]
       /\ \A k \in 1..n : msgs'[L + k] = [new[k] EXCEPT !.active = act]
  <2> HIDE DEF n, L
  <2>1. /\ msgs' \in Seq(SandboxRow) /\ Len(msgs') = Len(old) + Len(new)
        /\ \A i \in 1..Len(old) : msgs'[i] = old[i]
        /\ \A k \in 1..Len(new) :
             msgs'[Len(old) + k] = [new[k] EXCEPT !.active = old[Len(old)].active]
    BY <1>4, <1>6, <1>8, <1>9, MessagesAdded
  <2> QED
    BY <1>4, <1>5, <1>6, <2>1
<1>11. ASSUME NEW i \in 1..L PROVE SameRow(msgs'[i], msgs[i])
  <2>1. msgs'[i] = msgs[i] \/ msgs'[i] = [msgs[i] EXCEPT !.active = act]
    BY <1>4, <1>10
  <2> HIDE DEF L
  <2> QED
    BY <1>3, <2>1 DEF SameRow, SandboxRow
<1>12. \A i \in 1..(L - 1) : msgs'[i].active = msgs[i].active
  BY <1>1, <1>4, <1>10
<1> HIDE DEF n
<1>13. ASSUME NEW i \in (b + 1)..L
       PROVE  /\ msgs[i].from \in {"agent", "user"} /\ msgs[i].req = i
              /\ msgs[i].trace = None
  <2>1. i \in 2..L /\ IsRequest(msgs[i])
    BY <1>1
  <2>2. msgs[i].from \in {"agent", "user"} /\ msgs[i].req = i
    BY <2>1 DEF IInv, MessagesAreOrderly, RowIsOrderly
  <2>3. ~ IsResponse(msgs[i])
    BY <2>2 DEF IsResponse
  <2> QED
    BY <1>1, <2>1, <2>2, <2>3 DEF IInv, TracesBelongToTheirCalls
<1>14. ASSUME NEW k \in 1..n
       PROVE  /\ IsAnswer(msgs'[L + k], b + r.order[k]) /\ msgs'[L + k].active = act
              /\ SameNews(msgs'[L + k], r.ctx.responses[k])
  <2> DEFINE i == b + r.order[k]
  <2>1. i \in (b + 1)..L /\ r.order[k] \in 1..n
    BY <1>1, <1>2 DEF n
  <2>2. q[r.order[k]] = msgs[i]
    BY <1>1, <2>1
  <2> HIDE DEF i
  <2>3. new[k] \in SandboxRow
    BY <1>6, ElementOfSeq
  <2>4. msgs'[L + k].active = act /\ SameRow(msgs'[L + k], new[k])
    BY <1>10, <2>3 DEF SameRow, SandboxRow
  <2>5. IsResponseTo(r.ctx.responses[k], msgs[i])
    BY <1>7, <2>2
  <2>6. /\ msgs[i].req = i /\ msgs[i].trace = None /\ msgs[i].from \in {"agent", "user"}
        /\ IsRequest(msgs[i])
    BY <1>1, <1>13, <2>1
  <2>7. IsAnswer(msgs'[L + k], i)
    BY <1>6, <2>4, <2>5, <2>6 DEF IsAnswer, IsResponse, IsResponseTo, SameRow
  <2>8. SameNews(msgs'[L + k], r.ctx.responses[k])
    BY <1>6, <2>4 DEF SameNews, SameRow
  <2> QED
    BY <2>4, <2>7, <2>8 DEF i
<1>15. ASSUME NEW i \in (L + 1)..(L + n) PROVE RowIsOrderly(i)' /\ msgs'[i].active = act
  <2>1. i - L \in 1..n /\ L + (i - L) = i
    BY <1>1
  <2>2. PICK o : o = b + r.order[i - L]
    OBVIOUS
  <2>3. o \in (b + 1)..L
    <3>1. r.order[i - L] \in 1..n
      BY <1>2, <2>1
    <3>2. PICK k : k = r.order[i - L]
      OBVIOUS
    <3>3. k \in 1..n /\ o = b + k
      BY <2>2, <3>1, <3>2
    <3>4. L \in Nat /\ b \in 2..(L - 1)
      BY <1>1, Zenon
    <3>5. n = L - b
      BY DEF n
    <3> HIDE DEF L, n
    <3> QED
      BY <3>3, <3>4, <3>5
  <2>4. IsAnswer(msgs'[i], o) /\ msgs'[i].active = act
    BY <1>14, <2>1, <2>2
  <2>5. IsRequest(msgs[o]) /\ SameRow(msgs'[o], msgs[o]) /\ o \in 1..(i - 1)
    BY <1>1, <1>11, <2>3
  <2>6. msgs[o].from \in {"agent", "user"}
    BY <1>13, <2>3
  <2> HIDE DEF L, n
  <2>7. /\ msgs'[i].from = "execution_environment" /\ msgs'[i].req = o
        /\ msgs'[i].to = msgs[o].from /\ msgs'[i].call = msgs[o].call
    BY <2>4 DEF IsAnswer, IsResponse
  <2>8. /\ IsRequest(msgs'[o])
        /\ msgs'[i].to = msgs'[o].from /\ msgs'[i].call = msgs'[o].call
    BY <2>5, <2>7 DEF SameRow, IsRequest
  <2>9. ~ IsRequest(msgs'[i])
    BY <2>6, <2>7 DEF IsRequest
  <2>10. RowIsOrderly(i)'
    BY <2>5, <2>7, <2>8, <2>9 DEF RowIsOrderly
  <2> QED
    BY <2>4, <2>10
<1>16. \A i \in L..(L + n) : msgs'[i].active = act
  <2>1. msgs'[L].active = act
    BY <1>1, <1>5, <1>10
  <2>2. \A i \in L..(L + n) : i = L \/ i \in (L + 1)..(L + n)
    BY <1>1
  <2> QED
    BY <1>15, <2>1, <2>2
<1>17. IsTurn(n, act)
  BY <1>1, <1>10, <1>11, <1>12, <1>15, <1>16 DEF IsTurn
<1> QED
  BY <1>2, <1>14, <1>17 DEF n, act

LEMMA AnsweringAnswersTheBatch ==
  ASSUME IInv, Last(msgs).active, NEW b, IsBlock(b),
         NEW r, IsRun(r, Len(MessagesToProcess), MessagesToProcess),
         TracesMatch(r.ctx), IsAnswered(r.ctx)
  PROVE  RequestsAreAnswered'
<1> DEFINE L == Len(msgs)
           n == L - b
<1>1. /\ L \in Nat /\ b \in 2..(L - 1) /\ n \in Nat /\ Len(MessagesToProcess) = n
      /\ MessagesToProcess \in Seq(SandboxRow)
      /\ \A i \in (b + 1)..L : IsRequest(msgs[i])
      /\ ~ IsRequest(msgs[b])
  BY DEF IInv, TypeOK, IsBlock
<1>2. /\ Len(msgs') = L + n
      /\ \A i \in 1..L : SameRow(msgs'[i], msgs[i])
      /\ \A k \in 1..n : IsAnswer(msgs'[L + k], b + r.order[k]) /\ r.order[k] \in 1..n
  BY AnsweringIsATurn DEF IsTurn
<1>3. /\ \A i, j \in 1..n : r.order[i] = r.order[j] => i = j
      /\ \A i \in 1..n : \E k \in 1..n : r.order[k] = i
  <2>1. IsRun(r, n, MessagesToProcess)
    BY <1>1
  <2> HIDE DEF n
  <2>2. \A i \in 1..n : \E k \in 1..n : r.order[k] = i
    <3> DEFINE q == MessagesToProcess
    <3>1. q \in Seq(SandboxRow) /\ Len(q) = n /\ IsRun(r, Len(q), q)
      BY <1>1
    <3> HIDE DEF q
    <3>2. \A i \in 1..Len(q) : \E k \in 1..Len(q) : r.order[k] = i
      BY <3>1, EveryRequestIsRun
    <3> QED
      BY <3>1, <3>2
  <2> QED
    BY <2>1, <2>2 DEF IsRun
<1> HIDE DEF L
<1>4. ASSUME NEW a \in (L + 1)..(L + n)
      PROVE  /\ a - L \in 1..n /\ IsResponse(msgs'[a]) /\ ~ IsRequest(msgs'[a])
             /\ msgs'[a].req = b + r.order[a - L]
  <2>1. a - L \in 1..n /\ L + (a - L) = a
    BY <1>1
  <2> DEFINE k == a - L
  <2>2. IsAnswer(msgs'[a], b + r.order[k]) /\ r.order[k] \in 1..n
    BY <1>2, <2>1
  <2> HIDE DEF k, n
  <2>3. b + r.order[k] \in 2..L
    BY <1>1, <2>2 DEF n
  <2>4. msgs[b + r.order[k]].from \in {"agent", "user"}
    <3>1. IsRequest(msgs[b + r.order[k]])
      BY <1>1, <2>2, <2>3 DEF n
    <3> QED
      BY <2>3, <3>1 DEF IInv, MessagesAreOrderly, RowIsOrderly, L
  <2> QED
    BY <2>1, <2>2, <2>4 DEF IsAnswer, IsResponse, IsRequest, k
<1>5. \A a \in 1..L : IsResponse(msgs[a]) => a \in 1..b /\ msgs[a].req < a
  <2>1. SUFFICES ASSUME NEW a \in 1..L, IsResponse(msgs[a]) PROVE a \in 1..b /\ msgs[a].req < a
    OBVIOUS
  <2>2. a \in 2..L
    BY <1>1, <2>1 DEF IInv, MessagesAreOrderly, IsResponse
  <2>3. RowIsOrderly(a)
    BY <2>2 DEF IInv, MessagesAreOrderly, L
  <2>4. a \notin (b + 1)..L
    BY <1>1, <2>1, <2>3 DEF RowIsOrderly, IsResponse
  <2>5. msgs[a].req \in 1..(a - 1)
    BY <2>1, <2>3 DEF RowIsOrderly
  <2> QED
    BY <1>1, <2>2, <2>4, <2>5
<1>6. \A a \in 1..(L + n) : a \in 1..L \/ a \in (L + 1)..(L + n)
  BY <1>1
<1>7. \A a \in 1..L : \A i : Answers(a, i)' <=> Answers(a, i)
  BY <1>2 DEF Answers, IsResponse, SameRow
<1>8. SUFFICES ASSUME NEW i \in 1..(L + n), IsRequest(msgs'[i])
               PROVE  \E a \in 1..(L + n) :
                        Answers(a, i)' /\ \A k \in 1..(L + n) : Answers(k, i)' => k = a
  BY <1>2 DEF RequestsAreAnswered
<1>9. i \in 1..L /\ IsRequest(msgs[i])
  BY <1>2, <1>4, <1>6, <1>8 DEF SameRow, IsRequest
<1>10. CASE i <= b
  <2>1. b \in i..L /\ b \in 1..L
    BY <1>1, <1>9, <1>10
  <2>2. PICK a \in 1..L : Answers(a, i) /\ \A k \in 1..L : Answers(k, i) => k = a
    BY <1>1, <1>9, <2>1 DEF IInv, RequestsAreAnswered, L
  <2>3. ASSUME NEW k \in (L + 1)..(L + n) PROVE ~ Answers(k, i)'
    <3>1. k - L \in 1..n /\ msgs'[k].req = b + r.order[k - L]
      BY <1>4
    <3>2. r.order[k - L] \in 1..n
      BY <1>2, <3>1
    <3> HIDE DEF n
    <3> QED
      BY <1>1, <1>10, <3>1, <3>2 DEF Answers
  <2>4. a \in 1..(L + n)
    BY <1>1
  <2> HIDE DEF n
  <2> QED
    BY <1>6, <1>7, <2>2, <2>3, <2>4
<1>11. CASE i > b
  <2>1. i - b \in 1..n /\ b + (i - b) = i
    BY <1>1, <1>9, <1>11
  <2>2. PICK k \in 1..n : r.order[k] = i - b
    BY <1>3, <2>1
  <2>3. PICK w \in 1..(L + n) : w = L + k /\ w \in (L + 1)..(L + n) /\ w - L = k
    BY <1>1
  <2>4. Answers(w, i)'
    <3> HIDE DEF n
    <3> QED
      BY <1>4, <2>1, <2>2, <2>3 DEF Answers
  <2>5. ASSUME NEW a \in 1..(L + n), Answers(a, i)' PROVE a = w
    <3>1. a \in (L + 1)..(L + n)
      <4>1. a \notin 1..L
        <5>1. SUFFICES ASSUME a \in 1..L PROVE FALSE
          OBVIOUS
        <5>2. Answers(a, i)
          BY <1>7, <2>5, <5>1
        <5> QED
          BY <1>1, <1>5, <1>11, <5>1, <5>2 DEF Answers
      <4> QED
        BY <1>6, <4>1
    <3>2. a - L \in 1..n /\ b + r.order[a - L] = i
      BY <1>4, <2>5, <3>1 DEF Answers
    <3>3. r.order[a - L] = i - b
      <4>1. PICK j : j = r.order[a - L]
        OBVIOUS
      <4>2. j \in Int /\ b \in Int /\ b + j = i
        BY <1>1, <1>2, <3>2, <4>1
      <4>3. j = i - b
        BY <4>2
      <4> QED
        BY <4>1, <4>3
    <3>4. a - L = k
      BY <1>3, <2>2, <3>2, <3>3
    <3> QED
      BY <1>1, <2>3, <3>1, <3>4
  <2> QED
    BY <2>3, <2>4, <2>5
<1> QED
  BY <1>1, <1>9, <1>10, <1>11

LEMMA ExecutionTurn ==
  ASSUME IInv, ExecutionRespond PROVE IInv'
<1>1. /\ Last(msgs).active /\ Last(msgs).to = "execution_environment"
      /\ status = "running"
  BY DEF ExecutionRespond, Turn, Continues
<1>2. PICK b : IsBlock(b)
  BY <1>1, LastBlock DEF IInv
<1>3. PICK r : IsRun(r, Len(MessagesToProcess), MessagesToProcess) /\ Keep(Runs).ctx = r.ctx
  BY <1>2, TheBatchIsRun
<1>4. /\ settings' = r.ctx.settings
      /\ reuses' = reuses + Keep(Runs).ran * HelperCalls(MessagesToProcess)
      /\ \/ status' = "failed" /\ UNCHANGED msgs
         \/ TracesMatch(r.ctx) /\ IsAnswered(r.ctx) /\ UNCHANGED status
  BY <1>3 DEF ExecutionRespond, IsAnswered
<1>5. /\ LowBatteryExcludesServices' /\ settings' \in [Settings -> BOOLEAN]
  BY <1>3, <1>4 DEF IsRun, GoodSettings, LowBatteryExcludesServices
<1>6. reuses' \in Nat
  BY <1>2, <1>4, TheBatchIsRun DEF IInv, TypeOK
<1>7. CASE status' = "failed" /\ UNCHANGED msgs
  <2>1. TypeOK'
    BY <1>5, <1>6, <1>7 DEF IInv, TypeOK
  <2> QED
    BY <1>5, <1>7, <2>1
    DEF IInv, MessagesAreOrderly, RowIsOrderly, TracesBelongToTheirCalls,
        RequestsAreAnswered, Answers, ConversationEndsOnce
<1>8. CASE TracesMatch(r.ctx) /\ IsAnswered(r.ctx) /\ UNCHANGED status
  <2> DEFINE L == Len(msgs)
             n == L - b
  <2>1. /\ IsTurn(n, r.ctx.active)
        /\ \A k \in 1..n : IsAnswer(msgs'[L + k], b + r.order[k])
    BY <1>1, <1>2, <1>3, <1>8, AnsweringIsATurn
  <2>2. RequestsAreAnswered'
    BY <1>1, <1>2, <1>3, <1>8, AnsweringAnswersTheBatch
  <2>3. L \in Nat /\ n \in Nat /\ Len(msgs') = L + n /\ L >= 2
    BY <2>1 DEF IInv, TypeOK, IsTurn
  <2>4. TypeOK'
    BY <1>5, <1>6, <1>8, <2>1, <2>3 DEF IInv, TypeOK, IsTurn
  <2> HIDE DEF n
  <2>5. MessagesAreOrderly'
    BY <2>1, TurnsAreOrderly DEF IInv
  <2>6. \A i \in (L + 1)..(L + n) :
          /\ IsResponse(msgs'[i])
          /\ msgs'[i].trace = IF ~ msgs'[i].exc THEN msgs'[i].req ELSE None
    <3>1. SUFFICES ASSUME NEW i \in (L + 1)..(L + n)
                   PROVE  /\ IsResponse(msgs'[i])
                          /\ msgs'[i].trace = IF ~ msgs'[i].exc THEN msgs'[i].req ELSE None
      OBVIOUS
    <3>2. i - L \in 1..n /\ L + (i - L) = i
      BY <2>3
    <3>3. IsAnswer(msgs'[i], b + r.order[i - L])
      BY <2>1, <3>2
    <3> QED
      BY <3>3 DEF IsAnswer
  <2>7. r.ctx.active = TRUE \/ r.ctx.active = FALSE
    BY <1>3 DEF IsRun
  <2>8. ConversationEndsOnce'
    BY <2>1, <2>6, <2>7, TurnsEndOnce DEF IInv
  <2>9. TracesBelongToTheirCalls'
    <3>1. \A i \in (L + 1)..(L + n) :
            msgs'[i].trace = IF IsResponse(msgs'[i]) /\ ~ msgs'[i].exc THEN msgs'[i].req
                             ELSE None
      BY <2>6
    <3> QED
      BY <2>1, <3>1, TurnsKeepTraces DEF IInv
  <2> QED
    BY <1>5, <2>2, <2>4, <2>5, <2>8, <2>9 DEF IInv
<1> QED
  BY <1>4, <1>7, <1>8

-----------------------------------------------------------------------------
(* What a turn does to the settings is in its messages                     *)

Explained == settings' = Replay(settings, NewMessages)

LEMMA NewMessagesAre ==
  ASSUME TypeOK, NEW n \in Nat, msgs' \in Seq(SandboxRow), Len(msgs') = Len(msgs) + n
  PROVE  Len(NewMessages) = n /\ \A k \in 1..n : NewMessages[k] = msgs'[Len(msgs) + k]
<1> DEFINE L == Len(msgs)
<1>1. L \in Nat
  BY DEF TypeOK
<1> HIDE DEF L
<1>2. NewMessages = SubSeq(msgs', L + 1, L + n)
  BY DEF NewMessages, L
<1>3. /\ Len(SubSeq(msgs', L + 1, L + n)) = n
      /\ \A k \in 1..n : SubSeq(msgs', L + 1, L + n)[k] = msgs'[L + 1 + k - 1]
  BY <1>1, SubSeqProperties DEF L
<1>4. \A k \in 1..n : L + 1 + k - 1 = L + k
  BY <1>1
<1> QED
  BY <1>2, <1>3, <1>4 DEF L

\* Messages that answer nothing leave the settings.
LEMMA NothingSaid ==
  ASSUME TypeOK, NEW n \in Nat, msgs' \in Seq(SandboxRow), Len(msgs') = Len(msgs) + n,
         \A k \in 1..n : ~ IsResponse(msgs'[Len(msgs) + k]),
         settings' = settings
  PROVE  Explained
<1>1. Len(NewMessages) = n /\ \A k \in 1..n : ~ IsResponse(NewMessages[k])
  BY NewMessagesAre
<1> DEFINE f == [k \in 0..n |-> settings]
<1>2. f[0] = settings /\ f[n] = settings
  OBVIOUS
<1>3. ASSUME NEW k \in 1..n PROVE f[k] = Said(f[k - 1], NewMessages[k])
  BY <1>1 DEF Said
<1> HIDE DEF f
<1>4. IsReplay(settings, settings, NewMessages, n)
  BY <1>2, <1>3 DEF IsReplay
<1>5. settings = Replay(settings, NewMessages)
  BY <1>1, <1>4, ReplaysAreReplay
<1> QED
  BY <1>5 DEF Explained

LEMMA SpeakingSaysNothing ==
  ASSUME TypeOK, Last(msgs).active, NEW new, IsSpoken(new), AddMessages(msgs, new),
         settings' = settings
  PROVE  Explained
<1> DEFINE n == Len(new)
<1>1. n \in Nat
  BY DEF IsSpoken
<1>2. /\ IsTurn(n, TRUE)
      /\ \A k \in 1..n : SameRow(msgs'[Len(msgs) + k], new[k])
  BY SpeakingIsATurn
<1>3. \A k \in 1..n : new[k].from \in {"agent", "user"}
  BY DEF IsSpoken
<1> HIDE DEF n
<1>4. \A k \in 1..n : ~ IsResponse(msgs'[Len(msgs) + k])
  BY <1>2, <1>3 DEF SameRow, IsResponse
<1> QED
  BY <1>1, <1>2, <1>4, NothingSaid DEF IsTurn

LEMMA AnswersSayIt ==
  ASSUME IInv, ExecutionRespond, status' # "failed" PROVE Explained
<1>1. /\ Last(msgs).active /\ Last(msgs).to = "execution_environment"
  BY DEF ExecutionRespond, Turn, Continues
<1>2. PICK b : IsBlock(b)
  BY <1>1, LastBlock DEF IInv
<1> DEFINE L == Len(msgs)
           n == L - b
<1>3. PICK r : /\ IsRun(r, Len(MessagesToProcess), MessagesToProcess)
               /\ IsExplained(r, Len(MessagesToProcess), settings)
               /\ Keep(Runs).ctx = r.ctx
  BY <1>2, TheBatchIsRun
<1>4. settings' = r.ctx.settings /\ TracesMatch(r.ctx) /\ IsAnswered(r.ctx)
  BY <1>3 DEF ExecutionRespond, IsAnswered
<1>5. /\ IsTurn(n, r.ctx.active)
      /\ \A k \in 1..n : SameNews(msgs'[L + k], r.ctx.responses[k])
  BY <1>1, <1>2, <1>3, <1>4, AnsweringIsATurn
<1>6. n \in Nat /\ Len(MessagesToProcess) = n
  BY <1>2, <1>5 DEF IsBlock, IsTurn
<1> HIDE DEF n
<1>7. Len(NewMessages) = n /\ \A k \in 1..n : NewMessages[k] = msgs'[L + k]
  BY <1>5, <1>6, NewMessagesAre DEF IInv, IsTurn
<1>8. PICK f : /\ f[0] = settings /\ f[n] = settings'
               /\ \A k \in 1..n : f[k] = Said(f[k - 1], r.ctx.responses[k])
  BY <1>3, <1>4, <1>6 DEF IsExplained, IsReplay
<1>9. ASSUME NEW k \in 1..n PROVE f[k] = Said(f[k - 1], NewMessages[k])
  <2>1. SameNews(NewMessages[k], r.ctx.responses[k])
    BY <1>5, <1>7
  <2> QED
    BY <1>8, <2>1 DEF Said, SameNews, IsResponse
<1>10. IsReplay(settings', settings, NewMessages, n)
  BY <1>8, <1>9 DEF IsReplay
<1> QED
  BY <1>6, <1>7, <1>10, ReplaysAreReplay DEF Explained

LEMMA TurnsAreExplained ==
  ASSUME IInv, [Next]_rvars, status' # "failed" PROVE Explained
<1>0. TypeOK
  BY DEF IInv
<1>1. ASSUME UNCHANGED <<msgs, settings>> PROVE Explained
  <2>1. msgs' \in Seq(SandboxRow) /\ Len(msgs') = Len(msgs) + 0 /\ settings' = settings
    BY <1>0, <1>1 DEF TypeOK
  <2>2. \A k \in 1..0 : ~ IsResponse(msgs'[Len(msgs) + k])
    OBVIOUS
  <2>3. 0 \in Nat
    OBVIOUS
  <2> QED
    BY <1>0, <2>1, <2>2, <2>3, NothingSaid
<1>2. CASE Prepare \/ ModelFails \/ Finish \/ UNCHANGED rvars
  BY <1>1, <1>2 DEF Prepare, ModelFails, Finish, rvars
<1>3. CASE AgentRespond
  <2>1. Last(msgs).active /\ settings' = settings
    BY <1>3 DEF AgentRespond, Turn, Continues
  <2>2. CASE SendText("agent", "user")
    BY <1>0, <2>1, <2>2, TextIsSpoken, SpeakingSaysNothing DEF SendText
  <2>3. ASSUME NEW n \in 0..MaxBatch, NEW calls \in [1..n -> AgentCalls],
               SendCalls("agent", calls)
        PROVE  Explained
    <3>1. n \in Nat /\ calls \in [1..n -> Calls]
      BY RolloutAssumption DEF Calls
    <3> QED
      BY <1>0, <2>1, <2>3, <3>1, CallsAreSpoken, SpeakingSaysNothing DEF SendCalls
  <2> QED
    BY <1>3, <2>2, <2>3 DEF AgentRespond
<1>4. CASE UserRespond
  <2>1. Last(msgs).active /\ settings' = settings
    BY <1>4 DEF UserRespond, Turn, Continues
  <2>2. CASE SendText("user", "agent")
    BY <1>0, <2>1, <2>2, TextIsSpoken, SpeakingSaysNothing DEF SendText
  <2>3. ASSUME NEW n \in 0..MaxBatch, SendCalls("user", [i \in 1..n |-> EndConversation])
        PROVE  Explained
    <3> DEFINE calls == [i \in 1..n |-> EndConversation]
    <3>1. n \in Nat /\ calls \in [1..n -> Calls]
      BY RolloutAssumption DEF Calls
    <3> HIDE DEF calls
    <3> QED
      BY <1>0, <2>1, <2>3, <3>1, CallsAreSpoken, SpeakingSaysNothing DEF SendCalls, calls
  <2> QED
    BY <1>4, <2>2, <2>3 DEF UserRespond
<1>5. CASE ExecutionRespond
  BY <1>5, AnswersSayIt
<1> QED
  BY <1>2, <1>3, <1>4, <1>5 DEF Next

-----------------------------------------------------------------------------
(* The invariant is inductive                                              *)

LEMMA InitInvariant ==
  ASSUME Init PROVE IInv
<1>1. /\ msgs = <<Message("system", "execution_environment", Text, None),
                  Message("user", "agent", Text, None)>>
      /\ settings \in [Settings -> BOOLEAN] /\ LowBatteryExcludesServices
      /\ reuses = 0 /\ status = "ready"
  BY DEF Init, StartMessages, LowBatteryExcludesServices
<1> DEFINE m1 == Message("system", "execution_environment", Text, None)
           m2 == Message("user", "agent", Text, None)
<1>2. m1 \in SandboxRow /\ m2 \in SandboxRow
  BY Messages DEF Roles, Calls, None
<1>3. /\ m1.from = "system" /\ m1.to = "execution_environment" /\ m1.active /\ m1.trace = None
      /\ m2.from = "user" /\ m2.to = "agent" /\ m2.active /\ m2.trace = None
  BY DEF Message
<1> HIDE DEF m1, m2
<1>4. /\ msgs \in Seq(SandboxRow) /\ Len(msgs) = 2 /\ DOMAIN msgs = 1..2
      /\ msgs[1] = m1 /\ msgs[2] = m2
  <2>1. msgs = <<m1, m2>>
    BY <1>1 DEF m1, m2
  <2> QED
    BY <1>2, <2>1
<1>5. \A i \in 1..2 : msgs[i] \in {m1, m2}
  BY <1>4
<1>6. \A m \in {m1, m2} : ~ IsRequest(m) /\ ~ IsResponse(m) /\ m.active /\ m.trace = None
  BY <1>3 DEF IsRequest, IsResponse
<1>7. TypeOK
  BY <1>1, <1>4 DEF TypeOK
<1>8. MessagesAreOrderly
  BY <1>3, <1>4, <1>6 DEF MessagesAreOrderly, RowIsOrderly
<1>9. TracesBelongToTheirCalls /\ RequestsAreAnswered /\ ConversationEndsOnce
  BY <1>4, <1>5, <1>6 DEF TracesBelongToTheirCalls, RequestsAreAnswered, ConversationEndsOnce
<1> QED
  BY <1>1, <1>7, <1>8, <1>9 DEF IInv

LEMMA StepInvariant ==
  ASSUME IInv, [Next]_rvars PROVE IInv'
<1>1. ASSUME UNCHANGED <<msgs, settings, reuses>>,
             status' \in {"ready", "running", "done", "failed"}
      PROVE  IInv'
  BY <1>1 DEF IInv, TypeOK, MessagesAreOrderly, RowIsOrderly, LowBatteryExcludesServices,
              TracesBelongToTheirCalls, RequestsAreAnswered, Answers, ConversationEndsOnce
<1>2. CASE Prepare
  BY <1>1, <1>2 DEF Prepare
<1>3. CASE AgentRespond
  BY <1>3, AgentTurn
<1>4. CASE UserRespond
  BY <1>4, UserTurn
<1>5. CASE ExecutionRespond
  BY <1>5, ExecutionTurn
<1>6. CASE ModelFails
  BY <1>1, <1>6 DEF ModelFails
<1>7. CASE Finish
  BY <1>1, <1>7 DEF Finish
<1>8. CASE UNCHANGED rvars
  BY <1>1, <1>8 DEF rvars, IInv, TypeOK
<1> QED
  BY <1>2, <1>3, <1>4, <1>5, <1>6, <1>7, <1>8 DEF Next

-----------------------------------------------------------------------------
(* The theorems                                                            *)

(* The strengthened invariant holds in every state: whichever calls the    *)
(* models make, and in whichever order a batch of them fails.              *)
THEOREM Invariance == Spec => []IInv
<1>1. Init => IInv
  BY InitInvariant
<1>2. IInv /\ [Next]_rvars => IInv'
  BY StepInvariant
<1> QED
  BY <1>1, <1>2, PTL DEF Spec

(* The rows, the settings and the counters keep their types: the recursion *)
(* over the orders of a batch always yields runs that can be answered with. *)
THEOREM TypeCorrect == Spec => []TypeOK
<1>1. IInv => TypeOK
  BY DEF IInv
<1> QED
  BY <1>1, Invariance, PTL

(* No service is on in low battery mode, after any batch of set_* calls in  *)
(* any of its orders (tools/setting.py, base_scenarios.py:219).            *)
THEOREM LowBatteryIsRespected == Spec => []LowBatteryExcludesServices
<1>1. IInv => LowBatteryExcludesServices
  BY DEF IInv
<1> QED
  BY <1>1, Invariance, PTL

(* Every response carries the trace of its own call, exactly when the call *)
(* succeeded (execution_environment.py:295-328), for batches of any size.  *)
THEOREM TracesAreTheirOwn == Spec => []TracesBelongToTheirCalls
<1>1. IInv => TracesBelongToTheirCalls
  BY DEF IInv
<1> QED
  BY <1>1, Invariance, PTL

(* Every tool call is answered exactly once, later, and to the role that   *)
(* made it, whichever order of the batch is kept.                          *)
THEOREM AnsweredOnce == Spec => []EveryRequestAnsweredOnce
<1>1. ASSUME IInv PROVE EveryRequestAnsweredOnce
  <2>1. DOMAIN msgs = 1..Len(msgs) /\ Len(msgs) \in Nat
    BY <1>1 DEF IInv, TypeOK
  <2> SUFFICES ASSUME NEW i \in 1..Len(msgs), IsRequest(msgs[i]),
                      NEW l \in i..Len(msgs), ~ IsRequest(msgs[l])
               PROVE  LET answers == {j \in DOMAIN msgs : IsResponse(msgs[j]) /\ msgs[j].req = i}
                      IN  /\ Cardinality(answers) = 1
                          /\ \A j \in answers : /\ j > i
                                                /\ msgs[j].to = msgs[i].from
                                                /\ msgs[j].call = msgs[i].call
    BY <2>1 DEF EveryRequestAnsweredOnce
  <2> DEFINE answers == {j \in DOMAIN msgs : IsResponse(msgs[j]) /\ msgs[j].req = i}
  <2>2. PICK j \in 1..Len(msgs) :
          Answers(j, i) /\ \A k \in 1..Len(msgs) : Answers(k, i) => k = j
    BY <1>1 DEF IInv, RequestsAreAnswered
  <2>3. answers = {j}
    BY <2>1, <2>2 DEF Answers
  <2>4. j \in 2..Len(msgs)
    BY <1>1, <2>1, <2>2 DEF IInv, MessagesAreOrderly, Answers, IsResponse
  <2>5. RowIsOrderly(j)
    BY <1>1, <2>4 DEF IInv, MessagesAreOrderly
  <2>6. j > i /\ msgs[j].to = msgs[i].from /\ msgs[j].call = msgs[i].call
    BY <2>2, <2>4, <2>5 DEF RowIsOrderly, Answers
  <2> HIDE DEF answers
  <2>7. Cardinality(answers) = 1
    BY <2>3, FS_Singleton
  <2> QED
    BY <2>3, <2>6, <2>7 DEF answers
<1> QED
  BY <1>1, Invariance, PTL

(* Once end_conversation succeeded the flag never comes back, and only the *)
(* answers to the batch at hand follow.                                    *)
THEOREM EndsOnce == Spec => []ConversationEndsOnce
<1>1. IInv => ConversationEndsOnce
  BY DEF IInv
<1> QED
  BY <1>1, Invariance, PTL

(* The settings after a turn are those the new responses account for, in   *)
(* the order in which they stand: the context and the messages that are    *)
(* kept of a batch come from the same of its orders, whichever fails       *)
(* (execution_environment.py:120-328).                                     *)
THEOREM SettingsAreExplained == Spec => ResponsesExplainSettings
<1>1. ASSUME IInv, [Next]_rvars
      PROVE  [status' # "failed" => settings' = Replay(settings, NewMessages)]_rvars
  <2>1. status' # "failed" => settings' = Replay(settings, NewMessages)
    BY <1>1, TurnsAreExplained DEF Explained
  <2> QED
    BY <2>1
<1> QED
  BY <1>1, Invariance, PTL DEF Spec, ResponsesExplainSettings

==============================================================================
