-------------------------- MODULE TaskBoardProofs ---------------------------
(***************************************************************************)
(* Theorems about TaskBoard, for any number of agents, publishers and      *)
(* handlers.                                                               *)
(***************************************************************************)
EXTENDS TaskBoard, TLAPS

\* The two kinds of handler are two types of function.
Bounds == /\ MaxPublishes \in Nat /\ NoAgent \notin Agents
          /\ Subscribers \cap Listeners = {}

(* A goroutine has an agent exactly while it publishes, and nobody to call *)
(* but in the two loops.                                                   *)
Placed == \A t \in Threads :
            /\ pc[t] = "idle" <=> agent[t] = NoAgent
            /\ pc[t] \notin {"call", "raise"} => targets[t] = {}
            /\ pc[t] # "idle" => list[t] \in Lists

(* What the two tables hold of a handler goes with what its owner did.     *)
Handles == /\ \A h \in subs : On(h)
           /\ \A h \in handlers : handle[h] # "new"
           /\ \A h \in Handlers : On(h) => h \in subs \cup handlers
           /\ subs \cap handlers = {}

TypeInv == TypeOK /\ Placed /\ Handles

LEMMA InitType == ASSUME Bounds, Init PROVE TypeInv
  BY DEF Bounds, Init, TypeInv, TypeOK, Placed, Handles, On, Handlers

LEMMA OwnerType ==
  ASSUME Bounds, TypeInv, NEW h \in Handlers, Owner(h)
  PROVE  TypeInv'
<1> USE DEF Bounds, TypeInv, TypeOK, Placed, Handles, On, tables, locals, history
<1>1. CASE Subscribe(h)
  BY <1>1 DEF Subscribe
<1>2. CASE Unsubscribe(h)
  BY <1>2 DEF Unsubscribe, Removed
<1>3. CASE PubSubSubscribe(h)
  BY <1>3 DEF PubSubSubscribe
<1>4. CASE PubSubUnsubscribe(h)
  BY <1>4 DEF PubSubUnsubscribe
<1> QED BY <1>1, <1>2, <1>3, <1>4 DEF Owner

LEMMA PublishType ==
  ASSUME Bounds, TypeInv, NEW t \in Threads, NEW a \in Agents, NEW l \in Lists,
         Publish(t, a, l)
  PROVE  TypeInv'
<1> USE DEF TypeInv, TypeOK, tables, locals, history
<1>1. publishes' \in 0 .. MaxPublishes
  BY DEF Publish, Bounds
<1>2. /\ due' \in [Handlers -> SUBSET Agents]
      /\ gone' \in [Threads -> SUBSET Handlers]
      /\ clashed' \subseteq Agents
  BY DEF Publish
<1>3. Placed'
  BY DEF Publish, Placed, Bounds
<1>4. Handles'
  BY DEF Publish, Handles, On
<1> QED BY <1>1, <1>2, <1>3, <1>4 DEF Publish

LEMMA PublisherType ==
  ASSUME Bounds, TypeInv, NEW t \in Threads, Publisher(t)
  PROVE  TypeInv'
<1> USE DEF TypeInv, TypeOK, tables, locals, history
<1>1. ASSUME NEW a \in Agents, NEW l \in Lists, Publish(t, a, l)
      PROVE  TypeInv'
  BY <1>1, PublishType
<1>2. CASE Set(t)
  <2>1. agent[t] \in Agents /\ list[t] \in Lists
    BY <1>2, Bounds DEF Set, Placed, Bounds
  <2>2. store' \in [Agents -> Lists \cup {NoList}]
    BY <1>2, <2>1 DEF Set, Stored
  <2> QED BY <1>2, <2>2 DEF Set, Placed, Handles, On
<1>3. CASE Snapshot(t)
  BY <1>3 DEF Snapshot, Placed, Handles, On, Handlers
<1>4. ASSUME NEW h \in Handlers, CallHandler(t, h)
      PROVE  TypeInv'
  <2>1. list[t] \in Lists /\ agent[t] \in Agents
    BY <1>4, Bounds DEF CallHandler, Placed, Bounds
  <2>2. known' \in [Handlers -> [Agents -> Lists \cup {NoList}]]
    BY <1>4, <2>1 DEF CallHandler
  <2> QED BY <1>4, <2>2 DEF CallHandler, Placed, Handles, On
<1>5. CASE Notified(t)
  BY <1>5 DEF Notified, Placed, Handles, On
<1>6. CASE Return(t)
  BY <1>6 DEF Return, Placed, Handles, On
<1> QED BY <1>1, <1>2, <1>3, <1>4, <1>5, <1>6 DEF Publisher

LEMMA StepType ==
  ASSUME Bounds, TypeInv, [Next]_vars
  PROVE  TypeInv'
<1>1. CASE UNCHANGED vars
  BY <1>1 DEF TypeInv, TypeOK, Placed, Handles, On, vars, tables, locals, history
<1> QED BY <1>1, OwnerType, PublisherType DEF Next

LEMMA TypeInvHolds ==
  ASSUME Bounds
  PROVE  Spec => []TypeInv
<1>1. Init => TypeInv
  BY InitType
<1>2. TypeInv /\ [Next]_vars => TypeInv'
  BY StepType
<1> QED BY <1>1, <1>2, PTL DEF Spec

-----------------------------------------------------------------------------
GoneInv == \A t \in Threads :
             /\ \A h \in gone[t] : handle[h] = "off"
             /\ targets[t] \cap gone[t] \subseteq Listeners

LEMMA GoneStep ==
  ASSUME TypeInv, GoneInv, [Next]_vars
  PROVE  GoneInv'
<1> USE DEF TypeInv, TypeOK, Placed, Handles, On, GoneInv, tables, locals, history
<1>1. ASSUME NEW h \in Handlers, Owner(h)
      PROVE  GoneInv'
  BY <1>1 DEF Owner, Subscribe, Unsubscribe, PubSubSubscribe, PubSubUnsubscribe
<1>2. ASSUME NEW t \in Threads, NEW a \in Agents, NEW l \in Lists, Publish(t, a, l)
      PROVE  GoneInv'
  BY <1>2 DEF Publish
<1>3. ASSUME NEW t \in Threads, Set(t) \/ Notified(t) \/ Return(t)
      PROVE  GoneInv'
  BY <1>3 DEF Set, Notified, Return
<1>4. ASSUME NEW t \in Threads, Snapshot(t)
      PROVE  GoneInv'
  BY <1>4 DEF Snapshot
<1>5. ASSUME NEW t \in Threads, NEW h \in Handlers, CallHandler(t, h)
      PROVE  GoneInv'
  BY <1>5 DEF CallHandler
<1>6. CASE UNCHANGED vars
  BY <1>6 DEF vars
<1> QED BY <1>1, <1>2, <1>3, <1>4, <1>5, <1>6 DEF Next, Publisher

(* No publication that begins after an Unsubscribe calls the handler, for  *)
(* any number of publishers and handlers.                                  *)
THEOREM GoneAreNotCalled ==
  ASSUME Bounds
  PROVE  Spec => []GoneAreLeftAlone
<1>1. Init => GoneInv
  BY DEF Init, GoneInv
<1>2. TypeInv /\ GoneInv /\ [Next]_vars => GoneInv'
  BY GoneStep
<1>3. GoneInv => GoneAreLeftAlone
  BY DEF GoneInv, GoneAreLeftAlone
<1> QED BY <1>1, <1>2, <1>3, TypeInvHolds, PTL DEF Spec

-----------------------------------------------------------------------------
(* While t publishes for an agent that is not clashed, its list is the one *)
(* that is stored, and who has been told goes by where t is.  A handler    *)
(* counts when a publication for the agent began while it was on, or when  *)
(* it knows a list of the agent.                                           *)
Publishes(t, a) == agent[t] = a /\ a \in Agents /\ a \notin clashed

Concerns(h, a) == On(h) /\ (a \in due[h] \/ known[h][a] # NoList)

Alone == \A t, u \in Threads, a \in Agents :
           Publishes(t, a) /\ Publishes(u, a) => t = u

Kept == \A t \in Threads, a \in Agents :
          Publishes(t, a) /\ pc[t] # "set" => store[a] = list[t]

Told(t, h) ==
  /\ h \in subs /\ pc[t] = "call" => h \in targets[t] \/ known[h][agent[t]] = list[t]
  /\ h \in subs /\ pc[t] \in {"event", "raise"} => known[h][agent[t]] = list[t]
  /\ h \in handlers /\ pc[t] = "raise" =>
       h \in targets[t] \/ known[h][agent[t]] = list[t]

Staged == \A t \in Threads, h \in Handlers, a \in Agents :
            Publishes(t, a) /\ Concerns(h, a) => Told(t, h)

\* A handler that was never on has been told nothing and is not called.
Fresh == \A h \in Handlers : handle[h] = "new" =>
           /\ due[h] = {}
           /\ \A a \in Agents : known[h][a] = NoList
           /\ \A t \in Threads : h \notin targets[t]

InStep == Alone /\ Kept /\ Staged /\ Fresh /\ SubscribersInStep

LEMMA InStepOwner ==
  ASSUME TypeInv, InStep, NEW g \in Handlers, Owner(g)
  PROVE  InStep'
<1> USE DEF tables, locals, history
<1>1. /\ UNCHANGED <<store, pc, agent, list, targets, known, due, clashed>>
      /\ \A h \in Handlers \ {g} : handle'[h] = handle[h]
      /\ handle'[g] # "new"
      /\ handle'[g] = "on" => handle[g] = "new"
      /\ subs' \subseteq subs \cup {g} /\ handlers' \subseteq handlers \cup {g}
  BY DEF Owner, Subscribe, Unsubscribe, PubSubSubscribe, PubSubUnsubscribe, Removed,
         TypeInv, TypeOK
<1>2. \A h \in Handlers, a \in Agents : Concerns(h, a)' => h # g /\ Concerns(h, a)
  BY <1>1 DEF Concerns, On, InStep, Fresh
<1>3. Alone' /\ Kept'
  BY <1>1 DEF InStep, Alone, Kept, Publishes
<1>4. Staged'
  BY <1>1, <1>2 DEF InStep, Staged, Told, Publishes
<1>5. Fresh'
  BY <1>1 DEF InStep, Fresh
<1>6. SubscribersInStep'
  BY <1>1, <1>2 DEF InStep, SubscribersInStep, Settled, Busy, Concerns
<1> QED BY <1>3, <1>4, <1>5, <1>6 DEF InStep

LEMMA InStepPublish ==
  ASSUME Bounds, TypeInv, InStep, NEW t \in Threads, NEW b \in Agents, NEW l \in Lists,
         Publish(t, b, l)
  PROVE  InStep'
<1> USE DEF tables, locals, history
<1>1. /\ UNCHANGED <<store, subs, handlers, handle, targets, known>>
      /\ pc[t] = "idle" /\ pc'[t] = "set" /\ agent'[t] = b
      /\ \A u \in Threads \ {t} : /\ pc'[u] = pc[u] /\ agent'[u] = agent[u]
                                   /\ list'[u] = list[u]
      /\ \A h \in Handlers : due'[h] = IF On(h) THEN due[h] \cup {b} ELSE due[h]
      /\ clashed \subseteq clashed' /\ (Busy(b) => b \in clashed')
  BY DEF Publish, TypeInv, TypeOK
<1>2. \A u \in Threads \ {t}, a \in Agents :
        Publishes(u, a)' => Publishes(u, a) /\ a # b
  BY <1>1 DEF Publishes, Busy
<1>3. \A h \in Handlers, a \in Agents \ {b} : Concerns(h, a)' => Concerns(h, a)
  BY <1>1 DEF Concerns, On
<1>4. \A a \in Agents : Publishes(t, a)' => a = b
  BY <1>1 DEF Publishes
<1>5. Alone'
  BY <1>2, <1>4 DEF InStep, Alone
<1>6. Kept'
  BY <1>1, <1>2 DEF InStep, Kept
<1>7. Staged'
  <2>1. \A h \in Handlers : Told(t, h)'
    BY <1>1 DEF Told
  <2>2. ASSUME NEW u \in Threads \ {t}, NEW h \in Handlers, NEW a \in Agents,
               Publishes(u, a)', Concerns(h, a)'
        PROVE  Told(u, h)'
    <3>1. Told(u, h)
      BY <1>2, <1>3, <2>2 DEF InStep, Staged
    <3> QED BY <1>1, <3>1 DEF Told
  <2> QED BY <2>1, <2>2 DEF Staged
<1>8. Fresh'
  BY <1>1 DEF InStep, Fresh, On
<1>9. SubscribersInStep'
  <2>1. Busy(b)'
    BY <1>1 DEF Busy
  <2>2. \A a \in Agents \ {b} : Settled(a)' => Settled(a)
    <3>1. agent[t] = NoAgent
      BY <1>1 DEF TypeInv, Placed
    <3> QED BY <1>1, <3>1 DEF Settled, Busy, Bounds
  <2> QED BY <1>1, <1>3, <2>1, <2>2
          DEF InStep, SubscribersInStep, Settled, Concerns, On
<1> QED BY <1>5, <1>6, <1>7, <1>8, <1>9 DEF InStep

\* The steps in the middle of a publication: nobody becomes less busy.
LEMMA InStepMiddle ==
  ASSUME Bounds, TypeInv, InStep, NEW t \in Threads,
         \/ Set(t) \/ Snapshot(t) \/ Notified(t)
         \/ \E h \in Handlers : CallHandler(t, h)
  PROVE  InStep'
<1> USE DEF tables, locals, history
<1> DEFINE b == agent[t]
<1>1. /\ UNCHANGED <<subs, handlers, handle, agent, list, due, clashed>>
      /\ \A u \in Threads \ {t} : pc'[u] = pc[u] /\ targets'[u] = targets[u]
      /\ \A a \in Agents \ {b} : /\ store'[a] = store[a]
                                  /\ \A h \in Handlers : known'[h][a] = known[h][a]
      /\ pc[t] \in {"set", "notify", "call", "event", "raise"} /\ b \in Agents
  BY DEF Set, Snapshot, Notified, CallHandler, TypeInv, TypeOK, Placed, Bounds
<1>2. \A u \in Threads, a \in Agents : Publishes(u, a)' <=> Publishes(u, a)
  BY <1>1 DEF Publishes
<1>3. \A u \in Threads \ {t}, a \in Agents : Publishes(u, a) => a # b
  BY <1>1 DEF InStep, Alone, Publishes
<1>4. Alone'
  BY <1>2 DEF InStep, Alone
<1>5. Kept'
  <2>1. CASE Set(t)
    BY <1>1, <1>2, <1>3, <2>1 DEF InStep, Kept, Publishes, Set, Stored, TypeInv, TypeOK
  <2>2. CASE ~Set(t)
    <3>1. store' = store /\ pc[t] # "set"
      BY <2>2 DEF Snapshot, Notified, CallHandler
    <3> QED BY <1>1, <1>2, <3>1 DEF InStep, Kept
  <2> QED BY <2>1, <2>2
<1>6. ASSUME NEW u \in Threads \ {t}, NEW h \in Handlers, NEW a \in Agents,
             Publishes(u, a)', Concerns(h, a)'
      PROVE  Told(u, h)'
  <2>1. a # b /\ Publishes(u, a)
    BY <1>2, <1>3, <1>6
  <2>2. Concerns(h, a) /\ agent[u] = a
    BY <1>1, <1>6, <2>1 DEF Concerns, On, Publishes
  <2>3. Told(u, h)
    BY <2>1, <2>2 DEF InStep, Staged
  <2> QED BY <1>1, <2>1, <2>2, <2>3 DEF Told
<1>7. ASSUME NEW h \in Handlers, Publishes(t, b)', Concerns(h, b)'
      PROVE  Told(t, h)'
  <2>1. Publishes(t, b) /\ (known'[h] = known[h] => Concerns(h, b) /\ Told(t, h))
    BY <1>1, <1>2, <1>7 DEF Concerns, On, InStep, Staged
  <2>2. CASE Set(t)
    BY <2>2 DEF Set, Told, TypeInv, TypeOK
  <2>3. CASE Snapshot(t)
    BY <2>1, <2>3 DEF Snapshot, Told, TypeInv, TypeOK
  <2>4. CASE Notified(t)
    BY <2>1, <2>4 DEF Notified, Told, TypeInv, TypeOK
  <2>5. ASSUME NEW g \in Handlers, CallHandler(t, g)
        PROVE  Told(t, h)'
    <3>1. /\ pc' = pc /\ targets'[t] = targets[t] \ {g}
          /\ known'[g][b] = list[t]
          /\ g # h => known'[h] = known[h]
      BY <1>1, <2>5 DEF CallHandler, TypeInv, TypeOK
    <3>2. CASE g = h
      BY <1>1, <3>1, <3>2 DEF Told
    <3>3. CASE g # h
      BY <1>1, <2>1, <3>1, <3>3 DEF Told
    <3> QED BY <3>2, <3>3
  <2> QED BY <2>2, <2>3, <2>4, <2>5
<1>8. Staged'
  <2>1. ASSUME NEW h \in Handlers, NEW a \in Agents,
               Publishes(t, a)', Concerns(h, a)'
        PROVE  Told(t, h)'
    <3>1. a = b /\ b' = b
      BY <1>1, <2>1 DEF Publishes
    <3> QED BY <1>7, <2>1, <3>1
  <2> QED BY <1>6, <2>1 DEF Staged
<1>9. Fresh'
  <2>1. CASE Set(t) \/ Notified(t)
    BY <2>1 DEF InStep, Fresh, Set, Notified
  <2>2. CASE Snapshot(t)
    BY <2>2 DEF InStep, Fresh, Snapshot, TypeInv, TypeOK, Handles, On
  <2>3. ASSUME NEW g \in Handlers, CallHandler(t, g)
        PROVE  Fresh'
    <3>1. handle[g] # "new"
      BY <2>3 DEF CallHandler, InStep, Fresh
    <3>2. \A h \in Handlers \ {g} : known'[h] = known[h]
      BY <2>3 DEF CallHandler, TypeInv, TypeOK
    <3>3. \A u \in Threads : targets'[u] \subseteq targets[u]
      BY <2>3 DEF CallHandler, TypeInv, TypeOK
    <3> QED BY <1>1, <3>1, <3>2, <3>3 DEF InStep, Fresh
  <2> QED BY <2>1, <2>2, <2>3
<1>10. SubscribersInStep'
  <2>1. Busy(b) /\ \A a \in Agents : Settled(a)' <=> Settled(a)
    BY <1>1 DEF Busy, Settled
  <2> QED BY <1>1, <2>1 DEF InStep, SubscribersInStep, Settled, On
<1> QED BY <1>4, <1>5, <1>8, <1>9, <1>10 DEF InStep

LEMMA InStepReturn ==
  ASSUME Bounds, TypeInv, InStep, NEW t \in Threads, Return(t)
  PROVE  InStep'
<1> USE DEF tables, locals, history
<1> DEFINE b == agent[t]
<1>1. /\ UNCHANGED <<store, subs, handlers, handle, targets, known, due, clashed>>
      /\ pc[t] = "raise" /\ targets[t] = {} /\ agent'[t] = NoAgent
      /\ \A u \in Threads \ {t} : /\ pc'[u] = pc[u] /\ agent'[u] = agent[u]
                                   /\ list'[u] = list[u]
      /\ b \in Agents
  BY DEF Return, TypeInv, TypeOK, Placed, Bounds
<1>2. \A u \in Threads, a \in Agents :
        Publishes(u, a)' => u # t /\ Publishes(u, a)
  BY <1>1 DEF Publishes, Bounds
<1>3. \A h \in Handlers, a \in Agents : Concerns(h, a)' <=> Concerns(h, a)
  BY <1>1 DEF Concerns, On
<1>4. Alone' /\ Kept'
  BY <1>1, <1>2 DEF InStep, Alone, Kept
<1>5. Staged'
  <2>1. ASSUME NEW u \in Threads, NEW h \in Handlers, NEW a \in Agents,
               Publishes(u, a)', Concerns(h, a)'
        PROVE  Told(u, h)'
    <3>1. Told(u, h) /\ u # t
      BY <1>2, <1>3, <2>1 DEF InStep, Staged
    <3> QED BY <1>1, <3>1 DEF Told
  <2> QED BY <2>1 DEF Staged
<1>6. Fresh'
  BY <1>1 DEF InStep, Fresh
<1>7. SubscribersInStep'
  <2>1. ASSUME NEW h \in Handlers, b \notin clashed, Concerns(h, b)
        PROVE  known[h][b] = store[b]
    <3>1. Publishes(t, b)
      BY <1>1, <2>1 DEF Publishes
    <3>2. Told(t, h) /\ store[b] = list[t]
      BY <1>1, <2>1, <3>1 DEF InStep, Staged, Kept
    <3>3. h \in subs \cup handlers
      BY <2>1 DEF Concerns, TypeInv, Handles
    <3> QED BY <1>1, <3>2, <3>3 DEF Told
  <2>2. \A a \in Agents \ {b} : Settled(a)' => Settled(a)
    BY <1>1 DEF Settled, Busy
  <2> QED BY <1>1, <2>1, <2>2
          DEF InStep, SubscribersInStep, Settled, Concerns, On
<1> QED BY <1>4, <1>5, <1>6, <1>7 DEF InStep

LEMMA InStepStep ==
  ASSUME Bounds, TypeInv, InStep, [Next]_vars
  PROVE  InStep'
<1>1. CASE UNCHANGED vars
  BY <1>1 DEF InStep, Alone, Kept, Staged, Fresh, SubscribersInStep, Publishes,
              Concerns, Told, Settled, Busy, On, vars, tables, locals, history
<1> QED
  BY <1>1, InStepOwner, InStepPublish, InStepMiddle, InStepReturn DEF Next, Publisher

(* For any number of publishers, agents and handlers: once the publication *)
(* of an agent is over, unless two of them met, a subscriber has been told *)
(* the list that is stored.                                                *)
THEOREM NobodyIsBehind ==
  ASSUME Bounds
  PROVE  Spec => []SubscribersInStep
<1>1. Init => InStep
  BY DEF Init, InStep, Alone, Kept, Staged, Fresh, SubscribersInStep, Publishes,
         Concerns, On, Bounds
<1>2. TypeInv /\ InStep /\ [Next]_vars => InStep'
  BY InStepStep
<1>3. InStep => SubscribersInStep
  BY DEF InStep
<1> QED BY <1>1, <1>2, <1>3, TypeInvHolds, PTL DEF Spec
=============================================================================
