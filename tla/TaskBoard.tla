----------------------------- MODULE TaskBoard ------------------------------
(***************************************************************************)
(* pkg/taskboard/service.go over the TodoStore and the in-memory PubSub:   *)
(* Publish stores a list and then tells the subscribers of the service and *)
(* after them the listeners of the PubSub, each called with no lock held.  *)
(*                                                                         *)
(* A list is one that validateTodos accepts (TodoLists), an agent has an   *)
(* id: Publish returns at once from any other.  A subscription is made     *)
(* once, as each has an id of its own.  What a handler does is to remember *)
(* the list it got.                                                        *)
(***************************************************************************)
EXTENDS Naturals

CONSTANTS Agents, Lists,
          Threads,       \* goroutines that publish
          Subscribers,   \* handlers given to Service.Subscribe
          Listeners,     \* handlers given to PubSub.Subscribe
          MaxPublishes,  \* bound: publications begun
          NoAgent, NoList

Handlers == Subscribers \cup Listeners

VARIABLES
  store,      \* the list of each agent, or NoList
  subs,       \* the service's subscribers
  handlers,   \* the PubSub's
  handle,     \* what the owner of a handler has done: new, on or off
  pc,         \* Publish: idle, set, notify, call, event or raise
  agent,      \* the agent it publishes for
  list,       \* its list
  targets,    \* the handlers it has still to call
  publishes,  \* counts them, for the bound
  known,      \* what a handler was last told of an agent, or NoList
  due,        \* history: agents that began to publish since h subscribed
  gone,       \* history: handlers that were off when t's Publish began
  clashed     \* history: agents that had two publications at once

tables == <<store, subs, handlers>>
locals == <<agent, list, targets, gone>>
history == <<known, due, clashed>>
vars == <<tables, handle, pc, locals, publishes, history>>

TypeOK == /\ store \in [Agents -> Lists \cup {NoList}]
          /\ subs \subseteq Subscribers /\ handlers \subseteq Listeners
          /\ handle \in [Handlers -> {"new", "on", "off"}]
          /\ pc \in [Threads -> {"idle", "set", "notify", "call", "event", "raise"}]
          /\ agent \in [Threads -> Agents \cup {NoAgent}]
          /\ list \in [Threads -> Lists \cup {NoList}]
          /\ targets \in [Threads -> SUBSET Handlers]
          /\ publishes \in 0 .. MaxPublishes
          /\ known \in [Handlers -> [Agents -> Lists \cup {NoList}]]
          /\ due \in [Handlers -> SUBSET Agents]
          /\ gone \in [Threads -> SUBSET Handlers]
          /\ clashed \subseteq Agents

Init == /\ store = [a \in Agents |-> NoList]
        /\ subs = {} /\ handlers = {}
        /\ handle = [h \in Handlers |-> "new"]
        /\ pc = [t \in Threads |-> "idle"]
        /\ agent = [t \in Threads |-> NoAgent]
        /\ list = [t \in Threads |-> NoList]
        /\ targets = [t \in Threads |-> {}]
        /\ publishes = 0
        /\ known = [h \in Handlers |-> [a \in Agents |-> NoList]]
        /\ due = [h \in Handlers |-> {}]
        /\ gone = [t \in Threads |-> {}]
        /\ clashed = {}

-----------------------------------------------------------------------------
(* Subscriptions.                                                          *)

On(h) == handle[h] = "on"

Subscribe(h) == /\ handle[h] = "new" /\ h \in Subscribers
                /\ handle' = [handle EXCEPT ![h] = "on"]
                /\ subs' = subs \cup {h}
                /\ UNCHANGED <<store, handlers, pc, locals, publishes, history>>

\* Mutant: nothing is found to remove, as in PubSub.Unsubscribe.
Removed_Nothing(h) == subs
Removed(h) == subs \ {h}

Unsubscribe(h) == /\ On(h) /\ h \in Subscribers
                  /\ handle' = [handle EXCEPT ![h] = "off"]
                  /\ subs' = Removed(h)
                  /\ UNCHANGED <<store, handlers, pc, locals, publishes, history>>

PubSubSubscribe(h) ==
  /\ handle[h] = "new" /\ h \in Listeners
  /\ handle' = [handle EXCEPT ![h] = "on"]
  /\ handlers' = handlers \cup {h}
  /\ UNCHANGED <<store, subs, pc, locals, publishes, history>>

\* The addresses it compares are those of two local variables: never equal.
PubSubUnsubscribe(h) ==
  /\ On(h) /\ h \in Listeners
  /\ handle' = [handle EXCEPT ![h] = "off"]
  /\ UNCHANGED <<tables, pc, locals, publishes, history>>

-----------------------------------------------------------------------------
(* Publish.                                                                *)

Busy(a) == \E t \in Threads : agent[t] = a

Publish(t, a, l) ==
  /\ pc[t] = "idle" /\ publishes < MaxPublishes
  /\ pc' = [pc EXCEPT ![t] = "set"]
  /\ agent' = [agent EXCEPT ![t] = a] /\ list' = [list EXCEPT ![t] = l]
  /\ publishes' = publishes + 1
  /\ due' = [h \in Handlers |-> IF On(h) THEN due[h] \cup {a} ELSE due[h]]
  /\ gone' = [gone EXCEPT ![t] = {h \in Handlers : handle[h] = "off"}]
  /\ clashed' = IF Busy(a) THEN clashed \cup {a} ELSE clashed
  /\ UNCHANGED <<tables, handle, targets, known>>

\* Mutant: the list of an agent that has one is kept.
Stored_Once(a, l) == IF store[a] = NoList THEN l ELSE store[a]
Stored(a, l) == l

Set(t) == /\ pc[t] = "set"
          /\ store' = [store EXCEPT ![agent[t]] = Stored(agent[t], list[t])]
          /\ pc' = [pc EXCEPT ![t] = "notify"]
          /\ UNCHANGED <<subs, handlers, handle, locals, publishes, history>>

\* The handlers are copied under the lock and called outside it.
Snapshot(t) == /\ pc[t] \in {"notify", "event"}
               /\ targets' = [targets EXCEPT ![t] =
                                IF pc[t] = "notify" THEN subs ELSE handlers]
               /\ pc' = [pc EXCEPT ![t] = IF @ = "notify" THEN "call" ELSE "raise"]
               /\ UNCHANGED <<tables, handle, agent, list, gone, publishes, history>>

\* The error of a listener is ignored.
CallHandler(t, h) ==
  /\ pc[t] \in {"call", "raise"} /\ h \in targets[t]
  /\ targets' = [targets EXCEPT ![t] = @ \ {h}]
  /\ known' = [known EXCEPT ![h][agent[t]] = list[t]]
  /\ UNCHANGED <<tables, handle, pc, agent, list, gone, publishes, due, clashed>>

Notified(t) == /\ pc[t] = "call" /\ targets[t] = {}
               /\ pc' = [pc EXCEPT ![t] = "event"]
               /\ UNCHANGED <<tables, handle, locals, publishes, history>>

Return(t) == /\ pc[t] = "raise" /\ targets[t] = {}
             /\ pc' = [pc EXCEPT ![t] = "idle"]
             /\ agent' = [agent EXCEPT ![t] = NoAgent]
             /\ list' = [list EXCEPT ![t] = NoList]
             /\ gone' = [gone EXCEPT ![t] = {}]
             /\ UNCHANGED <<tables, handle, targets, publishes, history>>

-----------------------------------------------------------------------------
Publisher(t) == \/ \E a \in Agents, l \in Lists : Publish(t, a, l)
                \/ Set(t) \/ Snapshot(t) \/ Notified(t) \/ Return(t)
                \/ \E h \in Handlers : CallHandler(t, h)

Owner(h) == Subscribe(h) \/ Unsubscribe(h)
            \/ PubSubSubscribe(h) \/ PubSubUnsubscribe(h)

Next == (\E t \in Threads : Publisher(t)) \/ (\E h \in Handlers : Owner(h))

Spec == Init /\ [][Next]_vars

-----------------------------------------------------------------------------
(* What the task board must get right.                                     *)

Settled(a) == ~Busy(a) /\ a \notin clashed

(* When nobody publishes for an agent, and nobody ever did while another   *)
(* one was at it, a subscribed handler has last been told the list that is *)
(* stored, and has been told if a publication began after it subscribed    *)
(* (service.go:48-63): subscriptions and publications of other agents in   *)
(* between lose nothing.                                                   *)
SubscribersInStep ==
  \A h \in Handlers, a \in Agents :
    On(h) /\ Settled(a) /\ (a \in due[h] \/ known[h][a] # NoList)
      => known[h][a] = store[a]

(* A publication that begins after Unsubscribe has returned does not call  *)
(* the handler (service.go:114-119); one that is under way still may.      *)
GoneAreLeftAlone ==
  \A t \in Threads : targets[t] \cap gone[t] \subseteq Listeners
=============================================================================
