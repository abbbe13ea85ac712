--------------------------- MODULE RegistryProofs ---------------------------
(***************************************************************************)
(* Theorems about Registry, for any number of agents, capabilities,        *)
(* goroutines and operations, and about the composition MCServices, where  *)
(* the history is that NoErrorMeansMarked speaks of.                       *)
(***************************************************************************)
EXTENDS MCServices, SequenceTheorems, TLAPS

\* A goroutine has an agent exactly when it is in the middle of an operation.
Placed == \A t \in Threads : agent[t] = NoAgent <=> pc[t] \in {"idle", "next"}

TypeInv == TypeOK /\ Placed

(* Timeout and what Begin consists of, by the kind of change they make.    *)
LEMMA BeginKinds ==
  ASSUME TypeInv, NEW t \in Threads, Begin(t)
  PROVE  \/ \E a \in Agents : /\ agent[t] = NoAgent /\ pc[t] = "idle"
                              /\ Start(t, a, "lookup") \/ Start(t, a, "find")
                                 \/ Start(t, a, "touch") \/ Start(t, a, "status")
                              /\ \E e \in Entries \cup {Absent} :
                                   entry' = [entry EXCEPT ![t] = e]
                              /\ UNCHANGED <<tables, old, stale>>
         \/ CheckStaleAgents(t)
<1>1. ASSUME NEW a \in Agents, NEW caps \in SUBSET Caps, Register(t, a, caps)
      PROVE \E e \in Entries \cup {Absent} : entry' = [entry EXCEPT ![t] = e]
  BY <1>1 DEF Register, Entries, Statuses
<1>2. ASSUME NEW a \in Agents, Rename(t, a)
      PROVE \E e \in Entries \cup {Absent} : entry' = [entry EXCEPT ![t] = e]
  BY <1>2 DEF Rename, TypeInv, TypeOK
<1>3. ASSUME entry' = entry
      PROVE \E e \in Entries \cup {Absent} : entry' = [entry EXCEPT ![t] = e]
  <2>1. entry \in [Threads -> Entries \cup {Absent}]
    BY DEF TypeInv, TypeOK
  <2>2. entry' = [entry EXCEPT ![t] = entry[t]]
    BY <1>3, <2>1
  <2> QED BY <2>1, <2>2
<1> QED
  BY <1>1, <1>2, <1>3, Zenon
     DEF Begin, Register, Rename, Unregister, Heartbeat, SetStatus, Start,
         TypeInv, Placed, locals

LEMMA InitType == Init => TypeInv
  BY MaxOpsAssumption, NoAgentAssumption
     DEF Init, TypeInv, TypeOK, Placed, Entries, Statuses, Absent, Labels

LEMMA BusyAgent ==
  ASSUME TypeInv, NEW t \in Threads, pc[t] \notin {"idle", "next"}
  PROVE  agent[t] \in Agents
  BY DEF TypeInv, TypeOK, Placed

(* The update of an index by t leaves it an index of numbers.              *)
LEMMA IndexTyped ==
  ASSUME TypeInv, NEW t \in Threads
  PROVE  /\ Unindexed(t) \in [Caps -> [Agents -> Nat]]
         /\ [cap \in Caps |-> [index[cap] EXCEPT ![agent[t]] =
               IF cap \in entry[t].caps THEN @ + 1 ELSE @]]
              \in [Caps -> [Agents -> Nat]]
<1> DEFINE row(cap) == index[cap]
<1>1. \A cap \in Caps : row(cap) \in [Agents -> Nat]
  BY DEF TypeInv, TypeOK
<1>2. ASSUME NEW r \in [Agents -> Nat], NEW a, NEW yes \in BOOLEAN
      PROVE  /\ [r EXCEPT ![a] = IF yes /\ @ > 0 THEN @ - 1 ELSE @] \in [Agents -> Nat]
             /\ [r EXCEPT ![a] = IF yes THEN @ + 1 ELSE @] \in [Agents -> Nat]
  <2>1. ASSUME NEW v, a \in Agents => v \in Nat
        PROVE  [r EXCEPT ![a] = v] \in [Agents -> Nat]
    BY <2>1
  <2>2. a \in Agents => /\ (IF yes /\ r[a] > 0 THEN r[a] - 1 ELSE r[a]) \in Nat
                        /\ (IF yes THEN r[a] + 1 ELSE r[a]) \in Nat
    <3>1. a \in Agents => r[a] \in Nat
      OBVIOUS
    <3> QED BY <3>1
  <2> QED BY <2>1, <2>2
<1>3. ASSUME NEW cap \in Caps
      PROVE  /\ [row(cap) EXCEPT ![agent[t]] =
                   IF cap \in old[t].caps /\ @ > 0 THEN @ - 1 ELSE @] \in [Agents -> Nat]
             /\ [row(cap) EXCEPT ![agent[t]] =
                   IF cap \in entry[t].caps THEN @ + 1 ELSE @] \in [Agents -> Nat]
  BY <1>1, <1>2
<1> QED BY <1>3 DEF Unindexed

\* An entry with another status is an entry.
LEMMA StatusTyped ==
  ASSUME TypeInv, NEW a \in Agents, Stored(a), NEW status \in Statuses
  PROVE  WithStatus(store[a], status) \in Entries
  BY DEF TypeInv, TypeOK, Entries, Statuses, Stored, WithStatus

LEMMA BeginType ==
  ASSUME TypeInv, NEW t \in Threads, Begin(t)
  PROVE  TypeInv'
<1> USE DEF TypeInv, TypeOK, tables
<1>1. CASE CheckStaleAgents(t)
  BY <1>1, MaxOpsAssumption DEF CheckStaleAgents, Labels, Placed
<1>2. CASE ~CheckStaleAgents(t)
  <2>1. PICK a \in Agents :
          /\ agent[t] = NoAgent /\ pc[t] = "idle"
          /\ Start(t, a, "lookup") \/ Start(t, a, "find")
             \/ Start(t, a, "touch") \/ Start(t, a, "status")
          /\ \E e \in Entries \cup {Absent} : entry' = [entry EXCEPT ![t] = e]
          /\ UNCHANGED <<tables, old, stale>>
    BY <1>2, BeginKinds
  <2>2. PICK label \in {"lookup", "find", "touch", "status"} : Start(t, a, label)
    BY <2>1
  <2>3. /\ pc' = [pc EXCEPT ![t] = label] /\ agent' = [agent EXCEPT ![t] = a]
        /\ clashed' \in SUBSET Agents /\ ops' \in 0 .. MaxOps
    BY <2>2, MaxOpsAssumption DEF Start, TakeUp
  <2>4. Placed'
    BY <2>3, NoAgentAssumption DEF Placed
  <2> QED BY <2>1, <2>3, <2>4 DEF Labels
<1> QED BY <1>1, <1>2

LEMMA GoOnType ==
  ASSUME TypeInv, NEW t \in Threads, GoOn(t)
  PROVE  TypeInv'
<1> USE DEF TypeInv, TypeOK, tables
<1>1. ASSUME NEW from \in Labels \ {"idle", "next"},
             NEW to \in Labels \ {"idle", "next"}, Step(t, from, to)
      PROVE  /\ Placed' /\ pc' \in [Threads -> Labels]
             /\ agent' = agent /\ stale' = stale /\ ops' = ops
             /\ clashed' = clashed
             /\ agent[t] \in Agents
  BY <1>1, BusyAgent DEF Step, Placed, Labels
<1>2. ASSUME NEW from \in Labels, NEW to \in {"idle", "next"}, Leave(t, from, to)
      PROVE  /\ Placed' /\ pc' \in [Threads -> Labels]
             /\ agent' \in [Threads -> Agents \cup {NoAgent}]
             /\ entry' \in [Threads -> Entries \cup {Absent}]
             /\ old' \in [Threads -> Entries \cup {Absent}]
             /\ ops' = ops /\ clashed' = clashed
             /\ from \notin {"idle", "next"} => agent[t] \in Agents
  BY <1>2, BusyAgent DEF Leave, Placed, Labels
<1>3. CASE Lookup(t)
  BY <1>1, <1>3 DEF Lookup, Labels
<1>4. CASE Reread(t) \/ Find(t)
  BY <1>1, <1>4 DEF Reread, Find, Labels
<1>5. CASE Unindex(t) \/ Index(t) \/ Unlist(t)
  BY <1>1, <1>5, IndexTyped DEF Unindex, Index, Unlist, Labels
<1>6. CASE StoreEntry(t) \/ Delete(t)
  BY <1>1, <1>6 DEF StoreEntry, Delete, Labels
<1>7. CASE RegisterReturn(t) \/ UnregisterReturn(t)
  BY <1>2, <1>7 DEF RegisterReturn, UnregisterReturn, RecordHeartbeat, Return,
                    Labels
<1>8. CASE FindNothing(t) \/ RefreshFails(t) \/ StatusFails(t)
           \/ CheckReturn(t) \/ Write(t)
  BY <1>2, <1>8 DEF FindNothing, RefreshFails, StatusFails, CheckReturn, Write,
                    Return, Labels
<1>9. CASE Touch(t)
  BY <1>1, <1>9 DEF Touch, RecordHeartbeat, Labels
<1>10. CASE Refresh(t)
  BY <1>1, <1>10 DEF Refresh, Labels
<1>11. CASE Mark(t)
  <2>1. /\ Placed' /\ pc' \in [Threads -> Labels] /\ agent' = agent
        /\ stale' = stale /\ ops' = ops /\ clashed' = clashed
        /\ agent[t] \in Agents
    BY <1>1, <1>11 DEF Mark, Labels
  <2> QED BY <1>11, <2>1, StatusTyped DEF Mark, Statuses
<1>12. ASSUME NEW status \in Statuses, ReadStatus(t, status)
       PROVE  TypeInv'
  <2>1. /\ Placed' /\ pc' \in [Threads -> Labels] /\ agent' = agent
        /\ stale' = stale /\ ops' = ops /\ clashed' = clashed
        /\ agent[t] \in Agents
    BY <1>1, <1>12 DEF ReadStatus, Labels
  <2> QED BY <1>12, <2>1, StatusTyped DEF ReadStatus
<1>13. CASE Marked(t) \/ MarkFails(t)
  BY <1>2, <1>13 DEF Marked, MarkFails, Labels
<1>14. ASSUME NEW a \in Agents, NextStale(t, a) PROVE TypeInv'
  BY <1>14, NoAgentAssumption DEF NextStale, TakeUp, Placed, Labels
<1> QED
  BY <1>3, <1>4, <1>5, <1>6, <1>7, <1>8, <1>9, <1>10, <1>11, <1>12, <1>13,
     <1>14, Zenon DEF GoOn

LEMMA TypeStep == TypeInv /\ [Next]_vars => TypeInv'
<1> SUFFICES ASSUME TypeInv, [Next]_vars PROVE TypeInv'
  OBVIOUS
<1>1. CASE UNCHANGED vars
  BY <1>1 DEF vars, TypeInv, TypeOK, Placed, tables, locals
<1>2. ASSUME NEW a \in Agents, Timeout(a) PROVE TypeInv'
  BY <1>2 DEF Timeout, TypeInv, TypeOK, Placed, locals
<1> QED BY <1>1, <1>2, BeginType, GoOnType DEF Next

(* The entries are entries, the index holds numbers and every goroutine is *)
(* at a label, whatever interleaving of the operations.                    *)
THEOREM TypeCorrect == Spec => []TypeOK
<1>1. TypeInv => TypeOK
  BY DEF TypeInv
<1> QED BY <1>1, InitType, TypeStep, PTL DEF Spec

-----------------------------------------------------------------------------
(* IndexMatchesStore speaks of agents nobody is working on.  The invariant *)
(* behind it says how far the goroutine that works on an agent has come,   *)
(* and that it is the only one unless the agent has clashed.               *)

Listed(a, caps) == \A cap \in Caps :
                     index[cap][a] = (IF cap \in caps THEN 1 ELSE 0)

Alone == \A a \in Agents \ clashed : \A t, u \in Threads :
           agent[t] = a /\ agent[u] = a => t = u

AtRest == \A a \in Agents \ clashed :
            (\A t \in Threads : agent[t] # a) => Listed(a, store[a].caps)

Taken == {"store", "index", "unbeat"}   \* out of the index

Midway(t) ==
  /\ pc[t] \in Taken => Listed(agent[t], {})
  /\ pc[t] = "unlist" => Listed(agent[t], old[t].caps)
  /\ pc[t] \notin Taken \cup {"unlist"} => Listed(agent[t], store[agent[t]].caps)
  /\ pc[t] \in {"unindex", "delete"} => old[t] = store[agent[t]]
  /\ pc[t] \in {"unlist", "unbeat"} => store[agent[t]] = Absent
  /\ pc[t] = "index" => store[agent[t]] = entry[t]
  /\ pc[t] \in {"write", "marked"} => entry[t].caps = store[agent[t]].caps

IndexInv == Alone /\ AtRest /\ \A t \in Threads :
                                 agent[t] \in Agents \ clashed => Midway(t)

LEMMA InitIndex == Init => IndexInv
  BY NoAgentAssumption DEF Init, IndexInv, Alone, AtRest, Listed, Absent

\* What a step of t leaves as it is.
Others(t) == /\ \A u \in Threads \ {t} :
                  /\ pc'[u] = pc[u] /\ agent'[u] = agent[u]
                  /\ entry'[u] = entry[u] /\ old'[u] = old[u]
             /\ \A b \in Agents : b # agent[t] =>
                  /\ store'[b] = store[b]
                  /\ \A cap \in Caps : index'[cap][b] = index[cap][b]
             /\ clashed \subseteq clashed'

\* Then the invariant is about t's agent only.
LEMMA OthersKept ==
  ASSUME TypeInv, IndexInv, NEW t \in Threads, Others(t)
  PROVE  /\ \A u \in Threads \ {t} :
               agent'[u] \in Agents \ clashed' => Midway(u)'
         /\ \A a \in Agents \ clashed' :
               a # agent[t] /\ (\A u \in Threads : agent'[u] # a)
                            /\ (\A u \in Threads : agent[u] # a)
                 => Listed(a, store[a].caps)'
<1>1. ASSUME NEW u \in Threads \ {t}, agent'[u] \in Agents \ clashed'
      PROVE  Midway(u)'
  <2>1. /\ pc'[u] = pc[u] /\ agent'[u] = agent[u]
        /\ entry'[u] = entry[u] /\ old'[u] = old[u]
        /\ agent[u] \in Agents \ clashed
    BY <1>1 DEF Others
  <2>2. agent[u] # agent[t]
    BY <2>1 DEF IndexInv, Alone
  <2>3. /\ store'[agent[u]] = store[agent[u]]
        /\ \A cap \in Caps : index'[cap][agent[u]] = index[cap][agent[u]]
    BY <2>1, <2>2 DEF Others
  <2>4. Midway(u)
    BY <2>1 DEF IndexInv
  <2> QED BY <2>1, <2>3, <2>4 DEF Midway, Listed
<1>2. ASSUME NEW a \in Agents \ clashed', a # agent[t],
             \A u \in Threads : agent[u] # a
      PROVE  Listed(a, store[a].caps)'
  <2>1. Listed(a, store[a].caps)
    BY <1>2 DEF Others, IndexInv, AtRest
  <2> QED BY <1>2, <2>1 DEF Others, Listed
<1> QED BY <1>1, <1>2

\* t stays at its agent.
LEMMA StayKept ==
  ASSUME TypeInv, IndexInv, NEW t \in Threads, Others(t), agent' = agent,
         agent[t] \in Agents \ clashed' => Midway(t)'
  PROVE  IndexInv'
<1>1. Alone'
  BY DEF Others, IndexInv, Alone
<1>2. AtRest'
  BY OthersKept DEF AtRest
<1>3. \A u \in Threads : agent'[u] \in Agents \ clashed' => Midway(u)'
  BY OthersKept
<1> QED BY <1>1, <1>2, <1>3 DEF IndexInv

\* t leaves its agent.
LEMMA LeaveKept ==
  ASSUME TypeInv, IndexInv, NEW t \in Threads, Others(t), agent'[t] = NoAgent,
         NEW a0, a0 = agent[t],
         a0 \in Agents \ clashed' => Listed(a0, store[a0].caps)'
  PROVE  IndexInv'
<1>1. Alone'
  BY NoAgentAssumption DEF Others, IndexInv, Alone
<1>2. ASSUME NEW a \in Agents \ clashed', \A u \in Threads : agent'[u] # a
      PROVE  Listed(a, store[a].caps)'
  <2>1. CASE a = agent[t]
    BY <1>2, <2>1 DEF Listed
  <2>2. CASE a # agent[t]
    BY <1>2, <2>2, OthersKept DEF Others
  <2> QED BY <2>1, <2>2
<1>3. \A u \in Threads : agent'[u] \in Agents \ clashed' => Midway(u)'
  BY OthersKept, NoAgentAssumption
<1> QED BY <1>1, <1>2, <1>3 DEF IndexInv, AtRest

\* t takes up an agent and has not touched anything yet.
LEMMA TakeUpKept ==
  ASSUME TypeInv, IndexInv, NEW t \in Threads, NEW a \in Agents,
         NEW label \in {"lookup", "find", "touch", "status", "mark"},
         agent[t] = NoAgent, TakeUp(t, a, label), UNCHANGED <<store, index>>,
         \A u \in Threads \ {t} : entry'[u] = entry[u] /\ old'[u] = old[u]
  PROVE  IndexInv'
<1>1. /\ pc' = [pc EXCEPT ![t] = label] /\ agent' = [agent EXCEPT ![t] = a]
      /\ clashed \subseteq clashed'
      /\ a \notin clashed' => \A u \in Threads : agent[u] # a
  BY NoAgentAssumption DEF TakeUp, WorkedOn
<1>2. /\ pc'[t] = label /\ agent'[t] = a
      /\ \A u \in Threads \ {t} : pc'[u] = pc[u] /\ agent'[u] = agent[u]
  BY <1>1 DEF TypeInv, TypeOK
<1>3. Others(t)
  BY <1>1, <1>2 DEF Others
<1>4. Alone'
  BY <1>1, <1>2 DEF IndexInv, Alone
<1>5. AtRest'
  <2>1. ASSUME NEW b \in Agents \ clashed', \A u \in Threads : agent'[u] # b
        PROVE  Listed(b, store[b].caps)'
    <3>1. \A u \in Threads : agent[u] # b
      BY <1>2, <2>1, NoAgentAssumption
    <3> QED BY <2>1, <3>1, <1>3, OthersKept
  <2> QED BY <2>1 DEF AtRest
<1>6. a \notin clashed' => Midway(t)'
  <2>1. a \notin clashed' => Listed(a, store[a].caps)
    BY <1>1 DEF IndexInv, AtRest
  <2> QED BY <2>1, <1>2 DEF Midway, Listed, Taken
<1> QED BY <1>2, <1>3, <1>4, <1>5, <1>6, OthersKept DEF IndexInv

-----------------------------------------------------------------------------
(* The steps.                                                              *)

LEMMA BeginIndex ==
  ASSUME TypeInv, IndexInv, NEW t \in Threads, Begin(t)
  PROVE  IndexInv'
<1>1. CASE CheckStaleAgents(t)
  <2>1. agent[t] = NoAgent /\ agent' = agent /\ UNCHANGED <<store, index, clashed>>
    BY <1>1 DEF CheckStaleAgents, TypeInv, Placed, tables
  <2>2. Others(t)
    BY <1>1 DEF CheckStaleAgents, Others, tables, TypeInv, TypeOK
  <2> QED BY <2>1, <2>2, StayKept, NoAgentAssumption
<1>2. CASE ~CheckStaleAgents(t)
  <2>1. PICK a \in Agents :
          /\ agent[t] = NoAgent /\ pc[t] = "idle"
          /\ Start(t, a, "lookup") \/ Start(t, a, "find")
             \/ Start(t, a, "touch") \/ Start(t, a, "status")
          /\ \E e \in Entries \cup {Absent} : entry' = [entry EXCEPT ![t] = e]
          /\ UNCHANGED <<tables, old, stale>>
    BY <1>2, BeginKinds
  <2>2. PICK label \in {"lookup", "find", "touch", "status"} : TakeUp(t, a, label)
    BY <2>1 DEF Start
  <2>3. \A u \in Threads \ {t} : entry'[u] = entry[u] /\ old'[u] = old[u]
    BY <2>1 DEF TypeInv, TypeOK
  <2> QED BY <2>1, <2>2, <2>3, TakeUpKept DEF tables
<1> QED BY <1>1, <1>2

\* A Step that changes no table and only t's locals.
LEMMA QuietStep ==
  ASSUME TypeInv, IndexInv, NEW t \in Threads,
         NEW from \in Labels \ {"idle", "next"}, NEW to, Step(t, from, to),
         UNCHANGED <<store, index>>,
         NEW e, NEW o, entry' = [entry EXCEPT ![t] = e], old' = [old EXCEPT ![t] = o]
  PROVE  /\ Others(t) /\ agent' = agent /\ agent[t] \in Agents
         /\ clashed' = clashed
         /\ pc'[t] = to /\ entry'[t] = e /\ old'[t] = o
  BY BusyAgent DEF Step, Others, TypeInv, TypeOK

\* A Step that changes the tables for t's agent, and no locals.
LEMMA TableStep ==
  ASSUME TypeInv, IndexInv, NEW t \in Threads,
         NEW from \in Labels \ {"idle", "next"}, NEW to, Step(t, from, to),
         UNCHANGED <<entry, old>>,
         \A b \in Agents : b # agent[t] =>
            /\ store'[b] = store[b]
            /\ \A cap \in Caps : index'[cap][b] = index[cap][b]
  PROVE  /\ Others(t) /\ agent' = agent /\ agent[t] \in Agents
         /\ clashed' = clashed
         /\ pc'[t] = to /\ entry'[t] = entry[t] /\ old'[t] = old[t]
  BY BusyAgent DEF Step, Others, TypeInv, TypeOK

\* A Leave that changes the tables at most for t's agent.
LEMMA LeaveStep ==
  ASSUME TypeInv, IndexInv, NEW t \in Threads, NEW from, NEW to, Leave(t, from, to),
         \A b \in Agents : b # agent[t] =>
            /\ store'[b] = store[b]
            /\ \A cap \in Caps : index'[cap][b] = index[cap][b]
  PROVE  Others(t) /\ agent'[t] = NoAgent /\ clashed' = clashed /\ pc[t] = from
  BY DEF Leave, Others, TypeInv, TypeOK

\* What the two updates of the index do.
LEMMA Unlisted ==
  ASSUME TypeInv, NEW t \in Threads, agent[t] \in Agents, index' = Unindexed(t)
  PROVE  /\ \A cap \in Caps : \A b \in Agents :
              b # agent[t] => index'[cap][b] = index[cap][b]
         /\ Listed(agent[t], old[t].caps) =>
              \A cap \in Caps : index'[cap][agent[t]] = 0
<1> DEFINE number == [cap \in Caps |->
             IF cap \in old[t].caps /\ index[cap][agent[t]] > 0
             THEN index[cap][agent[t]] - 1 ELSE index[cap][agent[t]]]
<1>1. \A cap \in Caps : index'[cap] = [index[cap] EXCEPT ![agent[t]] = number[cap]]
  BY DEF Unindexed
<1>2. \A cap \in Caps : /\ index'[cap][agent[t]] = number[cap]
                        /\ \A b \in Agents : b # agent[t] => index'[cap][b] = index[cap][b]
  <2>1. \A cap \in Caps : index[cap] \in [Agents -> Nat]
    BY DEF TypeInv, TypeOK
  <2> HIDE DEF number
  <2> QED BY <1>1, <2>1
<1>3. Listed(agent[t], old[t].caps) => \A cap \in Caps : number[cap] = 0
  BY DEF Listed
<1> QED BY <1>2, <1>3

LEMMA IsListed ==
  ASSUME TypeInv, NEW t \in Threads, agent[t] \in Agents,
         index' = [cap \in Caps |-> [index[cap] EXCEPT ![agent[t]] =
                     IF cap \in entry[t].caps THEN @ + 1 ELSE @]]
  PROVE  /\ \A cap \in Caps : \A b \in Agents :
              b # agent[t] => index'[cap][b] = index[cap][b]
         /\ Listed(agent[t], {}) =>
              \A cap \in Caps :
                index'[cap][agent[t]] = (IF cap \in entry[t].caps THEN 1 ELSE 0)
<1> DEFINE number == [cap \in Caps |->
             IF cap \in entry[t].caps THEN index[cap][agent[t]] + 1
                                      ELSE index[cap][agent[t]]]
<1>1. \A cap \in Caps : index'[cap] = [index[cap] EXCEPT ![agent[t]] = number[cap]]
  OBVIOUS
<1>2. \A cap \in Caps : /\ index'[cap][agent[t]] = number[cap]
                        /\ \A b \in Agents : b # agent[t] => index'[cap][b] = index[cap][b]
  <2>1. \A cap \in Caps : index[cap] \in [Agents -> Nat]
    BY DEF TypeInv, TypeOK
  <2> HIDE DEF number
  <2> QED BY <1>1, <2>1
<1>3. Listed(agent[t], {}) =>
        \A cap \in Caps : number[cap] = (IF cap \in entry[t].caps THEN 1 ELSE 0)
  BY DEF Listed
<1> QED BY <1>2, <1>3

LEMMA GoOnIndex ==
  ASSUME TypeInv, IndexInv, NEW t \in Threads, GoOn(t)
  PROVE  IndexInv'
<1> USE DEF tables
<1> DEFINE a == agent[t]
<1>a. /\ entry = [entry EXCEPT ![t] = entry[t]] /\ old = [old EXCEPT ![t] = old[t]]
  BY DEF TypeInv, TypeOK
<1>m. a \in Agents \ clashed => Midway(t)
  BY DEF IndexInv
<1>1. CASE Lookup(t)
  <2>1. PICK to \in {"reread", "store"} :
          /\ Step(t, "lookup", to)
          /\ to = "store" => store[a] = Absent
          /\ UNCHANGED <<store, index, entry, old>>
    BY <1>1 DEF Lookup, Stored
  <2>2. /\ Others(t) /\ agent' = agent /\ a \in Agents /\ clashed' = clashed
        /\ pc'[t] = to
    BY <2>1, <1>a, TableStep DEF Labels
  <2>3. a \in Agents \ clashed => Listed(a, store[a].caps)
    BY <1>m, <2>1 DEF Midway, Step, Taken
  <2>4. to = "store" => store[a].caps = {}
    BY <2>1 DEF Absent
  <2>5. a \in Agents \ clashed' => Midway(t)'
    BY <2>1, <2>2, <2>3, <2>4 DEF Midway, Listed, Taken
  <2> QED BY <2>2, <2>5, StayKept
<1>2. CASE Reread(t)
  <2>0. /\ Step(t, "reread", "unindex") /\ UNCHANGED <<store, index>>
        /\ entry' = [entry EXCEPT ![t] = entry[t]]
        /\ old' = [old EXCEPT ![t] = store[a]]
    BY <1>2, <1>a DEF Reread
  <2>1. /\ Others(t) /\ agent' = agent /\ a \in Agents /\ clashed' = clashed
        /\ pc'[t] = "unindex" /\ old'[t] = store[a] /\ UNCHANGED <<store, index>>
    BY <2>0, QuietStep DEF Labels
  <2>2. a \in Agents \ clashed => Listed(a, store[a].caps)
    BY <1>2, <1>m DEF Reread, Midway, Step, Taken
  <2>3. a \in Agents \ clashed' => Midway(t)'
    BY <2>1, <2>2 DEF Midway, Listed, Taken
  <2> QED BY <2>1, <2>3, StayKept
<1>3. CASE Unindex(t) \/ Unlist(t)
  <2>1. PICK from \in {"unindex", "unlist"}, to \in {"store", "unbeat"} :
          /\ Step(t, from, to) /\ index' = Unindexed(t)
          /\ from = "unindex" <=> to = "store"
          /\ UNCHANGED <<store, entry, old>>
    BY <1>3 DEF Unindex, Unlist
  <2>2. /\ pc[t] = from /\ a \in Agents
    BY <2>1, BusyAgent DEF Step
  <2>3. /\ Others(t) /\ agent' = agent /\ clashed' = clashed /\ pc'[t] = to
    BY <2>1, <2>2, Unlisted, TableStep DEF Labels
  <2>4. a \in Agents \ clashed =>
          /\ Listed(a, old[t].caps)
          /\ from = "unlist" => store[a] = Absent
    BY <1>m, <2>1, <2>2 DEF Midway, Taken
  <2>5. a \in Agents \ clashed => \A cap \in Caps : index'[cap][a] = 0
    BY <2>1, <2>2, <2>4, Unlisted
  <2>6. a \in Agents \ clashed' => Midway(t)'
    BY <2>1, <2>2, <2>3, <2>4, <2>5 DEF Midway, Listed, Taken
  <2> QED BY <2>3, <2>6, StayKept
<1>4. CASE StoreEntry(t) \/ Delete(t)
  <2>1. PICK from \in {"store", "delete"}, to \in {"index", "unlist"},
             e \in Entries \cup {Absent} :
          /\ Step(t, from, to) /\ store' = [store EXCEPT ![a] = e]
          /\ from = "store" <=> to = "index"
          /\ e = IF to = "index" THEN entry[t] ELSE Absent
          /\ UNCHANGED <<index, entry, old>>
    BY <1>4 DEF StoreEntry, Delete, TypeInv, TypeOK
  <2>2. /\ pc[t] = from /\ a \in Agents
    BY <2>1, BusyAgent DEF Step
  <2>3. /\ store'[a] = e
        /\ \A b \in Agents : b # a => store'[b] = store[b]
    BY <2>1, <2>2 DEF TypeInv, TypeOK
  <2>4. /\ Others(t) /\ agent' = agent /\ clashed' = clashed /\ pc'[t] = to
        /\ entry'[t] = entry[t] /\ old'[t] = old[t]
    BY <2>1, <2>3, TableStep DEF Labels
  <2>5. a \in Agents \ clashed =>
          /\ from = "store" => Listed(a, {})
          /\ from = "delete" => Listed(a, old[t].caps)
    BY <1>m, <2>2 DEF Midway, Taken
  <2>6. a \in Agents \ clashed' => Midway(t)'
    BY <2>1, <2>3, <2>4, <2>5 DEF Midway, Listed, Taken
  <2> QED BY <2>4, <2>6, StayKept
<1>5. CASE Index(t)
  <2>1. Step(t, "index", "beat") /\ UNCHANGED <<store, entry, old>>
    BY <1>5 DEF Index
  <2>2. /\ pc[t] = "index" /\ a \in Agents
    BY <2>1, BusyAgent DEF Step
  <2>3. /\ Others(t) /\ agent' = agent /\ clashed' = clashed /\ pc'[t] = "beat"
    BY <1>5, <2>1, <2>2, IsListed, TableStep DEF Labels, Index
  <2>4. a \in Agents \ clashed => Listed(a, {}) /\ store[a] = entry[t]
    BY <1>m, <2>2 DEF Midway, Taken
  <2>5. Listed(a, {}) => \A cap \in Caps :
          index'[cap][a] = (IF cap \in entry[t].caps THEN 1 ELSE 0)
    BY <1>5, <2>2, IsListed DEF Index
  <2>6. a \in Agents \ clashed' => Midway(t)'
    BY <2>1, <2>3, <2>4, <2>5 DEF Midway, Listed, Taken
  <2> QED BY <2>3, <2>6, StayKept
<1>6. CASE Find(t)
  <2>1. /\ Step(t, "find", "delete") /\ UNCHANGED <<store, index>>
        /\ entry' = [entry EXCEPT ![t] = entry[t]]
        /\ old' = [old EXCEPT ![t] = store[a]]
    BY <1>6, <1>a DEF Find
  <2>2. /\ Others(t) /\ agent' = agent /\ a \in Agents /\ clashed' = clashed
        /\ pc'[t] = "delete" /\ old'[t] = store[a]
    BY <2>1, QuietStep DEF Labels
  <2>3. a \in Agents \ clashed => Listed(a, store[a].caps)
    BY <2>1, <1>m DEF Midway, Step, Taken
  <2>4. a \in Agents \ clashed' => Midway(t)'
    BY <2>1, <2>2, <2>3 DEF Midway, Listed, Taken
  <2> QED BY <2>2, <2>4, StayKept
<1>7. CASE Touch(t)
  <2>1. Step(t, "touch", "refresh") /\ UNCHANGED <<store, index, entry, old>>
    BY <1>7 DEF Touch
  <2>2. /\ Others(t) /\ agent' = agent /\ a \in Agents /\ clashed' = clashed
        /\ pc'[t] = "refresh"
    BY <2>1, TableStep DEF Labels
  <2>3. a \in Agents \ clashed => Listed(a, store[a].caps)
    BY <2>1, <1>m DEF Midway, Step, Taken
  <2>4. a \in Agents \ clashed' => Midway(t)'
    BY <2>1, <2>2, <2>3 DEF Midway, Listed, Taken
  <2> QED BY <2>2, <2>4, StayKept
<1>8. ASSUME Refresh(t) \/ Mark(t)
             \/ \E status \in Statuses : ReadStatus(t, status)
      PROVE  IndexInv'
  <2>1. \E from \in {"refresh", "status", "mark"}, to \in {"write", "marked"} :
        \E e : /\ Step(t, from, to) /\ e.caps = store[a].caps
               /\ entry' = [entry EXCEPT ![t] = e]
               /\ UNCHANGED <<store, index, old>>
    BY <1>8 DEF Refresh, Mark, ReadStatus, WithStatus
  <2> PICK from \in {"refresh", "status", "mark"}, to \in {"write", "marked"} :
        \E e : /\ Step(t, from, to) /\ e.caps = store[a].caps
               /\ entry' = [entry EXCEPT ![t] = e]
               /\ UNCHANGED <<store, index, old>>
    BY <2>1
  <2>2. PICK e : /\ Step(t, from, to) /\ e.caps = store[a].caps
                 /\ entry' = [entry EXCEPT ![t] = e]
                 /\ UNCHANGED <<store, index, old>>
    OBVIOUS
  <2>3. old' = [old EXCEPT ![t] = old[t]]
    BY <2>2, <1>a
  <2>4. /\ Others(t) /\ agent' = agent /\ a \in Agents /\ clashed' = clashed
        /\ pc'[t] = to /\ entry'[t] = e
    BY <2>2, BusyAgent DEF Step, Others, TypeInv, TypeOK
  <2>5. a \in Agents \ clashed => Listed(a, store[a].caps)
    BY <2>2, <1>m DEF Midway, Step, Taken
  <2>6. a \in Agents \ clashed' => Midway(t)'
    BY <2>2, <2>4, <2>5 DEF Midway, Listed, Taken
  <2> QED BY <2>4, <2>6, StayKept
<1>9. CASE Write(t) \/ Marked(t)
  <2>1. PICK from \in {"write", "marked"}, to \in {"idle", "next"} :
          /\ Leave(t, from, to) /\ UNCHANGED index
          /\ store' = [store EXCEPT ![a] = entry[t]]
    BY <1>9 DEF Write, Marked, Return
  <2>2. pc[t] = from /\ a \in Agents
    BY <2>1, BusyAgent DEF Leave
  <2>3. store'[a] = entry[t] /\ \A b \in Agents : b # a => store'[b] = store[b]
    BY <2>1, <2>2 DEF TypeInv, TypeOK
  <2>4. Others(t) /\ agent'[t] = NoAgent /\ clashed' = clashed
    BY <2>1, <2>3, LeaveStep
  <2>5. a \in Agents \ clashed => Listed(a, store[a].caps) /\ entry[t].caps = store[a].caps
    BY <2>2, <1>m DEF Midway, Taken
  <2> DEFINE same(x) == \A cap \in Caps :
                          index'[cap][x] = (IF cap \in store'[x].caps THEN 1 ELSE 0)
  <2>6. a \in Agents \ clashed' => same(a)
    BY <2>1, <2>3, <2>4, <2>5 DEF Listed
  <2> QED BY <2>4, <2>6, LeaveKept DEF Listed
<1>10. CASE RegisterReturn(t) \/ UnregisterReturn(t) \/ FindNothing(t)
            \/ RefreshFails(t) \/ StatusFails(t) \/ MarkFails(t)
  <2>1. PICK from \in {"beat", "unbeat", "find", "refresh", "status", "mark"} :
          /\ Leave(t, from, "idle") /\ UNCHANGED <<store, index>>
    BY <1>10 DEF RegisterReturn, UnregisterReturn, FindNothing, RefreshFails,
                 StatusFails, MarkFails, Return
  <2>2. pc[t] = from
    BY <2>1 DEF Leave
  <2>3. Others(t) /\ agent'[t] = NoAgent /\ clashed' = clashed
    BY <2>1, LeaveStep
  <2>4. a \in Agents \ clashed => Listed(a, store[a].caps)
    BY <2>2, <1>m DEF Midway, Taken, Absent
  <2> DEFINE same(x) == \A cap \in Caps :
                          index'[cap][x] = (IF cap \in store'[x].caps THEN 1 ELSE 0)
  <2>5. a \in Agents \ clashed' => same(a)
    BY <2>1, <2>3, <2>4 DEF Listed
  <2> QED BY <2>3, <2>5, LeaveKept DEF Listed
<1>11. CASE CheckReturn(t)
  <2>1. /\ Leave(t, "next", "idle") /\ UNCHANGED <<store, index>>
        /\ a = NoAgent
    BY <1>11 DEF CheckReturn, Return, Leave, TypeInv, Placed
  <2>2. Others(t) /\ agent'[t] = NoAgent
    BY <2>1, LeaveStep
  <2> QED BY <2>1, <2>2, NoAgentAssumption, LeaveKept
<1>12. ASSUME NEW b \in Agents, NextStale(t, b) PROVE IndexInv'
  <2>1. /\ a = NoAgent /\ TakeUp(t, b, "mark")
        /\ UNCHANGED <<store, index, entry, old>>
    BY <1>12 DEF NextStale, TypeInv, Placed
  <2> QED BY <2>1, TakeUpKept
<1> QED
  BY <1>1, <1>2, <1>3, <1>4, <1>5, <1>6, <1>7, <1>8, <1>9, <1>10, <1>11, <1>12,
     Zenon DEF GoOn

LEMMA IndexStep == TypeInv /\ IndexInv /\ [Next]_vars => IndexInv'
<1> SUFFICES ASSUME TypeInv, IndexInv, [Next]_vars PROVE IndexInv'
  OBVIOUS
<1>1. ASSUME \/ UNCHANGED vars
             \/ \E a \in Agents : Timeout(a)
      PROVE  IndexInv'
  <2>1. UNCHANGED <<store, index, pc, agent, entry, old, clashed>>
    BY <1>1 DEF vars, tables, locals, Timeout
  <2> QED BY <2>1 DEF IndexInv, Alone, AtRest, Midway, Listed
<1> QED BY <1>1, BeginIndex, GoOnIndex DEF Next

(* Whatever operations interleave on whatever agents, an agent that never  *)
(* had two at once and has none now is listed exactly under the            *)
(* capabilities of its entry: operations on different agents, which share  *)
(* the lists of the index, do not disturb each other, and no sequence of   *)
(* operations on one agent leaves anything behind.                         *)
THEOREM IndexIsExact == Spec => []IndexMatchesStore
<1>1. TypeInv /\ IndexInv => IndexMatchesStore
  BY DEF IndexInv, AtRest, Listed, IndexMatchesStore, Settled
<1> QED BY <1>1, InitType, InitIndex, TypeStep, IndexStep, PTL DEF Spec

(* GetByCapability and Query never contradict each other about such an     *)
(* agent.                                                                  *)
THEOREM LookupsAgree == Spec => []LookupsMatch
<1>1. IndexMatchesStore => LookupsMatch
  BY DEF IndexMatchesStore, LookupsMatch, GetByCapability, Query, Match,
         HavingCap, Stored, Absent
<1> QED BY <1>1, IndexIsExact, PTL

-----------------------------------------------------------------------------
(* StoredAgentsAreWatched.  A registration may leave the agent it works on *)
(* without a heartbeat until it returns, as may an unregistration that has *)
(* deleted it: only the operations that store an entry they have read need *)
(* the heartbeat to be there, and by then it is.                           *)

Watched(a) == Stored(a) => beats[a] # "none"

Ready(t) ==
  /\ pc[t] \in {"status", "mark"} => Watched(agent[t])
  /\ pc[t] \in {"refresh", "write", "marked"} => beats[agent[t]] # "none"

WatchInv ==
  /\ \A a \in Agents \ clashed : (\A t \in Threads : agent[t] # a) => Watched(a)
  /\ \A t \in Threads : agent[t] \in Agents \ clashed => Ready(t)

\* A step of t leaves the heartbeats of the other agents as they are.
OthersBeat(t) == Others(t) /\ \A b \in Agents : b # agent[t] => beats'[b] = beats[b]

LEMMA WatchOthers ==
  ASSUME TypeInv, IndexInv, WatchInv, NEW t \in Threads, OthersBeat(t)
  PROVE  /\ \A u \in Threads \ {t} : agent'[u] \in Agents \ clashed' => Ready(u)'
         /\ \A a \in Agents \ clashed' :
               a # agent[t] /\ (\A u \in Threads : agent[u] # a) => Watched(a)'
<1>1. ASSUME NEW u \in Threads \ {t}, agent'[u] \in Agents \ clashed'
      PROVE  Ready(u)'
  <2>1. /\ pc'[u] = pc[u] /\ agent'[u] = agent[u]
        /\ agent[u] \in Agents \ clashed
    BY <1>1 DEF OthersBeat, Others
  <2>2. agent[u] # agent[t]
    BY <2>1 DEF IndexInv, Alone
  <2>3. store'[agent[u]] = store[agent[u]] /\ beats'[agent[u]] = beats[agent[u]]
    BY <2>1, <2>2 DEF OthersBeat, Others
  <2>4. Ready(u)
    BY <2>1 DEF WatchInv
  <2> QED BY <2>1, <2>3, <2>4 DEF Ready, Watched, Stored
<1>2. ASSUME NEW a \in Agents \ clashed', a # agent[t],
             \A u \in Threads : agent[u] # a
      PROVE  Watched(a)'
  <2>1. /\ store'[a] = store[a] /\ beats'[a] = beats[a] /\ a \notin clashed
    BY <1>2 DEF OthersBeat, Others
  <2> QED BY <1>2, <2>1 DEF WatchInv, Watched, Stored
<1> QED BY <1>1, <1>2

\* t stays at its agent.
LEMMA WatchStay ==
  ASSUME TypeInv, IndexInv, WatchInv, NEW t \in Threads, OthersBeat(t),
         agent' = agent, agent[t] \in Agents \ clashed' => Ready(t)'
  PROVE  WatchInv'
<1>1. \A a \in Agents \ clashed' :
        (\A u \in Threads : agent'[u] # a) => Watched(a)'
  BY WatchOthers
<1>2. \A u \in Threads : agent'[u] \in Agents \ clashed' => Ready(u)'
  BY WatchOthers
<1> QED BY <1>1, <1>2 DEF WatchInv

\* t leaves its agent.
LEMMA WatchLeave ==
  ASSUME TypeInv, IndexInv, WatchInv, NEW t \in Threads, OthersBeat(t),
         agent'[t] = NoAgent, NEW a0, a0 = agent[t],
         a0 \in Agents \ clashed' => Watched(a0)'
  PROVE  WatchInv'
<1>1. ASSUME NEW a \in Agents \ clashed', \A u \in Threads : agent'[u] # a
      PROVE  Watched(a)'
  <2>1. CASE a = agent[t]
    BY <1>1, <2>1 DEF Watched, Stored
  <2>2. CASE a # agent[t]
    BY <1>1, <2>2, WatchOthers DEF OthersBeat, Others
  <2> QED BY <2>1, <2>2
<1>2. \A u \in Threads : agent'[u] \in Agents \ clashed' => Ready(u)'
  BY WatchOthers, NoAgentAssumption
<1> QED BY <1>1, <1>2 DEF WatchInv

\* t takes up an agent, at a label where nothing has been done yet.
LEMMA WatchTakeUp ==
  ASSUME TypeInv, IndexInv, WatchInv, NEW t \in Threads, NEW a \in Agents,
         NEW label \in {"lookup", "find", "touch", "status", "mark"},
         agent[t] = NoAgent, TakeUp(t, a, label), UNCHANGED tables,
         \A u \in Threads \ {t} : entry'[u] = entry[u] /\ old'[u] = old[u]
  PROVE  WatchInv'
<1>1. /\ pc' = [pc EXCEPT ![t] = label] /\ agent' = [agent EXCEPT ![t] = a]
      /\ clashed \subseteq clashed'
      /\ a \notin clashed' => \A u \in Threads : agent[u] # a
  BY NoAgentAssumption DEF TakeUp, WorkedOn
<1>2. /\ pc'[t] = label /\ agent'[t] = a
      /\ \A u \in Threads \ {t} : pc'[u] = pc[u] /\ agent'[u] = agent[u]
  BY <1>1 DEF TypeInv, TypeOK
<1>3. OthersBeat(t)
  BY <1>1, <1>2 DEF OthersBeat, Others, tables
<1>4. ASSUME NEW b \in Agents \ clashed', \A u \in Threads : agent'[u] # b
      PROVE  Watched(b)'
  <2>1. \A u \in Threads : agent[u] # b
    BY <1>2, <1>4, NoAgentAssumption
  <2> QED BY <1>3, <1>4, <2>1, WatchOthers
<1>5. a \notin clashed' => Ready(t)'
  <2>1. a \notin clashed' => Watched(a)
    BY <1>1 DEF WatchInv
  <2> QED BY <1>2, <2>1 DEF Ready, Watched, Stored, tables
<1> QED BY <1>2, <1>3, <1>4, <1>5, WatchOthers DEF WatchInv

LEMMA BeginWatched ==
  ASSUME TypeInv, IndexInv, WatchInv, NEW t \in Threads, Begin(t)
  PROVE  WatchInv'
<1>1. CASE CheckStaleAgents(t)
  <2>1. agent[t] = NoAgent /\ agent' = agent
    BY <1>1 DEF CheckStaleAgents, TypeInv, Placed
  <2>2. OthersBeat(t)
    BY <1>1 DEF CheckStaleAgents, OthersBeat, Others, tables, TypeInv, TypeOK
  <2> QED BY <2>1, <2>2, WatchStay, NoAgentAssumption
<1>2. CASE ~CheckStaleAgents(t)
  <2>1. PICK a \in Agents :
          /\ agent[t] = NoAgent /\ pc[t] = "idle"
          /\ Start(t, a, "lookup") \/ Start(t, a, "find")
             \/ Start(t, a, "touch") \/ Start(t, a, "status")
          /\ \E e \in Entries \cup {Absent} : entry' = [entry EXCEPT ![t] = e]
          /\ UNCHANGED <<tables, old, stale>>
    BY <1>2, BeginKinds
  <2>2. PICK label \in {"lookup", "find", "touch", "status"} : TakeUp(t, a, label)
    BY <2>1 DEF Start
  <2>3. \A u \in Threads \ {t} : entry'[u] = entry[u] /\ old'[u] = old[u]
    BY <2>1 DEF TypeInv, TypeOK
  <2> QED BY <2>1, <2>2, <2>3, WatchTakeUp
<1> QED BY <1>1, <1>2

LEMMA GoOnWatched ==
  ASSUME TypeInv, IndexInv, WatchInv, NEW t \in Threads, GoOn(t)
  PROVE  WatchInv'
<1> DEFINE a == agent[t]
           still(x) == store'[x] # Absent => beats'[x] # "none"
<1>m. a \in Agents \ clashed => Midway(t) /\ Ready(t)
  BY DEF IndexInv, WatchInv
\* Register and Unregister: nothing is asked of them before they return.
<1>1. ASSUME NEW from \in Labels \ {"idle", "next"},
             NEW to \in {"reread", "unindex", "store", "index", "beat",
                         "delete", "unlist", "unbeat"},
             Step(t, from, to), UNCHANGED beats, UNCHANGED entry,
             \E o : old' = [old EXCEPT ![t] = o],
             \A b \in Agents : b # a =>
               /\ store'[b] = store[b]
               /\ \A cap \in Caps : index'[cap][b] = index[cap][b]
      PROVE  WatchInv'
  <2>1. /\ pc'[t] = to /\ agent' = agent /\ clashed' = clashed
        /\ \A u \in Threads \ {t} : pc'[u] = pc[u]
    BY <1>1 DEF Step, TypeInv, TypeOK
  <2>2. OthersBeat(t)
    BY <1>1, <2>1 DEF OthersBeat, Others, TypeInv, TypeOK
  <2>3. Ready(t)'
    BY <2>1 DEF Ready
  <2> QED BY <2>1, <2>2, <2>3, WatchStay
<1>o. old = [old EXCEPT ![t] = old[t]]
  BY DEF TypeInv, TypeOK
<1>2. CASE Lookup(t)
  BY <1>1, <1>2, <1>o DEF Lookup, tables, Labels
<1>3. CASE Reread(t) \/ Find(t)
  BY <1>1, <1>3 DEF Reread, Find, tables, Labels
<1>4. CASE Unindex(t) \/ Unlist(t)
  <2>1. a \in Agents
    BY <1>4, BusyAgent DEF Unindex, Unlist, Step
  <2>2. \A b \in Agents : b # a => \A cap \in Caps : index'[cap][b] = index[cap][b]
    BY <1>4, <2>1, Unlisted DEF Unindex, Unlist
  <2> QED BY <1>1, <1>4, <1>o, <2>2 DEF Unindex, Unlist, Labels
<1>5. CASE Index(t)
  <2>1. a \in Agents
    BY <1>5, BusyAgent DEF Index, Step
  <2>2. \A b \in Agents : b # a => \A cap \in Caps : index'[cap][b] = index[cap][b]
    BY <1>5, <2>1, IsListed DEF Index
  <2> QED BY <1>1, <1>5, <1>o, <2>2 DEF Index, Labels
<1>6. CASE StoreEntry(t) \/ Delete(t)
  <2>1. \A b \in Agents : b # a => store'[b] = store[b]
    BY <1>6 DEF StoreEntry, Delete, TypeInv, TypeOK
  <2> QED BY <1>1, <1>6, <1>o, <2>1 DEF StoreEntry, Delete, Labels
<1>7. CASE Touch(t)
  <2>1. /\ Step(t, "touch", "refresh") /\ UNCHANGED <<store, index, entry, old>>
        /\ beats' = [beats EXCEPT ![a] = "fresh"]
    BY <1>7 DEF Touch, RecordHeartbeat
  <2>2. /\ pc'[t] = "refresh" /\ agent' = agent /\ a \in Agents
        /\ beats'[a] = "fresh"
    BY <2>1, BusyAgent DEF Step, TypeInv, TypeOK
  <2>3. OthersBeat(t)
    BY <2>1, <2>2 DEF OthersBeat, Others, Step, TypeInv, TypeOK
  <2> QED BY <2>2, <2>3, WatchStay DEF Ready
\* What was read is stored: the heartbeat of an agent that is there is there.
<1>8. ASSUME Refresh(t) \/ Mark(t) \/ \E status \in Statuses : ReadStatus(t, status)
      PROVE  WatchInv'
  <2>1. PICK from \in {"refresh", "status", "mark"}, to \in {"write", "marked"} :
          Step(t, from, to)
    BY <1>8 DEF Refresh, Mark, ReadStatus
  <2>2. /\ Stored(a) /\ UNCHANGED <<store, index, beats, old>>
        /\ \E e : entry' = [entry EXCEPT ![t] = e]
    BY <1>8 DEF Refresh, Mark, ReadStatus, tables
  <2>3. /\ pc[t] = from /\ pc'[t] = to /\ agent' = agent /\ clashed' = clashed
    BY <2>1 DEF Step, TypeInv, TypeOK
  <2>4. OthersBeat(t)
    BY <2>1, <2>2, <2>3 DEF OthersBeat, Others, Step, TypeInv, TypeOK
  <2>5. a \in Agents \ clashed => beats[a] # "none"
    BY <1>m, <2>2, <2>3 DEF Ready, Watched
  <2>6. a \in Agents \ clashed' => Ready(t)'
    BY <2>2, <2>3, <2>5 DEF Ready, Watched
  <2> QED BY <2>3, <2>4, <2>6, WatchStay
<1>9. CASE Write(t) \/ Marked(t)
  <2>1. PICK from \in {"write", "marked"}, to \in {"idle", "next"} :
          /\ Leave(t, from, to) /\ UNCHANGED <<index, beats>>
          /\ store' = [store EXCEPT ![a] = entry[t]]
    BY <1>9 DEF Write, Marked, Return
  <2>2. \A b \in Agents : b # a => store'[b] = store[b]
    BY <2>1 DEF TypeInv, TypeOK
  <2>3. Others(t) /\ agent'[t] = NoAgent /\ clashed' = clashed /\ pc[t] = from
    BY <2>1, <2>2, LeaveStep
  <2>4. a \in Agents \ clashed' => still(a)
    BY <1>m, <2>1, <2>3 DEF Ready
  <2> QED BY <2>1, <2>3, <2>4, WatchLeave DEF OthersBeat, Watched, Stored
<1>10. CASE RegisterReturn(t) \/ UnregisterReturn(t)
  <2>1. PICK from \in {"beat", "unbeat"}, beat \in {"fresh", "none"} :
          /\ Leave(t, from, "idle") /\ UNCHANGED <<store, index>>
          /\ from = "unbeat" <=> beat = "none"
          /\ beats' = [beats EXCEPT ![a] = beat]
    BY <1>10 DEF RegisterReturn, UnregisterReturn, Return, RecordHeartbeat
  <2>2. Others(t) /\ agent'[t] = NoAgent /\ clashed' = clashed /\ pc[t] = from
    BY <2>1, LeaveStep
  <2>3. /\ \A b \in Agents : b # a => beats'[b] = beats[b]
        /\ a \in Agents => beats'[a] = beat
    BY <2>1 DEF TypeInv, TypeOK
  <2>4. a \in Agents \ clashed => (from = "unbeat" => store[a] = Absent)
    BY <1>m, <2>2 DEF Midway
  <2>5. a \in Agents \ clashed' => still(a)
    BY <2>1, <2>2, <2>3, <2>4
  <2> QED BY <2>2, <2>3, <2>5, WatchLeave DEF OthersBeat, Watched, Stored
<1>11. CASE \/ FindNothing(t) \/ RefreshFails(t) \/ StatusFails(t)
            \/ MarkFails(t) \/ CheckReturn(t)
  <2>1. PICK from \in Labels : /\ Leave(t, from, "idle") /\ UNCHANGED tables
                               /\ from = "next" \/ ~Stored(a)
    BY <1>11 DEF FindNothing, RefreshFails, StatusFails, MarkFails, CheckReturn,
                 Return, Labels
  <2>2. Others(t) /\ agent'[t] = NoAgent /\ clashed' = clashed /\ pc[t] = from
    BY <2>1, LeaveStep DEF tables
  <2>3. a \in Agents => from # "next"
    BY <2>2, NoAgentAssumption DEF TypeInv, Placed
  <2>4. a \in Agents \ clashed' => still(a)
    BY <2>1, <2>3 DEF Stored, tables
  <2> QED BY <2>1, <2>2, <2>4, WatchLeave DEF OthersBeat, Watched, Stored, tables
<1>12. ASSUME NEW b \in Agents, NextStale(t, b) PROVE WatchInv'
  <2>1. a = NoAgent /\ TakeUp(t, b, "mark") /\ UNCHANGED <<tables, entry, old>>
    BY <1>12 DEF NextStale, TypeInv, Placed
  <2> QED BY <2>1, WatchTakeUp
<1> QED
  BY <1>2, <1>3, <1>4, <1>5, <1>6, <1>7, <1>8, <1>9, <1>10, <1>11, <1>12, Zenon
     DEF GoOn

LEMMA WatchStep == TypeInv /\ IndexInv /\ WatchInv /\ [Next]_vars => WatchInv'
<1> SUFFICES ASSUME TypeInv, IndexInv, WatchInv, [Next]_vars PROVE WatchInv'
  OBVIOUS
<1>1. CASE UNCHANGED vars
  BY <1>1 DEF vars, tables, WatchInv, Watched, Ready, Stored
<1>2. ASSUME NEW b \in Agents, Timeout(b) PROVE WatchInv'
  <2>1. /\ UNCHANGED <<store, pc, agent, clashed>>
        /\ \A a \in Agents : beats[a] # "none" => beats'[a] # "none"
    BY <1>2 DEF Timeout, TypeInv, TypeOK
  <2> QED BY <2>1 DEF WatchInv, Watched, Ready, Stored
<1> QED BY <1>1, <1>2, BeginWatched, GoOnWatched DEF Next

(* An agent that is stored and that nobody is working on has a heartbeat,  *)
(* so CheckStaleAgents will find it, unless two operations met on it:      *)
(* a Register returns after it has recorded one, an Unregister deletes the *)
(* entry first, and no other operation stores what has no heartbeat.       *)
THEOREM StoredAreWatched == Spec => []StoredAgentsAreWatched
<1>1. Init => WatchInv
  BY NoAgentAssumption DEF Init, WatchInv, Watched, Stored
<1>2. WatchInv => StoredAgentsAreWatched
  BY DEF WatchInv, Watched, StoredAgentsAreWatched, Settled
<1> QED
  BY <1>1, <1>2, InitType, InitIndex, TypeStep, IndexStep, WatchStep, PTL DEF Spec

-----------------------------------------------------------------------------
(* NoErrorMeansMarked is a property of the steps.  What t's check has not  *)
(* marked yet it still has on its list or in hand; what it has marked      *)
(* stays as it was, as nobody else has touched it.                         *)

SilentInv == \A t \in Threads : \A a \in silent[t] :
  /\ a \in Agents
  /\ pc[t] \in {"next", "mark", "marked"}
  /\ \A u \in Threads \ {t} : agent[u] # a
  /\ a \in stale[t] \/ agent[t] = a \/ store[a].status = "offline"
  /\ agent[t] = a /\ pc[t] = "marked" => entry[t].status = "offline"

\* What a step of t leaves alone.
Turn(t) == /\ \A u \in Threads \ {t} :
                /\ pc'[u] = pc[u] /\ agent'[u] = agent[u]
                /\ entry'[u] = entry[u] /\ stale'[u] = stale[u]
           /\ \A b \in Agents : b # agent[t] => store'[b] = store[b]

LEMMA BeginTurn ==
  ASSUME TypeInv, NEW t \in Threads, Begin(t)
  PROVE  /\ Turn(t) /\ pc[t] = "idle"
         /\ pc'[t] # "next" \/ stale'[t] = {a \in Agents : beats'[a] = "stale"}
<1>1. CASE CheckStaleAgents(t)
  BY <1>1 DEF CheckStaleAgents, tables, Turn, TypeInv, TypeOK
<1>2. CASE ~CheckStaleAgents(t)
  <2>1. PICK a \in Agents :
          /\ agent[t] = NoAgent /\ pc[t] = "idle"
          /\ Start(t, a, "lookup") \/ Start(t, a, "find")
             \/ Start(t, a, "touch") \/ Start(t, a, "status")
          /\ \E e \in Entries \cup {Absent} : entry' = [entry EXCEPT ![t] = e]
          /\ UNCHANGED <<tables, old, stale>>
    BY <1>2, BeginKinds
  <2>2. PICK label \in {"lookup", "find", "touch", "status"} :
          /\ pc' = [pc EXCEPT ![t] = label] /\ agent' = [agent EXCEPT ![t] = a]
    BY <2>1 DEF Start, TakeUp
  <2> QED BY <2>1, <2>2 DEF Turn, tables, TypeInv, TypeOK
<1> QED BY <1>1, <1>2

\* The steps of a check.
Marking(t) == \/ \E a \in Agents : NextStale(t, a)
              \/ Mark(t) \/ Marked(t) \/ MarkFails(t) \/ CheckReturn(t)

LEMMA GoOnTurn ==
  ASSUME TypeInv, NEW t \in Threads, GoOn(t)
  PROVE  /\ Turn(t) /\ pc[t] # "idle"
         /\ Marking(t) \/ (pc[t] # "next" /\ pc[t] # "mark" /\ pc[t] # "marked")
<1> USE DEF TypeInv, TypeOK, tables
<1>1. ASSUME NEW from, NEW to, Step(t, from, to), \E e : entry' = [entry EXCEPT ![t] = e],
             \A b \in Agents : b # agent[t] => store'[b] = store[b]
      PROVE  Turn(t) /\ pc[t] = from
  BY <1>1 DEF Step, Turn
<1>2. ASSUME NEW from, NEW to, Leave(t, from, to),
             \E s : stale' = [stale EXCEPT ![t] = s],
             \A b \in Agents : b # agent[t] => store'[b] = store[b]
      PROVE  Turn(t) /\ pc[t] = from
  BY <1>2 DEF Leave, Turn
<1>3. /\ entry = [entry EXCEPT ![t] = entry[t]]
      /\ stale = [stale EXCEPT ![t] = stale[t]]
  OBVIOUS
<1>4. CASE Lookup(t) \/ Reread(t) \/ Unindex(t) \/ Index(t) \/ Find(t)
           \/ Unlist(t) \/ Touch(t)
  BY <1>1, <1>3, <1>4 DEF Lookup, Reread, Unindex, Index, Find, Unlist, Touch
<1>5. CASE StoreEntry(t) \/ Delete(t)
  BY <1>1, <1>3, <1>5 DEF StoreEntry, Delete
<1>6. ASSUME Refresh(t) \/ \E status \in Statuses : ReadStatus(t, status)
      PROVE  Turn(t) /\ pc[t] \in {"refresh", "status"}
  BY <1>1, <1>6 DEF Refresh, ReadStatus
<1>7. CASE RegisterReturn(t) \/ UnregisterReturn(t) \/ FindNothing(t)
           \/ RefreshFails(t) \/ StatusFails(t)
  BY <1>2, <1>3, <1>7 DEF RegisterReturn, UnregisterReturn, FindNothing,
                          RefreshFails, StatusFails, Return
<1>8. CASE Write(t)
  BY <1>2, <1>3, <1>8 DEF Write, Return
<1>9. ASSUME Marking(t)
      PROVE  Turn(t) /\ pc[t] # "idle"
  <2>1. ASSUME NEW a \in Agents, NextStale(t, a) PROVE Turn(t) /\ pc[t] = "next"
    BY <2>1 DEF NextStale, TakeUp, Turn
  <2>2. CASE Mark(t)
    <3>1. /\ Step(t, "mark", "marked") /\ store' = store
          /\ entry' = [entry EXCEPT ![t] = WithStatus(store[agent[t]], "offline")]
      BY <2>2 DEF Mark
    <3>2. Turn(t) /\ pc[t] = "mark"
      BY <1>1, <3>1
    <3> QED BY <3>2
  <2>3. CASE Marked(t)
    BY <1>2, <1>3, <2>3 DEF Marked
  <2>4. CASE MarkFails(t) \/ CheckReturn(t)
    BY <1>2, <1>3, <2>4 DEF MarkFails, CheckReturn, Return
  <2> QED BY <1>9, <2>1, <2>2, <2>3, <2>4 DEF Marking
<1> QED
  BY <1>4, <1>5, <1>6, <1>7, <1>8, <1>9 DEF GoOn, Marking

\* One step of the check keeps what t knows of a.
LEMMA MarkingKeeps ==
  ASSUME TypeInv, SilentInv, NEW t \in Threads, Marking(t),
         NEW a \in silent[t]
  PROVE  /\ \/ pc'[t] = "idle"
            \/ /\ pc'[t] \in {"next", "mark", "marked"}
               /\ a \in stale'[t] \/ agent'[t] = a \/ store'[a].status = "offline"
               /\ agent'[t] = a /\ pc'[t] = "marked" => entry'[t].status = "offline"
         /\ pc[t] \in {"next", "marked"} /\ pc'[t] = "idle"
              => store'[a].status = "offline"
<1>0. /\ a \in Agents
      /\ a \in stale[t] \/ agent[t] = a \/ store[a].status = "offline"
      /\ agent[t] = a /\ pc[t] = "marked" => entry[t].status = "offline"
  BY DEF SilentInv
<1> USE DEF TypeInv, TypeOK, tables
<1>1. ASSUME NEW b \in Agents, NextStale(t, b)
      PROVE  /\ pc'[t] = "mark" /\ store' = store
             /\ a \in stale'[t] \/ agent'[t] = a \/ store[a].status = "offline"
  <2>1. pc[t] = "next" /\ agent[t] = NoAgent
    BY <1>1 DEF NextStale, Placed
  <2>2. /\ pc'[t] = "mark" /\ agent'[t] = b /\ stale'[t] = stale[t] \ {b}
        /\ store' = store
    BY <1>1 DEF NextStale, TakeUp
  <2> QED BY <1>0, <2>1, <2>2, NoAgentAssumption
<1>2. CASE Mark(t)
  <2>1. /\ pc[t] = "mark" /\ pc'[t] = "marked" /\ agent' = agent /\ stale' = stale
        /\ store' = store /\ entry'[t].status = "offline"
    BY <1>2 DEF Mark, Step, WithStatus
  <2> QED BY <1>0, <2>1
<1>3. CASE Marked(t)
  <2>1. /\ pc[t] = "marked" /\ pc'[t] = "next" /\ stale' = stale
        /\ store'[a] = IF a = agent[t] THEN entry[t] ELSE store[a]
    BY <1>0, <1>3 DEF Marked, Leave
  <2> QED BY <1>0, <2>1
<1>4. CASE MarkFails(t)
  BY <1>4 DEF MarkFails, Leave
<1>5. CASE CheckReturn(t)
  <2>1. /\ pc[t] = "next" /\ pc'[t] = "idle" /\ stale[t] = {} /\ store' = store
        /\ agent[t] = NoAgent
    BY <1>5 DEF CheckReturn, Return, Leave, Placed
  <2> QED BY <1>0, <2>1, NoAgentAssumption
<1> QED BY <1>1, <1>2, <1>3, <1>4, <1>5 DEF Marking

\* What t knows of a after a step, unless the check is over.
Knows(t, a) ==
  /\ pc'[t] \in {"next", "mark", "marked"}
  /\ a \in stale'[t] \/ agent'[t] = a \/ store'[a].status = "offline"
  /\ agent'[t] = a /\ pc'[t] = "marked" => entry'[t].status = "offline"

LEMMA SilentKnown ==
  ASSUME TypeInv, SilentInv, Next, NEW t \in Threads, NEW a \in silent[t]
  PROVE  /\ pc'[t] = "idle" \/ Knows(t, a)
         /\ pc[t] \in {"next", "marked"} /\ pc'[t] = "idle"
              => store'[a].status = "offline"
<1>0. /\ a \in Agents /\ pc[t] \in {"next", "mark", "marked"}
      /\ \A u \in Threads \ {t} : agent[u] # a
      /\ a \in stale[t] \/ agent[t] = a \/ store[a].status = "offline"
      /\ agent[t] = a /\ pc[t] = "marked" => entry[t].status = "offline"
  BY DEF SilentInv
<1>1. ASSUME NEW u \in Threads, Begin(u) \/ GoOn(u), u # t
      PROVE  pc'[t] = pc[t] /\ Knows(t, a)
  <2>1. Turn(u)
    BY <1>1, BeginTurn, GoOnTurn
  <2>2. /\ pc'[t] = pc[t] /\ agent'[t] = agent[t] /\ entry'[t] = entry[t]
        /\ stale'[t] = stale[t] /\ store'[a] = store[a]
    BY <1>0, <1>1, <2>1 DEF Turn
  <2> QED BY <1>0, <2>2 DEF Knows
<1>2. ASSUME Begin(t) \/ GoOn(t)
      PROVE  Marking(t)
  BY <1>0, <1>2, BeginTurn, GoOnTurn
<1>3. ASSUME NEW b \in Agents, Timeout(b)
      PROVE  pc'[t] = pc[t] /\ Knows(t, a)
  BY <1>0, <1>3 DEF Timeout, locals, Knows
<1> QED BY <1>0, <1>1, <1>2, <1>3, MarkingKeeps DEF Next, Knows

\* A check that begins has on its list whoever is silent then.
LEMMA CheckBegins ==
  ASSUME TypeInv, Next, NEW t \in Threads, Checking(t),
         NEW a \in Agents, beats'[a] = "stale"
  PROVE  Knows(t, a)
<1>1. ASSUME NEW u \in Threads, Begin(u) \/ GoOn(u)
      PROVE  u = t
  BY <1>1, BeginTurn, GoOnTurn DEF Turn, Checking
<1>2. ~ \E b \in Agents : Timeout(b)
  BY DEF Timeout, Checking
<1>3. Begin(t)
  BY <1>1, <1>2, GoOnTurn DEF Next, Checking
<1> QED BY <1>3, BeginTurn DEF Checking, Knows

LEMMA SilentStep ==
  ASSUME TypeInv, SilentInv, Next, Listen
  PROVE  /\ SilentInv'
         /\ \A t \in Threads : pc[t] \in {"next", "marked"} /\ pc'[t] = "idle"
              => \A a \in silent[t] : store'[a].status = "offline"
<1>1. ASSUME NEW t \in Threads, NEW a \in silent'[t]
      PROVE  /\ a \in Agents /\ Knows(t, a)
             /\ \A u \in Threads \ {t} : agent'[u] # a
  <2>1. /\ a \in Agents
        /\ Checking(t) \/ a \in silent[t]
        /\ pc'[t] # "idle" /\ KeepsSilent(t, a)
    BY <1>1 DEF Listen
  <2> QED BY <1>1, <2>1, SilentKnown, CheckBegins DEF KeepsSilent, SilentInv
<1> QED BY <1>1, SilentKnown DEF SilentInv, Knows

composed == <<service, vars, silent, boardVars, mergeVars>>

\* The composition does what the registry does, or leaves it alone.
LEMMA ComposedStep ==
  ASSUME [MCNext]_composed
  PROVE  (Next /\ Listen) \/ UNCHANGED <<vars, silent>>
  BY DEF MCNext, MergeLists, composed

LEMMA RegistryInside == MCSpec => []TypeInv
<1>1. MCInit => TypeInv
  BY InitType DEF MCInit
<1>2. TypeInv /\ [MCNext]_composed => TypeInv'
  BY ComposedStep, TypeStep
<1> QED BY <1>1, <1>2, PTL DEF MCSpec, composed

(* A CheckStaleAgents that ends without an error has left every agent      *)
(* offline that was stale when it looked and that kept silent since, for   *)
(* any number of agents and whatever the other goroutines do to others.    *)
THEOREM SilentAreMarked == MCSpec => NoErrorMeansMarked
<1>1. MCInit => SilentInv
  BY DEF MCInit, SilentInv
<1>2. TypeInv /\ SilentInv /\ [MCNext]_composed => SilentInv'
  BY ComposedStep, SilentStep DEF SilentInv, vars, tables, locals
<1>3. TypeInv /\ SilentInv /\ [MCNext]_composed =>
        [\A t \in Threads : pc[t] \in {"next", "marked"} /\ pc'[t] = "idle"
            => \A a \in silent[t] : store'[a].status = "offline"]_<<vars, silent>>
  BY ComposedStep, SilentStep
<1> QED
  BY <1>1, <1>2, <1>3, RegistryInside, PTL DEF MCSpec, NoErrorMeansMarked, composed

-----------------------------------------------------------------------------
(* What TaskBoardProofs proves of the task board holds in the composition. *)

BoardProofs == INSTANCE TaskBoardProofs WITH
  store <- bStore, subs <- bSubs, handlers <- bHandlers, handle <- bHandle,
  pc <- bPc, agent <- bAgent, list <- bList, targets <- bTargets,
  publishes <- bPublishes, known <- bKnown, due <- bDue, gone <- bGone,
  clashed <- bClashed

LEMMA BoardInside == MCSpec => BoardProofs!Spec
<1>1. MCInit => BoardProofs!Init
  BY DEF MCInit, Board!Init, BoardProofs!Init, Board!Handlers, BoardProofs!Handlers
<1>2. Board!Next => BoardProofs!Next
  BY Zenon
     DEF Board!Next, Board!Publisher, Board!Owner, Board!Publish, Board!Set,
         Board!Snapshot, Board!Notified, Board!Return, Board!CallHandler,
         Board!Subscribe, Board!Unsubscribe, Board!PubSubSubscribe,
         Board!PubSubUnsubscribe, Board!On, Board!Busy, Board!Removed,
         Board!Stored, Board!Handlers, Board!tables, Board!locals, Board!history,
         BoardProofs!Next, BoardProofs!Publisher, BoardProofs!Owner,
         BoardProofs!Publish, BoardProofs!Set, BoardProofs!Snapshot,
         BoardProofs!Notified, BoardProofs!Return, BoardProofs!CallHandler,
         BoardProofs!Subscribe, BoardProofs!Unsubscribe,
         BoardProofs!PubSubSubscribe, BoardProofs!PubSubUnsubscribe,
         BoardProofs!On, BoardProofs!Busy, BoardProofs!Removed,
         BoardProofs!Stored, BoardProofs!Handlers, BoardProofs!tables,
         BoardProofs!locals, BoardProofs!history
<1>3. [MCNext]_composed => [BoardProofs!Next]_BoardProofs!vars
  BY <1>2
     DEF MCNext, MergeLists, composed, boardVars, BoardProofs!vars,
         BoardProofs!tables, BoardProofs!locals, BoardProofs!history
<1> QED BY <1>1, <1>3, PTL DEF MCSpec, BoardProofs!Spec, composed

(* Every table and every local of the two services keeps its type in the   *)
(* composition that is model-checked.                                      *)
THEOREM ServicesAreTyped ==
  ASSUME BoardProofs!Bounds
  PROVE  MCSpec => []TypesOK
<1>1. BoardProofs!Spec => []BoardProofs!TypeInv
  BY BoardProofs!TypeInvHolds
<1>2. TypeInv /\ BoardProofs!TypeInv => TypesOK
  BY DEF TypeInv, BoardProofs!TypeInv, BoardProofs!TypeOK, TypesOK, Board!TypeOK,
         BoardProofs!Handlers, Board!Handlers
<1> QED BY <1>1, <1>2, RegistryInside, BoardInside, PTL

(* NobodyIsBehind, of the task board in the composition.                   *)
THEOREM SubscribersAreInStep ==
  ASSUME BoardProofs!Bounds
  PROVE  MCSpec => []BoardSubscribersInStep
<1>1. BoardProofs!Spec => []BoardProofs!SubscribersInStep
  BY BoardProofs!NobodyIsBehind
<1>2. BoardProofs!SubscribersInStep => BoardSubscribersInStep
  BY DEF BoardSubscribersInStep, Board!SubscribersInStep, Board!Settled, Board!On,
         Board!Busy, Board!Handlers, BoardProofs!SubscribersInStep,
         BoardProofs!Settled, BoardProofs!On, BoardProofs!Busy,
         BoardProofs!Handlers
<1> QED BY <1>1, <1>2, BoardInside, PTL

(* GoneAreNotCalled, of the task board in the composition.                 *)
THEOREM LeaversAreLeftAlone ==
  ASSUME BoardProofs!Bounds
  PROVE  MCSpec => []BoardLeavesGoneAlone
<1>1. BoardProofs!Spec => []BoardProofs!GoneAreLeftAlone
  BY BoardProofs!GoneAreNotCalled
<1>2. BoardProofs!GoneAreLeftAlone => BoardLeavesGoneAlone
  BY DEF BoardLeavesGoneAlone, Board!GoneAreLeftAlone, BoardProofs!GoneAreLeftAlone
<1> QED BY <1>1, <1>2, BoardInside, PTL

-----------------------------------------------------------------------------
(* What TodoProofs proves of Merge holds of the results in the composition. *)

TodoFacts == INSTANCE TodoProofs

LEMMA SmallListsAreLists == SmallLists \subseteq Seq(TodoFacts!Items(Ids))
<1>1. SmallItems \subseteq TodoFacts!Items(Ids)
  <2>1. 1 .. MaxTime \subseteq Nat /\ {0} \subseteq Nat /\ {FALSE} \subseteq BOOLEAN
    BY MaxTimeAssumption
  <2>2. {"todo", "done"} \subseteq TodoFacts!Statuses
    BY DEF TodoFacts!Statuses
  <2> QED BY <2>1, <2>2 DEF SmallItems, TodoFacts!Items
<1>2. SUFFICES ASSUME NEW n \in 0 .. 2
               PROVE  [1 .. n -> SmallItems] \subseteq Seq(TodoFacts!Items(Ids))
  BY DEF SmallLists
<1>3. [1 .. n -> SmallItems] \subseteq [1 .. n -> TodoFacts!Items(Ids)]
  BY <1>1
<1> QED BY <1>3, SeqDef

MergeInv ==
  /\ service \in {"merge", "merged"} => local \in SmallLists /\ remote \in SmallLists
  /\ service = "merged" => merged \in Todo!Merges(local, remote)

LEMMA MergeInside == MCSpec => []MergeInv
<1>1. MCInit => MergeInv
  BY DEF MCInit, MergeInv
<1>2. MergeInv /\ [MCNext]_composed => MergeInv'
  BY DEF MergeInv, MCNext, MergeLists, composed, mergeVars
<1> QED BY <1>1, <1>2, PTL DEF MCSpec, composed

LEMMA SameCount == \A S : Todo!Cardinality(S) = TodoFacts!Cardinality(S)
  BY Zenon DEF Todo!Cardinality, TodoFacts!Cardinality

LEMMA MergedIsRight ==
  ASSUME MergeInv, Finished
  PROVE  Todo!KeepsNewest(merged, local, remote, NoId) /\ Todo!Sorted(merged)
<1>1. /\ local \in Seq(TodoFacts!Items(Ids)) /\ remote \in Seq(TodoFacts!Items(Ids))
      /\ merged \in Todo!Merges(local, remote)
  BY SmallListsAreLists DEF MergeInv, Finished
<1>2. Todo!Merges(local, remote) = TodoFacts!Merges(local, remote)
  <2>1. Todo!ByID(local, remote) = TodoFacts!ByID(local, remote)
    BY Zenon DEF Todo!ByID, Todo!AddLocal, Todo!AddRemote, Todo!Put,
                 TodoFacts!ByID, TodoFacts!AddLocal, TodoFacts!AddRemote,
                 TodoFacts!Put
  <2>2. ASSUME NEW todos PROVE Todo!SortByTime(todos) = TodoFacts!SortByTime(todos)
    BY Zenon DEF Todo!SortByTime, Todo!Pass, Todo!InOrder, Todo!Exchange,
                 TodoFacts!SortByTime, TodoFacts!Pass, TodoFacts!InOrder,
                 TodoFacts!Exchange
  <2>3. ASSUME NEW S PROVE Todo!SetToSeqs(S) = TodoFacts!SetToSeqs(S)
    BY Zenon, SameCount DEF Todo!SetToSeqs, TodoFacts!SetToSeqs
  <2> QED BY Zenon, <2>1, <2>2, <2>3 DEF Todo!Merges, TodoFacts!Merges
<1>3. /\ TodoFacts!KeepsNewest(merged, local, remote, NoId)
      /\ TodoFacts!Sorted(merged)
  BY <1>1, <1>2, TodoFacts!MergeOfSlices
<1>4. Todo!Sorted(merged)
  BY <1>3 DEF Todo!Sorted, TodoFacts!Sorted
<1>5. Todo!KeepsNewest(merged, local, remote, NoId)
  <2>1. ASSUME NEW S PROVE Todo!IdsOf(S) = TodoFacts!IdsOf(S)
    BY DEF Todo!IdsOf, TodoFacts!IdsOf
  <2>2. ASSUME NEW S PROVE Todo!AsList(S) = TodoFacts!AsList(S)
    BY Zenon, <2>1 DEF Todo!AsList, TodoFacts!AsList
  <2>3. ASSUME NEW S PROVE Todo!Valid(S, NoId) <=> TodoFacts!Valid(S, NoId)
    BY DEF Todo!Valid, TodoFacts!Valid, Todo!Statuses, TodoFacts!Statuses
  <2>4. ASSUME NEW x
        PROVE  Todo!Chosen(x, local, remote) <=> TodoFacts!Chosen(x, local, remote)
    BY Zenon DEF Todo!Chosen, Todo!IsLast, Todo!IsFirstNewest,
                 TodoFacts!Chosen, TodoFacts!IsLast, TodoFacts!IsFirstNewest
  <2>5. ASSUME NEW x, NEW y PROVE Todo!Merged(x, y) = TodoFacts!Merged(x, y)
    BY Zenon DEF Todo!Merged, Todo!Later, TodoFacts!Merged, TodoFacts!Later
  <2> QED BY Zenon, <1>3, <2>1, <2>2, <2>3, <2>4, <2>5, SameCount
          DEF Todo!KeepsNewest, TodoFacts!KeepsNewest
<1> QED BY <1>4, <1>5

(* MergeOfSlices, of the lists the composition merges.                     *)
THEOREM NewestAreKept == MCSpec => []MergeKeepsNewest
<1>1. MergeInv => MergeKeepsNewest
  BY MergedIsRight DEF MergeKeepsNewest
<1> QED BY <1>1, MergeInside, PTL

(* SortSorts, of the lists the composition merges.                         *)
THEOREM MergeComesSorted == MCSpec => []MergeIsSorted
<1>1. MergeInv => MergeIsSorted
  BY MergedIsRight DEF MergeIsSorted
<1> QED BY <1>1, MergeInside, PTL
=============================================================================
