------------------------------ MODULE Registry ------------------------------
(***************************************************************************)
(* pkg/registry/service.go: the store of agents, the capability index and  *)
(* the heartbeat times, each under a mutex of its own, and the operations  *)
(* that change them one after the other.  A step is one section under one  *)
(* of those mutexes; operations of several goroutines interleave there.    *)
(*                                                                         *)
(* The entry of an agent is its capabilities and its status.  The index is *)
(* how often each agent is in the list of a capability, as nothing depends *)
(* on the order.  A heartbeat is fresh until the timeout has passed.       *)
(***************************************************************************)
EXTENDS Naturals

CONSTANTS Agents, Caps,
          Threads,      \* goroutines that call the service
          MaxOps,       \* bound: operations begun
          NoAgent

ASSUME MaxOpsAssumption == MaxOps \in Nat
ASSUME NoAgentAssumption == NoAgent \notin Agents

VARIABLES
  store,     \* the entry of each agent, or Absent
  index,     \* index[cap][a]: how often a is in byCap[cap]
  beats,     \* the heartbeat of each agent: none, fresh or stale
  pc,        \* where each goroutine is in its operation
  agent,     \* the agent it works on, or NoAgent
  entry,     \* the entry it is about to store
  old,       \* the entry it has read, to remove from the index
  stale,     \* the agents its CheckStaleAgents has still to mark
  ops,       \* counts operations, for the bound
  clashed    \* agents that two goroutines have worked on at once

tables == <<store, index, beats>>
locals == <<entry, old, stale>>
vars == <<tables, pc, agent, locals, ops, clashed>>

Statuses == {"online", "busy", "away", "offline"}
Entries == [caps : SUBSET Caps, status : Statuses]
Absent == [caps |-> {}, status |-> "absent"]
Stored(a) == store[a] # Absent

Labels == {"idle", "next",
           "lookup", "reread", "unindex", "store", "index", "beat",
           "find", "delete", "unlist", "unbeat",
           "touch", "refresh", "status", "write", "mark", "marked"}

TypeOK == /\ store \in [Agents -> Entries \cup {Absent}]
          /\ index \in [Caps -> [Agents -> Nat]]
          /\ beats \in [Agents -> {"none", "fresh", "stale"}]
          /\ pc \in [Threads -> Labels]
          /\ agent \in [Threads -> Agents \cup {NoAgent}]
          /\ entry \in [Threads -> Entries \cup {Absent}]
          /\ old \in [Threads -> Entries \cup {Absent}]
          /\ stale \in [Threads -> SUBSET Agents]
          /\ ops \in 0 .. MaxOps
          /\ clashed \in SUBSET Agents

Init == /\ store = [a \in Agents |-> Absent]
        /\ index = [cap \in Caps |-> [a \in Agents |-> 0]]
        /\ beats = [a \in Agents |-> "none"]
        /\ pc = [t \in Threads |-> "idle"]
        /\ agent = [t \in Threads |-> NoAgent]
        /\ entry = [t \in Threads |-> Absent]
        /\ old = [t \in Threads |-> Absent]
        /\ stale = [t \in Threads |-> {}]
        /\ ops = 0 /\ clashed = {}

-----------------------------------------------------------------------------
(* Control.                                                                *)

WorkedOn(t, a) == \E u \in Threads \ {t} : agent[u] = a

\* t takes up a; whoever else works on it has met it.
TakeUp(t, a, label) ==
  /\ pc' = [pc EXCEPT ![t] = label]
  /\ agent' = [agent EXCEPT ![t] = a]
  /\ clashed' = IF WorkedOn(t, a) THEN clashed \cup {a} ELSE clashed

Start(t, a, label) == /\ pc[t] = "idle" /\ ops < MaxOps
                      /\ ops' = ops + 1
                      /\ TakeUp(t, a, label)

Step(t, from, to) == /\ pc[t] = from
                     /\ pc' = [pc EXCEPT ![t] = to]
                     /\ UNCHANGED <<agent, stale, ops, clashed>>

\* t has done with its agent and goes on at label.
Leave(t, from, label) == /\ pc[t] = from
                         /\ pc' = [pc EXCEPT ![t] = label]
                         /\ agent' = [agent EXCEPT ![t] = NoAgent]
                         /\ entry' = [entry EXCEPT ![t] = Absent]
                         /\ old' = [old EXCEPT ![t] = Absent]
                         /\ UNCHANGED <<ops, clashed>>

Return(t, from) == Leave(t, from, "idle") /\ UNCHANGED stale

-----------------------------------------------------------------------------
(* Register, and the rename of server.go, which registers what it has read *)
(* under another name.                                                     *)

Register(t, a, caps) ==
  /\ Start(t, a, "lookup")
  /\ entry' = [entry EXCEPT ![t] = [caps |-> caps, status |-> "online"]]
  /\ UNCHANGED <<tables, old, stale>>

Rename(t, a) ==
  /\ Stored(a) /\ Start(t, a, "lookup")
  /\ entry' = [entry EXCEPT ![t] = store[a]]
  /\ UNCHANGED <<tables, old, stale>>

\* The first Get only asks whether the agent exists.
Lookup(t) == /\ Step(t, "lookup", IF Stored(agent[t]) THEN "reread" ELSE "store")
             /\ UNCHANGED <<tables, entry, old>>

\* The error of the second is ignored: the zero entry has no capabilities.
Reread(t) == /\ Step(t, "reread", "unindex")
             /\ old' = [old EXCEPT ![t] = store[agent[t]]]
             /\ UNCHANGED <<tables, entry>>

\* removeFromIndex takes out one element for each capability.
\* Mutant: the capabilities of the new entry are looked for.
Unindexed_New(t) == [cap \in Caps |-> [index[cap] EXCEPT ![agent[t]] =
                       IF cap \in entry[t].caps /\ @ > 0 THEN @ - 1 ELSE @]]
\* Mutant: an agent that is not in the list is removed from it all the same.
Unindexed_Blind(t) == [cap \in Caps |-> [index[cap] EXCEPT ![agent[t]] =
                         IF cap \in old[t].caps THEN @ - 1 ELSE @]]
Unindexed(t) == [cap \in Caps |-> [index[cap] EXCEPT ![agent[t]] =
                   IF cap \in old[t].caps /\ @ > 0 THEN @ - 1 ELSE @]]

Unindex(t) == /\ Step(t, "unindex", "store")
              /\ index' = Unindexed(t)
              /\ UNCHANGED <<store, beats, entry, old>>

StoreEntry(t) == /\ Step(t, "store", "index")
                 /\ store' = [store EXCEPT ![agent[t]] = entry[t]]
                 /\ UNCHANGED <<index, beats, entry, old>>

Index(t) == /\ Step(t, "index", "beat")
            /\ index' = [cap \in Caps |-> [index[cap] EXCEPT ![agent[t]] =
                           IF cap \in entry[t].caps THEN @ + 1 ELSE @]]
            /\ UNCHANGED <<store, beats, entry, old>>

\* Mutant: the time is not recorded.
RecordHeartbeat_Not(t) == beats' = beats
RecordHeartbeat(t) == beats' = [beats EXCEPT ![agent[t]] = "fresh"]

RegisterReturn(t) == /\ Return(t, "beat")
                     /\ RecordHeartbeat(t)
                     /\ UNCHANGED <<store, index>>

-----------------------------------------------------------------------------
(* Unregister.                                                             *)

Unregister(t, a) == /\ Start(t, a, "find")
                    /\ UNCHANGED <<tables, locals>>

Find(t) == /\ Step(t, "find", "delete")
           /\ Stored(agent[t])
           /\ old' = [old EXCEPT ![t] = store[agent[t]]]
           /\ UNCHANGED <<tables, entry>>

FindNothing(t) == /\ Return(t, "find")
                  /\ ~Stored(agent[t])
                  /\ UNCHANGED tables

Delete(t) == /\ Step(t, "delete", "unlist")
             /\ store' = [store EXCEPT ![agent[t]] = Absent]
             /\ UNCHANGED <<index, beats, entry, old>>

Unlist(t) == /\ Step(t, "unlist", "unbeat")
             /\ index' = Unindexed(t)
             /\ UNCHANGED <<store, beats, entry, old>>

UnregisterReturn(t) == /\ Return(t, "unbeat")
                       /\ beats' = [beats EXCEPT ![agent[t]] = "none"]
                       /\ UNCHANGED <<store, index>>

-----------------------------------------------------------------------------
(* UpdateHeartbeat, UpdateStatus and CheckStaleAgents: what was read is    *)
(* stored, with another time or status, whatever became of it meanwhile.   *)

Heartbeat(t, a) == /\ Start(t, a, "touch")
                   /\ UNCHANGED <<tables, locals>>

Touch(t) == /\ Step(t, "touch", "refresh")
            /\ RecordHeartbeat(t)
            /\ UNCHANGED <<store, index, entry, old>>

Refresh(t) == /\ Step(t, "refresh", "write")
              /\ Stored(agent[t])
              /\ entry' = [entry EXCEPT ![t] = store[agent[t]]]
              /\ UNCHANGED <<tables, old>>

RefreshFails(t) == /\ Return(t, "refresh")
                   /\ ~Stored(agent[t])
                   /\ UNCHANGED tables

SetStatus(t, a) == /\ Start(t, a, "status")
                   /\ UNCHANGED <<tables, locals>>

WithStatus(e, status) == [caps |-> e.caps, status |-> status]

ReadStatus(t, status) == /\ Step(t, "status", "write")
                         /\ Stored(agent[t])
                         /\ entry' = [entry EXCEPT ![t] =
                                        WithStatus(store[agent[t]], status)]
                         /\ UNCHANGED <<tables, old>>

StatusFails(t) == /\ Return(t, "status")
                  /\ ~Stored(agent[t])
                  /\ UNCHANGED tables

Write(t) == /\ Return(t, "write")
            /\ store' = [store EXCEPT ![agent[t]] = entry[t]]
            /\ UNCHANGED <<index, beats>>

\* The heartbeats are looked at once; the agents follow in any order.
CheckStaleAgents(t) ==
  /\ pc[t] = "idle" /\ ops < MaxOps
  /\ pc' = [pc EXCEPT ![t] = "next"] /\ ops' = ops + 1
  /\ stale' = [stale EXCEPT ![t] = {a \in Agents : beats[a] = "stale"}]
  /\ UNCHANGED <<tables, agent, entry, old, clashed>>

NextStale(t, a) == /\ pc[t] = "next" /\ a \in stale[t]
                   /\ TakeUp(t, a, "mark")
                   /\ stale' = [stale EXCEPT ![t] = @ \ {a}]
                   /\ UNCHANGED <<tables, entry, old, ops>>

Mark(t) == /\ Step(t, "mark", "marked")
           /\ Stored(agent[t])
           /\ entry' = [entry EXCEPT ![t] =
                          WithStatus(store[agent[t]], "offline")]
           /\ UNCHANGED <<tables, old>>

\* Mutant: the loop returns after the first agent.
Marked_First(t) == /\ Leave(t, "marked", "idle")
                   /\ store' = [store EXCEPT ![agent[t]] = entry[t]]
                   /\ stale' = [stale EXCEPT ![t] = {}]
                   /\ UNCHANGED <<index, beats>>
Marked(t) == /\ Leave(t, "marked", "next")
             /\ store' = [store EXCEPT ![agent[t]] = entry[t]]
             /\ UNCHANGED <<index, beats, stale>>

\* The first agent that is not found ends the check.
MarkFails(t) == /\ Leave(t, "mark", "idle")
                /\ ~Stored(agent[t])
                /\ stale' = [stale EXCEPT ![t] = {}]
                /\ UNCHANGED tables

CheckReturn(t) == /\ stale[t] = {}
                  /\ Return(t, "next")
                  /\ UNCHANGED tables

-----------------------------------------------------------------------------
Timeout(a) == /\ beats[a] = "fresh"
              /\ beats' = [beats EXCEPT ![a] = "stale"]
              /\ UNCHANGED <<store, index, pc, agent, locals, ops, clashed>>

Begin(t) == \/ \E a \in Agents : \/ \E caps \in SUBSET Caps : Register(t, a, caps)
                                 \/ Rename(t, a) \/ Unregister(t, a)
                                 \/ Heartbeat(t, a) \/ SetStatus(t, a)
            \/ CheckStaleAgents(t)

GoOn(t) == \/ Lookup(t) \/ Reread(t) \/ Unindex(t) \/ StoreEntry(t) \/ Index(t)
           \/ RegisterReturn(t)
           \/ Find(t) \/ FindNothing(t) \/ Delete(t) \/ Unlist(t)
           \/ UnregisterReturn(t)
           \/ Touch(t) \/ Refresh(t) \/ RefreshFails(t)
           \/ \E status \in Statuses : ReadStatus(t, status)
           \/ StatusFails(t) \/ Write(t)
           \/ \E a \in Agents : NextStale(t, a)
           \/ Mark(t) \/ Marked(t) \/ MarkFails(t) \/ CheckReturn(t)

Next == \/ \E t \in Threads : Begin(t) \/ GoOn(t)
        \/ \E a \in Agents : Timeout(a)

Spec == Init /\ [][Next]_vars

-----------------------------------------------------------------------------
(* The look-ups.  A filter asks for at most one capability, and for a      *)
(* status unless it is "any".  No caller sets the task of an entry.        *)

GetByCapability(cap) == {a \in Agents : index[cap][a] > 0}

\* Mutant: an agent without the capability passes.
Match_AnyCap(filter, info) ==
  /\ filter.status \in {"any", info.status}
  /\ ~filter.taskID /\ ~filter.hasTask
  /\ ~(filter.notBusy /\ info.status = "busy")
Match(filter, info) == /\ filter.caps \subseteq info.caps
                       /\ filter.status \in {"any", info.status}
                       /\ ~filter.taskID /\ ~filter.hasTask
                       /\ ~(filter.notBusy /\ info.status = "busy")

Query(filter) == {a \in Agents : Stored(a) /\ Match(filter, store[a])}

HavingCap(cap) == [caps |-> {cap}, status |-> "any", taskID |-> FALSE,
                   hasTask |-> FALSE, notBusy |-> FALSE]

-----------------------------------------------------------------------------
(* What the registry must get right.                                       *)

Settled(a) == a \notin clashed /\ \A t \in Threads : agent[t] # a

(* An agent that nobody is working on, and that never had two operations   *)
(* at once, is in the index exactly once for each capability of its entry  *)
(* and nowhere else, whatever happened to other agents meanwhile           *)
(* (updateIndex and removeFromIndex, 208-232): re-registration with other  *)
(* capabilities, rename and unregistration leave nothing behind.           *)
IndexMatchesStore ==
  \A a \in Agents : Settled(a) => \A cap \in Caps :
    index[cap][a] = (IF cap \in store[a].caps THEN 1 ELSE 0)

(* For such agents the two ways to look for a capability, one through the  *)
(* index and one through the store, give the same answer (service.go:113   *)
(* and 170).                                                               *)
LookupsMatch ==
  \A cap \in Caps, a \in Agents : Settled(a) =>
    (a \in GetByCapability(cap) <=> a \in Query(HavingCap(cap)))

(* Such an agent has a heartbeat if it is stored, so CheckStaleAgents can  *)
(* find it (Register, 70).                                                 *)
StoredAgentsAreWatched ==
  \A a \in Agents : Settled(a) /\ Stored(a) => beats[a] # "none"
=============================================================================
