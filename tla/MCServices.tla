----------------------------- MODULE MCServices -----------------------------
(***************************************************************************)
(* The services behind the standard server for TLC: the registry, the task *)
(* board, and CRDT.Merge on every pair of small lists.  A behaviour is one *)
(* of the three, as `service' says from the start; they share nothing, so  *)
(* there is no more to see of them together.                               *)
(*                                                                         *)
(* Agents, capabilities, goroutines and lists are interchangeable.         *)
(***************************************************************************)
EXTENDS Registry, Integers, Sequences, FiniteSets, TLC

CONSTANTS Lists, Subscribers, Listeners, MaxPublishes, NoList,
          Ids, NoId, MaxTime

ASSUME MaxTimeAssumption == MaxTime \in Nat

VARIABLES service,
          bStore, bSubs, bHandlers, bHandle, bPc, bAgent, bList, bTargets,
          bPublishes, bKnown, bDue, bGone, bClashed,
          local, remote, merged,
          silent   \* history: agents without a sign of life since the
                   \* goroutine's CheckStaleAgents looked at the heartbeats

boardVars == <<bStore, bSubs, bHandlers, bHandle, bPc, bAgent, bList, bTargets,
               bPublishes, bKnown, bDue, bGone, bClashed>>
mergeVars == <<local, remote, merged>>

Board == INSTANCE TaskBoard WITH
  store <- bStore, subs <- bSubs, handlers <- bHandlers, handle <- bHandle,
  pc <- bPc, agent <- bAgent, list <- bList, targets <- bTargets,
  publishes <- bPublishes, known <- bKnown, due <- bDue, gone <- bGone,
  clashed <- bClashed

Todo == INSTANCE TodoLists
Clock == INSTANCE VectorClock

-----------------------------------------------------------------------------
(* Merge: the lists are given, the result is one the map order allows.     *)

\* Items that differ in what the merge looks at and in one thing it does not.
SmallItems == [id : Ids, created : 1 .. MaxTime, status : {"todo", "done"},
               started : {0}, completed : {0}, reason : {FALSE}]
SmallLists == UNION {[1 .. n -> SmallItems] : n \in 0 .. 2}

MergeLists == /\ service = "merge" /\ service' = "merged"
              /\ merged' \in Todo!Merges(local, remote)
              /\ UNCHANGED <<local, remote>>

-----------------------------------------------------------------------------
Checking(t) == pc[t] = "idle" /\ pc'[t] = "next"

\* Still stale, and nobody but t has worked on it.
KeepsSilent(t, a) == /\ beats'[a] = "stale"
                     /\ \A u \in Threads \ {t} : agent'[u] # a

Listen == silent' = [t \in Threads |->
                       {a \in Agents : /\ Checking(t) \/ a \in silent[t]
                                       /\ pc'[t] # "idle" /\ KeepsSilent(t, a)}]

MCInit == /\ Init /\ Board!Init
          /\ merged = << >>
          /\ silent = [t \in Threads |-> {}]
          /\ \/ service = "registry" /\ local = << >> /\ remote = << >>
             \/ service = "board" /\ local = << >> /\ remote = << >>
             \/ service = "merge" /\ local \in SmallLists /\ remote \in SmallLists

MCNext == \/ /\ service = "registry" /\ Next /\ Listen
             /\ UNCHANGED <<service, boardVars, mergeVars>>
          \/ /\ service = "board" /\ Board!Next
             /\ UNCHANGED <<service, vars, silent, mergeVars>>
          \/ MergeLists /\ UNCHANGED <<vars, silent, boardVars>>

MCSpec == MCInit /\ [][MCNext]_<<service, vars, silent, boardVars, mergeVars>>

ServiceSymmetry ==
  Permutations(Agents) \cup Permutations(Caps) \cup Permutations(Threads)
    \cup Permutations(Lists)

-----------------------------------------------------------------------------
\* The types of the registry and of the task board.
TypesOK == TypeOK /\ Board!TypeOK

(* A CheckStaleAgents that reports no error leaves every agent offline that *)
(* was stale when it looked, has given no sign of life since and has been  *)
(* worked on by nobody else (service.go of registry, 178-198): no agent is *)
(* passed over, and a heartbeat without an agent is an error.              *)
NoErrorMeansMarked ==
  [][\A t \in Threads : pc[t] \in {"next", "marked"} /\ pc'[t] = "idle"
        => \A a \in silent[t] : store'[a].status = "offline"]_<<vars, silent>>

(* What the task board promises its subscribers (service.go of taskboard,  *)
(* 37-64 and 103-133).                                                     *)
BoardSubscribersInStep == Board!SubscribersInStep
BoardLeavesGoneAlone == Board!GoneAreLeftAlone

Finished == service = "merged"

(* Merge keeps exactly one item of each id, the newest of the remote ones  *)
(* where it is newer than the local one and the local one otherwise,       *)
(* whatever duplicates the two slices hold (service.go:175-193); for lists *)
(* that Publish accepts it is what TodoMerge defines on lists by id.       *)
MergeKeepsNewest == Finished => Todo!KeepsNewest(merged, local, remote, NoId)

(* The result is in the order of creation (sortByTime, 208-217).           *)
MergeIsSorted == Finished => Todo!Sorted(merged)

-----------------------------------------------------------------------------
(* The laws TodoProofs proves, on the clocks and lists there are here. *)

SmallClocks == [Agents -> 0 .. 2]
ASSUME ClockLaws ==
  \A v, w \in SmallClocks :
    /\ Clock!Compare(v, w) = 1 <=> v # w /\ Clock!Within(w, v)
    /\ Clock!Compare(v, w) = -Clock!Compare(w, v)
    /\ Clock!Within(v, Clock!Merge(v, w)) /\ Clock!Within(w, Clock!Merge(v, w))
    /\ \A u \in SmallClocks : Clock!Within(v, u) /\ Clock!Within(w, u)
                                => Clock!Within(Clock!Merge(v, w), u)
    /\ \A a \in Agents : Clock!Compare(Clock!Increment(v, a), v) = 1
=============================================================================
