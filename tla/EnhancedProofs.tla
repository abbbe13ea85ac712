--------------------------- MODULE EnhancedProofs ---------------------------
(***************************************************************************)
(* Theorems about EnhancedServer, for any agents, connections and messages *)
(* and any number of restarts.                                             *)
(***************************************************************************)
EXTENDS EnhancedServer, TLAPS

-----------------------------------------------------------------------------
(* The types.  That a message is written to a connection at most once is a *)
(* theorem below; until then the copies are numbers.                       *)

\* A direct message is in the handler's hand.
Holding == {"check", "filter", "write", "enqueue"}
\* A batch of queued messages is being written, or has been.
Sending == {"deliver send", "fetch send"}
Clearing == {"deliver clear", "fetch clear"}

LockType == /\ announced \in Conns \cup {Stopper, NoConn}
            /\ readers \in SUBSET Conns
MemoryType == /\ connections \in [Agents -> Conns \cup {NoConn}]
              /\ filter \in [Agents -> {"all", "direct", "other"}]
DbType == /\ status \in [Agents -> {"absent", "online", "offline"}]
          /\ sentTo \in [Msgs -> Agents \cup {NoAgent}]
          /\ saved \in SUBSET Msgs
          /\ offline \in [Agents -> SUBSET Msgs]
LocalType == /\ owner \in [Conns -> Agents \cup {NoAgent}]
             /\ batch \in [Conns -> SUBSET Msgs]
             /\ scan \in [Conns -> SUBSET Conns]
             /\ targets \in [Conns -> SUBSET Conns]
             /\ msg \in [Conns -> Msgs \cup {NoMsg}]
             /\ found \in [Conns -> Conns \cup {NoConn}]
             /\ seen \in [Conns -> {"absent", "online", "offline"}]
CopyType == copies \in [Conns -> [Msgs -> Nat]]
LifeType == /\ open \in [Conns -> BOOLEAN] /\ stalled \subseteq MayStall
            /\ ctxDone \in BOOLEAN
            /\ stopPc \in {"idle", "lock", "sweep", "wait", "returned"}
            /\ restarts \in 0 .. MaxRestarts
            /\ overlapped \subseteq Agents /\ queued \subseteq Msgs

\* What a handler has at each point: an agent once it has registered one, a
\* message with a recipient in its hand, a connection it has looked up.
Placed ==
  \A c \in Conns :
    /\ hpc[c] \in {"unborn", "await"} => owner[c] = NoAgent
    /\ hpc[c] \in Entering \cup Serving \cup Leaving => owner[c] \in Agents
    /\ hpc[c] \in Holding => msg[c] \in Msgs /\ sentTo[msg[c]] \in Agents
    /\ hpc[c] \in {"filter", "write"} => found[c] \in Conns

TypeInv == /\ LockType /\ MemoryType /\ DbType /\ LocalType /\ CopyType /\ LifeType
           /\ hpc \in [Conns -> Labels]
           /\ Placed

-----------------------------------------------------------------------------
LEMMA InitType == Init => TypeInv
<1> SUFFICES ASSUME Init PROVE TypeInv
  OBVIOUS
<1>1. LockType /\ MemoryType /\ DbType
  BY DEF Init, LockType, MemoryType, DbType
<1>2. LocalType /\ CopyType
  BY DEF Init, LocalType, CopyType
<1>3. LifeType
  <2>1. open \in [Conns -> BOOLEAN] /\ ctxDone \in BOOLEAN
    BY Zenon DEF Init
  <2> QED BY <2>1, BoundsAssumption DEF Init, LifeType
<1>4. hpc \in [Conns -> Labels] /\ Placed
  BY DEF Init, Labels, Placed, Entering, Serving, Leaving, Holding
<1> QED BY <1>1, <1>2, <1>3, <1>4 DEF TypeInv

\* A handler goes on: what it needs at the new point it has to have.
LEMMA MoveType ==
  ASSUME TypeInv, NEW c \in Conns, NEW label \in Labels, Goto(c, label),
         UNCHANGED <<owner, sentTo>>,
         \A d \in Conns \ {c} : msg'[d] = msg[d] /\ found'[d] = found[d],
         label \notin {"unborn", "await"} \cup Holding,
         label \in Entering \cup Serving \cup Leaving => owner[c] \in Agents
  PROVE  hpc' \in [Conns -> Labels] /\ Placed'
<1>1. /\ hpc' \in [Conns -> Labels] /\ hpc'[c] = label
      /\ \A d \in Conns \ {c} : hpc'[d] = hpc[d]
  BY DEF Goto, TypeInv
<1>2. ASSUME NEW d \in Conns
      PROVE  /\ hpc'[d] \in {"unborn", "await"} => owner'[d] = NoAgent
             /\ hpc'[d] \in Entering \cup Serving \cup Leaving => owner'[d] \in Agents
             /\ hpc'[d] \in Holding => msg'[d] \in Msgs /\ sentTo'[msg'[d]] \in Agents
             /\ hpc'[d] \in {"filter", "write"} => found'[d] \in Conns
  <2>1. CASE d = c
    BY <1>1, <2>1 DEF Holding
  <2>2. CASE d # c
    BY <1>1, <2>2 DEF TypeInv, Placed
  <2> QED BY <2>1, <2>2
<1> QED BY <1>1, <1>2 DEF Placed

\* The actions that move a handler and change the mutex or nothing else.
LEMMA SimpleType ==
  ASSUME TypeInv, NEW c \in Conns,
         Lock(c) \/ Greet(c) \/ SendOfflineDone(c) \/ LoopTop(c) \/ ReadEnds(c)
           \/ Reply(c) \/ SpreadEnd(c) \/ ReadLocal(c) \/ ReadBroadcast(c)
           \/ ReadPublishTodo(c) \/ ReadSubscribe(c) \/ ReadGetOffline(c)
  PROVE  TypeInv'
<1>1. UNCHANGED <<memory, db, locals, sockets, copies, life, history>> /\ LockType'
  BY DEF Lock, Announce, Greet, SendOfflineDone, LoopTop, ReadEnds, Reply, SpreadEnd,
     ReadLocal, ReadBroadcast, ReadPublishTodo, ReadSubscribe, ReadGetOffline, ReadTo,
     lockVars, TypeInv, LockType
<1>2. PICK label \in (Entering \cup Serving \cup Leaving) \ Holding : Goto(c, label)
  BY DEF Lock, Greet, SendOfflineDone, LoopTop, ReadEnds, Reply, SpreadEnd, ReadLocal,
     ReadBroadcast, ReadPublishTodo, ReadSubscribe, ReadGetOffline, ReadTo, Entering, Serving,
     Leaving, Holding
<1>3. owner[c] \in Agents
  BY DEF Lock, Greet, SendOfflineDone, LoopTop, ReadEnds, Reply, SpreadEnd, ReadLocal,
     ReadBroadcast, ReadPublishTodo, ReadSubscribe, ReadGetOffline, ReadTo, Entering, Serving,
     Leaving, TypeInv, Placed
<1>4. label \in Labels /\ label \notin {"unborn", "await"}
  BY DEF Labels, Entering, Serving, Leaving
<1>5. hpc' \in [Conns -> Labels] /\ Placed'
  BY <1>1, <1>2, <1>3, <1>4, MoveType DEF locals, db
<1>6. MemoryType' /\ DbType' /\ LocalType'
  BY <1>1 DEF TypeInv, MemoryType, DbType, LocalType, memory, db, locals
<1>7. CopyType' /\ LifeType'
  BY <1>1 DEF TypeInv, CopyType, LifeType, life, history, sockets
<1> QED BY <1>1, <1>5, <1>6, <1>7 DEF TypeInv

LEMMA TableType ==
  ASSUME TypeInv, NEW c \in Conns,
         SaveOnline(c) \/ SaveBack(c) \/ MarkOffline(c) \/ ReadGetAgent(c)
           \/ Register(c) \/ Subscribe(c) \/ Leave(c) \/ CloseConn(c)
  PROVE  TypeInv'
<1>1. PICK label \in ({"ended"} \cup Entering \cup Serving \cup Leaving) \ Holding :
        Goto(c, label)
  BY DEF SaveOnline, SaveBack, MarkOffline, ReadGetAgent, Register, Subscribe, Leave,
     CloseConn, Entering, Serving, Leaving, Holding
<1>2. owner[c] \in Agents
  BY DEF SaveOnline, SaveBack, MarkOffline, ReadGetAgent, Register, Subscribe, Leave,
     CloseConn, Entering, Serving, Leaving, TypeInv, Placed
<1>3. UNCHANGED <<owner, batch, scan, targets, msg, found, sentTo, saved, offline, copies>>
  BY DEF SaveOnline, SaveBack, MarkOffline, ReadGetAgent, Register, Subscribe, Leave,
     CloseConn, locals, db
<1>4. label \in Labels /\ label \notin {"unborn", "await"}
  BY DEF Labels, Entering, Serving, Leaving
<1>5. hpc' \in [Conns -> Labels] /\ Placed'
  BY <1>1, <1>2, <1>3, <1>4, MoveType
<1>6. LockType'
  BY DEF SaveOnline, SaveBack, MarkOffline, ReadGetAgent, Register, Subscribe, Leave,
     CloseConn, Exclusive, lockVars, TypeInv, LockType
<1>7. MemoryType'
  <2>1. CASE Subscribe(c)
    <3>1. PICK f \in Filters : filter' = [filter EXCEPT ![owner[c]] = f]
      BY <2>1 DEF Subscribe
    <3> QED BY <1>2, <2>1, <3>1, BoundsAssumption
            DEF Subscribe, TypeInv, MemoryType
  <2>2. CASE Register(c) \/ Leave(c)
    BY <1>2, <2>2 DEF Register, Leave, Entered, TypeInv, MemoryType
  <2>3. CASE ~(Subscribe(c) \/ Register(c) \/ Leave(c))
    BY <2>3 DEF SaveOnline, SaveBack, MarkOffline, ReadGetAgent, CloseConn, memory,
       TypeInv, MemoryType
  <2> QED BY <2>1, <2>2, <2>3
<1>8. status' \in [Agents -> {"absent", "online", "offline"}]
  BY <1>2 DEF SaveOnline, SaveBack, MarkOffline, ReadGetAgent, Register, Subscribe,
     Leave, CloseConn, SaveAgent, Gone, db, TypeInv, DbType, LocalType
<1>9. DbType'
  BY <1>3, <1>8 DEF TypeInv, DbType
<1>10. seen' \in [Conns -> {"absent", "online", "offline"}]
  BY <1>2 DEF SaveOnline, SaveBack, MarkOffline, ReadGetAgent, Register, Subscribe,
     Leave, CloseConn, locals, TypeInv, LocalType, DbType
<1>11. LocalType' /\ CopyType'
  BY <1>3, <1>10 DEF TypeInv, LocalType, CopyType
<1>12. open' \in [Conns -> BOOLEAN] /\ stalled' = stalled
  BY DEF SaveOnline, SaveBack, MarkOffline, ReadGetAgent, Register, Subscribe, Leave,
     CloseConn, sockets, TypeInv, LifeType
<1>13. UNCHANGED <<life, history>>
  BY DEF SaveOnline, SaveBack, MarkOffline, ReadGetAgent, Register, Subscribe, Leave,
     CloseConn
<1>14. LifeType'
  BY <1>12, <1>13 DEF TypeInv, LifeType, life, history
<1> QED BY <1>5, <1>6, <1>7, <1>9, <1>11, <1>14 DEF TypeInv

\* The delivery of a queue.
LEMMA DeliveryType ==
  ASSUME TypeInv, NEW c \in Conns,
         GetOffline(c) \/ (\E m \in Msgs : SendOffline(c, m)) \/ ClearOffline(c)
  PROVE  TypeInv'
<1>1. /\ UNCHANGED <<lockVars, memory, status, sentTo, saved>>
      /\ UNCHANGED <<owner, scan, targets, msg, found, seen, sockets, life, history>>
  BY DEF GetOffline, SendOffline, ClearOffline, db, locals
<1>2. owner[c] \in Agents
  BY DEF GetOffline, SendOffline, ClearOffline, Entering, Serving, TypeInv, Placed
<1>3. LockType' /\ MemoryType' /\ LifeType'
  BY <1>1 DEF TypeInv, LockType, MemoryType, LifeType, lockVars, memory, life, history,
     sockets
<1>4. CASE GetOffline(c)
  <2>1. PICK label \in (Entering \cup Serving) \ Holding : Goto(c, label)
    BY <1>4 DEF GetOffline, Entering, Serving, Holding
  <2>2. label \in Labels /\ label \notin {"unborn", "await"}
    BY DEF Labels, Entering, Serving
  <2>3. hpc' \in [Conns -> Labels] /\ Placed'
    BY <1>1, <1>2, <2>1, <2>2, MoveType
  <2>4. batch' \in [Conns -> SUBSET Msgs]
    BY <1>2, <1>4 DEF GetOffline, Queue, TypeInv, LocalType, DbType
  <2>5. UNCHANGED <<offline, copies>>
    BY <1>4 DEF GetOffline, db
  <2> QED BY <1>1, <1>3, <2>3, <2>4, <2>5 DEF TypeInv, LocalType, DbType, CopyType
<1>5. CASE \E m \in Msgs : SendOffline(c, m)
  <2>1. PICK m \in Msgs : SendOffline(c, m)
    BY <1>5
  <2>2. copies' \in [Conns -> [Msgs -> Nat]]
    <3>1. copies' = copies \/ copies' = [copies EXCEPT ![c][m] = @ + 1]
      BY <2>1 DEF SendOffline, Deliver
    <3> QED BY <3>1 DEF TypeInv, CopyType
  <2>3. batch' \in [Conns -> SUBSET Msgs] /\ hpc' = hpc /\ offline' = offline
    BY <2>1 DEF SendOffline, TypeInv, LocalType, db
  <2>4. Placed'
    BY <1>1, <2>3 DEF TypeInv, Placed
  <2> QED BY <1>1, <1>3, <2>2, <2>3, <2>4 DEF TypeInv, LocalType, DbType, CopyType
<1>6. CASE ClearOffline(c)
  <2>1. PICK label \in {"notify", "reply"} : Goto(c, label)
    BY <1>6 DEF ClearOffline
  <2>2. label \in Labels /\ label \notin {"unborn", "await"} \cup Holding
    BY DEF Labels, Serving, Holding
  <2>3. hpc' \in [Conns -> Labels] /\ Placed'
    BY <1>1, <1>2, <2>1, <2>2, MoveType
  <2>4. offline' \in [Agents -> SUBSET Msgs]
    BY <1>2, <1>6 DEF ClearOffline, Cleared, TypeInv, DbType
  <2>5. UNCHANGED <<batch, copies>>
    BY <1>6 DEF ClearOffline, locals
  <2> QED BY <1>1, <1>3, <2>3, <2>4, <2>5 DEF TypeInv, LocalType, DbType, CopyType
<1> QED BY <1>4, <1>5, <1>6

\* The loops over the map.
LEMMA ScanType ==
  ASSUME TypeInv, NEW c \in Conns,
         ScanStart(c) \/ ScanOne(c) \/ ScanEnd(c) \/ CollectEnd(c) \/ SpreadOne(c)
           \/ WriteEvent(c)
  PROVE  TypeInv'
<1>1. /\ UNCHANGED <<announced, memory, db, owner, batch, msg, found, seen>>
      /\ UNCHANGED <<sockets, copies, life, history>>
  BY DEF ScanStart, ScanOne, ScanEnd, CollectEnd, SpreadOne, WriteEvent, lockVars,
     locals
<1>2. owner[c] \in Agents
  BY DEF ScanStart, ScanOne, ScanEnd, CollectEnd, SpreadOne, WriteEvent, LoopOf, Loops,
     EventLoops, Serving, Leaving, TypeInv, Placed
<1>3. LockType'
  BY <1>1 DEF ScanStart, ScanOne, ScanEnd, CollectEnd, SpreadOne, WriteEvent, lockVars,
     TypeInv, LockType
<1>4. /\ scan' \in [Conns -> SUBSET Conns]
      /\ targets' \in [Conns -> SUBSET Conns]
  <2>1. CASE ScanStart(c)
    <3>1. {connections[a] : a \in Agents \ Skipped(c)} \ {NoConn} \in SUBSET Conns
      BY DEF TypeInv, MemoryType
    <3> QED BY <2>1, <3>1 DEF ScanStart, TypeInv, LocalType
  <2>2. CASE ScanOne(c) \/ SpreadOne(c)
    <3>1. PICK d \in scan[c] :
            /\ scan' = [scan EXCEPT ![c] = @ \ {d}]
            /\ \/ targets' = targets
               \/ targets' = [targets EXCEPT ![c] = {d}]
               \/ targets' = [targets EXCEPT ![c] = @ \cup {d}]
      BY <2>2 DEF ScanOne, SpreadOne, EventTo
    <3> QED BY <3>1 DEF TypeInv, LocalType
  <2>3. CASE ScanEnd(c)
    BY <2>3 DEF ScanEnd, locals, TypeInv, LocalType
  <2>4. CASE CollectEnd(c)
    BY <2>4 DEF CollectEnd, TypeInv, LocalType
  <2>5. CASE WriteEvent(c)
    <3>1. PICK d \in targets[c] : targets' = [targets EXCEPT ![c] = @ \ {d}]
      BY <2>5 DEF WriteEvent
    <3> QED BY <2>5, <3>1 DEF WriteEvent, TypeInv, LocalType
  <2> QED BY <2>1, <2>2, <2>3, <2>4, <2>5
<1>5. hpc' \in [Conns -> Labels] /\ Placed'
  <2>1. CASE ScanOne(c) \/ SpreadOne(c) \/ WriteEvent(c)
    BY <1>1, <2>1 DEF ScanOne, SpreadOne, WriteEvent, db, TypeInv, Placed
  <2>2. CASE ScanStart(c) \/ ScanEnd(c) \/ CollectEnd(c)
    <3>1. PICK label \in Loops \cup {"loop", "reply", "close", "spread"} :
            Goto(c, label)
      BY <2>2 DEF ScanStart, ScanEnd, CollectEnd, LoopOf, Loops, EventLoops
    <3>2. label \in Labels /\ label \notin {"unborn", "await"} \cup Holding
      BY DEF Labels, Serving, Leaving, Holding, Loops, EventLoops
    <3> QED BY <1>1, <1>2, <3>1, <3>2, MoveType DEF db
  <2> QED BY <2>1, <2>2
<1>6. MemoryType' /\ DbType' /\ CopyType' /\ LifeType'
  BY <1>1 DEF TypeInv, MemoryType, DbType, CopyType, LifeType, memory, db, life,
     history, sockets
<1>7. LocalType'
  BY <1>1, <1>4 DEF TypeInv, LocalType
<1> QED BY <1>3, <1>5, <1>6, <1>7 DEF TypeInv

\* A direct message, from the request to the end of the look-up.
LEMMA DirectType ==
  ASSUME TypeInv, NEW c \in Conns,
         (\E m \in Msgs, a \in Agents : ReadSend(c, m, a)) \/ CheckOnline(c)
           \/ CheckFilter(c) \/ WriteDirect(c) \/ QueueOffline(c)
  PROVE  TypeInv'
<1>1. /\ UNCHANGED <<lockVars, memory, status, owner, batch, scan, targets, seen>>
      /\ UNCHANGED <<sockets, life, restarts, overlapped>>
  BY DEF ReadSend, CheckOnline, CheckFilter, WriteDirect, QueueOffline, Dropped,
     locals, db, history
<1>2. owner[c] \in Agents
  BY DEF ReadSend, CheckOnline, CheckFilter, WriteDirect, QueueOffline, Serving,
     TypeInv, Placed
<1>3. LockType' /\ MemoryType'
  BY <1>1 DEF TypeInv, LockType, MemoryType, lockVars, memory
<1>4. CASE \E m \in Msgs, a \in Agents : ReadSend(c, m, a)
  <2>1. PICK m \in Msgs, a \in Agents : ReadSend(c, m, a)
    BY <1>4
  <2>2. /\ sentTo' = [sentTo EXCEPT ![m] = a] /\ sentTo[m] = NoAgent
        /\ msg' = [msg EXCEPT ![c] = m] /\ hpc' = [hpc EXCEPT ![c] = "check"]
        /\ saved' \in SUBSET Msgs
        /\ UNCHANGED <<offline, found, copies, queued>>
    BY <2>1 DEF ReadSend, SaveMessage, Goto, history, TypeInv, DbType
  <2>3. \A d \in Conns : sentTo[msg[d]] \in Agents => msg[d] # m
    BY <2>2, NullsAssumption
  <2>4. hpc' \in [Conns -> Labels] /\ Placed'
    <3>1. hpc' \in [Conns -> Labels]
      BY <2>2 DEF TypeInv, Labels, Serving
    <3>2. /\ hpc'[c] = "check" /\ msg'[c] = m /\ sentTo'[m] = a
      BY <2>2 DEF TypeInv, LocalType, DbType
    <3>3. \A d \in Conns \ {c} : hpc'[d] = hpc[d] /\ msg'[d] = msg[d]
      BY <2>2 DEF TypeInv, LocalType
    <3>4. \A n \in Msgs \ {m} : sentTo'[n] = sentTo[n]
      BY <2>2 DEF TypeInv, DbType
    <3>5. ASSUME NEW d \in Conns \ {c}, hpc[d] \in Holding
          PROVE  msg'[d] \in Msgs /\ sentTo'[msg'[d]] \in Agents
      BY <2>3, <3>3, <3>4, <3>5 DEF TypeInv, Placed
    <3>6. ASSUME NEW d \in Conns
          PROVE  /\ hpc'[d] \in {"unborn", "await"} => owner'[d] = NoAgent
                 /\ hpc'[d] \in Entering \cup Serving \cup Leaving => owner'[d] \in Agents
                 /\ hpc'[d] \in Holding =>
                      msg'[d] \in Msgs /\ sentTo'[msg'[d]] \in Agents
                 /\ hpc'[d] \in {"filter", "write"} => found'[d] \in Conns
      <4>1. CASE d = c
        BY <1>1, <1>2, <3>2, <4>1
      <4>2. CASE d # c
        BY <1>1, <2>2, <3>3, <3>5, <4>2 DEF TypeInv, Placed
      <4> QED BY <4>1, <4>2
    <3> QED BY <3>1, <3>6 DEF Placed
  <2>5. DbType' /\ LocalType' /\ CopyType'
    BY <1>1, <2>2 DEF TypeInv, DbType, LocalType, CopyType
  <2>6. LifeType'
    BY <1>1, <2>2 DEF TypeInv, LifeType, life, sockets
  <2> QED BY <1>3, <2>4, <2>5, <2>6 DEF TypeInv
<1>5. CASE CheckOnline(c)
  <2>1. /\ msg[c] \in Msgs /\ sentTo[msg[c]] \in Agents
        /\ connections[To(c)] \in Conns \cup {NoConn}
    BY <1>5 DEF CheckOnline, To, TypeInv, Placed, Holding, MemoryType
  <2>2. /\ found' = [found EXCEPT ![c] = connections[To(c)]]
        /\ hpc' = [hpc EXCEPT ![c] =
                      IF connections[To(c)] = NoConn THEN "enqueue" ELSE "filter"]
        /\ UNCHANGED <<db, msg, copies, history>>
    BY <1>5 DEF CheckOnline, Goto
  <2>3. hpc' \in [Conns -> Labels] /\ Placed'
    BY <1>1, <1>2, <2>1, <2>2
       DEF TypeInv, Placed, LocalType, db, Labels, Entering, Serving, Leaving, Holding
  <2> QED BY <1>1, <1>3, <2>1, <2>2, <2>3
          DEF TypeInv, DbType, LocalType, CopyType, LifeType, db, life, history,
              sockets
<1>6. CASE CheckFilter(c) /\ filter[To(c)] # "other"
  <2>1. /\ hpc[c] = "filter" /\ hpc' = [hpc EXCEPT ![c] = "write"]
        /\ UNCHANGED <<db, msg, found, copies, history>>
    BY <1>6 DEF CheckFilter, Goto, locals
  <2>2. hpc' \in [Conns -> Labels] /\ Placed'
    BY <1>1, <1>2, <2>1
       DEF TypeInv, Placed, db, Labels, Entering, Serving, Leaving, Holding
  <2> QED BY <1>1, <1>3, <2>1, <2>2
          DEF TypeInv, DbType, LocalType, CopyType, LifeType, db, life, history,
              sockets
<1>7. CASE (CheckFilter(c) /\ filter[To(c)] = "other") \/ WriteDirect(c)
             \/ QueueOffline(c)
  <2>1. /\ Goto(c, "loop") /\ Dropped(c) /\ UNCHANGED <<sentTo, saved>>
        /\ hpc[c] \in Holding
    BY <1>7 DEF CheckFilter, WriteDirect, QueueOffline, db, Holding
  <2>2. msg[c] \in Msgs /\ sentTo[msg[c]] \in Agents
    BY <2>1 DEF TypeInv, Placed
  <2>3. "loop" \in Labels /\ "loop" \notin {"unborn", "await"} \cup Holding
    BY DEF Labels, Serving, Holding
  <2>4. \A d \in Conns \ {c} : msg'[d] = msg[d] /\ found'[d] = found[d]
    BY <2>1 DEF Dropped, TypeInv, LocalType
  <2>5. hpc' \in [Conns -> Labels] /\ Placed'
    BY <1>1, <1>2, <2>1, <2>3, <2>4, MoveType
  <2>6. LocalType'
    BY <1>1, <2>1 DEF Dropped, TypeInv, LocalType
  <2>7. CopyType'
    <3>1. CASE WriteDirect(c)
      BY <2>2, <3>1 DEF WriteDirect, Deliver, TypeInv, Placed, CopyType
    <3>2. CASE CheckFilter(c) \/ QueueOffline(c)
      BY <3>2 DEF CheckFilter, QueueOffline, TypeInv, CopyType
    <3> QED BY <1>7, <3>1, <3>2
  <2>8. offline' \in [Agents -> SUBSET Msgs] /\ queued' \subseteq Msgs
    <3>1. CASE QueueOffline(c)
      BY <2>2, <3>1 DEF QueueOffline, To, TypeInv, DbType, LifeType
    <3>2. CASE WriteDirect(c) \/ CheckFilter(c)
      BY <3>2 DEF CheckFilter, WriteDirect, db, history, TypeInv, DbType, LifeType
    <3> QED BY <1>7, <3>1, <3>2
  <2>9. DbType' /\ LifeType'
    BY <1>1, <2>1, <2>8 DEF TypeInv, DbType, LifeType, life, sockets
  <2> QED BY <1>3, <2>5, <2>6, <2>7, <2>9 DEF TypeInv
<1> QED BY <1>4, <1>5, <1>6, <1>7

\* What the clients do besides making requests.
LEMMA ClientType ==
  ASSUME TypeInv, NEW c \in Conns,
         Connect(c) \/ Disconnect(c) \/ PeerStops(c) \/ AwaitFails(c)
           \/ \E a \in Agents : AwaitRegistration(c, a)
  PROVE  TypeInv'
<1>1. /\ UNCHANGED <<lockVars, memory, db, batch, scan, targets, msg, found, seen>>
      /\ UNCHANGED <<copies, life, restarts, queued>>
  BY DEF Connect, Disconnect, PeerStops, AwaitFails, AwaitRegistration, locals, history
<1>2. LockType' /\ MemoryType' /\ DbType' /\ CopyType'
  BY <1>1 DEF TypeInv, LockType, MemoryType, DbType, CopyType, lockVars, memory, db
<1>3. /\ open' \in [Conns -> BOOLEAN] /\ stalled' \subseteq MayStall
      /\ overlapped' \subseteq Agents
  BY DEF Connect, Disconnect, PeerStops, AwaitFails, AwaitRegistration, history,
     sockets, TypeInv, LifeType
<1>4. LifeType'
  BY <1>1, <1>3 DEF TypeInv, LifeType, life
<1>5. CASE Disconnect(c) \/ PeerStops(c)
  BY <1>1, <1>2, <1>4, <1>5
     DEF Disconnect, PeerStops, TypeInv, Placed, LocalType, locals, db
<1>6. CASE Connect(c) \/ AwaitFails(c)
  <2>1. PICK label \in {"await", "ended"} : hpc' = [hpc EXCEPT ![c] = label]
    BY <1>6 DEF Connect, AwaitFails, Goto
  <2>2. UNCHANGED owner /\ owner[c] = NoAgent
    BY <1>6 DEF Connect, AwaitFails, locals, TypeInv, Placed
  <2>3. hpc' \in [Conns -> Labels] /\ Placed'
    BY <1>1, <2>1, <2>2
       DEF TypeInv, Placed, db, Labels, Entering, Serving, Leaving, Holding
  <2> QED BY <1>1, <1>2, <1>4, <2>2, <2>3 DEF TypeInv, LocalType
<1>7. CASE \E a \in Agents : AwaitRegistration(c, a)
  <2>1. PICK a \in Agents : AwaitRegistration(c, a)
    BY <1>7
  <2>2. /\ owner' = [owner EXCEPT ![c] = a]
        /\ hpc' = [hpc EXCEPT ![c] = "register"]
    BY <2>1 DEF AwaitRegistration, Goto
  <2>3. hpc' \in [Conns -> Labels] /\ Placed'
    BY <1>1, <2>2
       DEF TypeInv, Placed, LocalType, db, Labels, Entering, Serving, Leaving, Holding
  <2> QED BY <1>1, <1>2, <1>4, <2>2, <2>3 DEF TypeInv, LocalType
<1> QED BY <1>5, <1>6, <1>7

LEMMA StopType ==
  ASSUME TypeInv, Cancel \/ StopSteps
  PROVE  TypeInv'
<1>1. /\ UNCHANGED <<memory, db, hpc, locals, copies, history>>
  BY DEF Cancel, StopSteps, StopLock, StopSweep, StopReturn
<1>2. LockType'
  BY DEF Cancel, StopSteps, StopLock, StopSweep, StopReturn, Announce, Exclusive,
     lockVars, TypeInv, LockType
<1>3. open' \in [Conns -> BOOLEAN] /\ stalled' = stalled
  <2>1. CASE StopSweep
    BY <2>1, Zenon DEF StopSweep, sockets, TypeInv, LifeType
  <2>2. CASE Cancel \/ StopLock \/ StopReturn
    BY <2>2 DEF Cancel, StopLock, StopReturn, sockets, TypeInv, LifeType
  <2> QED BY <2>1, <2>2 DEF StopSteps
<1>4. /\ ctxDone' \in BOOLEAN
      /\ stopPc' \in {"idle", "lock", "sweep", "wait", "returned"}
  BY DEF Cancel, StopSteps, StopLock, StopSweep, StopReturn, TypeInv, LifeType
<1>5. MemoryType' /\ DbType' /\ LocalType' /\ CopyType'
  BY <1>1 DEF TypeInv, MemoryType, DbType, LocalType, CopyType, memory, db, locals
<1>6. LifeType' /\ Placed'
  BY <1>1, <1>3, <1>4 DEF TypeInv, LifeType, Placed, history, locals, db
<1> QED BY <1>1, <1>2, <1>5, <1>6 DEF TypeInv

LEMMA RestartType ==
  ASSUME TypeInv, Restart
  PROVE  TypeInv'
<1>1. UNCHANGED <<db, owner, copies, overlapped, queued>>
  BY DEF Restart
<1>2. LockType' /\ MemoryType'
  BY DEF Restart, LockType, MemoryType
<1>3. /\ batch' \in [Conns -> SUBSET Msgs] /\ scan' \in [Conns -> SUBSET Conns]
      /\ targets' \in [Conns -> SUBSET Conns]
      /\ msg' \in [Conns -> Msgs \cup {NoMsg}]
      /\ found' \in [Conns -> Conns \cup {NoConn}]
      /\ seen' \in [Conns -> {"absent", "online", "offline"}]
  BY DEF Restart
<1>4. DbType' /\ LocalType' /\ CopyType'
  BY <1>1, <1>3 DEF TypeInv, DbType, LocalType, CopyType, db
<1>5. open' \in [Conns -> BOOLEAN] /\ stalled' \subseteq MayStall
  BY Zenon DEF Restart
<1>6. /\ restarts' \in 0 .. MaxRestarts
      /\ ctxDone' \in BOOLEAN /\ stopPc' = "idle"
  <2>1. ctxDone' \in BOOLEAN /\ stopPc' = "idle"
    BY Zenon DEF Restart
  <2>2. restarts' \in 0 .. MaxRestarts
    BY BoundsAssumption DEF Restart, TypeInv, LifeType
  <2> QED BY <2>1, <2>2
<1>7. LifeType'
  BY <1>1, <1>5, <1>6 DEF TypeInv, LifeType
<1>8. hpc' \in [Conns -> Labels] /\ Placed'
  <2>1. /\ \A c \in Conns : hpc'[c] \in {"unborn", "past"}
        /\ \A c \in Conns : hpc'[c] = "unborn" => hpc[c] = "unborn"
        /\ hpc' \in [Conns -> {"unborn", "past"}]
    BY DEF Restart
  <2>2. {"unborn", "past"} \subseteq Labels
    BY DEF Labels
  <2>3. {"unborn", "past"} \cap (Entering \cup Serving \cup Leaving \cup Holding) = {}
    BY DEF Entering, Serving, Leaving, Holding
  <2> QED BY <1>1, <2>1, <2>2, <2>3 DEF TypeInv, Placed, Holding
<1> QED BY <1>2, <1>4, <1>7, <1>8 DEF TypeInv

LEMMA StepType ==
  ASSUME TypeInv, [Next]_vars
  PROVE  TypeInv'
<1>1. CASE UNCHANGED vars
  BY <1>1 DEF TypeInv, LockType, MemoryType, DbType, LocalType, CopyType, LifeType,
     Placed, vars, lockVars, memory, db, locals, sockets, life, history
<1>2. CASE \E c \in Conns : Handle(c) \/ Client(c)
  BY <1>2, SimpleType, TableType, DeliveryType, ScanType, DirectType, ClientType
     DEF Handle, Client
<1>3. CASE Cancel \/ StopSteps \/ Restart
  BY <1>3, StopType, RestartType
<1> QED BY <1>1, <1>2, <1>3 DEF Next

LEMMA TypeInvHolds == Spec => []TypeInv
<1> QED BY InitType, StepType, PTL DEF Spec

-----------------------------------------------------------------------------
(* The steps by what they mean for messages and owners.  Most leave all of *)
(* it alone: Still steps move no handler, Quiet ones move a handler that   *)
(* has neither a message in its hand nor a batch.                          *)

tracked == <<connections, sentTo, saved, offline, owner, batch, msg, found, copies,
             overlapped, queued>>

\* Where a handler may be that has its agent's entry in the map.
InMap == (Entering \ {"register", "register wait"}) \cup Serving
           \cup {"leave", "leave wait"}

Busy == Holding \cup Sending \cup Clearing

\* The connections that are no more, and the sockets, which only get closed.
Parted == {"ended", "past"}
Closing == \A d \in Conns : open'[d] => open[d]

Still == UNCHANGED <<tracked, hpc>> /\ (ctxDone' = ctxDone \/ ctxDone') /\ Closing

Quiet(c) == /\ UNCHANGED <<tracked, ctxDone>> /\ Closing
            /\ \A d \in Conns \ {c} : hpc'[d] = hpc[d]
            /\ hpc[c] \notin Busy \cup Parted
            /\ hpc'[c] \notin Busy \cup {"unborn"}
            /\ hpc'[c] \in Parted => ~open'[c]
            /\ hpc'[c] \in InMap => hpc[c] \in InMap

Direct(c) == \/ \E m \in Msgs, a \in Agents : ReadSend(c, m, a)
             \/ CheckOnline(c) \/ CheckFilter(c) \/ WriteDirect(c) \/ QueueOffline(c)
Deliveries(c) == \/ GetOffline(c) \/ (\E m \in Msgs : SendOffline(c, m))
                 \/ SendOfflineDone(c) \/ ClearOffline(c)
Entries(c) == Register(c) \/ Leave(c) \/ \E a \in Agents : AwaitRegistration(c, a)

\* A socket that is closed stays closed.
LEMMA ClosingSteps ==
  ASSUME TypeInv,
         \/ UNCHANGED vars \/ Cancel \/ StopSteps
         \/ \E c \in Conns : Handle(c) \/ Client(c)
  PROVE  Closing
<1>0. open \in [Conns -> BOOLEAN]
  BY DEF TypeInv, LifeType
<1>1. CASE UNCHANGED open
  BY <1>1 DEF Closing
<1>2. ASSUME NEW c \in Conns, open' = [open EXCEPT ![c] = FALSE]
      PROVE  Closing
  BY <1>0, <1>2, Zenon DEF Closing
<1>3. CASE StopSweep
  BY <1>3, Zenon DEF StopSweep, Closing
<1>4. ASSUME NEW c \in Conns, Handle(c)
      PROVE  UNCHANGED open \/ open' = [open EXCEPT ![c] = FALSE]
  BY <1>4 DEF Handle, Lock, Register, SaveOnline, Greet, GetOffline, SendOffline,
     SendOfflineDone, ClearOffline, LoopTop, ReadEnds, SaveBack, Subscribe, Reply,
     CheckOnline, CheckFilter, WriteDirect, QueueOffline, ScanStart, ScanOne, ScanEnd,
     CollectEnd, SpreadOne, SpreadEnd, WriteEvent, Leave, MarkOffline, CloseConn, sockets
<1>5. ASSUME NEW c \in Conns, Client(c)
      PROVE  UNCHANGED open \/ open' = [open EXCEPT ![c] = FALSE]
  BY <1>5 DEF Client, Connect, Disconnect, PeerStops, AwaitFails, AwaitRegistration,
     ReadLocal, ReadBroadcast, ReadPublishTodo, ReadSubscribe, ReadGetOffline, ReadTo,
     ReadGetAgent, ReadSend, sockets
<1>6. UNCHANGED vars \/ Cancel \/ StopLock \/ StopReturn => UNCHANGED open
  BY DEF vars, Cancel, StopLock, StopReturn, sockets
<1> QED BY <1>1, <1>2, <1>3, <1>4, <1>5, <1>6 DEF StopSteps

LEMMA QuietSteps ==
  ASSUME TypeInv, NEW c \in Conns,
         (Lock(c) \/ Greet(c) \/ LoopTop(c) \/ ReadEnds(c) \/ Reply(c))
           \/ (ReadLocal(c) \/ ReadBroadcast(c) \/ ReadPublishTodo(c)
                 \/ ReadSubscribe(c) \/ ReadGetOffline(c))
           \/ (SaveOnline(c) \/ SaveBack(c) \/ MarkOffline(c) \/ ReadGetAgent(c)
                 \/ Subscribe(c) \/ CloseConn(c))
           \/ (ScanStart(c) \/ ScanOne(c) \/ ScanEnd(c) \/ CollectEnd(c)
                 \/ SpreadOne(c) \/ SpreadEnd(c) \/ WriteEvent(c))
           \/ (Connect(c) \/ AwaitFails(c))
  PROVE  Quiet(c)
<1> USE DEF Quiet, tracked, memory, db, locals, life, history, Goto, InMap, Busy, Holding,
            Sending, Clearing, Entering, Serving, Parted
<1>0. hpc \in [Conns -> Labels] /\ Closing
  BY ClosingSteps DEF TypeInv, Handle, Client
<1>1. CASE Lock(c)
  <2>1. PICK op \in {"register", "subscribe", "leave"} : hpc[c] = op
    BY <1>1 DEF Lock
  <2>2. PICK label \in {"register wait", "subscribe wait", "leave wait"} :
          /\ hpc' = [hpc EXCEPT ![c] = label]
          /\ label = "register wait" => hpc[c] = "register"
          /\ label = "subscribe wait" => hpc[c] = "subscribe"
          /\ label = "leave wait" => hpc[c] = "leave"
    BY <1>1 DEF Lock
  <2> QED BY <1>0, <1>1, <2>1, <2>2 DEF Lock
<1>2. CASE Greet(c) \/ LoopTop(c) \/ ReadEnds(c) \/ Reply(c) \/ SpreadEnd(c)
  BY <1>0, <1>2 DEF Greet, LoopTop, ReadEnds, Reply, SpreadEnd
<1>3. CASE ReadLocal(c) \/ ReadBroadcast(c) \/ ReadPublishTodo(c) \/ ReadSubscribe(c)
             \/ ReadGetOffline(c)
  BY <1>0, <1>3 DEF ReadLocal, ReadBroadcast, ReadPublishTodo, ReadSubscribe,
     ReadGetOffline, ReadTo
<1>4. CASE SaveOnline(c) \/ SaveBack(c) \/ MarkOffline(c)
  BY <1>0, <1>4 DEF SaveOnline, SaveBack, MarkOffline
<1>5. CASE ReadGetAgent(c) \/ Subscribe(c)
  BY <1>0, <1>5 DEF ReadGetAgent, Subscribe
<1>6. CASE ScanStart(c) \/ ScanEnd(c) \/ CollectEnd(c)
  <2>1. PICK label \in Loops \cup {"loop", "reply", "close", "spread"} :
          /\ hpc' = [hpc EXCEPT ![c] = label]
          /\ label \in {"close", "scan left"} \/ hpc[c] \in InMap
    BY <1>6 DEF ScanStart, ScanEnd, CollectEnd, LoopOf, Loops, EventLoops
  <2>2. hpc[c] \notin Busy \cup {"ended", "past"}
    BY <1>6 DEF ScanStart, ScanEnd, CollectEnd, LoopOf, EventLoops
  <2>3. /\ label \notin Busy \cup Parted \cup {"unborn"}
        /\ label \in {"close", "scan left"} => label \notin InMap
    BY DEF Loops, EventLoops
  <2>4. UNCHANGED <<tracked, ctxDone>>
    BY <1>6 DEF ScanStart, ScanEnd, CollectEnd
  <2> QED BY <1>0, <2>1, <2>2, <2>3, <2>4
<1>7. CASE ScanOne(c) \/ SpreadOne(c) \/ WriteEvent(c)
  BY <1>0, <1>7 DEF ScanOne, SpreadOne, WriteEvent, Loops, EventLoops
<1>8. CASE Connect(c)
  BY <1>0, <1>8 DEF Connect
<1>9. CASE CloseConn(c) \/ AwaitFails(c)
  <2>1. open' = [open EXCEPT ![c] = FALSE]
    BY <1>9 DEF CloseConn, AwaitFails
  <2>2. ~open'[c]
    BY <2>1, Zenon DEF TypeInv, LifeType
  <2> QED BY <1>0, <1>9, <2>2 DEF CloseConn, AwaitFails
<1> QED BY <1>1, <1>2, <1>3, <1>4, <1>5, <1>6, <1>7, <1>8, <1>9

LEMMA StillSteps ==
  ASSUME TypeInv,
         \/ UNCHANGED vars \/ Cancel \/ StopSteps
         \/ \E c \in Conns : Disconnect(c) \/ PeerStops(c)
  PROVE  Still
<1> USE DEF Still, tracked, memory, db, locals, life, history
<1>0. Closing
  BY ClosingSteps DEF Client
<1>1. CASE UNCHANGED vars
  BY <1>0, <1>1 DEF vars
<1>2. CASE Cancel
  BY <1>0, <1>2 DEF Cancel
<1>3. CASE StopSteps
  BY <1>0, <1>3 DEF StopSteps, StopLock, StopSweep, StopReturn
<1>4. CASE \E c \in Conns : Disconnect(c) \/ PeerStops(c)
  BY <1>0, <1>4 DEF Disconnect, PeerStops
<1> QED BY <1>1, <1>2, <1>3, <1>4

LEMMA Steps ==
  ASSUME TypeInv, [Next]_vars
  PROVE  \/ Still
         \/ \E c \in Conns : Quiet(c) \/ Direct(c) \/ Deliveries(c) \/ Entries(c)
         \/ Restart
<1>1. ASSUME NEW c \in Conns, Handle(c) \/ Client(c)
      PROVE  Still \/ Quiet(c) \/ Direct(c) \/ Deliveries(c) \/ Entries(c)
  BY <1>1, QuietSteps, StillSteps DEF Handle, Client, Direct, Deliveries, Entries
<1> QED BY <1>1, StillSteps DEF Next

-----------------------------------------------------------------------------
(* The recipient.  Every place a message passes on its way to a connection *)
(* knows whom it is for, and a connection that is in the map or has been   *)
(* looked up has the owner it is there for; an owner never changes, as it  *)
(* is given before the connection is in any table.                         *)

Entry == \A a \in Agents : connections[a] # NoConn => owner[connections[a]] = a
Aimed == \A c \in Conns : hpc[c] \in {"filter", "write"} => owner[found[c]] = To(c)
QueuedFor == \A a \in Agents : \A m \in offline[a] : sentTo[m] = a
BatchFor == \A c \in Conns : \A m \in batch[c] :
              owner[c] \in Agents /\ sentTo[m] = owner[c]
Copied == \A c \in Conns, m \in Msgs :
            copies[c][m] > 0 => owner[c] \in Agents /\ sentTo[m] = owner[c]

Addressed == Entry /\ Aimed /\ QueuedFor /\ BatchFor /\ Copied

LEMMA AddressedQuiet ==
  ASSUME TypeInv, Addressed, Still \/ \E c \in Conns : Quiet(c)
  PROVE  Addressed'
<1>1. UNCHANGED tracked
  BY DEF Still, Quiet
<1>2. \A d \in Conns : hpc'[d] \in Holding => hpc[d] = hpc'[d]
  BY DEF Still, Quiet, Busy
<1>3. Aimed'
  BY <1>1, <1>2 DEF Addressed, Aimed, Holding, To, tracked
<1> QED BY <1>1, <1>3 DEF Addressed, Entry, QueuedFor, BatchFor, Copied, tracked

LEMMA AddressedDirect ==
  ASSUME TypeInv, Addressed, NEW c \in Conns, Direct(c)
  PROVE  Addressed'
<1>1. CASE \E m \in Msgs, a \in Agents : ReadSend(c, m, a)
  <2>1. PICK m \in Msgs, a \in Agents : ReadSend(c, m, a)
    BY <1>1
  <2>2. /\ sentTo[m] = NoAgent
        /\ \A n \in Msgs \ {m} : sentTo'[n] = sentTo[n]
        /\ \A d \in Conns \ {c} : hpc'[d] = hpc[d] /\ msg'[d] = msg[d]
        /\ hpc'[c] = "check"
        /\ UNCHANGED <<connections, offline, owner, batch, found, copies>>
    BY <2>1 DEF ReadSend, memory, Goto, TypeInv, DbType, LocalType
  <2>3. \A b \in Agents : b # sentTo[m]
    BY <2>2, NullsAssumption
  <2>4. Aimed'
    <3>1. ASSUME NEW d \in Conns, hpc'[d] \in {"filter", "write"}
          PROVE  owner'[found'[d]] = To(d)'
      <4>1. d # c /\ hpc[d] \in {"filter", "write"}
        BY <2>2, <3>1
      <4>2. msg[d] \in Msgs /\ sentTo[msg[d]] \in Agents
        BY <4>1 DEF TypeInv, Placed, Holding
      <4>3. To(d)' = To(d)
        BY <2>2, <2>3, <4>1, <4>2 DEF To
      <4> QED BY <2>2, <4>1, <4>3 DEF Addressed, Aimed
    <3> QED BY <3>1 DEF Aimed
  <2>5. QueuedFor'
    BY <2>2, <2>3 DEF Addressed, QueuedFor, TypeInv, DbType
  <2>6. BatchFor'
    BY <2>2, <2>3 DEF Addressed, BatchFor, TypeInv, LocalType
  <2>7. Copied'
    BY <2>2, <2>3 DEF Addressed, Copied
  <2> QED BY <2>2, <2>4, <2>5, <2>6, <2>7 DEF Addressed, Entry
<1>2. CASE CheckOnline(c)
  <2>1. /\ msg[c] \in Msgs /\ sentTo[msg[c]] \in Agents
    BY <1>2 DEF CheckOnline, TypeInv, Placed, Holding
  <2>2. /\ found' = [found EXCEPT ![c] = connections[To(c)]]
        /\ hpc' = [hpc EXCEPT ![c] =
                      IF connections[To(c)] = NoConn THEN "enqueue" ELSE "filter"]
        /\ UNCHANGED <<connections, sentTo, offline, owner, batch, msg, copies>>
    BY <1>2 DEF CheckOnline, Goto, memory, db
  <2>3. connections[To(c)] # NoConn => owner[connections[To(c)]] = To(c)
    BY <2>1 DEF Addressed, Entry, To
  <2>4. Aimed'
    BY <2>2, <2>3 DEF Addressed, Aimed, To, TypeInv, LocalType
  <2> QED BY <2>2, <2>4 DEF Addressed, Entry, QueuedFor, BatchFor, Copied
<1>3. CASE CheckFilter(c) /\ filter[To(c)] # "other"
  <2>1. /\ hpc[c] = "filter" /\ hpc' = [hpc EXCEPT ![c] = "write"]
        /\ UNCHANGED <<connections, sentTo, offline, owner, batch, msg, found, copies>>
    BY <1>3 DEF CheckFilter, Goto, memory, db, locals
  <2>2. Aimed'
    BY <2>1 DEF Addressed, Aimed, To, TypeInv
  <2> QED BY <2>1, <2>2 DEF Addressed, Entry, QueuedFor, BatchFor, Copied
<1>4. CASE (CheckFilter(c) /\ filter[To(c)] = "other") \/ WriteDirect(c)
             \/ QueueOffline(c)
  <2>1. /\ hpc[c] \in Holding /\ hpc' = [hpc EXCEPT ![c] = "loop"]
        /\ \A d \in Conns \ {c} : msg'[d] = msg[d] /\ found'[d] = found[d]
        /\ UNCHANGED <<connections, sentTo, owner, batch>>
    BY <1>4 DEF CheckFilter, WriteDirect, QueueOffline, Goto, Dropped, memory, db,
       Holding, TypeInv, LocalType
  <2>2. msg[c] \in Msgs /\ sentTo[msg[c]] \in Agents
    BY <2>1 DEF TypeInv, Placed
  <2>3. Aimed'
    BY <2>1 DEF Addressed, Aimed, To, TypeInv
  <2>4. QueuedFor'
    <3>1. CASE QueueOffline(c)
      <4>1. offline' = offline \/ offline' = [offline EXCEPT ![To(c)] = @ \cup {msg[c]}]
        BY <3>1 DEF QueueOffline
      <4> QED BY <2>1, <2>2, <4>1 DEF Addressed, QueuedFor, To, TypeInv, DbType
    <3>2. CASE CheckFilter(c) \/ WriteDirect(c)
      BY <3>2 DEF CheckFilter, WriteDirect, db, Addressed, QueuedFor
    <3> QED BY <1>4, <3>1, <3>2
  <2>5. Copied'
    <3>1. CASE WriteDirect(c)
      <4>1. found[c] \in Conns /\ owner[found[c]] = sentTo[msg[c]]
        BY <3>1 DEF WriteDirect, TypeInv, Placed, Addressed, Aimed, To
      <4>2. \/ copies' = copies
            \/ copies' = [copies EXCEPT ![found[c]][msg[c]] = @ + 1]
        BY <3>1 DEF WriteDirect, Deliver
      <4>3. \A d \in Conns, m \in Msgs :
              copies'[d][m] = copies[d][m] \/ (d = found[c] /\ m = msg[c])
        BY <4>2 DEF TypeInv, CopyType
      <4> QED BY <2>1, <2>2, <4>1, <4>3 DEF Addressed, Copied
    <3>2. CASE CheckFilter(c) \/ QueueOffline(c)
      BY <2>1, <3>2 DEF CheckFilter, QueueOffline, Addressed, Copied
    <3> QED BY <1>4, <3>1, <3>2
  <2> QED BY <2>1, <2>3, <2>4, <2>5 DEF Addressed, Entry, BatchFor
<1> QED BY <1>1, <1>2, <1>3, <1>4 DEF Direct

LEMMA AddressedDeliveries ==
  ASSUME TypeInv, Addressed, NEW c \in Conns, Deliveries(c)
  PROVE  Addressed'
<1>1. /\ UNCHANGED <<connections, sentTo, owner, msg, found>>
      /\ \A d \in Conns \ {c} : hpc'[d] = hpc[d]
      /\ hpc'[c] \notin Holding
      /\ owner[c] \in Agents
  <2>1. CASE GetOffline(c)
    <3>1. PICK label \in {"notify", "deliver send", "reply", "fetch send"} :
            hpc' = [hpc EXCEPT ![c] = label]
      BY <2>1 DEF GetOffline, Goto
    <3>2. hpc[c] \in Entering \cup Serving
      BY <2>1 DEF GetOffline, Entering, Serving
    <3> QED BY <2>1, <3>1, <3>2 DEF GetOffline, memory, db, TypeInv, Holding, Placed
  <2>2. CASE \E m \in Msgs : SendOffline(c, m)
    BY <2>2 DEF SendOffline, memory, db, TypeInv, Placed, Holding, Entering, Serving
  <2>3. CASE SendOfflineDone(c)
    BY <2>3 DEF SendOfflineDone, Goto, memory, db, locals, TypeInv, Placed, Holding,
       Entering, Serving
  <2>4. CASE ClearOffline(c)
    BY <2>4 DEF ClearOffline, Goto, memory, db, locals, TypeInv, Placed, Holding,
       Entering, Serving
  <2> QED BY <2>1, <2>2, <2>3, <2>4 DEF Deliveries
<1>2. Aimed'
  BY <1>1 DEF Addressed, Aimed, To, Holding
<1>3. QueuedFor'
  <2>1. \A a \in Agents : offline'[a] \subseteq offline[a]
    BY <1>1 DEF Deliveries, GetOffline, SendOffline, SendOfflineDone, ClearOffline,
       Cleared, db, TypeInv, DbType
  <2> QED BY <1>1, <2>1 DEF Addressed, QueuedFor
<1>4. BatchFor'
  <2>1. \A d \in Conns : \A m \in batch'[d] :
          m \in batch[d] \/ (d = c /\ m \in offline[owner[c]])
    <3>1. \/ batch' = batch
          \/ \E m \in Msgs : batch' = [batch EXCEPT ![c] = @ \ {m}]
          \/ batch' = [batch EXCEPT ![c] = {}]
          \/ batch' = [batch EXCEPT ![c] = offline[owner[c]] \cap saved]
      BY DEF Deliveries, GetOffline, SendOffline, SendOfflineDone, ClearOffline, Queue,
         locals
    <3> QED BY <3>1 DEF TypeInv, LocalType
  <2> QED BY <1>1, <2>1 DEF Addressed, BatchFor, QueuedFor
<1>5. Copied'
  <2>1. CASE \E m \in Msgs : SendOffline(c, m)
    <3>1. PICK m \in Msgs : SendOffline(c, m)
      BY <2>1
    <3>2. copies' = copies \/ copies' = [copies EXCEPT ![c][m] = @ + 1]
      BY <3>1 DEF SendOffline, Deliver
    <3>3. \A d \in Conns, n \in Msgs :
            copies'[d][n] = copies[d][n] \/ (d = c /\ n = m)
      BY <3>2 DEF TypeInv, CopyType
    <3>4. owner[c] \in Agents /\ sentTo[m] = owner[c]
      BY <3>1 DEF SendOffline, Addressed, BatchFor
    <3> QED BY <1>1, <3>3, <3>4 DEF Addressed, Copied
  <2>2. CASE GetOffline(c) \/ SendOfflineDone(c) \/ ClearOffline(c)
    BY <1>1, <2>2 DEF GetOffline, SendOfflineDone, ClearOffline, Addressed, Copied
  <2> QED BY <2>1, <2>2 DEF Deliveries
<1> QED BY <1>1, <1>2, <1>3, <1>4, <1>5 DEF Addressed, Entry

LEMMA AddressedEntries ==
  ASSUME TypeInv, Addressed, NEW c \in Conns, Entries(c)
  PROVE  Addressed'
<1>1. /\ UNCHANGED <<sentTo, offline, batch, msg, found, copies>>
      /\ \A d \in Conns \ {c} : hpc'[d] = hpc[d]
      /\ hpc'[c] \notin Holding
  BY DEF Entries, Register, Leave, AwaitRegistration, Goto, db, locals, TypeInv,
     Holding
<1>2. CASE Register(c) \/ Leave(c)
  <2>1. UNCHANGED owner /\ owner[c] \in Agents
    BY <1>2 DEF Register, Leave, locals, TypeInv, Placed, Entering, Leaving
  <2>2. Entry'
    BY <1>2, <2>1 DEF Register, Leave, Entered, Addressed, Entry, TypeInv, MemoryType
  <2>3. Aimed'
    BY <1>1, <2>1 DEF Addressed, Aimed, To, Holding
  <2> QED BY <1>1, <2>1, <2>2, <2>3 DEF Addressed, QueuedFor, BatchFor, Copied
<1>3. CASE \E a \in Agents : AwaitRegistration(c, a)
  <2>1. owner[c] = NoAgent /\ \A a \in Agents : a # owner[c]
    BY <1>3, NullsAssumption DEF AwaitRegistration, TypeInv, Placed
  <2>2. /\ \A d \in Conns \ {c} : owner'[d] = owner[d]
        /\ connections' = connections
    BY <1>3 DEF AwaitRegistration, memory, TypeInv, LocalType
  <2>3. Entry'
    BY <2>1, <2>2 DEF Addressed, Entry, TypeInv, MemoryType
  <2>4. Aimed'
    <3>1. ASSUME NEW d \in Conns, hpc'[d] \in {"filter", "write"}
          PROVE  owner'[found'[d]] = To(d)'
      <4>1. hpc[d] \in {"filter", "write"}
        BY <1>1, <3>1 DEF Holding
      <4>2. found[d] \in Conns /\ To(d) \in Agents /\ owner[found[d]] = To(d)
        BY <4>1 DEF TypeInv, Placed, Holding, Addressed, Aimed, To
      <4> QED BY <1>1, <2>1, <2>2, <4>2 DEF To
    <3> QED BY <3>1 DEF Aimed
  <2>5. BatchFor' /\ Copied'
    BY <1>1, <2>1, <2>2 DEF Addressed, BatchFor, Copied
  <2> QED BY <1>1, <2>3, <2>4, <2>5 DEF Addressed, QueuedFor
<1> QED BY <1>2, <1>3 DEF Entries

LEMMA AddressedRestart ==
  ASSUME TypeInv, Addressed, Restart
  PROVE  Addressed'
<1>1. UNCHANGED <<sentTo, offline, owner, copies>>
  BY DEF Restart, db
<1>2. /\ \A a \in Agents : connections'[a] = NoConn
      /\ \A c \in Conns : batch'[c] = {} /\ hpc'[c] \in {"unborn", "past"}
  BY DEF Restart
<1> QED BY <1>1, <1>2 DEF Addressed, Entry, Aimed, QueuedFor, BatchFor, Copied

LEMMA AddressedHolds == Spec => []Addressed
<1>1. Init => Addressed
  BY DEF Init, Addressed, Entry, Aimed, QueuedFor, BatchFor, Copied
<1>2. TypeInv /\ Addressed /\ [Next]_vars => Addressed'
  BY Steps, AddressedQuiet, AddressedDirect, AddressedDeliveries, AddressedEntries,
     AddressedRestart
<1> QED BY <1>1, <1>2, TypeInvHolds, PTL DEF Spec

(* Only connections of the recipient get a direct message, for any number  *)
(* of agents, connections and messages: whatever is registered, closed,    *)
(* cleaned up or restarted between the look-up and the write, or between   *)
(* the reading of a queue and its delivery (enhanced.go:245-278, 389-431). *)
THEOREM OnlyRecipients == Spec => []OnlyToRecipient
<1>1. TypeInv /\ Addressed => OnlyToRecipient
  BY DEF Addressed, Copied, OnlyToRecipient
<1> QED BY <1>1, AddressedHolds, TypeInvHolds, PTL

-----------------------------------------------------------------------------
(* At most once.  A message in a hand is nowhere else.  One that has been  *)
(* written to a connection and is still queued will be deleted before that *)
(* connection reads the queue again, unless the server is stopping, when   *)
(* nothing is read any more.                                               *)

InHand == \A c \in Conns : msg[c] # NoMsg => hpc[c] \in Holding
OneHand == \A c, d \in Conns : msg[c] # NoMsg /\ msg[c] = msg[d] => c = d
Untouched(m) == /\ \A a \in Agents : m \notin offline[a]
                /\ \A c \in Conns : m \notin batch[c] /\ copies[c][m] = 0
HandFresh == \A c \in Conns : msg[c] # NoMsg => Untouched(msg[c])
Pending == \A c \in Conns : \A m \in batch[c] : hpc[c] \in Sending /\ copies[c][m] = 0
Deleted == \A c \in Conns, a \in Agents : \A m \in offline[a] :
             copies[c][m] > 0 => hpc[c] \in Sending \cup Clearing \cup Over \/ ctxDone

OnceInv == /\ InHand /\ OneHand /\ HandFresh /\ Pending /\ Deleted
           /\ AtMostOncePerConnection

LEMMA OnceQuiet ==
  ASSUME TypeInv, Addressed, OnceInv, Still \/ \E c \in Conns : Quiet(c)
  PROVE  OnceInv'
<1>1. UNCHANGED <<sentTo, offline, batch, msg, copies>>
  BY DEF Still, Quiet, tracked
<1>2. \A d \in Conns : hpc[d] \in Busy => hpc'[d] = hpc[d]
  BY DEF Still, Quiet
<1>3. InHand' /\ Pending'
  BY <1>1, <1>2 DEF OnceInv, InHand, Pending, Busy
<1>4. Deleted'
  <2>1. ASSUME NEW d \in Conns, hpc[d] \in Over, hpc'[d] \notin Over
        PROVE  hpc[d] = "unborn"
    BY <2>1 DEF Still, Quiet, Parted, Over
  <2>2. ASSUME NEW d \in Conns, NEW m \in Msgs, copies[d][m] > 0
        PROVE  hpc[d] # "unborn"
    BY <2>2, NullsAssumption DEF Addressed, Copied, TypeInv, Placed
  <2>3. ctxDone => ctxDone'
    BY DEF Still, Quiet
  <2> QED BY <1>1, <1>2, <2>1, <2>2, <2>3 DEF OnceInv, Deleted, Busy, TypeInv, DbType
<1> QED BY <1>1, <1>3, <1>4
        DEF OnceInv, OneHand, HandFresh, Untouched, AtMostOncePerConnection

LEMMA OnceDirect ==
  ASSUME TypeInv, Addressed, OnceInv, NEW c \in Conns, Direct(c)
  PROVE  OnceInv'
<1>1. /\ UNCHANGED <<batch, ctxDone>>
      /\ hpc[c] \notin Sending \cup Clearing \cup Over
      /\ \A d \in Conns \ {c} : hpc'[d] = hpc[d]
  BY DEF Direct, ReadSend, CheckOnline, CheckFilter, WriteDirect, QueueOffline, Dropped,
     Goto, life, locals, TypeInv, Sending, Clearing, Over
<1>2. CASE \E m \in Msgs, a \in Agents : ReadSend(c, m, a)
  <2>1. PICK m \in Msgs, a \in Agents : ReadSend(c, m, a)
    BY <1>2
  <2>2. /\ sentTo[m] = NoAgent /\ m # NoMsg
        /\ msg' = [msg EXCEPT ![c] = m] /\ hpc' = [hpc EXCEPT ![c] = "check"]
        /\ UNCHANGED <<offline, copies>>
    BY <2>1, NullsAssumption DEF ReadSend, Goto
  <2>3. \A b \in Agents : b # sentTo[m]
    BY <2>2, NullsAssumption
  <2>4. Untouched(m)
    <3>1. \A d \in Conns : ~(copies[d][m] > 0)
      BY <2>3 DEF Addressed, Copied
    <3>2. \A d \in Conns : copies[d][m] = 0
      BY <3>1 DEF TypeInv, CopyType
    <3>3. \A d \in Conns : m \notin batch[d]
      BY <2>3 DEF Addressed, BatchFor
    <3>4. \A b \in Agents : m \notin offline[b]
      BY <2>3 DEF Addressed, QueuedFor
    <3> QED BY <3>2, <3>3, <3>4 DEF Untouched
  <2>5. \A d \in Conns : msg[d] # m
    BY <2>2, <2>3 DEF OnceInv, InHand, TypeInv, Placed
  <2>6. InHand' /\ OneHand'
    BY <1>1, <2>2, <2>5 DEF OnceInv, InHand, OneHand, Holding, TypeInv, LocalType
  <2>7. HandFresh'
    BY <1>1, <2>2, <2>4 DEF OnceInv, HandFresh, Untouched, TypeInv, LocalType
  <2>8. Pending' /\ Deleted' /\ AtMostOncePerConnection'
    BY <1>1, <2>2 DEF OnceInv, Pending, Deleted, AtMostOncePerConnection
  <2> QED BY <2>6, <2>7, <2>8 DEF OnceInv
<1>3. CASE CheckOnline(c) \/ (CheckFilter(c) /\ filter[To(c)] # "other")
  <2>1. /\ UNCHANGED <<offline, msg, copies>>
        /\ hpc'[c] \in Holding
    BY <1>3 DEF CheckOnline, CheckFilter, Goto, db, locals, TypeInv, Holding
  <2>2. InHand' /\ OneHand' /\ HandFresh'
    BY <1>1, <2>1 DEF OnceInv, InHand, OneHand, HandFresh, Untouched
  <2>3. Pending' /\ Deleted' /\ AtMostOncePerConnection'
    BY <1>1, <2>1 DEF OnceInv, Pending, Deleted, AtMostOncePerConnection
  <2> QED BY <2>2, <2>3 DEF OnceInv
<1>4. CASE (CheckFilter(c) /\ filter[To(c)] = "other") \/ WriteDirect(c)
             \/ QueueOffline(c)
  <2>1. /\ hpc[c] \in Holding
        /\ msg' = [msg EXCEPT ![c] = NoMsg]
    BY <1>4 DEF CheckFilter, WriteDirect, QueueOffline, Dropped, Holding
  <2> DEFINE m == msg[c]
  <2>2. m \in Msgs /\ m # NoMsg
    BY <2>1, NullsAssumption DEF TypeInv, Placed
  <2>3. Untouched(m)
    BY <2>2 DEF OnceInv, HandFresh
  <2>4. \A d \in Conns \ {c} : msg'[d] = msg[d] /\ (msg[d] # NoMsg => msg[d] # m)
    BY <2>1, <2>2 DEF OnceInv, OneHand, TypeInv, LocalType
  <2>5. msg'[c] = NoMsg
    BY <2>1 DEF TypeInv, LocalType
  <2>6. InHand' /\ OneHand'
    BY <1>1, <2>4, <2>5 DEF OnceInv, InHand, OneHand
  <2>7. \A a \in Agents : \A n \in offline'[a] : n \in offline[a] \/ n = m
    BY <1>4 DEF CheckFilter, WriteDirect, QueueOffline, db, TypeInv, DbType
  <2>8. \A d \in Conns, n \in Msgs :
          copies'[d][n] = copies[d][n] \/ (n = m /\ copies'[d][n] = 1)
    <3>1. CASE WriteDirect(c)
      <4>1. \/ copies' = copies
            \/ copies' = [copies EXCEPT ![found[c]][m] = @ + 1]
        BY <3>1 DEF WriteDirect, Deliver
      <4> QED BY <2>3, <4>1 DEF Untouched, TypeInv, CopyType
    <3>2. CASE CheckFilter(c) \/ QueueOffline(c)
      BY <3>2 DEF CheckFilter, QueueOffline
    <3> QED BY <1>4, <3>1, <3>2
  <2>9. HandFresh'
    <3>1. ASSUME NEW d \in Conns, msg'[d] # NoMsg
          PROVE  Untouched(msg[d])' /\ msg'[d] = msg[d]
      <4>1. d # c /\ msg'[d] = msg[d] /\ msg[d] # m /\ msg[d] \in Msgs
        BY <2>4, <2>5, <3>1 DEF TypeInv, LocalType
      <4>2. Untouched(msg[d])
        BY <3>1, <4>1 DEF OnceInv, HandFresh
      <4> QED BY <1>1, <2>7, <2>8, <4>1, <4>2 DEF Untouched
    <3> QED BY <3>1 DEF HandFresh
  <2>10. Pending'
    <3>1. ASSUME NEW d \in Conns, NEW n \in batch[d]
          PROVE  hpc'[d] \in Sending /\ copies'[d][n] = 0
      <4>1. n # m /\ n \in Msgs
        BY <2>3, <3>1 DEF Untouched, TypeInv, LocalType
      <4>2. hpc[d] \in Sending /\ copies[d][n] = 0
        BY <3>1 DEF OnceInv, Pending
      <4> QED BY <1>1, <2>8, <4>1, <4>2
    <3> QED BY <1>1, <3>1 DEF Pending
  <2>11. Deleted'
    <3>1. CASE QueueOffline(c)
      <4>1. UNCHANGED copies
        BY <3>1 DEF QueueOffline
      <4>2. \A d \in Conns : copies[d][m] = 0
        BY <2>3 DEF Untouched
      <4>3. ASSUME NEW d \in Conns, NEW a \in Agents, NEW n \in offline'[a],
                   copies'[d][n] > 0
            PROVE  hpc'[d] \in Sending \cup Clearing \cup Over \/ ctxDone'
        <5>1. n \in offline[a] /\ copies[d][n] > 0
          BY <2>7, <4>1, <4>2, <4>3
        <5> QED BY <1>1, <5>1 DEF OnceInv, Deleted
      <4> QED BY <4>3 DEF Deleted
    <3>2. CASE CheckFilter(c) \/ WriteDirect(c)
      <4>1. offline' = offline
        BY <3>2 DEF CheckFilter, WriteDirect, db
      <4>2. ASSUME NEW d \in Conns, NEW a \in Agents, NEW n \in offline[a],
                   copies'[d][n] > 0
            PROVE  hpc'[d] \in Sending \cup Clearing \cup Over \/ ctxDone'
        <5>1. n # m /\ n \in Msgs
          BY <2>3, <4>2 DEF Untouched, TypeInv, DbType
        <5>2. copies[d][n] > 0
          BY <2>8, <4>2, <5>1
        <5> QED BY <1>1, <5>2 DEF OnceInv, Deleted
      <4> QED BY <4>1, <4>2 DEF Deleted
    <3> QED BY <1>4, <3>1, <3>2
  <2>12. AtMostOncePerConnection'
    <3>1. \A d \in Conns, n \in Msgs : copies'[d][n] <= 1
      BY <2>8 DEF OnceInv, AtMostOncePerConnection
    <3> QED BY <3>1 DEF AtMostOncePerConnection
  <2> QED BY <2>6, <2>9, <2>10, <2>11, <2>12 DEF OnceInv
<1> QED BY <1>2, <1>3, <1>4 DEF Direct

LEMMA OnceDeliveries ==
  ASSUME TypeInv, Addressed, OnceInv, NEW c \in Conns, Deliveries(c)
  PROVE  OnceInv'
<1>1. /\ UNCHANGED <<msg, ctxDone>>
      /\ hpc[c] \notin Holding \cup Over
      /\ \A d \in Conns \ {c} : hpc'[d] = hpc[d]
      /\ owner[c] \in Agents
  BY DEF Deliveries, GetOffline, SendOffline, SendOfflineDone, ClearOffline, Goto, life,
     locals, TypeInv, Placed, Holding, Over, Entering, Serving
<1>2. InHand' /\ OneHand'
  BY <1>1 DEF OnceInv, InHand, OneHand
<1>3. CASE GetOffline(c)
  <2>1. /\ UNCHANGED <<offline, copies>>
        /\ batch' = [batch EXCEPT ![c] = IF ctxDone THEN {} ELSE Queue(owner[c])]
        /\ hpc[c] \in {"deliver", "fetch"}
    BY <1>3 DEF GetOffline, db
  <2>2. batch'[c] # {} => hpc'[c] \in Sending
    <3>1. batch'[c] # {} => ~ctxDone
      BY <2>1 DEF TypeInv, LocalType
    <3>2. /\ hpc[c] = "deliver" /\ batch'[c] # {} => Goto(c, "deliver send")
          /\ hpc[c] = "fetch" /\ ~ctxDone => Goto(c, "fetch send")
      BY <1>3 DEF GetOffline
    <3> QED BY <2>1, <3>1, <3>2 DEF Goto, TypeInv, Sending
  <2>3. \A m \in batch'[c] : m \in offline[owner[c]] /\ ~ctxDone /\ m \in Msgs
    BY <1>1, <2>1 DEF Queue, TypeInv, LocalType, DbType
  <2>4. \A m \in batch'[c] : copies[c][m] = 0
    <3>1. \A m \in batch'[c] : ~(copies[c][m] > 0)
      BY <1>1, <2>1, <2>3 DEF OnceInv, Deleted, Sending, Clearing, Over
    <3> QED BY <2>3, <3>1 DEF TypeInv, CopyType
  <2>5. \A d \in Conns \ {c} : batch'[d] = batch[d]
    BY <2>1 DEF TypeInv, LocalType
  <2>6. Pending'
    BY <1>1, <2>1, <2>2, <2>4, <2>5 DEF OnceInv, Pending
  <2>7. HandFresh'
    <3>1. ASSUME NEW d \in Conns, msg[d] # NoMsg
          PROVE  Untouched(msg[d])'
      <4>1. Untouched(msg[d])
        BY <3>1 DEF OnceInv, HandFresh
      <4>2. \A e \in Conns : msg[d] \notin batch'[e]
        BY <1>1, <2>3, <2>5, <4>1 DEF Untouched
      <4> QED BY <1>1, <2>1, <4>1, <4>2 DEF Untouched
    <3> QED BY <1>1, <3>1 DEF HandFresh
  <2>8. Deleted'
    BY <1>1, <2>1 DEF OnceInv, Deleted, Sending, Clearing, Over
  <2> QED BY <1>2, <2>1, <2>6, <2>7, <2>8 DEF OnceInv, AtMostOncePerConnection
<1>4. CASE \E m \in Msgs : SendOffline(c, m)
  <2>1. PICK m \in Msgs : SendOffline(c, m)
    BY <1>4
  <2>2. /\ UNCHANGED <<offline, hpc>> /\ m \in batch[c] /\ hpc[c] \in Sending
        /\ batch' = [batch EXCEPT ![c] = @ \ {m}]
        /\ copies' = copies \/ copies' = [copies EXCEPT ![c][m] = @ + 1]
    BY <2>1 DEF SendOffline, Deliver, db, Sending
  <2>3. copies[c][m] = 0
    BY <2>2 DEF OnceInv, Pending
  <2>4. \A d \in Conns, n \in Msgs :
          copies'[d][n] = copies[d][n] \/ (d = c /\ n = m /\ copies'[d][n] = 1)
    BY <2>2, <2>3 DEF TypeInv, CopyType
  <2>5. /\ batch'[c] = batch[c] \ {m}
        /\ \A d \in Conns \ {c} : batch'[d] = batch[d]
    BY <2>2 DEF TypeInv, LocalType
  <2>6. Pending'
    <3>1. ASSUME NEW d \in Conns, NEW n \in batch'[d]
          PROVE  hpc'[d] \in Sending /\ copies'[d][n] = 0
      <4>1. n \in batch[d] /\ n \in Msgs /\ ~(d = c /\ n = m)
        BY <2>5, <3>1 DEF TypeInv, LocalType
      <4> QED BY <2>2, <2>4, <4>1 DEF OnceInv, Pending
    <3> QED BY <3>1 DEF Pending
  <2>7. HandFresh'
    <3>1. ASSUME NEW d \in Conns, msg[d] # NoMsg
          PROVE  Untouched(msg[d])'
      <4>1. Untouched(msg[d]) /\ msg[d] \in Msgs
        BY <3>1 DEF OnceInv, HandFresh, TypeInv, LocalType
      <4>2. msg[d] # m
        BY <2>2, <4>1 DEF Untouched
      <4>3. \A e \in Conns : msg[d] \notin batch'[e] /\ copies'[e][msg[d]] = 0
        BY <2>4, <2>5, <4>1, <4>2 DEF Untouched
      <4> QED BY <1>1, <2>2, <4>1, <4>3 DEF Untouched
    <3> QED BY <1>1, <3>1 DEF HandFresh
  <2>8. Deleted'
    <3>1. ASSUME NEW d \in Conns, NEW a \in Agents, NEW n \in offline[a],
                 copies'[d][n] > 0
          PROVE  hpc[d] \in Sending \cup Clearing \cup Over \/ ctxDone
      <4>1. n \in Msgs
        BY DEF TypeInv, DbType
      <4>2. CASE d = c
        BY <2>2, <4>2
      <4>3. CASE d # c
        BY <2>4, <3>1, <4>1, <4>3 DEF OnceInv, Deleted
      <4> QED BY <4>2, <4>3
    <3> QED BY <1>1, <2>2, <3>1 DEF Deleted
  <2>9. AtMostOncePerConnection'
    <3>1. \A d \in Conns, n \in Msgs : copies'[d][n] <= 1
      BY <2>4 DEF OnceInv, AtMostOncePerConnection
    <3> QED BY <3>1 DEF AtMostOncePerConnection
  <2> QED BY <1>2, <2>6, <2>7, <2>8, <2>9 DEF OnceInv
<1>5. CASE SendOfflineDone(c)
  <2>1. /\ UNCHANGED <<offline, batch, copies>>
        /\ hpc[c] \in Sending /\ hpc'[c] \in Clearing /\ batch[c] = {}
    BY <1>5 DEF SendOfflineDone, Goto, db, locals, TypeInv, Sending, Clearing
  <2>2. Pending' /\ Deleted'
    BY <1>1, <2>1 DEF OnceInv, Pending, Deleted
  <2> QED BY <1>1, <1>2, <2>1, <2>2
          DEF OnceInv, HandFresh, Untouched, AtMostOncePerConnection
<1>6. CASE ClearOffline(c)
  <2>1. /\ UNCHANGED <<batch, copies>>
        /\ hpc[c] \in Clearing
        /\ offline' = IF ctxDone THEN offline ELSE [offline EXCEPT ![owner[c]] = {}]
    BY <1>6 DEF ClearOffline, Cleared, locals, Clearing
  <2>2. \A a \in Agents : /\ offline'[a] \subseteq offline[a]
                          /\ ~ctxDone /\ a = owner[c] => offline'[a] = {}
    BY <2>1 DEF TypeInv, DbType
  <2>3. HandFresh'
    BY <1>1, <2>1, <2>2 DEF OnceInv, HandFresh, Untouched
  <2>4. Pending'
    BY <1>1, <2>1 DEF OnceInv, Pending, Sending, Clearing
  <2>5. Deleted'
    <3>1. ASSUME NEW d \in Conns, NEW a \in Agents, NEW n \in offline'[a],
                 copies[d][n] > 0, ~ctxDone
          PROVE  d # c
      <4>1. n \in offline[a] /\ a # owner[c] /\ n \in Msgs
        BY <2>2, <3>1 DEF TypeInv, DbType
      <4>2. sentTo[n] = a
        BY <4>1 DEF Addressed, QueuedFor
      <4> QED BY <3>1, <4>1, <4>2 DEF Addressed, Copied
    <3> QED BY <1>1, <2>1, <2>2, <3>1 DEF OnceInv, Deleted
  <2> QED BY <1>2, <2>1, <2>3, <2>4, <2>5 DEF OnceInv, AtMostOncePerConnection
<1> QED BY <1>3, <1>4, <1>5, <1>6 DEF Deliveries

LEMMA OnceOthers ==
  ASSUME TypeInv, Addressed, OnceInv, Restart \/ \E c \in Conns : Entries(c)
  PROVE  OnceInv'
<1>1. CASE \E c \in Conns : Entries(c)
  <2>1. PICK c \in Conns : Entries(c)
    BY <1>1
  <2>2. /\ UNCHANGED <<offline, batch, msg, copies, ctxDone>>
        /\ \A d \in Conns \ {c} : hpc'[d] = hpc[d]
        /\ hpc[c] \notin Busy \cup Over
    BY <2>1 DEF Entries, Register, Leave, AwaitRegistration, Goto, db, locals, life,
       TypeInv, Busy, Holding, Sending, Clearing, Over
  <2>3. InHand' /\ Pending' /\ Deleted'
    BY <2>2 DEF OnceInv, InHand, Pending, Deleted, Busy
  <2> QED BY <2>2, <2>3
          DEF OnceInv, OneHand, HandFresh, Untouched, AtMostOncePerConnection
<1>2. CASE Restart
  <2>1. /\ UNCHANGED <<offline, copies>>
        /\ \A c \in Conns : batch'[c] = {} /\ msg'[c] = NoMsg /\ hpc'[c] \in Over
    BY <1>2 DEF Restart, db, Over
  <2> QED BY <2>1 DEF OnceInv, InHand, OneHand, HandFresh, Pending, Deleted,
                      AtMostOncePerConnection
<1> QED BY <1>1, <1>2

LEMMA OnceHolds == Spec => []OnceInv
<1>1. Init => OnceInv
  BY DEF Init, OnceInv, InHand, OneHand, HandFresh, Pending, Deleted,
         AtMostOncePerConnection
<1>2. TypeInv /\ Addressed /\ OnceInv /\ [Next]_vars => OnceInv'
  BY Steps, OnceQuiet, OnceDirect, OnceDeliveries, OnceOthers
<1> QED BY <1>1, <1>2, TypeInvHolds, AddressedHolds, PTL DEF Spec

(* A connection gets a message at most once, whichever of the direct write,*)
(* the delivery on connect and get_offline_messages takes it there, for    *)
(* any number of connections that read and delete one queue, and over      *)
(* crashes and restarts (enhanced.go:245-278, 389-431).                    *)
THEOREM NoDuplicates == Spec => []AtMostOncePerConnection
<1>1. OnceInv => AtMostOncePerConnection
  BY DEF OnceInv
<1> QED BY <1>1, OnceHolds, PTL

(* The types, with the bound on the copies that follows.                   *)
THEOREM TypeCorrect == Spec => []TypeOK
<1>1. TypeInv /\ AtMostOncePerConnection => TypeOK
  <2> SUFFICES ASSUME TypeInv, AtMostOncePerConnection
               PROVE  TypeOK
    OBVIOUS
  <2>1. copies \in [Conns -> [Msgs -> 0 .. 2]]
    <3>1. copies \in [Conns -> [Msgs -> Nat]]
      BY DEF TypeInv, CopyType
    <3>2. ASSUME NEW c \in Conns, NEW m \in Msgs
          PROVE  copies[c][m] \in 0 .. 2
      <4>1. copies[c][m] \in Nat /\ copies[c][m] <= 1
        BY <3>1 DEF AtMostOncePerConnection
      <4> QED BY <4>1
    <3>3. \A c \in Conns : copies[c] \in [Msgs -> 0 .. 2]
      BY <3>1, <3>2
    <3> QED BY <3>1, <3>3
  <2>2. hpc \in [Conns -> {"unborn", "await", "ended", "past"}
                            \cup Entering \cup Serving \cup Leaving]
    BY DEF TypeInv, Labels
  <2> QED BY <2>1, <2>2
          DEF TypeOK, TypeInv, LockType, MemoryType, DbType, LocalType, LifeType
<1> QED BY <1>1, NoDuplicates, TypeInvHolds, PTL

-----------------------------------------------------------------------------
(* What was queued is kept.  A message in a hand has been saved, unless    *)
(* the server is stopping, when it will not be queued either; and the      *)
(* tables only grow, but for the queue of an agent that a handler of this  *)
(* agent deletes.                                                          *)

HandSaved == ~ctxDone => \A c \in Conns : hpc[c] \in Holding => msg[c] \in saved
QueuedSent == \A m \in queued : sentTo[m] \in Agents

KeptInv == HandSaved /\ QueuedSent

\* The step of QueuedIsKept.
KeepsQueued ==
  \A m \in queued' :
    \/ m \in saved' \cap offline'[sentTo'[m]]
    \/ m \in queued /\ m \notin saved \cap offline[sentTo[m]]
    \/ \E c \in Conns : /\ owner[c] = sentTo[m]
                       /\ hpc[c] \in {"deliver clear", "fetch clear"}
                       /\ hpc'[c] \in {"notify", "reply"}

\* Where nothing is queued and nothing taken from the tables.
LEMMA Grows ==
  ASSUME KeptInv, queued' = queued, saved \subseteq saved',
         \A a \in Agents : offline[a] \subseteq offline'[a],
         \A m \in queued : sentTo'[m] = sentTo[m]
  PROVE  QueuedSent' /\ KeepsQueued
<1>1. QueuedSent'
  BY DEF KeptInv, QueuedSent
<1>2. ASSUME NEW m \in queued', m \in saved \cap offline[sentTo[m]]
      PROVE  m \in saved' \cap offline'[sentTo'[m]]
  <2>1. sentTo[m] \in Agents /\ sentTo'[m] = sentTo[m]
    BY DEF KeptInv, QueuedSent
  <2> QED BY <1>2, <2>1
<1> QED BY <1>1, <1>2 DEF KeepsQueued

LEMMA KeptQuiet ==
  ASSUME TypeInv, KeptInv, Still \/ \E c \in Conns : Quiet(c)
  PROVE  KeptInv' /\ KeepsQueued
<1>1. UNCHANGED tracked
  BY DEF Still, Quiet
<1>2. \A d \in Conns : hpc'[d] \in Holding => hpc[d] = hpc'[d]
  BY DEF Still, Quiet, Busy
<1>3. ~ctxDone' => ~ctxDone
  BY DEF Still, Quiet
<1>4. HandSaved'
  BY <1>1, <1>2, <1>3 DEF KeptInv, HandSaved, tracked
<1>5. QueuedSent' /\ KeepsQueued
  BY <1>1, Grows DEF tracked
<1> QED BY <1>4, <1>5 DEF KeptInv

LEMMA KeptDirect ==
  ASSUME TypeInv, KeptInv, NEW c \in Conns, Direct(c)
  PROVE  KeptInv' /\ KeepsQueued
<1>1. /\ UNCHANGED ctxDone
      /\ \A d \in Conns \ {c} : hpc'[d] = hpc[d] /\ msg'[d] = msg[d]
  BY DEF Direct, ReadSend, CheckOnline, CheckFilter, WriteDirect, QueueOffline, Dropped,
     Goto, life, locals, TypeInv, LocalType
<1>2. CASE \E m \in Msgs, a \in Agents : ReadSend(c, m, a)
  <2>1. PICK m \in Msgs, a \in Agents : ReadSend(c, m, a)
    BY <1>2
  <2>2. /\ sentTo[m] = NoAgent /\ msg'[c] = m
        /\ \A n \in Msgs \ {m} : sentTo'[n] = sentTo[n]
        /\ saved' = IF ctxDone THEN saved ELSE saved \cup {m}
        /\ UNCHANGED <<offline, queued>>
    BY <2>1 DEF ReadSend, SaveMessage, history, TypeInv, DbType, LocalType
  <2>3. m \notin queued
    BY <2>2, NullsAssumption DEF KeptInv, QueuedSent
  <2>4. \A n \in queued : sentTo'[n] = sentTo[n]
    BY <2>2, <2>3 DEF TypeInv, LifeType
  <2>5. HandSaved'
    BY <1>1, <2>2 DEF KeptInv, HandSaved
  <2>6. QueuedSent' /\ KeepsQueued
    BY <2>2, <2>4, Grows
  <2> QED BY <2>5, <2>6 DEF KeptInv
<1>3. CASE CheckOnline(c) \/ CheckFilter(c) \/ WriteDirect(c)
  <2>1. /\ UNCHANGED <<db, queued>>
        /\ hpc[c] \in Holding
        /\ hpc'[c] \in Holding => msg'[c] = msg[c]
    BY <1>3 DEF CheckOnline, CheckFilter, WriteDirect, Goto, Dropped, locals, history,
       Holding, TypeInv
  <2>2. HandSaved'
    BY <1>1, <2>1 DEF KeptInv, HandSaved, db
  <2>3. QueuedSent' /\ KeepsQueued
    BY <2>1, Grows DEF db
  <2> QED BY <2>2, <2>3 DEF KeptInv
<1>4. CASE QueueOffline(c)
  <2>1. /\ hpc[c] \in Holding /\ hpc' = [hpc EXCEPT ![c] = "loop"]
        /\ UNCHANGED <<sentTo, saved>>
    BY <1>4 DEF QueueOffline, Goto, Holding
  <2>2. msg[c] \in Msgs /\ sentTo[msg[c]] \in Agents
    BY <2>1 DEF TypeInv, Placed
  <2>3. hpc'[c] \notin Holding
    BY <2>1 DEF Holding, TypeInv
  <2>4. HandSaved'
    BY <1>1, <2>1, <2>3 DEF KeptInv, HandSaved
  <2>5. CASE ctxDone
    <3>1. UNCHANGED <<offline, queued>>
      BY <1>4, <2>5 DEF QueueOffline
    <3>2. QueuedSent' /\ KeepsQueued
      BY <2>1, <3>1, Grows
    <3> QED BY <2>4, <3>2 DEF KeptInv
  <2>6. CASE ~ctxDone
    <3>1. /\ offline' = [offline EXCEPT ![sentTo[msg[c]]] = @ \cup {msg[c]}]
          /\ queued' = queued \cup {msg[c]}
          /\ msg[c] \in saved
      BY <1>4, <2>1, <2>6 DEF QueueOffline, To, KeptInv, HandSaved
    <3>2. /\ msg[c] \in offline'[sentTo[msg[c]]]
          /\ \A a \in Agents : offline[a] \subseteq offline'[a]
      BY <2>2, <3>1 DEF TypeInv, DbType
    <3>3. QueuedSent'
      BY <2>1, <2>2, <3>1 DEF KeptInv, QueuedSent
    <3>4. KeepsQueued
      BY <2>1, <3>1, <3>2 DEF KeptInv, QueuedSent, KeepsQueued
    <3> QED BY <2>4, <3>3, <3>4 DEF KeptInv
  <2> QED BY <2>5, <2>6
<1> QED BY <1>2, <1>3, <1>4 DEF Direct

LEMMA KeptDeliveries ==
  ASSUME TypeInv, KeptInv, NEW c \in Conns, Deliveries(c)
  PROVE  KeptInv' /\ KeepsQueued
<1>1. /\ UNCHANGED <<sentTo, saved, msg, ctxDone, queued>>
      /\ \A d \in Conns \ {c} : hpc'[d] = hpc[d]
  BY DEF Deliveries, GetOffline, SendOffline, SendOfflineDone, ClearOffline, Goto, db,
     locals, life, history, TypeInv
<1>2. hpc'[c] \notin Holding
  <2>1. CASE GetOffline(c)
    <3>1. PICK label \in {"notify", "deliver send", "reply", "fetch send"} :
            hpc' = [hpc EXCEPT ![c] = label]
      BY <2>1 DEF GetOffline, Goto
    <3> QED BY <3>1 DEF TypeInv, Holding
  <2>2. CASE (\E m \in Msgs : SendOffline(c, m)) \/ SendOfflineDone(c)
               \/ ClearOffline(c)
    BY <2>2 DEF SendOffline, SendOfflineDone, ClearOffline, Goto, TypeInv, Holding
  <2> QED BY <2>1, <2>2 DEF Deliveries
<1>3. HandSaved'
  BY <1>1, <1>2 DEF KeptInv, HandSaved
<1>4. CASE ClearOffline(c)
  <2>1. /\ hpc[c] \in {"deliver clear", "fetch clear"}
        /\ hpc'[c] \in {"notify", "reply"}
    BY <1>4 DEF ClearOffline, Goto, TypeInv
  <2>2. \A a \in Agents : offline'[a] = offline[a] \/ a = owner[c]
    BY <1>4 DEF ClearOffline, Cleared, TypeInv, DbType
  <2>3. QueuedSent'
    BY <1>1 DEF KeptInv, QueuedSent
  <2>4. ASSUME NEW m \in queued', m \in saved \cap offline[sentTo[m]],
               owner[c] # sentTo[m]
        PROVE  m \in saved' \cap offline'[sentTo'[m]]
    <3>1. sentTo[m] \in Agents
      BY <1>1 DEF KeptInv, QueuedSent
    <3> QED BY <1>1, <2>2, <2>4, <3>1
  <2>5. KeepsQueued
    BY <1>1, <2>1, <2>4 DEF KeepsQueued
  <2> QED BY <1>3, <2>3, <2>5 DEF KeptInv
<1>5. CASE GetOffline(c) \/ (\E m \in Msgs : SendOffline(c, m)) \/ SendOfflineDone(c)
  <2>1. UNCHANGED offline
    BY <1>5 DEF GetOffline, SendOffline, SendOfflineDone, db
  <2>2. QueuedSent' /\ KeepsQueued
    BY <1>1, <2>1, Grows
  <2> QED BY <1>3, <2>2 DEF KeptInv
<1> QED BY <1>4, <1>5 DEF Deliveries

LEMMA KeptOthers ==
  ASSUME TypeInv, KeptInv, Restart \/ \E c \in Conns : Entries(c)
  PROVE  KeptInv' /\ KeepsQueued
<1>1. CASE \E c \in Conns : Entries(c)
  <2>1. PICK c \in Conns : Entries(c)
    BY <1>1
  <2>2. /\ UNCHANGED <<sentTo, saved, offline, msg, ctxDone, queued>>
        /\ \A d \in Conns \ {c} : hpc'[d] = hpc[d]
        /\ hpc'[c] \notin Holding
    BY <2>1 DEF Entries, Register, Leave, AwaitRegistration, Goto, db, locals, life,
       history, TypeInv, Holding
  <2>3. QueuedSent' /\ KeepsQueued
    BY <2>2, Grows
  <2> QED BY <2>2, <2>3 DEF KeptInv, HandSaved
<1>2. CASE Restart
  <2>1. /\ UNCHANGED <<sentTo, saved, offline, queued>>
        /\ \A c \in Conns : hpc'[c] \notin Holding
    BY <1>2 DEF Restart, db, Holding
  <2>2. QueuedSent' /\ KeepsQueued
    BY <2>1, Grows
  <2> QED BY <2>1, <2>2 DEF KeptInv, HandSaved
<1> QED BY <1>1, <1>2

LEMMA KeptStep ==
  ASSUME TypeInv, KeptInv, [Next]_vars
  PROVE  KeptInv' /\ KeepsQueued
BY Steps, KeptQuiet, KeptDirect, KeptDeliveries, KeptOthers

LEMMA KeptHolds == Spec => []KeptInv
<1>1. Init => KeptInv
  BY DEF Init, KeptInv, HandSaved, QueuedSent, Holding
<1> QED BY <1>1, KeptStep, TypeInvHolds, PTL DEF Spec

(* A message that is queued is put in both tables that GetOfflineMessages  *)
(* joins (store.go:193-199), and leaves them only where a handler of its   *)
(* recipient deletes the queue: for any number of agents and connections,  *)
(* of crashes and restarts, and wherever Stop finds the handlers.          *)
THEOREM QueuedAreKept == Spec => QueuedIsKept
<1>1. TypeInv /\ KeptInv /\ [Next]_vars => [KeepsQueued]_vars
  BY KeptStep
<1>2. Spec => [][KeepsQueued]_vars
  BY <1>1, TypeInvHolds, KeptHolds, PTL DEF Spec
<1> QED BY <1>2 DEF QueuedIsKept, KeepsQueued

-----------------------------------------------------------------------------
(* An agent that was never handled twice at once has its handler for       *)
(* itself: the entry that the handler made is there until its own cleanup. *)

Alone == \A c, d \in Conns :
           /\ owner[c] \in Agents \ overlapped /\ owner[c] = owner[d]
           /\ hpc[c] \notin Over /\ hpc[d] \notin Over
           => c = d
Reached == \A c \in Conns : hpc[c] \in InMap /\ owner[c] \notin overlapped
                              => connections[owner[c]] = c

ReachInv == Alone /\ Reached

LEMMA ReachMoves ==
  ASSUME TypeInv, ReachInv,
         \/ Still
         \/ \E c \in Conns : Quiet(c) \/ Direct(c) \/ Deliveries(c)
  PROVE  ReachInv'
<1>1. UNCHANGED <<connections, owner, overlapped>>
  BY DEF Still, Quiet, tracked, Direct, ReadSend, CheckOnline, CheckFilter, WriteDirect,
     QueueOffline, Dropped, Deliveries, GetOffline, SendOffline, SendOfflineDone,
     ClearOffline, memory, locals, history
<1>2. ASSUME NEW d \in Conns
      PROVE  /\ hpc'[d] \in InMap => hpc[d] \in InMap
             /\ hpc'[d] \notin Over => hpc[d] \notin Over \/ hpc[d] = "unborn"
  <2>1. CASE Still
    BY <2>1 DEF Still
  <2>2. CASE \E c \in Conns : Quiet(c)
    BY <2>2 DEF Quiet, Parted, Over
  <2>3. CASE \E c \in Conns : Direct(c) \/ Deliveries(c)
    <3>1. PICK c \in Conns : Direct(c) \/ Deliveries(c)
      BY <2>3
    <3>2. hpc[c] \in InMap /\ hpc[c] \notin Over
      BY <3>1 DEF Direct, ReadSend, CheckOnline, CheckFilter, WriteDirect, QueueOffline,
         Deliveries, GetOffline, SendOffline, SendOfflineDone, ClearOffline, InMap,
         Entering, Serving, Over
    <3>3. hpc' = hpc \/ \E label \in Labels : Goto(c, label)
      BY <3>1, Zenon DEF Direct, ReadSend, CheckOnline, CheckFilter, WriteDirect,
         QueueOffline, Deliveries, GetOffline, SendOffline, SendOfflineDone,
         ClearOffline, Labels, Entering, Serving
    <3>4. d # c => hpc'[d] = hpc[d]
      BY <3>3 DEF Goto, TypeInv
    <3> QED BY <3>2, <3>4
  <2> QED BY <2>1, <2>2, <2>3
<1>3. \A d \in Conns : hpc[d] = "unborn" => owner[d] \notin Agents
  BY NullsAssumption DEF TypeInv, Placed
<1>4. Alone'
  BY <1>1, <1>2, <1>3 DEF ReachInv, Alone
<1>5. Reached'
  BY <1>1, <1>2 DEF ReachInv, Reached
<1> QED BY <1>4, <1>5 DEF ReachInv

LEMMA ReachOthers ==
  ASSUME TypeInv, ReachInv, Restart \/ \E c \in Conns : Entries(c)
  PROVE  ReachInv'
<1>1. CASE \E c \in Conns : Register(c) \/ Leave(c)
  <2>1. PICK c \in Conns : Register(c) \/ Leave(c)
    BY <1>1
  <2>2. /\ UNCHANGED <<owner, overlapped>> /\ owner[c] \in Agents
        /\ \A d \in Conns \ {c} : hpc'[d] = hpc[d]
        /\ hpc[c] \notin Over
    BY <2>1 DEF Register, Leave, Goto, locals, history, TypeInv, Placed, Entering,
       Leaving, Over
  <2>3. /\ \A a \in Agents \ {owner[c]} : connections'[a] = connections[a]
        /\ hpc'[c] \in InMap => connections'[owner[c]] = c
    BY <2>1, <2>2
       DEF Register, Leave, Entered, Goto, TypeInv, MemoryType, InMap, Entering, Serving
  <2>4. Alone'
    BY <2>2 DEF ReachInv, Alone
  <2>5. ASSUME NEW d \in Conns, hpc'[d] \in InMap, owner[d] \notin overlapped
        PROVE  connections'[owner[d]] = d
    <3>1. CASE d = c
      BY <2>3, <2>5, <3>1
    <3>2. CASE d # c
      <4>1. hpc[d] \in InMap /\ hpc[d] \notin Over
        BY <2>2, <2>5, <3>2 DEF InMap, Entering, Serving, Over
      <4>2. owner[d] \in Agents
        BY <4>1 DEF InMap, TypeInv, Placed, Leaving
      <4>3. owner[d] # owner[c]
        BY <2>2, <2>5, <3>2, <4>1, <4>2 DEF ReachInv, Alone
      <4> QED BY <2>3, <2>5, <4>1, <4>2, <4>3 DEF ReachInv, Reached
    <3> QED BY <3>1, <3>2
  <2> QED BY <2>2, <2>4, <2>5 DEF ReachInv, Reached
<1>2. CASE \E c \in Conns, a \in Agents : AwaitRegistration(c, a)
  <2>1. PICK c \in Conns, a \in Agents : AwaitRegistration(c, a)
    BY <1>2
  <2>2. /\ UNCHANGED connections
        /\ owner'[c] = a /\ \A d \in Conns \ {c} : owner'[d] = owner[d]
        /\ hpc'[c] = "register" /\ \A d \in Conns \ {c} : hpc'[d] = hpc[d]
        /\ overlapped \subseteq overlapped'
        /\ Handled(a) => a \in overlapped'
    BY <2>1 DEF AwaitRegistration, Goto, memory, TypeInv, LocalType
  <2>3. ASSUME NEW d \in Conns \ {c}, owner[d] = a, hpc[d] \notin Over
        PROVE  a \in overlapped'
    BY <2>2, <2>3 DEF Handled
  <2>4. Alone'
    BY <2>2, <2>3 DEF ReachInv, Alone
  <2>5. Reached'
    BY <2>2 DEF ReachInv, Reached, InMap, Entering, Serving
  <2> QED BY <2>4, <2>5 DEF ReachInv
<1>3. CASE Restart
  <2>1. \A c \in Conns : hpc'[c] \in Over /\ hpc'[c] \notin InMap
    BY <1>3 DEF Restart, Over, InMap, Entering, Serving
  <2> QED BY <2>1 DEF ReachInv, Alone, Reached
<1> QED BY <1>1, <1>2, <1>3 DEF Entries

LEMMA ReachHolds == Spec => []ReachInv
<1>1. Init => ReachInv
  BY DEF Init, ReachInv, Alone, Reached, InMap, Entering, Serving, Over
<1>2. TypeInv /\ ReachInv /\ [Next]_vars => ReachInv'
  BY Steps, ReachMoves, ReachOthers
<1> QED BY <1>1, <1>2, TypeInvHolds, PTL DEF Spec

(* An agent that never had two handlers at once is found by the senders    *)
(* under the connection it is served on (enhanced.go:107, 141), for any    *)
(* number of agents and connections, one after the other and over          *)
(* restarts.                                                               *)
THEOREM AloneIsReachable == Spec => []ServedAloneIsReachable
<1>1. ReachInv => ServedAloneIsReachable
  BY DEF ReachInv, Reached, InMap, ServedAloneIsReachable
<1> QED BY <1>1, ReachHolds, PTL

-----------------------------------------------------------------------------
(* The agents table.  Whoever may still save the agent as online has its   *)
(* own mark to make, and where no such handler is left the last mark was   *)
(* not undone.                                                             *)

Marked == {"notify left", "scan left", "close", "ended"}
Unmarked == Entering \cup Serving \cup {"leave", "leave wait", "mark offline"}

OfflineInv ==
  ~ctxDone => \A a \in Agents :
    /\ \E c \in Conns : owner[c] = a /\ hpc[c] \in Marked
    /\ \A c \in Conns : owner[c] = a => hpc[c] \notin Unmarked
    => status[a] # "online"

\* What a handler keeps in a step that marks nobody.
Unchanged(c) ==
  /\ hpc'[c] \in Marked /\ owner'[c] \in Agents
     => hpc[c] \in Marked /\ owner'[c] = owner[c]
  /\ owner[c] \in Agents /\ hpc[c] \in Unmarked
     => hpc'[c] \in Unmarked /\ owner'[c] = owner[c]
\* Another row is saved only by a handler that has its own mark to make.
RowsKept == \A a \in Agents : \/ status'[a] = status[a]
                              \/ \E c \in Conns : owner'[c] = a /\ hpc'[c] \in Unmarked

LEMMA MarkedLater ==
  ASSUME TypeInv, OfflineInv, \A c \in Conns : Unchanged(c), RowsKept,
         ~ctxDone' => ~ctxDone
  PROVE  OfflineInv'
<1> SUFFICES ASSUME ~ctxDone', NEW a \in Agents,
                    NEW c \in Conns, owner'[c] = a, hpc'[c] \in Marked,
                    \A d \in Conns : owner'[d] = a => hpc'[d] \notin Unmarked
             PROVE  status'[a] # "online"
  BY DEF OfflineInv
<1>1. owner[c] = a /\ hpc[c] \in Marked
  BY DEF Unchanged
<1>2. \A d \in Conns : owner[d] = a => hpc[d] \notin Unmarked
  BY DEF Unchanged
<1> QED BY <1>1, <1>2 DEF OfflineInv, RowsKept

LEMMA OfflineSaves ==
  ASSUME TypeInv, OfflineInv, NEW c \in Conns, SaveOnline(c) \/ SaveBack(c)
  PROVE  OfflineInv'
<1>1. /\ UNCHANGED <<owner, ctxDone>> /\ owner[c] \in Agents
      /\ \A d \in Conns \ {c} : hpc'[d] = hpc[d]
      /\ hpc'[c] \in Unmarked
      /\ \A a \in Agents : status'[a] = status[a] \/ a = owner[c]
  BY DEF SaveOnline, SaveBack, SaveAgent, Goto, locals, life, TypeInv, DbType, Placed,
     Unmarked, Entering, Serving
<1>2. hpc'[c] \notin Marked
  BY <1>1 DEF Marked, Unmarked, Entering, Serving
<1>3. \A d \in Conns : Unchanged(d)
  BY <1>1, <1>2 DEF Unchanged
<1>4. RowsKept
  BY <1>1 DEF RowsKept
<1> QED BY <1>1, <1>3, <1>4, MarkedLater

LEMMA OfflineMark ==
  ASSUME TypeInv, OfflineInv, NEW c \in Conns, MarkOffline(c)
  PROVE  OfflineInv'
<1>1. /\ UNCHANGED <<owner, ctxDone>> /\ owner[c] \in Agents
      /\ \A d \in Conns \ {c} : hpc'[d] = hpc[d]
      /\ \A a \in Agents \ {owner[c]} : status'[a] = status[a]
      /\ ~ctxDone => status'[owner[c]] # "online"
  BY DEF MarkOffline, HasRow, SaveAgent, Gone, Goto, locals, life, TypeInv, DbType,
     Placed, Leaving
<1>2. ASSUME ~ctxDone', NEW a \in Agents \ {owner[c]},
             NEW d \in Conns, owner'[d] = a, hpc'[d] \in Marked,
             \A e \in Conns : owner'[e] = a => hpc'[e] \notin Unmarked
      PROVE  status'[a] # "online"
  <2>1. /\ owner[d] = a /\ hpc[d] \in Marked
        /\ \A e \in Conns : owner[e] = a => hpc[e] \notin Unmarked
    BY <1>1, <1>2
  <2> QED BY <1>1, <1>2, <2>1 DEF OfflineInv
<1> QED BY <1>1, <1>2 DEF OfflineInv

\* The other steps save no agent.
LEMMA OfflineOthers ==
  ASSUME TypeInv, OfflineInv, NEW c \in Conns, Handle(c) \/ Client(c),
         ~(SaveOnline(c) \/ SaveBack(c) \/ MarkOffline(c))
  PROVE  OfflineInv'
<1>1. UNCHANGED <<status, ctxDone>>
  BY DEF Handle, Client, Lock, Register, Greet, GetOffline, SendOffline,
     SendOfflineDone, ClearOffline, LoopTop, ReadEnds, Subscribe, CheckOnline,
     CheckFilter, WriteDirect, QueueOffline, ScanStart, ScanOne, ScanEnd, CollectEnd,
     SpreadOne, SpreadEnd, WriteEvent, Reply, Leave, CloseConn, Connect, Disconnect,
     PeerStops, AwaitFails, AwaitRegistration, ReadLocal,
     ReadBroadcast, ReadPublishTodo, ReadSubscribe, ReadGetOffline, ReadTo,
     ReadGetAgent, ReadSend, db, life
<1>2. ASSUME NEW d \in Conns
      PROVE  Unchanged(d)
  <2>1. CASE \E m \in Msgs, a \in Agents : ReadSend(c, m, a)
    BY <2>1 DEF ReadSend, Goto, TypeInv, Unchanged, Marked, Unmarked, Entering, Serving
  <2>2. CASE Direct(c) /\ ~(\E m \in Msgs, a \in Agents : ReadSend(c, m, a))
    <3>1. PICK label \in {"enqueue", "filter", "loop", "write"} :
            hpc' = [hpc EXCEPT ![c] = label]
      BY <2>2 DEF Direct, CheckOnline, CheckFilter, WriteDirect, QueueOffline, Goto
    <3>2. UNCHANGED owner /\ hpc[c] \in Serving
      BY <2>2 DEF Direct, CheckOnline, CheckFilter, WriteDirect, QueueOffline, Dropped,
         locals, Serving
    <3> QED BY <3>1, <3>2 DEF TypeInv, Unchanged, Marked, Unmarked, Entering, Serving
  <2>3. CASE Deliveries(c)
    <3>1. PICK label \in {hpc[d], "notify", "deliver send", "reply", "fetch send",
                          "deliver clear", "fetch clear"} :
            hpc' = hpc \/ hpc' = [hpc EXCEPT ![c] = label]
      BY <2>3 DEF Deliveries, GetOffline, SendOffline, SendOfflineDone, ClearOffline,
         Goto
    <3>2. UNCHANGED owner /\ hpc[c] \in Entering \cup Serving
      BY <2>3 DEF Deliveries, GetOffline, SendOffline, SendOfflineDone, ClearOffline,
         locals, Entering, Serving
    <3> QED BY <2>3, <3>1, <3>2
            DEF Deliveries, TypeInv, Unchanged, Marked, Unmarked, Entering, Serving
  <2>4. CASE \E a \in Agents : AwaitRegistration(c, a)
    <3>1. owner[c] \notin Agents /\ hpc' = [hpc EXCEPT ![c] = "register"]
      BY <2>4, NullsAssumption DEF AwaitRegistration, Goto, TypeInv, Placed
    <3>2. d # c => owner'[d] = owner[d]
      BY <2>4 DEF AwaitRegistration, TypeInv, LocalType
    <3>3. "register" \notin Marked
      BY DEF Marked
    <3> QED BY <3>1, <3>2, <3>3 DEF TypeInv, Unchanged
  <2>5. CASE Register(c) \/ Leave(c)
    BY <2>5 DEF Register, Leave, Goto, locals, TypeInv, Unchanged, Marked, Unmarked,
       Entering, Serving
  <2>6. CASE Lock(c)
    <3>1. PICK label \in {"register wait", "subscribe wait", "leave wait"} :
            hpc' = [hpc EXCEPT ![c] = label]
      BY <2>6 DEF Lock, Goto
    <3>2. UNCHANGED owner /\ hpc[c] \in Unmarked
      BY <2>6 DEF Lock, locals, Unmarked, Entering, Serving
    <3> QED BY <3>1, <3>2 DEF TypeInv, Unchanged, Marked, Unmarked, Entering, Serving
  <2>7. CASE \/ Greet(c) \/ LoopTop(c) \/ ReadEnds(c) \/ Reply(c) \/ SpreadEnd(c)
             \/ ReadLocal(c) \/ ReadBroadcast(c) \/ ReadPublishTodo(c) \/ ReadSubscribe(c)
             \/ ReadGetOffline(c) \/ ReadGetAgent(c) \/ Subscribe(c)
    <3>1. PICK label \in (Entering \cup Serving) \cup {"leave"} :
            hpc' = [hpc EXCEPT ![c] = label]
      BY <2>7 DEF Greet, LoopTop, ReadEnds, Reply, SpreadEnd, ReadLocal, ReadBroadcast,
         ReadPublishTodo, ReadSubscribe, ReadGetOffline, ReadTo, ReadGetAgent,
         Subscribe, Goto, Entering, Serving
    <3>2. UNCHANGED owner
      BY <2>7 DEF Greet, LoopTop, ReadEnds, Reply, SpreadEnd, ReadLocal, ReadBroadcast,
         ReadPublishTodo, ReadSubscribe, ReadGetOffline, ReadTo, ReadGetAgent,
         Subscribe, locals
    <3> QED BY <3>1, <3>2 DEF TypeInv, Unchanged, Marked, Unmarked, Entering, Serving
  <2>8. CASE ScanStart(c) \/ ScanEnd(c) \/ CollectEnd(c)
    <3>1. PICK label \in Loops \cup {"loop", "reply", "close", "spread"} :
            /\ hpc' = [hpc EXCEPT ![c] = label]
            /\ \/ hpc[c] \in Marked /\ label \in {"close", "scan left"}
               \/ hpc[c] \in Serving /\ label \notin {"close", "scan left"}
      <4>1. CASE ScanStart(c)
        <5>1. hpc' = [hpc EXCEPT ![c] = LoopOf[hpc[c]]]
          BY <4>1 DEF ScanStart, Goto
        <5>2. /\ LoopOf["notify"] = "scan" /\ LoopOf["notify renamed"] = "scan renamed"
              /\ LoopOf["notify left"] = "scan left" /\ LoopOf["broadcast"] = "collect"
          BY DEF LoopOf
        <5>3. hpc[c] \in {"notify", "notify renamed", "notify left", "broadcast"}
          BY <4>1 DEF ScanStart, LoopOf
        <5> QED BY <5>1, <5>2, <5>3 DEF Loops, EventLoops, Marked, Serving
      <4>2. CASE ScanEnd(c)
        <5>1. CASE hpc[c] = "scan"
          <6>1. hpc' = [hpc EXCEPT ![c] = "loop"]
            BY <4>2, <5>1 DEF ScanEnd, Goto
          <6>2. hpc[c] \in Serving
            BY <5>1 DEF Serving
          <6>3. "loop" \notin {"close", "scan left"}
            OBVIOUS
          <6> QED BY <6>1, <6>2, <6>3
        <5>2. CASE hpc[c] = "scan renamed"
          <6>1. hpc' = [hpc EXCEPT ![c] = "reply"]
            BY <4>2, <5>2 DEF ScanEnd, Goto
          <6>2. hpc[c] \in Serving
            BY <5>2 DEF Serving
          <6>3. "reply" \notin {"close", "scan left"}
            OBVIOUS
          <6> QED BY <6>1, <6>2, <6>3
        <5>3. CASE hpc[c] = "scan left"
          <6>1. hpc' = [hpc EXCEPT ![c] = "close"]
            BY <4>2, <5>3 DEF ScanEnd, Goto
          <6> QED BY <5>3, <6>1 DEF Marked
        <5> QED BY <4>2, <5>1, <5>2, <5>3 DEF ScanEnd, EventLoops
      <4>3. CASE CollectEnd(c)
        <5>1. hpc[c] = "collect" /\ hpc' = [hpc EXCEPT ![c] = "spread"]
          BY <4>3 DEF CollectEnd, Goto
        <5>2. hpc[c] \in Serving
          BY <5>1 DEF Serving
        <5>3. "spread" \notin {"close", "scan left"}
          OBVIOUS
        <5> QED BY <5>1, <5>2, <5>3
      <4> QED BY <2>8, <4>1, <4>2, <4>3
    <3>2. /\ label \in {"close", "scan left"} => label \in Marked \ Unmarked
          /\ label \notin {"close", "scan left"} => label \in Unmarked \ Marked
      BY DEF Loops, EventLoops, Marked, Unmarked, Entering, Serving
    <3>3. Serving \subseteq Unmarked /\ Marked \cap Unmarked = {}
      BY DEF Marked, Unmarked, Entering, Serving
    <3>4. UNCHANGED owner
      BY <2>8 DEF ScanStart, ScanEnd, CollectEnd, locals
    <3> QED BY <3>1, <3>2, <3>3, <3>4 DEF TypeInv, Unchanged
  <2>9. CASE CloseConn(c) \/ Connect(c)
    BY <2>9 DEF CloseConn, Connect, Goto, locals, TypeInv, Unchanged, Marked,
       Unmarked, Entering, Serving
  <2>10. CASE AwaitFails(c)
    BY <2>10, NullsAssumption
       DEF AwaitFails, Goto, locals, TypeInv, Placed, Unchanged, Marked, Unmarked,
           Entering, Serving
  <2>11. CASE ScanOne(c) \/ SpreadOne(c) \/ WriteEvent(c) \/ Disconnect(c)
               \/ PeerStops(c)
    BY <2>11 DEF ScanOne, SpreadOne, WriteEvent, Disconnect, PeerStops, locals, Unchanged
  <2> QED BY <2>1, <2>2, <2>3, <2>4, <2>5, <2>6, <2>7, <2>8, <2>9, <2>10, <2>11
          DEF Handle, Client, Direct, Deliveries
<1>3. RowsKept
  BY <1>1 DEF RowsKept
<1> QED BY <1>1, <1>2, <1>3, MarkedLater

LEMMA OfflineHolds == Spec => []OfflineInv
<1>1. Init => OfflineInv
  BY DEF Init, OfflineInv, Marked
<1>2. TypeInv /\ OfflineInv /\ [Next]_vars => OfflineInv'
  <2> SUFFICES ASSUME TypeInv, OfflineInv, [Next]_vars
               PROVE  OfflineInv'
    OBVIOUS
  <2>1. CASE \E c \in Conns : Handle(c) \/ Client(c)
    BY <2>1, OfflineSaves, OfflineMark, OfflineOthers
  <2>2. CASE UNCHANGED vars
    BY <2>2 DEF vars, db, locals, life, OfflineInv
  <2>3. CASE Cancel \/ StopSteps
    BY <2>3 DEF Cancel, StopSteps, StopLock, StopSweep, StopReturn, db, locals, OfflineInv
  <2>4. CASE Restart
    BY <2>4 DEF Restart, OfflineInv, Marked
  <2> QED BY <2>1, <2>2, <2>3, <2>4 DEF Next
<1> QED BY <1>1, <1>2, TypeInvHolds, PTL DEF Spec

(* When the last handler of an agent has ended in a server that was not    *)
(* stopped, the agents table says offline (enhanced.go:139-159): however   *)
(* many handlers the agent had and in whatever order they entered it,      *)
(* saved what they had read of it and marked it.                           *)
THEOREM GoneIsMarked == Spec => []GoneIsOffline
<1>1. OfflineInv => GoneIsOffline
  <2> SUFFICES ASSUME OfflineInv, ~ctxDone, NEW a \in Agents,
                      NEW c \in Conns, owner[c] = a, hpc[c] = "ended", ~Handled(a)
               PROVE  status[a] # "online"
    BY DEF GoneIsOffline
  <2>1. \A d \in Conns : owner[d] = a => hpc[d] \notin Unmarked
    BY DEF Handled, Over, Unmarked, Entering, Serving
  <2> QED BY <2>1 DEF OfflineInv, Marked
<1> QED BY <1>1, OfflineHolds, PTL

-----------------------------------------------------------------------------
(* The server implements DurableMailbox.  What OnceInv and KeptInv do not  *)
(* say: a message in a hand has not been queued before, what is read from  *)
(* a queue and written has been, and a handler that has ended has closed   *)
(* its connection.                                                         *)

HandNotQueued == \A c \in Conns : msg[c] # NoMsg => msg[c] \notin queued
TakenWereQueued == /\ \A a \in Agents : offline[a] \subseteq queued
                   /\ \A c \in Conns : batch[c] \subseteq queued

PartedClosed == \A c \in Conns : hpc[c] \in Parted => ~open[c]

PostInv == HandNotQueued /\ TakenWereQueued /\ PartedClosed

LeftMap == {c \in Conns : hpc[c] \in Parted}

\* Messages and registrations neither close a connection nor end a handler.
LEMMA MovesStay ==
  ASSUME TypeInv, NEW c \in Conns, Direct(c) \/ Deliveries(c) \/ Entries(c)
  PROVE  /\ UNCHANGED open
         /\ \A d \in Conns : hpc'[d] \in Parted <=> hpc[d] \in Parted
         /\ LeftMap' = LeftMap
<1>1. UNCHANGED open
  BY DEF Direct, Deliveries, Entries, ReadSend, CheckOnline, CheckFilter, WriteDirect,
     QueueOffline, GetOffline, SendOffline, SendOfflineDone, ClearOffline, Register,
     Leave, AwaitRegistration, sockets
<1>2. hpc' = hpc \/ \E label \in Labels \ Parted : hpc' = [hpc EXCEPT ![c] = label]
  <2>1. CASE Direct(c)
    <3>1. PICK label \in {"check", "enqueue", "filter", "loop", "write"} :
            hpc' = [hpc EXCEPT ![c] = label]
      BY <2>1 DEF Direct, ReadSend, CheckOnline, CheckFilter, WriteDirect, QueueOffline,
         Goto
    <3> QED BY <3>1 DEF Labels, Serving, Parted
  <2>2. CASE Deliveries(c)
    <3>1. \/ hpc' = hpc
          \/ \E label \in {"notify", "deliver send", "reply", "fetch send",
                           "deliver clear", "fetch clear"} :
               hpc' = [hpc EXCEPT ![c] = label]
      BY <2>2 DEF Deliveries, GetOffline, SendOffline, SendOfflineDone, ClearOffline,
         Goto
    <3> QED BY <3>1 DEF Labels, Serving, Entering, Parted
  <2>3. CASE Entries(c)
    <3>1. PICK label \in {"save", "mark offline", "register"} :
            hpc' = [hpc EXCEPT ![c] = label]
      BY <2>3 DEF Entries, Register, Leave, AwaitRegistration, Goto
    <3> QED BY <3>1 DEF Labels, Entering, Leaving, Parted
  <2> QED BY <2>1, <2>2, <2>3
<1>3. hpc[c] \notin Parted
  BY DEF Direct, Deliveries, Entries, ReadSend, CheckOnline, CheckFilter, WriteDirect,
     QueueOffline, GetOffline, SendOffline, SendOfflineDone, ClearOffline, Register,
     Leave, AwaitRegistration, Parted
<1>4. \A d \in Conns : hpc'[d] \in Parted <=> hpc[d] \in Parted
  BY <1>2, <1>3 DEF TypeInv
<1> QED BY <1>1, <1>4 DEF LeftMap

LEMMA PostStep ==
  ASSUME TypeInv, OnceInv, KeptInv, PostInv, [Next]_vars
  PROVE  PostInv'
<1>1. CASE Still \/ \E c \in Conns : Quiet(c)
  <2>1. HandNotQueued' /\ TakenWereQueued'
    BY <1>1 DEF Still, Quiet, tracked, PostInv, HandNotQueued, TakenWereQueued
  <2>2. PartedClosed'
    BY <1>1 DEF Still, Quiet, Closing, PostInv, PartedClosed
  <2> QED BY <2>1, <2>2 DEF PostInv
<1>2. ASSUME NEW c \in Conns, Direct(c)
      PROVE  PostInv'
  <2>0. PartedClosed'
    BY <1>2, MovesStay DEF PostInv, PartedClosed
  <2>1. CASE \E m \in Msgs, a \in Agents : ReadSend(c, m, a)
    <3>1. PICK m \in Msgs, a \in Agents : ReadSend(c, m, a)
      BY <2>1
    <3>2. m \notin queued
      BY <3>1, NullsAssumption DEF ReadSend, KeptInv, QueuedSent
    <3>3. /\ msg'[c] = m /\ \A d \in Conns \ {c} : msg'[d] = msg[d]
          /\ UNCHANGED <<offline, batch, queued>>
      BY <3>1 DEF ReadSend, history, TypeInv, LocalType
    <3> QED BY <2>0, <3>2, <3>3 DEF PostInv, HandNotQueued, TakenWereQueued
  <2>2. CASE CheckOnline(c) \/ (CheckFilter(c) /\ filter[To(c)] # "other")
    <3>1. UNCHANGED <<offline, msg, batch, queued>>
      BY <2>2 DEF CheckOnline, CheckFilter, db, locals, history
    <3> QED BY <2>0, <3>1 DEF PostInv, HandNotQueued, TakenWereQueued
  <2>3. CASE (CheckFilter(c) /\ filter[To(c)] = "other") \/ WriteDirect(c)
    <3>1. /\ UNCHANGED <<offline, batch, queued>>
          /\ msg' = [msg EXCEPT ![c] = NoMsg]
      BY <2>3 DEF CheckFilter, WriteDirect, Dropped, db, history
    <3> QED BY <2>0, <3>1 DEF PostInv, HandNotQueued, TakenWereQueued, TypeInv, LocalType
  <2>4. CASE QueueOffline(c)
    <3>1. /\ UNCHANGED batch
          /\ msg' = [msg EXCEPT ![c] = NoMsg]
          /\ \/ UNCHANGED <<offline, queued>>
             \/ /\ offline' = [offline EXCEPT ![To(c)] = @ \cup {msg[c]}]
                /\ queued' = queued \cup {msg[c]}
      BY <2>4 DEF QueueOffline, Dropped
    <3>2. \A d \in Conns : msg'[d] # NoMsg => msg'[d] = msg[d] /\ msg[d] # msg[c]
      BY <3>1 DEF OnceInv, OneHand, TypeInv, LocalType
    <3>3. HandNotQueued'
      BY <3>1, <3>2 DEF PostInv, HandNotQueued
    <3>4. \A a \in Agents : offline'[a] \subseteq offline[a] \cup {msg[c]}
      BY <3>1 DEF TypeInv, DbType
    <3>5. TakenWereQueued'
      BY <3>1, <3>4 DEF PostInv, TakenWereQueued
    <3> QED BY <2>0, <3>3, <3>5 DEF PostInv
  <2> QED BY <1>2, <2>1, <2>2, <2>3, <2>4 DEF Direct
<1>3. ASSUME NEW c \in Conns, Deliveries(c)
      PROVE  PostInv'
  <2>1. /\ UNCHANGED <<msg, queued>>
        /\ \A a \in Agents : offline'[a] \subseteq offline[a]
        /\ owner[c] \in Agents
    BY <1>3 DEF Deliveries, GetOffline, SendOffline, SendOfflineDone, ClearOffline,
       Cleared, db, locals, history, TypeInv, DbType, Placed, Entering, Serving
  <2>2. \A d \in Conns : \A m \in batch'[d] :
          m \in batch[d] \/ m \in offline[owner[c]]
    <3>1. CASE GetOffline(c)
      <4> DEFINE B == IF ctxDone THEN {} ELSE Queue(owner[c])
      <4>1. batch' = [batch EXCEPT ![c] = B]
        BY <3>1 DEF GetOffline
      <4>2. \A m \in B : m \in offline[owner[c]]
        BY DEF Queue
      <4> HIDE DEF B
      <4> QED BY <4>1, <4>2 DEF TypeInv, LocalType
    <3>2. CASE \E m \in Msgs : SendOffline(c, m)
      <4>1. PICK m \in Msgs : batch' = [batch EXCEPT ![c] = batch[c] \ {m}]
        BY <3>2 DEF SendOffline
      <4> QED BY <4>1 DEF TypeInv, LocalType
    <3>3. CASE SendOfflineDone(c) \/ ClearOffline(c)
      BY <3>3 DEF SendOfflineDone, ClearOffline, locals
    <3> QED BY <1>3, <3>1, <3>2, <3>3 DEF Deliveries
  <2>3. PartedClosed'
    BY <1>3, MovesStay DEF PostInv, PartedClosed
  <2> QED BY <2>1, <2>2, <2>3 DEF PostInv, HandNotQueued, TakenWereQueued
<1>4. ASSUME NEW c \in Conns, Entries(c)
      PROVE  PostInv'
  <2>1. PartedClosed'
    BY <1>4, MovesStay DEF PostInv, PartedClosed
  <2> QED BY <1>4, <2>1 DEF Entries, Register, Leave, AwaitRegistration, db, locals,
            history, PostInv, HandNotQueued, TakenWereQueued
<1>5. CASE Restart
  <2>1. PartedClosed'
    BY <1>5 DEF Restart, PartedClosed, Parted
  <2> QED BY <1>5, <2>1 DEF Restart, db, PostInv, HandNotQueued, TakenWereQueued
<1> QED BY <1>1, <1>2, <1>3, <1>4, <1>5, Steps

LEMMA PostHolds == Spec => []PostInv
<1>1. Init => PostInv
  BY DEF Init, PostInv, HandNotQueued, TakenWereQueued, PartedClosed, Parted
<1> QED BY <1>1, PostStep, TypeInvHolds, OnceHolds, KeptHolds, PTL DEF Spec

\* What each phase tells.
PhaseOk(m) ==
  /\ ~Sent(m) => Phase(m) = "unsent"
  /\ Sent(m) /\ InSomeHand(m) => Phase(m) = "travelling"
  /\ Sent(m) /\ ~InSomeHand(m) /\ m \in queued =>
       Phase(m) = IF m \in Queue(sentTo[m]) THEN "waiting" ELSE "released"
  /\ Sent(m) /\ ~InSomeHand(m) /\ m \notin queued => Phase(m) = "settled"
PhasesOk == \A m \in Msgs : PhaseOk(m)

LEMMA PhaseAt == PhasesOk
<1> SUFFICES ASSUME NEW m \in Msgs PROVE PhaseOk(m)
  BY DEF PhasesOk
<1>1. CASE ~Sent(m)
  BY <1>1 DEF Phase, PhaseOk
<1>2. CASE Sent(m) /\ InSomeHand(m)
  BY <1>2 DEF Phase, PhaseOk
<1>3. CASE Sent(m) /\ ~InSomeHand(m) /\ m \in queued
  BY <1>3 DEF Phase, PhaseOk
<1>4. CASE Sent(m) /\ ~InSomeHand(m) /\ m \notin queued
  BY <1>4 DEF Phase, PhaseOk
<1> QED BY <1>1, <1>2, <1>3, <1>4

LEMMA PhaseAtNext == PhasesOk'
BY PhaseAt, PTL

LEMMA PhaseSame ==
  ASSUME NEW m \in Msgs, sentTo'[m] = sentTo[m], InSomeHand(m)' = InSomeHand(m),
         (m \in queued)' = (m \in queued),
         (m \in Queue(sentTo[m]))' = (m \in Queue(sentTo[m]))
  PROVE  Phase(m)' = Phase(m)
BY DEF Phase, Sent

PhaseMap == [m \in Msgs |-> Phase(m)]

LEMMA PhaseMoves ==
  ASSUME NEW m \in Msgs, NEW x, Phase(m)' = x,
         \A n \in Msgs : n # m => Phase(n)' = Phase(n)
  PROVE  PhaseMap[m] = Phase(m) /\ PhaseMap' = [PhaseMap EXCEPT ![m] = x]
BY DEF PhaseMap

LEMMA PhaseStays ==
  ASSUME \A n \in Msgs : Phase(n)' = Phase(n)
  PROVE  PhaseMap' = PhaseMap
BY DEF PhaseMap

PostOffice == TypeInv /\ Addressed /\ OnceInv /\ KeptInv /\ PostInv

\* Where nothing changes that the mapping looks at, the mailbox stutters.
LEMMA PhasesStay ==
  ASSUME UNCHANGED <<sentTo, saved, offline, msg, queued>>
  PROVE  PhaseMap' = PhaseMap
<1> SUFFICES ASSUME NEW m \in Msgs PROVE Phase(m)' = Phase(m)
  BY PhaseStays
<1>1. /\ InSomeHand(m)' = InSomeHand(m)
      /\ (m \in Queue(sentTo[m]))' = (m \in Queue(sentTo[m]))
  BY DEF InSomeHand, Queue
<1> QED BY <1>1, PhaseSame

LEMMA Stutters ==
  ASSUME UNCHANGED <<sentTo, saved, offline, owner, msg, copies, queued>>,
         LeftMap' = LeftMap
  PROVE  UNCHANGED Abstract!vars
<1>1. PhaseMap' = PhaseMap
  BY PhasesStay
<1> QED BY <1>1 DEF Abstract!vars, PhaseMap, LeftMap, Parted

\* The end of a handler is the only other step that the mailbox takes notice of
\* in which no message moves.
LEMMA PartsOrStutters ==
  ASSUME PostOffice, NEW c \in Conns, Quiet(c)
  PROVE  [Abstract!Next]_(Abstract!vars)
<1>1. UNCHANGED <<sentTo, saved, offline, owner, msg, copies, queued>>
  BY DEF Quiet, tracked
<1>2. CASE hpc'[c] \notin Parted
  <2>1. LeftMap' = LeftMap
    BY <1>2 DEF Quiet, LeftMap
  <2> QED BY <1>1, <2>1, Stutters
<1>3. CASE hpc'[c] \in Parted
  <2>1. c \notin LeftMap /\ LeftMap' = LeftMap \cup {c}
    BY <1>3 DEF Quiet, LeftMap
  <2>2. PhaseMap' = PhaseMap
    BY <1>1, PhasesStay
  <2>3. Abstract!Part(c)
    BY <1>1, <2>1, <2>2 DEF Abstract!Part, PhaseMap, LeftMap, Parted
  <2> QED BY <2>3 DEF Abstract!Next
<1> QED BY <1>2, <1>3

LEMMA AttachesOrStutters ==
  ASSUME PostOffice, NEW c \in Conns, Entries(c)
  PROVE  [Abstract!Next]_(Abstract!vars)
<1>0. LeftMap' = LeftMap
  BY MovesStay DEF PostOffice
<1>1. CASE Register(c) \/ Leave(c)
  BY <1>0, <1>1, Stutters DEF Register, Leave, db, locals, history
<1>2. CASE \E a \in Agents : AwaitRegistration(c, a)
  <2>1. PICK a \in Agents : AwaitRegistration(c, a)
    BY <1>2
  <2>2. /\ UNCHANGED <<sentTo, saved, offline, msg, copies, queued>>
        /\ owner' = [owner EXCEPT ![c] = a] /\ owner[c] = NoAgent
        /\ c \notin LeftMap
    BY <2>1 DEF AwaitRegistration, db, PostOffice, TypeInv, Placed, LeftMap, Parted
  <2>3. PhaseMap' = PhaseMap
    BY <2>2, PhasesStay
  <2>4. Abstract!Attach(c, a)
    BY <1>0, <2>2, <2>3 DEF Abstract!Attach, PhaseMap, LeftMap, Parted
  <2> QED BY <2>4 DEF Abstract!Next
<1> QED BY <1>1, <1>2 DEF Entries

\* A message that is sent comes into a hand.
LEMMA SendIsSend ==
  ASSUME PostOffice, NEW c \in Conns, NEW m \in Msgs, NEW a \in Agents,
         ReadSend(c, m, a)
  PROVE  Abstract!Send(m, a)
<1>0. LeftMap' = LeftMap
  BY MovesStay DEF PostOffice, Direct
<1>1. /\ sentTo[m] = NoAgent /\ sentTo' = [sentTo EXCEPT ![m] = a]
      /\ msg' = [msg EXCEPT ![c] = m] /\ hpc[c] = "read"
      /\ saved' = saved \/ saved' = saved \cup {m}
      /\ UNCHANGED <<offline, owner, copies, queued>>
  BY DEF ReadSend, SaveMessage, history
<1>2. msg[c] = NoMsg /\ a # NoAgent
  BY <1>1, NullsAssumption DEF PostOffice, OnceInv, InHand, Holding
<1>3. Phase(m) = "unsent"
  BY <1>1, PhaseAt DEF PhasesOk, PhaseOk, Sent
<1>4. Phase(m)' = "travelling"
  <2>1. sentTo'[m] = a /\ msg'[c] = m
    BY <1>1 DEF PostOffice, TypeInv, DbType, LocalType
  <2> QED BY <1>2, <2>1, PhaseAtNext DEF PhasesOk, PhaseOk, Sent, InSomeHand
<1>5. ASSUME NEW n \in Msgs, n # m
      PROVE  Phase(n)' = Phase(n)
  <2>1. sentTo'[n] = sentTo[n]
    BY <1>1, <1>5 DEF PostOffice, TypeInv, DbType
  <2>2. \A d \in Conns : msg'[d] = n <=> msg[d] = n
    BY <1>1, <1>2, <1>5, NullsAssumption DEF PostOffice, TypeInv, LocalType
  <2>3. (m # n => (n \in saved' <=> n \in saved)) /\ offline' = offline
    BY <1>1
  <2>4. InSomeHand(n)' = InSomeHand(n)
    BY <2>2 DEF InSomeHand
  <2>5. (n \in Queue(sentTo[n]))' = (n \in Queue(sentTo[n]))
    BY <1>5, <2>1, <2>3 DEF Queue
  <2> QED BY <1>1, <2>1, <2>4, <2>5, PhaseSame
<1>6. PhaseMap[m] = "unsent" /\ PhaseMap' = [PhaseMap EXCEPT ![m] = "travelling"]
  BY <1>3, <1>4, <1>5, PhaseMoves
<1> QED BY <1>0, <1>1, <1>6
        DEF Abstract!Send, Abstract!Become, PhaseMap, LeftMap, Parted

\* A hand that lets go of its message: whatever becomes of it, the other
\* messages stay as they are.
LEMMA LetGo ==
  ASSUME PostOffice, NEW c \in Conns, hpc[c] \in Holding,
         msg' = [msg EXCEPT ![c] = NoMsg], UNCHANGED <<sentTo, saved>>,
         \/ UNCHANGED <<offline, queued>>
         \/ /\ offline' = [offline EXCEPT ![To(c)] = @ \cup {msg[c]}]
            /\ queued' = queued \cup {msg[c]}
  PROVE  /\ msg[c] \in Msgs /\ Sent(msg[c]) /\ msg[c] \notin queued
         /\ Phase(msg[c]) = "travelling"
         /\ ~(\E d \in Conns : msg'[d] = msg[c])
         /\ \A n \in Msgs : n # msg[c] => Phase(n)' = Phase(n)
<1> DEFINE m == msg[c]
<1>1. m \in Msgs /\ m # NoMsg /\ sentTo[m] \in Agents /\ Sent(m) /\ m \notin queued
  BY NullsAssumption
     DEF PostOffice, TypeInv, Placed, Sent, PostInv, HandNotQueued
<1>2. Phase(m) = "travelling"
  BY <1>1, PhaseAt DEF PhasesOk, PhaseOk, InSomeHand
<1>3. \A d \in Conns : msg'[d] # m
  BY <1>1 DEF PostOffice, OnceInv, OneHand, TypeInv, LocalType
<1>4. ASSUME NEW n \in Msgs, n # m
      PROVE  Phase(n)' = Phase(n)
  <2>1. \A d \in Conns : msg'[d] = n <=> msg[d] = n
    BY <1>4, NullsAssumption DEF PostOffice, TypeInv, LocalType
  <2>2. InSomeHand(n)' = InSomeHand(n)
    BY <2>1 DEF InSomeHand
  <2>3. (n \in queued)' = (n \in queued)
    BY <1>4
  <2>4. CASE ~Sent(n)
    BY <2>4, PhaseAt, PhaseAtNext DEF PhasesOk, PhaseOk, Sent
  <2>5. CASE Sent(n)
    <3>1. sentTo[n] \in Agents
      BY <2>5 DEF Sent, PostOffice, TypeInv, DbType
    <3>2. n \in offline'[sentTo[n]] <=> n \in offline[sentTo[n]]
      BY <1>4, <3>1 DEF PostOffice, TypeInv, DbType
    <3>3. (n \in Queue(sentTo[n]))' = (n \in Queue(sentTo[n]))
      BY <3>2 DEF Queue
    <3> QED BY <2>2, <2>3, <3>3, PhaseSame
  <2> QED BY <2>4, <2>5
<1> QED BY <1>1, <1>2, <1>3, <1>4

LEMMA SettlesMessage ==
  ASSUME PostOffice, NEW c \in Conns, hpc[c] \in Holding,
         msg' = [msg EXCEPT ![c] = NoMsg],
         UNCHANGED <<sentTo, saved, offline, queued>>
  PROVE  /\ msg[c] \in Msgs /\ PhaseMap[msg[c]] = "travelling"
         /\ PhaseMap' = [PhaseMap EXCEPT ![msg[c]] = "settled"]
<1>1. /\ msg[c] \in Msgs /\ Sent(msg[c]) /\ msg[c] \notin queued
      /\ Phase(msg[c]) = "travelling"
      /\ ~(\E d \in Conns : msg'[d] = msg[c])
      /\ \A n \in Msgs : n # msg[c] => Phase(n)' = Phase(n)
  BY LetGo
<1> DEFINE m == msg[c]
<1>2. PhaseMap[m] = "travelling"
  BY <1>1 DEF PhaseMap
<1>3. ASSUME NEW n \in Msgs, Sent(n), n \notin queued, ~(\E d \in Conns : msg'[d] = n)
      PROVE  Phase(n)' = "settled"
  BY <1>3, PhaseAtNext DEF PhasesOk, PhaseOk, Sent, InSomeHand
<1>4. ASSUME NEW n \in Msgs, n = m PROVE PhaseMap' = [PhaseMap EXCEPT ![n] = "settled"]
  BY <1>1, <1>3, <1>4, PhaseMoves
<1> QED BY <1>1, <1>2, <1>4

\* A direct message that is filtered out, written or queued.
LEMMA DirectSettles ==
  ASSUME PostOffice, NEW c \in Conns, Direct(c)
  PROVE  [Abstract!Next]_(Abstract!vars)
<1>0. LeftMap' = LeftMap
  BY MovesStay DEF PostOffice
<1>1. CASE \E m \in Msgs, a \in Agents : ReadSend(c, m, a)
  BY <1>1, SendIsSend DEF Abstract!Next
<1>2. CASE CheckOnline(c) \/ (CheckFilter(c) /\ filter[To(c)] # "other")
  BY <1>0, <1>2, Stutters DEF CheckOnline, CheckFilter, db, locals, history
<1> DEFINE m == msg[c]
<1>3. CASE CheckFilter(c) /\ filter[To(c)] = "other"
  <2>1. /\ hpc[c] \in Holding /\ msg' = [msg EXCEPT ![c] = NoMsg]
        /\ UNCHANGED <<sentTo, saved, offline, queued, owner, copies>>
    BY <1>3 DEF CheckFilter, Dropped, Holding, db, history
  <2>2. /\ m \in Msgs /\ PhaseMap[m] = "travelling"
        /\ PhaseMap' = [PhaseMap EXCEPT ![m] = "settled"]
    BY <2>1, SettlesMessage
  <2>3. Abstract!Settle(m)
    BY <1>0, <2>1, <2>2
       DEF Abstract!Settle, Abstract!Become, PhaseMap, LeftMap, Parted
  <2> QED BY <2>2, <2>3 DEF Abstract!Next
<1>4. CASE WriteDirect(c)
  <2>1. /\ hpc[c] = "write" /\ hpc[c] \in Holding
        /\ msg' = [msg EXCEPT ![c] = NoMsg]
        /\ UNCHANGED <<sentTo, saved, offline, queued, owner>>
        /\ \/ copies' = copies
           \/ copies' = [copies EXCEPT ![found[c]][m] = @ + 1] /\ open[found[c]]
    BY <1>4 DEF WriteDirect, Deliver, Dropped, Holding, db, history
  <2>2. /\ m \in Msgs /\ PhaseMap[m] = "travelling"
        /\ PhaseMap' = [PhaseMap EXCEPT ![m] = "settled"]
    BY <2>1, SettlesMessage
  <2>3. CASE copies' = copies
    <3>1. Abstract!Settle(m)
      BY <1>0, <2>1, <2>2, <2>3
         DEF Abstract!Settle, Abstract!Become, PhaseMap, LeftMap, Parted
    <3> QED BY <2>2, <3>1 DEF Abstract!Next
  <2>4. CASE copies' = [copies EXCEPT ![found[c]][m] = @ + 1] /\ open[found[c]]
    <3>1. found[c] \in Conns /\ owner[found[c]] = sentTo[m]
      BY <2>1 DEF PostOffice, TypeInv, Placed, Addressed, Aimed, To
    <3>2. copies[found[c]][m] = 0
      BY <2>1, <2>2, <3>1, NullsAssumption
         DEF PostOffice, OnceInv, HandFresh, Untouched
    <3>3. copies' = [copies EXCEPT ![found[c]][m] = 1]
      BY <2>4, <3>2
    <3>4. found[c] \notin LeftMap
      BY <2>4, <3>1 DEF PostOffice, PostInv, PartedClosed, LeftMap
    <3>5. Abstract!Hand(m, found[c])
      BY <1>0, <2>1, <2>2, <3>1, <3>2, <3>3, <3>4
         DEF Abstract!Hand, Abstract!GiveTo, Abstract!Become, PhaseMap, LeftMap, Parted
    <3> QED BY <2>2, <3>1, <3>5 DEF Abstract!Next
  <2> QED BY <2>1, <2>3, <2>4
<1>5. CASE QueueOffline(c)
  <2>1. /\ hpc[c] \in Holding /\ msg' = [msg EXCEPT ![c] = NoMsg]
        /\ UNCHANGED <<sentTo, saved, owner, copies>>
    BY <1>5 DEF QueueOffline, Dropped, Holding
  <2>2. CASE ctxDone
    <3>1. UNCHANGED <<offline, queued>>
      BY <1>5, <2>2 DEF QueueOffline
    <3>2. /\ m \in Msgs /\ PhaseMap[m] = "travelling"
          /\ PhaseMap' = [PhaseMap EXCEPT ![m] = "settled"]
      BY <2>1, <3>1, SettlesMessage
    <3>3. Abstract!Settle(m)
      BY <1>0, <2>1, <3>2
         DEF Abstract!Settle, Abstract!Become, PhaseMap, LeftMap, Parted
    <3> QED BY <3>2, <3>3 DEF Abstract!Next
  <2>3. CASE ~ctxDone
    <3>1. /\ offline' = [offline EXCEPT ![To(c)] = @ \cup {m}]
          /\ queued' = queued \cup {m}
      BY <1>5, <2>3 DEF QueueOffline
    <3>2. /\ m \in Msgs /\ Sent(m) /\ Phase(m) = "travelling"
          /\ ~(\E d \in Conns : msg'[d] = m)
          /\ \A n \in Msgs : n # m => Phase(n)' = Phase(n)
      BY <2>1, <3>1, LetGo
    <3>3. sentTo[m] \in Agents /\ m \in saved
      BY <2>1, <2>3 DEF PostOffice, TypeInv, Placed, KeptInv, HandSaved
    <3>4. m \in offline'[sentTo[m]]
      BY <3>1, <3>3 DEF To, PostOffice, TypeInv, DbType
    <3>5. ASSUME NEW n \in Msgs, n = m
          PROVE  PhaseMap' = [PhaseMap EXCEPT ![n] = "waiting"]
      <4>1. Phase(n)' = "waiting"
        BY <2>1, <3>1, <3>2, <3>3, <3>4, <3>5, PhaseAtNext
           DEF PhasesOk, PhaseOk, Sent, InSomeHand, Queue
      <4> QED BY <3>2, <3>5, <4>1, PhaseMoves
    <3>6. PhaseMap[m] = "travelling" /\ PhaseMap' = [PhaseMap EXCEPT ![m] = "waiting"]
      BY <3>2, <3>5 DEF PhaseMap
    <3>7. Abstract!Settle(m)
      BY <1>0, <2>1, <3>6
         DEF Abstract!Settle, Abstract!Become, PhaseMap, LeftMap, Parted
    <3> QED BY <3>2, <3>7 DEF Abstract!Next
  <2> QED BY <2>2, <2>3
<1> QED BY <1>1, <1>2, <1>3, <1>4, <1>5 DEF Direct

\* A message of a batch waits in the queue or has left it.
LEMMA BatchWaits ==
  ASSUME PostOffice, NEW c \in Conns, NEW m \in batch[c]
  PROVE  /\ m \in Msgs /\ Phase(m) \in {"waiting", "released"}
         /\ owner[c] = sentTo[m] /\ copies[c][m] = 0
<1>1. /\ m \in Msgs /\ m \in queued /\ owner[c] = sentTo[m] /\ sentTo[m] \in Agents
      /\ copies[c][m] = 0
  BY DEF PostOffice, TypeInv, LocalType, PostInv, TakenWereQueued, Addressed,
         BatchFor, OnceInv, Pending
<1>2. ~InSomeHand(m)
  BY <1>1, NullsAssumption DEF InSomeHand, PostOffice, PostInv, HandNotQueued
<1> QED BY <1>1, <1>2, PhaseAt, NullsAssumption DEF PhasesOk, PhaseOk, Sent

LEMMA DeliveriesForward ==
  ASSUME PostOffice, NEW c \in Conns, Deliveries(c)
  PROVE  [Abstract!Next]_(Abstract!vars)
<1>0. LeftMap' = LeftMap
  BY MovesStay DEF PostOffice
<1>1. CASE GetOffline(c) \/ SendOfflineDone(c)
  BY <1>0, <1>1, Stutters DEF GetOffline, SendOfflineDone, db, locals, history
<1>2. CASE \E m \in Msgs : SendOffline(c, m)
  <2>1. PICK m \in Msgs : SendOffline(c, m)
    BY <1>2
  <2>2. /\ m \in batch[c] /\ UNCHANGED <<sentTo, saved, offline, owner, msg, queued>>
        /\ \/ copies' = copies
           \/ copies' = [copies EXCEPT ![c][m] = @ + 1] /\ open[c]
    BY <2>1 DEF SendOffline, Deliver, db, history
  <2>3. CASE copies' = copies
    BY <1>0, <2>2, <2>3, Stutters
  <2>4. CASE copies' = [copies EXCEPT ![c][m] = @ + 1] /\ open[c]
    <3>1. /\ Phase(m) \in {"waiting", "released"}
          /\ owner[c] = sentTo[m] /\ copies[c][m] = 0
      BY <2>2, BatchWaits
    <3>2. copies' = [copies EXCEPT ![c][m] = 1]
      BY <2>4, <3>1
    <3>3. PhaseMap' = PhaseMap
      BY <2>2, PhasesStay
    <3>4. c \notin LeftMap
      BY <2>4 DEF PostOffice, PostInv, PartedClosed, LeftMap
    <3>5. Abstract!Forward(m, c)
      BY <1>0, <2>2, <3>1, <3>2, <3>3, <3>4
         DEF Abstract!Forward, Abstract!GiveTo, PhaseMap, LeftMap, Parted
    <3> QED BY <3>5 DEF Abstract!Next
  <2> QED BY <2>2, <2>3, <2>4
<1>3. CASE ClearOffline(c)
  <2>1. /\ UNCHANGED <<sentTo, saved, owner, msg, copies, queued>>
        /\ offline' = IF ctxDone THEN offline ELSE [offline EXCEPT ![owner[c]] = {}]
        /\ owner[c] \in Agents /\ c \notin LeftMap
    BY <1>3 DEF ClearOffline, Cleared, locals, history, PostOffice, TypeInv, Placed,
       Entering, Serving, LeftMap, Parted
  <2>2. CASE ctxDone
    BY <1>0, <2>1, <2>2, Stutters
  <2>3. CASE ~ctxDone
    <3> DEFINE waiting == {m \in Msgs : sentTo[m] = owner[c] /\ PhaseMap[m] = "waiting"}
    <3>1. ASSUME NEW m \in Msgs
          PROVE  Phase(m)' = IF m \in waiting THEN "released" ELSE Phase(m)
      <4>1. InSomeHand(m)' = InSomeHand(m) /\ Sent(m)' = Sent(m)
        BY <2>1 DEF InSomeHand, Sent
      <4>2. CASE ~Sent(m)
        <5>1. Phase(m) = "unsent" /\ Phase(m)' = "unsent"
          BY <4>1, <4>2, PhaseAt, PhaseAtNext DEF PhasesOk, PhaseOk
        <5> QED BY <5>1 DEF PhaseMap
      <4>3. CASE Sent(m) /\ sentTo[m] # owner[c]
        <5>1. sentTo[m] \in Agents /\ offline'[sentTo[m]] = offline[sentTo[m]]
          BY <2>1, <2>3, <4>3 DEF Sent, PostOffice, TypeInv, DbType
        <5>2. (m \in Queue(sentTo[m]))' = (m \in Queue(sentTo[m]))
          BY <2>1, <5>1 DEF Queue
        <5> QED BY <2>1, <4>1, <4>3, <5>2, PhaseSame
      <4>4. CASE Sent(m) /\ sentTo[m] = owner[c]
        <5>1. offline'[sentTo[m]] = {}
          BY <2>1, <2>3, <4>4 DEF PostOffice, TypeInv, DbType
        <5>2. ~(m \in Queue(sentTo[m]))'
          BY <2>1, <5>1 DEF Queue
        <5>3. PhaseMap[m] = Phase(m)
          BY DEF PhaseMap
        <5>4. CASE ~InSomeHand(m) /\ m \in queued
          <6>1. Phase(m)' = "released"
            BY <2>1, <4>1, <4>4, <5>2, <5>4, PhaseAtNext DEF PhasesOk, PhaseOk
          <6>2. Phase(m) \in {"waiting", "released"}
            BY <4>4, <5>4, PhaseAt DEF PhasesOk, PhaseOk
          <6> QED BY <4>4, <5>3, <6>1, <6>2
        <5>5. CASE InSomeHand(m) \/ m \notin queued
          <6>1. Phase(m)' = Phase(m) /\ Phase(m) # "waiting"
            BY <2>1, <4>1, <4>4, <5>5, PhaseAt, PhaseAtNext DEF PhasesOk, PhaseOk
          <6> QED BY <5>3, <6>1
        <5> QED BY <5>4, <5>5
      <4> QED BY <4>2, <4>3, <4>4
    <3>2. CASE waiting = {}
      <4>1. \A m \in Msgs : Phase(m)' = Phase(m)
        BY <3>1, <3>2
      <4>2. PhaseMap' = PhaseMap
        BY <4>1, PhaseStays
      <4> QED BY <1>0, <2>1, <4>2 DEF Abstract!vars, PhaseMap, LeftMap, Parted
    <3>3. CASE waiting # {}
      <4>1. PhaseMap' = [m \in Msgs |-> IF m \in waiting THEN "released" ELSE PhaseMap[m]]
        BY <3>1 DEF PhaseMap
      <4>2. Abstract!Release(owner[c])
        BY <1>0, <2>1, <3>3, <4>1
           DEF Abstract!Release, Abstract!AllBecome, PhaseMap, LeftMap, Parted
      <4> QED BY <2>1, <4>2 DEF Abstract!Next
    <3> QED BY <3>2, <3>3
  <2> QED BY <2>2, <2>3
<1> QED BY <1>1, <1>2, <1>3 DEF Deliveries

\* A crash or an end after Stop: what was in a hand is lost, with the connections,
\* and nothing else.
LEMMA RestartIsCrash ==
  ASSUME PostOffice, Restart
  PROVE  [Abstract!Next]_(Abstract!vars)
<1>1. /\ UNCHANGED <<sentTo, saved, offline, owner, copies, queued>>
      /\ \A c \in Conns : msg'[c] = NoMsg
  BY DEF Restart, db
<1> DEFINE travelling == {m \in Msgs : PhaseMap[m] = "travelling"}
<1>2. ASSUME NEW m \in Msgs
      PROVE  Phase(m)' = IF m \in travelling THEN "settled" ELSE Phase(m)
  <2>1. /\ ~InSomeHand(m)' /\ Sent(m)' = Sent(m)
        /\ (m \in Queue(sentTo[m]))' = (m \in Queue(sentTo[m]))
    BY <1>1, NullsAssumption DEF InSomeHand, Sent, Queue
  <2>2. PhaseMap[m] = Phase(m)
    BY DEF PhaseMap
  <2>3. CASE ~InSomeHand(m)
    <3>1. Phase(m)' = Phase(m)
      <4>1. InSomeHand(m)' = InSomeHand(m)
        BY <2>1, <2>3 DEF InSomeHand
      <4> QED BY <1>1, <2>1, <4>1, PhaseSame
    <3>2. Phase(m) # "travelling"
      BY <2>3, PhaseAt DEF PhasesOk, PhaseOk
    <3> QED BY <2>2, <3>1, <3>2
  <2>4. CASE InSomeHand(m)
    <3>1. Sent(m) /\ m \notin queued
      BY <2>4, NullsAssumption
         DEF InSomeHand, Sent, PostOffice, TypeInv, Placed, OnceInv, InHand, PostInv,
             HandNotQueued
    <3>2. Phase(m) = "travelling" /\ Phase(m)' = "settled"
      BY <1>1, <2>1, <2>4, <3>1, PhaseAt, PhaseAtNext DEF PhasesOk, PhaseOk
    <3> QED BY <2>2, <3>2
  <2> QED BY <2>3, <2>4
<1>3. PhaseMap' = [m \in Msgs |-> IF m \in travelling THEN "settled" ELSE PhaseMap[m]]
  BY <1>2 DEF PhaseMap
<1>4. PICK gone \in SUBSET Conns : LeftMap' = LeftMap \cup gone
  <2>1. \A c \in Conns : hpc'[c] = IF hpc[c] = "unborn" THEN "unborn" ELSE "past"
    BY DEF Restart
  <2>2. LeftMap' = LeftMap \cup {c \in Conns : hpc[c] # "unborn"}
    BY <2>1 DEF LeftMap, Parted
  <2> QED BY <2>2
<1>5. Abstract!Crash
  BY <1>1, <1>3, <1>4
     DEF Abstract!Crash, Abstract!AllBecome, PhaseMap, LeftMap, Parted
<1> QED BY <1>5 DEF Abstract!Next

LEMMA PostOfficeStep ==
  ASSUME PostOffice, [Next]_vars
  PROVE  [Abstract!Next]_(Abstract!vars)
<1>1. CASE Still
  BY <1>1, Stutters DEF Still, tracked, LeftMap
<1> QED BY <1>1, Steps, PartsOrStutters, DirectSettles, DeliveriesForward, AttachesOrStutters,
           RestartIsCrash DEF PostOffice

(* The enhanced server implements the durable mailbox, for any agents,     *)
(* connections and messages and any number of crashes and restarts: a step *)
(* of the server is one step of the mailbox or none (enhanced.go:245-278,  *)
(* 389-431; store.go:183-227).                                             *)
THEOREM ServerImplementsDurableMailbox == Spec => ImplementsDurableMailbox
<1>1. Init => Abstract!Init
  <2>1. Init => PhaseMap = [m \in Msgs |-> "unsent"]
    BY PhaseAt DEF PhasesOk, PhaseOk, Sent, PhaseMap, Init
  <2> QED BY <2>1 DEF Init, Abstract!Init, PhaseMap
<1>2. PostOffice /\ [Next]_vars => [Abstract!Next]_(Abstract!vars)
  BY PostOfficeStep
<1>3. Spec => []PostOffice
  BY TypeInvHolds, AddressedHolds, OnceHolds, KeptHolds, PostHolds, PTL
     DEF PostOffice
<1> QED BY <1>1, <1>2, <1>3, PTL DEF Spec, ImplementsDurableMailbox, Abstract!Spec

-----------------------------------------------------------------------------
(* The mutex.  MutexIsReleased says who can go on; MutexInv says who is    *)
(* inside: the writer is the one that stands at its Lock, and the readers  *)
(* are the running loops.                                                  *)

Granted == {"register wait", "subscribe wait", "leave wait"}

WriterInv == /\ \A c \in Conns : hpc[c] \in Granted <=> announced = c
             /\ announced = Stopper <=> stopPc = "sweep"
ReaderInv == \A c \in Conns : hpc[c] \in Loops <=> c \in readers

MutexInv == WriterInv /\ ReaderInv

\* Nobody comes to the mutex or leaves it.
Outside == /\ UNCHANGED lockVars
           /\ stopPc' = "sweep" <=> stopPc = "sweep"
           /\ \A c \in Conns : \/ hpc'[c] = hpc[c]
                               \/ /\ hpc[c] \notin Granted \cup Loops
                                  /\ hpc'[c] \notin Granted \cup Loops

LEMMA OutsideKeepsMutex ==
  ASSUME MutexInv, Outside
  PROVE  MutexInv'
BY DEF MutexInv, WriterInv, ReaderInv, Outside, lockVars

LEMMA OutsideSteps ==
  ASSUME TypeInv, NEW c \in Conns,
         \/ SaveOnline(c) \/ Greet(c) \/ GetOffline(c)
         \/ \E m \in Msgs : SendOffline(c, m)
         \/ SendOfflineDone(c) \/ ClearOffline(c) \/ LoopTop(c) \/ ReadEnds(c)
         \/ SaveBack(c) \/ CheckOnline(c) \/ CheckFilter(c) \/ WriteDirect(c)
         \/ QueueOffline(c) \/ Reply(c) \/ ScanOne(c) \/ SpreadOne(c) \/ SpreadEnd(c)
         \/ WriteEvent(c) \/ MarkOffline(c) \/ CloseConn(c)
         \/ Client(c)
  PROVE  Outside
<1> USE DEF Outside, Goto, life, Granted, Loops, EventLoops
<1>0. hpc \in [Conns -> Labels]
  BY DEF TypeInv
<1>1. CASE SaveOnline(c) \/ Greet(c) \/ LoopTop(c) \/ ReadEnds(c) \/ SaveBack(c)
             \/ MarkOffline(c) \/ CloseConn(c) \/ SendOfflineDone(c) \/ ClearOffline(c)
             \/ Reply(c) \/ SpreadEnd(c)
  BY <1>0, <1>1 DEF SaveOnline, Greet, LoopTop, ReadEnds, SaveBack, MarkOffline,
     CloseConn, SendOfflineDone, ClearOffline, Reply, SpreadEnd
<1>2. CASE GetOffline(c)
  <2>1. PICK label \in {"notify", "deliver send", "reply", "fetch send"} : Goto(c, label)
    BY <1>2 DEF GetOffline
  <2> QED BY <1>0, <1>2, <2>1 DEF GetOffline
<1>3. CASE (\E m \in Msgs : SendOffline(c, m)) \/ ScanOne(c) \/ SpreadOne(c)
             \/ WriteEvent(c)
  BY <1>3 DEF SendOffline, ScanOne, SpreadOne, WriteEvent
<1>4. CASE CheckOnline(c) \/ CheckFilter(c) \/ WriteDirect(c) \/ QueueOffline(c)
  BY <1>0, <1>4 DEF CheckOnline, CheckFilter, WriteDirect, QueueOffline
<1>5. CASE Client(c)
  <2>1. CASE Disconnect(c) \/ PeerStops(c)
    BY <2>1 DEF Disconnect, PeerStops
  <2>2. CASE Connect(c) \/ AwaitFails(c) \/ \E a \in Agents : AwaitRegistration(c, a)
    BY <1>0, <2>2 DEF Connect, AwaitFails, AwaitRegistration
  <2>3. CASE ReadLocal(c) \/ ReadBroadcast(c) \/ ReadPublishTodo(c) \/ ReadSubscribe(c)
               \/ ReadGetOffline(c)
    BY <1>0, <2>3 DEF ReadLocal, ReadBroadcast, ReadPublishTodo, ReadSubscribe,
       ReadGetOffline, ReadTo
  <2>4. CASE ReadGetAgent(c) \/ \E m \in Msgs, a \in Agents : ReadSend(c, m, a)
    BY <1>0, <2>4 DEF ReadGetAgent, ReadSend
  <2> QED BY <1>5, <2>1, <2>2, <2>3, <2>4 DEF Client
<1> QED BY <1>1, <1>2, <1>3, <1>4, <1>5

LEMMA WriterSteps ==
  ASSUME TypeInv, MutexInv, NEW c \in Conns,
         Lock(c) \/ Register(c) \/ Subscribe(c) \/ Leave(c)
  PROVE  MutexInv'
<1> USE NullsAssumption DEF MutexInv, WriterInv, ReaderInv, Granted, Loops, EventLoops
<1>0. hpc \in [Conns -> Labels]
  BY DEF TypeInv
<1>1. CASE Lock(c)
  <2>1. /\ announced = NoConn /\ announced' = c /\ readers' = readers
        /\ stopPc' = stopPc /\ hpc[c] \notin Granted \cup Loops
    BY <1>1 DEF Lock, Announce, life
  <2>2. /\ hpc'[c] \in Granted
        /\ \A d \in Conns \ {c} : hpc'[d] = hpc[d]
    BY <1>0, <1>1 DEF Lock, Goto
  <2> QED BY <2>1, <2>2
<1>2. CASE Register(c) \/ Subscribe(c) \/ Leave(c)
  <2>1. /\ announced = c /\ announced' = NoConn /\ readers' = readers
        /\ stopPc' = stopPc
    BY <1>2 DEF Register, Subscribe, Leave, Exclusive, life
  <2>2. /\ hpc[c] \in Granted /\ hpc'[c] \notin Granted \cup Loops
        /\ \A d \in Conns \ {c} : hpc'[d] = hpc[d]
    BY <1>0, <1>2 DEF Register, Subscribe, Leave, Goto
  <2> QED BY <2>1, <2>2
<1> QED BY <1>1, <1>2

LEMMA ReaderSteps ==
  ASSUME TypeInv, MutexInv, NEW c \in Conns,
         ScanStart(c) \/ ScanEnd(c) \/ CollectEnd(c)
  PROVE  MutexInv'
<1> USE DEF MutexInv, WriterInv, ReaderInv, Granted, Loops, EventLoops
<1>0. hpc \in [Conns -> Labels]
  BY DEF TypeInv
<1>1. announced' = announced /\ stopPc' = stopPc
  BY DEF ScanStart, ScanEnd, CollectEnd, life
<1>2. /\ \A d \in Conns \ {c} : hpc'[d] = hpc[d] /\ (d \in readers' <=> d \in readers)
      /\ hpc[c] \notin Granted /\ hpc'[c] \notin Granted
      /\ hpc'[c] \in Loops <=> c \in readers'
  <2>1. CASE ScanStart(c)
    <3>1. hpc' = [hpc EXCEPT ![c] = LoopOf[hpc[c]]] /\ readers' = readers \cup {c}
      BY <2>1 DEF ScanStart, Goto
    <3>2. hpc[c] \notin Granted /\ LoopOf[hpc[c]] \in Loops
      BY <2>1 DEF ScanStart, LoopOf
    <3> HIDE DEF Loops, EventLoops
    <3>3. Granted \cap Loops = {}
      BY DEF Loops, EventLoops
    <3> QED BY <1>0, <3>1, <3>2, <3>3
  <2>2. CASE ScanEnd(c) \/ CollectEnd(c)
    <3>1. PICK label \in {"loop", "reply", "close", "spread"} :
            hpc' = [hpc EXCEPT ![c] = label]
      BY <2>2 DEF ScanEnd, CollectEnd, Goto
    <3>2. hpc[c] \in Loops /\ readers' = readers \ {c}
      BY <2>2 DEF ScanEnd, CollectEnd
    <3>3. hpc[c] \notin Granted /\ label \notin Granted \cup Loops
      BY <3>1, <3>2
    <3> QED BY <1>0, <3>1, <3>2, <3>3
  <2> QED BY <2>1, <2>2
<1> QED BY <1>1, <1>2

LEMMA StopMutex ==
  ASSUME TypeInv, MutexInv, Cancel \/ StopSteps \/ Restart
  PROVE  MutexInv'
<1> USE NullsAssumption DEF MutexInv, WriterInv, ReaderInv, Granted, Loops, EventLoops
<1>1. CASE Cancel \/ StopReturn
  BY <1>1 DEF Cancel, StopReturn, lockVars
<1>2. CASE StopLock
  BY <1>2 DEF StopLock, Announce
<1>3. CASE StopSweep
  BY <1>3 DEF StopSweep, Exclusive
<1>4. CASE Restart
  BY <1>4 DEF Restart
<1> QED BY <1>1, <1>2, <1>3, <1>4 DEF StopSteps

LEMMA MutexStep ==
  ASSUME TypeInv, MutexInv, [Next]_vars
  PROVE  MutexInv'
<1>1. CASE UNCHANGED vars
  BY <1>1, OutsideKeepsMutex DEF Outside, vars, life
<1>2. ASSUME NEW c \in Conns, Handle(c) \/ Client(c)
      PROVE  MutexInv'
  BY <1>2, OutsideSteps, OutsideKeepsMutex, WriterSteps, ReaderSteps DEF Handle
<1> QED BY <1>1, <1>2, StopMutex DEF Next

\* What a loop that has the read lock does while a writer waits: it asks for its
\* second one, which it does not get, it writes, or it is done.
LEMMA LoopGoesOn ==
  ASSUME TypeInv, announced # NoConn, NEW c \in readers, hpc[c] \in Loops
  PROVE  AtInnerLock(c) \/ CanFinish(c) \/ CanWrite(c) \/ Parked(c)
<1>1. CASE hpc[c] = "collect"
  BY <1>1 DEF AtInnerLock, CanFinish
<1>2. CASE hpc[c] \in EventLoops /\ targets[c] = {}
  BY <1>2 DEF AtInnerLock, CanFinish
<1>3. CASE hpc[c] \in EventLoops /\ targets[c] # {}
  <2>1. PICK d \in targets[c] : TRUE
    BY <1>3
  <2>2. WritesTo(c) = targets[c]
    <3>1. /\ hpc[c] \notin {"greet", "reply"} /\ hpc[c] # "write"
          /\ hpc[c] \notin {"deliver send", "fetch send"}
      BY <1>3 DEF EventLoops
    <3> QED BY <1>3, <3>1 DEF WritesTo
  <2>3. CASE Writable(d)
    BY <1>3, <2>1, <2>3 DEF CanWrite
  <2>4. CASE ~Writable(d)
    BY <2>1, <2>2, <2>4 DEF Parked
  <2> QED BY <2>3, <2>4
<1> QED BY <1>1, <1>2, <1>3 DEF Loops

(* Whoever waits for the mutex waits for a goroutine that can go on, or in *)
(* one of two circles: a loop that waits for its own second read lock      *)
(* behind the writer (enhanced.go:434 inside 296 and 449), and a loop that *)
(* writes, under the read lock and without a deadline, to a peer that does *)
(* not read (452).  For any number of connections, of peers that stop      *)
(* reading and of restarts.                                                *)
THEOREM MutexIsFreed == Spec => []MutexIsReleased
<1>1. Init => MutexInv
  BY NullsAssumption
     DEF Init, MutexInv, WriterInv, ReaderInv, Granted, Loops, EventLoops
<1>2. TypeInv /\ MutexInv => MutexIsReleased
  <2> SUFFICES ASSUME TypeInv, MutexInv PROVE MutexIsReleased
    OBVIOUS
  <2>1. \A c \in readers : c \in Conns /\ hpc[c] \in Loops
    BY DEF MutexInv, ReaderInv, TypeInv, LockType
  <2>2. ASSUME announced # NoConn, readers = {}
        PROVE  CanSweep \/ \E c \in Conns : CanTake(c)
    BY <2>2 DEF MutexInv, WriterInv, TypeInv, LockType, Granted, CanTake, CanSweep
  <2>3. ASSUME announced # NoConn, NEW c \in readers
        PROVE  \/ CanFinish(c) \/ CanWrite(c)
               \/ Deadlocked \/ Parked(c)
    <3>1. AtInnerLock(c) \/ CanFinish(c) \/ CanWrite(c) \/ Parked(c)
      BY <2>1, <2>3, LoopGoesOn
    <3> QED BY <2>3, <3>1 DEF Deadlocked
  <2> QED BY <2>1, <2>2, <2>3 DEF MutexIsReleased
<1> QED BY <1>1, <1>2, MutexStep, TypeInvHolds, PTL DEF Spec
=============================================================================
