------------------------ MODULE StandardServerProofs ------------------------
(***************************************************************************)
(* Theorems about StandardServer, for every value of its constants.        *)
(***************************************************************************)
EXTENDS StandardServer, TLAPS

USE WriteCapAssumption, ReadCapAssumption, MaxOfflineAssumption, NullsAssumption

-----------------------------------------------------------------------------
(* The steps, by where the handler is: entering its agent, taking a frame  *)
(* from its connection, acting on it, and leaving.                         *)

Enter(c) == \/ \E a \in Agents : AwaitRegistration(c, a)
            \/ AwaitFails(c) \/ Refuse(c) \/ Register(c) \/ StoreConnection(c)
            \/ RouterRegister(c) \/ DeliverOne(c) \/ DeliverDone(c) \/ Greet(c)
Take(c) == \/ LoopTop(c) \/ ReadEnds(c) \/ ReadInvalid(c) \/ ReadUnknown(c)
           \/ ReadQueryAgents(c) \/ ReadTodos(c) \/ ReadHeartbeat(c) \/ ReadRename(c)
           \/ \E to \in Agents \cup {Everyone} : ReadSend(c, to)
Serve(c) == \/ WriteBack(c) \/ Route(c) \/ QueueOffline(c)
            \/ \E d \in Conns : SendOne(c, d)
            \/ SendDone(c) \/ Reply(c) \/ SendError(c)
Leave(c) == Unregister(c) \/ Forget(c) \/ Unroute(c) \/ End(c)
Listen(c) == Connect(c) \/ Discard(c) \/ Accept(c)

LEMMA Steps ==
  ASSUME [Next]_vars
  PROVE  \/ \E c \in Conns : \/ Listen(c) \/ Enter(c) \/ Take(c) \/ Serve(c)
                             \/ Leave(c) \/ Loops(c)
         \/ AcceptFails \/ Cancel \/ Sweep \/ CloseListener \/ StopReturn
         \/ UNCHANGED vars
BY DEF Next, Handle, Listen, Enter, Take, Serve, Leave, AcceptLoop, StopSteps

-----------------------------------------------------------------------------
(* Type correctness.  An agent is read from the locals of a handler only   *)
(* where they hold one, which is part of the invariant.                    *)

Labels == {"unborn", "backlog", "await", "refuse", "ended"}
          \cup Entering \cup Serving \cup Leaving

OwnerOk(c) ==
  /\ hpc[c] \in {"unborn", "backlog", "await", "refuse"} => owner[c] = NoAgent
  /\ hpc[c] \in Entering \cup Serving \cup (Leaving \ {"close"}) => owner[c] \in Agents
  /\ hpc[c] = "queue" => dest[c] \in Agents
OwnerInv == \A c \in Conns : OwnerOk(c)

\* The label an action goes to.
LEMMA Gone ==
  ASSUME TypeOK, NEW c \in Conns, NEW l \in Labels, Goto(c, l)
  PROVE  /\ hpc' \in [Conns -> Labels] /\ hpc'[c] = l
         /\ \A d \in Conns : d # c => hpc'[d] = hpc[d]
BY DEF TypeOK, Labels, Goto

LEMMA WriteTypes ==
  ASSUME TypeOK, NEW c \in Conns, Written(c) \/ Refused(c)
  PROVE  OutTypeOK' /\ UNCHANGED closed
BY DEF TypeOK, OutTypeOK, Written, Refused, Put, Room, outVars

LEMMA CloseTypes ==
  ASSUME TypeOK, NEW cs \in SUBSET Conns, CloseEnds(cs)
  PROVE  OutTypeOK' /\ readLoop' \in [Conns -> {"running", "ended"}]
<1>1. closed' \in [Conns -> BOOLEAN]
  BY Zenon DEF TypeOK, OutTypeOK, CloseEnds, CloseAll
<1> QED BY <1>1 DEF TypeOK, OutTypeOK, InTypeOK, CloseEnds, CloseAll

LEMMA LoopTypes ==
  ASSUME TypeOK, NEW c \in Conns, Loops(c)
  PROVE  OutTypeOK' /\ InTypeOK' /\ UNCHANGED closed
<1>1. CASE Receive(c) \/ ReadLoopEnds(c)
  BY <1>1 DEF TypeOK, OutTypeOK, InTypeOK, Receive, ReadLoopEnds, outVars
<1>2. CASE WriteLoop(c) /\ UNCHANGED inVars
  <2>1. CASE Flush(c) \/ WriteFails(c)
    <3>1. buffered[c] - 1 \in 0 .. WriteCap
      BY <2>1 DEF Flush, WriteFails, TypeOK, OutTypeOK
    <3>2. buffered' = [buffered EXCEPT ![c] = buffered[c] - 1]
      BY <2>1 DEF Flush, WriteFails
    <3>3. buffered' \in [Conns -> 0 .. WriteCap]
      BY <3>1, <3>2 DEF TypeOK, OutTypeOK
    <3> QED BY <1>2, <2>1, <3>3 DEF TypeOK, OutTypeOK, InTypeOK, Flush, WriteFails, inVars
  <2>2. CASE PingFails(c)
    BY <1>2, <2>2 DEF TypeOK, OutTypeOK, InTypeOK, PingFails, inVars
  <2> QED BY <1>2, <2>1, <2>2 DEF WriteLoop
<1> QED BY <1>1, <1>2 DEF Loops

LEMMA ReadTypes ==
  ASSUME TypeOK, NEW c \in Conns, ReadFrame(c) \/ ReadNil(c) \/ ReadStopped(c)
  PROVE  InTypeOK'
<1>1. CASE ReadFrame(c)
  <2>1. inbox[c] - 1 \in 0 .. ReadCap /\ inbox' = [inbox EXCEPT ![c] = inbox[c] - 1]
    BY <1>1 DEF ReadFrame, TypeOK, InTypeOK
  <2> QED BY <1>1, <2>1 DEF ReadFrame, TypeOK, InTypeOK
<1>2. CASE UNCHANGED inVars
  BY <1>2 DEF TypeOK, InTypeOK, inVars
<1> QED BY <1>1, <1>2 DEF ReadNil, ReadStopped

LEMMA ListenType ==
  ASSUME TypeOK, OwnerInv, NEW c \in Conns, Listen(c)
  PROVE  TypeOK' /\ OwnerInv'
<1>1. PICK l \in {"backlog", "ended", "await"} : Goto(c, l)
  BY DEF Listen, Connect, Discard, Accept
<1>2. /\ hpc' \in [Conns -> Labels] /\ hpc'[c] = l
      /\ \A d \in Conns : d # c => hpc'[d] = hpc[d]
  BY <1>1, Gone DEF Labels
<1>3. OutTypeOK' /\ InTypeOK'
  <2>1. CASE Discard(c)
    <3>1. {c} \in SUBSET Conns /\ CloseEnds({c}) /\ UNCHANGED inbox
      BY <2>1 DEF Discard
    <3> QED BY <3>1, CloseTypes DEF TypeOK, InTypeOK
  <2>2. CASE Connect(c) \/ Accept(c)
    BY <2>2 DEF Connect, Accept, TypeOK, OutTypeOK, InTypeOK, outVars, inVars
  <2> QED BY <2>1, <2>2 DEF Listen
<1>4. hpc[c] \in {"unborn", "backlog"} /\ UNCHANGED <<owner, dest>>
  BY DEF Listen, Connect, Discard, Accept, handler
<1>5. UNCHANGED <<tables, router, handler, ctxDone, stopPc>> /\ accepting' \in BOOLEAN
  BY DEF Listen, Connect, Discard, Accept, life, TypeOK
<1>6. OwnerInv'
  BY <1>2, <1>4 DEF OwnerInv, OwnerOk, Entering, Serving, Leaving
<1> QED BY <1>2, <1>3, <1>5, <1>6 DEF TypeOK, Labels, tables, router, handler

LEMMA EnterType ==
  ASSUME TypeOK, OwnerInv, NEW c \in Conns, Enter(c)
  PROVE  TypeOK' /\ OwnerInv'
<1>0. OwnerOk(c)
  BY DEF OwnerInv
<1>1. ASSUME NEW a \in Agents, AwaitRegistration(c, a)
      PROVE  TypeOK' /\ OwnerInv'
  <2>1. /\ hpc' \in [Conns -> Labels] /\ hpc'[c] = "register"
        /\ \A d \in Conns : d # c => hpc'[d] = hpc[d]
    BY <1>1, Gone DEF AwaitRegistration, Labels, Entering
  <2>2. InTypeOK'
    BY <1>1, ReadTypes DEF AwaitRegistration
  <2>3. /\ owner' = [owner EXCEPT ![c] = a]
        /\ UNCHANGED <<outVars, tables, router, dest, todo, failed, life>>
    BY <1>1 DEF AwaitRegistration
  <2>4. OwnerInv'
    BY <2>1, <2>3 DEF OwnerInv, OwnerOk, TypeOK
  <2> QED BY <2>1, <2>2, <2>3, <2>4
          DEF TypeOK, OutTypeOK, Labels, outVars, tables, router, life
<1>2. CASE AwaitFails(c)
  <2>1. /\ hpc' \in [Conns -> Labels] /\ hpc'[c] = "refuse" /\ hpc[c] = "await"
        /\ \A d \in Conns : d # c => hpc'[d] = hpc[d]
    BY <1>2, Gone DEF AwaitFails, Labels
  <2>2. InTypeOK'
    BY <1>2, ReadTypes DEF AwaitFails
  <2>3. UNCHANGED <<outVars, tables, router, handler, life>>
    BY <1>2 DEF AwaitFails
  <2>4. OwnerInv'
    BY <2>1, <2>3 DEF OwnerInv, OwnerOk, Entering, Serving, Leaving, handler
  <2> QED BY <2>1, <2>2, <2>3, <2>4
          DEF TypeOK, OutTypeOK, Labels, outVars, tables, router, handler, life
<1>3. CASE Refuse(c) \/ Greet(c)
  <2>1. /\ hpc' \in [Conns -> Labels]
        /\ \/ hpc[c] = "refuse" /\ hpc'[c] = "close"
           \/ hpc[c] = "greet" /\ hpc'[c] = "loop"
        /\ \A d \in Conns : d # c => hpc'[d] = hpc[d]
    BY <1>3, Gone DEF Refuse, Greet, Labels, Serving, Leaving
  <2>2. OutTypeOK'
    BY <1>3, WriteTypes DEF Refuse, Greet
  <2>3. UNCHANGED <<inVars, tables, router, handler, life>>
    BY <1>3 DEF Refuse, Greet
  <2>4. OwnerInv'
    BY <2>1, <2>3 DEF OwnerInv, OwnerOk, Entering, Serving, Leaving, handler
  <2> QED BY <2>1, <2>2, <2>3, <2>4
          DEF TypeOK, InTypeOK, Labels, inVars, tables, router, handler, life
<1>4. CASE Register(c) \/ StoreConnection(c)
  <2>1. /\ hpc' \in [Conns -> Labels] /\ hpc[c] \in {"register", "store"}
        /\ hpc'[c] \in {"store", "routing"}
        /\ \A d \in Conns : d # c => hpc'[d] = hpc[d]
    BY <1>4, Gone DEF Register, StoreConnection, Labels, Entering
  <2>2. owner[c] \in Agents
    BY <1>0, <2>1 DEF OwnerOk, Entering
  <2>3. UNCHANGED <<outVars, inVars, table, router, handler, life>>
    BY <1>4 DEF Register, StoreConnection
  <2>4. /\ registered' \in SUBSET Agents
        /\ connections' \in [Agents -> Conns \cup {NoConn}]
    BY <1>4, <2>2 DEF Register, StoreConnection, TypeOK
  <2>5. OwnerInv'
    BY <2>1, <2>2, <2>3 DEF OwnerInv, OwnerOk, Entering, handler
  <2> QED BY <2>1, <2>3, <2>4, <2>5
          DEF TypeOK, OutTypeOK, InTypeOK, Labels, outVars, inVars, router, handler, life
<1>5. CASE RouterRegister(c)
  <2>1. /\ hpc' \in [Conns -> Labels] /\ hpc[c] = "routing" /\ hpc'[c] = "deliver"
        /\ \A d \in Conns : d # c => hpc'[d] = hpc[d]
    BY <1>5, Gone DEF RouterRegister, Labels, Entering
  <2>2. owner[c] \in Agents
    BY <1>0, <2>1 DEF OwnerOk, Entering
  <2>3. /\ UNCHANGED <<outVars, inVars, registered, connections, queued, handler, life>>
        /\ routerLock' = c /\ table' = [table EXCEPT ![owner[c]] = c]
        /\ unsent' = queued[owner[c]]
    BY <1>5 DEF RouterRegister
  <2>4. OwnerInv'
    BY <2>1, <2>2, <2>3 DEF OwnerInv, OwnerOk, Entering, handler
  <2> QED BY <2>1, <2>2, <2>3, <2>4
          DEF TypeOK, OutTypeOK, InTypeOK, Labels, outVars, inVars, handler, life
<1>6. CASE DeliverOne(c)
  <2>1. OutTypeOK'
    BY <1>6, WriteTypes DEF DeliverOne
  <2>2. unsent' \in 0 .. MaxOffline
    BY <1>6 DEF DeliverOne, TypeOK
  <2>3. UNCHANGED <<inVars, tables, queued, routerLock, hpc, handler, life>>
    BY <1>6 DEF DeliverOne
  <2>4. OwnerInv'
    BY <2>3 DEF OwnerInv, OwnerOk, handler
  <2> QED BY <2>1, <2>2, <2>3, <2>4 DEF TypeOK, InTypeOK, inVars, tables, handler, life
<1>7. CASE DeliverDone(c)
  <2>1. /\ hpc' \in [Conns -> Labels] /\ hpc[c] = "deliver" /\ hpc'[c] = "greet"
        /\ \A d \in Conns : d # c => hpc'[d] = hpc[d]
    BY <1>7, Gone DEF DeliverDone, Labels, Entering
  <2>2. owner[c] \in Agents
    BY <1>0, <2>1 DEF OwnerOk, Entering
  <2>3. /\ UNCHANGED <<outVars, inVars, tables, unsent, handler, life>>
        /\ routerLock' = NoConn /\ queued' = [queued EXCEPT ![owner[c]] = 0]
    BY <1>7 DEF DeliverDone
  <2>4. OwnerInv'
    BY <2>1, <2>2, <2>3 DEF OwnerInv, OwnerOk, Entering, handler
  <2>5. queued' \in [Agents -> 0 .. MaxOffline] /\ routerLock' \in Conns \cup {NoConn}
    <3>1. 0 \in 0 .. MaxOffline
      OBVIOUS
    <3> QED BY <2>3, <3>1 DEF TypeOK
  <2> QED BY <2>1, <2>3, <2>4, <2>5
          DEF TypeOK, OutTypeOK, InTypeOK, Labels, outVars, inVars, tables, handler, life
<1> QED BY <1>1, <1>2, <1>3, <1>4, <1>5, <1>6, <1>7 DEF Enter

LEMMA TakeType ==
  ASSUME TypeOK, OwnerInv, NEW c \in Conns, Take(c)
  PROVE  TypeOK' /\ OwnerInv'
<1>1. PICK l \in Serving \cup {"unregister"} : Goto(c, l)
  BY DEF Take, LoopTop, ReadEnds, ReadInvalid, ReadTo, ReadUnknown, ReadQueryAgents,
         ReadTodos, ReadHeartbeat, ReadRename, ReadSend, InRegistry, Serving
<1>2. /\ hpc' \in [Conns -> Labels] /\ hpc'[c] = l
      /\ \A d \in Conns : d # c => hpc'[d] = hpc[d]
  BY <1>1, Gone DEF Labels, Leaving
<1>3. /\ hpc[c] \in {"loop", "read"} /\ l # "queue"
      /\ UNCHANGED <<outVars, tables, router, owner, todo, failed, life>>
  BY <1>2 DEF Take, LoopTop, ReadEnds, ReadInvalid, ReadTo, ReadUnknown, Goto,
         ReadQueryAgents, ReadTodos, ReadHeartbeat, ReadRename, ReadSend, InRegistry,
         handler, TypeOK
<1>4. dest' = dest \/ (\E to \in Agents \cup {Everyone} : dest' = [dest EXCEPT ![c] = to])
  BY DEF Take, LoopTop, ReadEnds, ReadInvalid, ReadTo, ReadUnknown, ReadQueryAgents,
         ReadTodos, ReadHeartbeat, ReadRename, ReadSend, handler
<1>5. InTypeOK'
  <2>1. \/ ReadFrame(c) \/ ReadNil(c) \/ ReadStopped(c) \/ UNCHANGED inVars
    BY DEF Take, LoopTop, ReadEnds, ReadInvalid, ReadTo, ReadUnknown, ReadQueryAgents,
           ReadTodos, ReadHeartbeat, ReadRename, ReadSend
  <2> QED BY <2>1, ReadTypes DEF TypeOK, InTypeOK, inVars
<1>6. dest' \in [Conns -> Agents \cup {Everyone, NoAgent}]
      /\ \A d \in Conns : d # c => dest'[d] = dest[d]
  BY <1>4 DEF TypeOK
<1>7. owner[c] \in Agents
  BY <1>3 DEF OwnerInv, OwnerOk, Serving
<1>8. OwnerInv'
  BY <1>2, <1>3, <1>6, <1>7 DEF OwnerInv, OwnerOk, Entering, Serving, Leaving
<1> QED BY <1>2, <1>3, <1>5, <1>6, <1>8
        DEF TypeOK, OutTypeOK, Labels, outVars, tables, router, life

LEMMA ServeType ==
  ASSUME TypeOK, OwnerInv, NEW c \in Conns, Serve(c)
  PROVE  TypeOK' /\ OwnerInv'
<1>0. OwnerOk(c)
  BY DEF OwnerInv
<1>f. ASSUME Forgotten(c)
      PROVE  /\ dest' \in [Conns -> Agents \cup {Everyone, NoAgent}]
             /\ failed' \in [Conns -> BOOLEAN]
             /\ \A d \in Conns : d # c => dest'[d] = dest[d]
             /\ UNCHANGED <<owner, todo>>
  BY <1>f DEF Forgotten, TypeOK
<1>1. CASE WriteBack(c)
  <2>1. PICK l \in {"loop", "route"} : Goto(c, l)
    BY <1>1 DEF WriteBack
  <2>2. /\ hpc' \in [Conns -> Labels] /\ hpc'[c] = l
        /\ \A d \in Conns : d # c => hpc'[d] = hpc[d]
    BY <2>1, Gone DEF Labels, Serving
  <2>3. owner[c] \in Agents
    BY <1>0, <1>1 DEF WriteBack, OwnerOk, Serving
  <2>4. /\ registered' = registered \cup {owner[c]}
        /\ UNCHANGED <<outVars, inVars, connections, table, router, handler, life>>
    BY <1>1 DEF WriteBack
  <2>5. OwnerInv'
    BY <2>2, <2>3, <2>4 DEF OwnerInv, OwnerOk, Entering, Serving, Leaving, handler
  <2> QED BY <2>2, <2>3, <2>4, <2>5
          DEF TypeOK, OutTypeOK, InTypeOK, Labels, outVars, inVars, router, handler, life
<1>2. CASE Route(c)
  <2>1. /\ hpc[c] = "route"
        /\ UNCHANGED <<outVars, inVars, tables, router, owner, dest, failed, life>>
    BY <1>2 DEF Route
  <2>2. owner[c] \in Agents
    BY <1>0, <2>1 DEF OwnerOk, Serving
  <2>3. /\ Goto(c, "write") \/ (Goto(c, "queue") /\ dest[c] \in Agents)
        /\ todo' \in [Conns -> SUBSET Conns]
    <3>1. CASE Broadcasts(c)
      <4>1. {table[a] : a \in Agents} \ {NoConn} \in SUBSET Conns
        BY DEF TypeOK
      <4> QED BY <1>2, <3>1, <4>1 DEF Route, TypeOK
    <3>2. CASE ~Broadcasts(c)
      <4>1. dest[c] \in Agents /\ table[dest[c]] \in Conns \cup {NoConn}
        BY <3>2 DEF Broadcasts, TypeOK
      <4>2. CASE table[dest[c]] = NoConn
        BY <1>2, <3>2, <4>1, <4>2 DEF Route, TypeOK
      <4>3. CASE table[dest[c]] # NoConn
        <5>1. {table[dest[c]]} \in SUBSET Conns
          BY <4>1, <4>3
        <5> QED BY <1>2, <3>2, <4>1, <4>3, <5>1 DEF Route, TypeOK
      <4> QED BY <4>2, <4>3
    <3> QED BY <3>1, <3>2
  <2>4. /\ hpc' \in [Conns -> Labels] /\ hpc'[c] \in {"write", "queue"}
        /\ hpc'[c] = "queue" => dest[c] \in Agents
        /\ \A d \in Conns : d # c => hpc'[d] = hpc[d]
    BY <2>3, Gone DEF Labels, Serving
  <2>5. OwnerInv'
    BY <2>1, <2>2, <2>4 DEF OwnerInv, OwnerOk
  <2> QED BY <2>1, <2>3, <2>4, <2>5
          DEF TypeOK, OutTypeOK, InTypeOK, Labels, outVars, inVars, tables, router, life
<1>3. CASE QueueOffline(c)
  <2>1. /\ hpc[c] = "queue" /\ Forgotten(c)
        /\ UNCHANGED <<outVars, inVars, tables, routerLock, unsent, life>>
    BY <1>3 DEF QueueOffline
  <2>2. owner[c] \in Agents /\ dest[c] \in Agents
    BY <1>0, <2>1 DEF OwnerOk, Serving
  <2>3. /\ Goto(c, "error") \/ Goto(c, "loop")
        /\ queued' \in [Agents -> 0 .. MaxOffline]
    <3>1. CASE queued[dest[c]] >= MaxOffline
      BY <1>3, <3>1 DEF QueueOffline, TypeOK
    <3>2. CASE ~(queued[dest[c]] >= MaxOffline)
      <4>1. queued[dest[c]] + 1 \in 0 .. MaxOffline
        BY <2>2, <3>2 DEF TypeOK
      <4>2. /\ queued' = [queued EXCEPT ![dest[c]] = queued[dest[c]] + 1]
            /\ Goto(c, "loop")
        BY <1>3, <3>2 DEF QueueOffline
      <4> QED BY <4>1, <4>2 DEF TypeOK
    <3> QED BY <3>1, <3>2
  <2>4. /\ hpc' \in [Conns -> Labels] /\ hpc'[c] \in {"error", "loop"}
        /\ \A d \in Conns : d # c => hpc'[d] = hpc[d]
    BY <2>3, Gone DEF Labels, Serving
  <2>5. OwnerInv'
    BY <1>f, <2>1, <2>2, <2>4 DEF OwnerInv, OwnerOk
  <2> QED BY <1>f, <2>1, <2>3, <2>4, <2>5
          DEF TypeOK, OutTypeOK, InTypeOK, Labels, outVars, inVars, tables, life
<1>4. ASSUME NEW d \in Conns, SendOne(c, d)
      PROVE  TypeOK' /\ OwnerInv'
  <2>1. /\ UNCHANGED <<inVars, tables, router, hpc, owner, dest, life>>
        /\ todo' = [todo EXCEPT ![c] = @ \ {d}]
        /\ failed' \in [Conns -> BOOLEAN]
    BY <1>4 DEF SendOne, TypeOK
  <2>2. OutTypeOK'
    BY <1>4, WriteTypes DEF SendOne
  <2>3. todo' \in [Conns -> SUBSET Conns]
    <3>1. todo[c] \ {d} \in SUBSET Conns
      BY DEF TypeOK
    <3> QED BY <2>1, <3>1 DEF TypeOK
  <2>4. OwnerInv'
    BY <2>1 DEF OwnerInv, OwnerOk
  <2> QED BY <2>1, <2>2, <2>3, <2>4 DEF TypeOK, InTypeOK, inVars, tables, router, life
<1>5. CASE SendDone(c)
  <2>1. PICK l \in {"reply", "error", "loop"} : Goto(c, l)
    BY <1>5 DEF SendDone
  <2>2. /\ hpc' \in [Conns -> Labels] /\ hpc'[c] = l
        /\ \A d \in Conns : d # c => hpc'[d] = hpc[d]
    BY <2>1, Gone DEF Labels, Serving
  <2>3. /\ hpc[c] = "write" /\ Forgotten(c)
        /\ UNCHANGED <<outVars, inVars, tables, router, life>>
    BY <1>5 DEF SendDone
  <2>4. owner[c] \in Agents
    BY <1>0, <2>3 DEF OwnerOk, Serving
  <2>5. OwnerInv'
    BY <1>f, <2>2, <2>3, <2>4 DEF OwnerInv, OwnerOk
  <2> QED BY <1>f, <2>2, <2>3, <2>5
          DEF TypeOK, OutTypeOK, InTypeOK, Labels, outVars, inVars, tables, router, life
<1>6. CASE Reply(c) \/ SendError(c)
  <2>1. PICK l \in {"error", "loop"} : Goto(c, l)
    BY <1>6 DEF Reply, SendError
  <2>2. /\ hpc' \in [Conns -> Labels] /\ hpc'[c] = l
        /\ \A d \in Conns : d # c => hpc'[d] = hpc[d]
    BY <2>1, Gone DEF Labels, Serving
  <2>3. /\ hpc[c] \in {"reply", "error"}
        /\ UNCHANGED <<inVars, tables, router, handler, life>>
    BY <1>6 DEF Reply, SendError
  <2>4. owner[c] \in Agents
    BY <1>0, <2>3 DEF OwnerOk, Serving
  <2>5. OutTypeOK'
    BY <1>6, WriteTypes DEF Reply, SendError
  <2>6. OwnerInv'
    BY <2>2, <2>3, <2>4 DEF OwnerInv, OwnerOk, handler
  <2> QED BY <2>2, <2>3, <2>5, <2>6
          DEF TypeOK, InTypeOK, Labels, inVars, tables, router, handler, life
<1> QED BY <1>1, <1>2, <1>3, <1>4, <1>5, <1>6 DEF Serve

LEMMA LeaveType ==
  ASSUME TypeOK, OwnerInv, NEW c \in Conns, Leave(c)
  PROVE  TypeOK' /\ OwnerInv'
<1>0. OwnerOk(c)
  BY DEF OwnerInv
<1>1. CASE Unregister(c) \/ Forget(c) \/ Unroute(c)
  <2>1. PICK l \in {"forget", "unroute", "close"} : Goto(c, l)
    BY <1>1 DEF Unregister, Forget, Unroute
  <2>2. /\ hpc' \in [Conns -> Labels] /\ hpc'[c] = l
        /\ \A d \in Conns : d # c => hpc'[d] = hpc[d]
    BY <2>1, Gone DEF Labels, Leaving
  <2>3. /\ hpc[c] \in {"unregister", "forget", "unroute"}
        /\ UNCHANGED <<outVars, inVars, router, handler, life>>
    BY <1>1 DEF Unregister, Forget, Unroute
  <2>4. owner[c] \in Agents
    BY <1>0, <2>3 DEF OwnerOk, Leaving
  <2>5. /\ registered' \in SUBSET Agents
        /\ connections' \in [Agents -> Conns \cup {NoConn}]
        /\ table' \in [Agents -> Conns \cup {NoConn}]
    BY <1>1, <2>4 DEF Unregister, Forget, Unroute, Unrouted, TypeOK
  <2>6. OwnerInv'
    BY <2>2, <2>3, <2>4 DEF OwnerInv, OwnerOk, handler
  <2> QED BY <2>2, <2>3, <2>5, <2>6
          DEF TypeOK, OutTypeOK, InTypeOK, Labels, outVars, inVars, router, handler, life
<1>2. CASE End(c)
  <2>1. /\ hpc' \in [Conns -> Labels] /\ hpc'[c] = "ended"
        /\ \A d \in Conns : d # c => hpc'[d] = hpc[d]
    BY <1>2, Gone DEF End, Labels
  <2>2. OutTypeOK' /\ readLoop' \in [Conns -> {"running", "ended"}]
    <3>1. {c} \in SUBSET Conns /\ CloseEnds({c})
      BY <1>2 DEF End
    <3> QED BY <3>1, CloseTypes
  <2>3. inbox' = [inbox EXCEPT ![c] = 0] /\ UNCHANGED <<tables, router, handler, life>>
    BY <1>2 DEF End
  <2>4. OwnerInv'
    BY <2>1, <2>3 DEF OwnerInv, OwnerOk, Entering, Serving, Leaving, handler
  <2> QED BY <2>1, <2>2, <2>3, <2>4
          DEF TypeOK, InTypeOK, Labels, tables, router, handler, life
<1> QED BY <1>1, <1>2 DEF Leave

LEMMA StopType ==
  ASSUME TypeOK, OwnerInv, AcceptFails \/ Cancel \/ Sweep \/ CloseListener \/ StopReturn
  PROVE  TypeOK' /\ OwnerInv'
<1>1. UNCHANGED <<registered, table, router, hpc, handler>>
  BY DEF AcceptFails, Cancel, Sweep, CloseListener, StopReturn, tables
<1>2. /\ ctxDone' \in BOOLEAN /\ accepting' \in BOOLEAN
      /\ stopPc' \in {"idle", "sweep", "listener", "wait", "returned"}
  BY DEF AcceptFails, Cancel, Sweep, CloseListener, StopReturn, TypeOK
<1>3. OutTypeOK' /\ InTypeOK' /\ connections' \in [Agents -> Conns \cup {NoConn}]
  <2>1. CASE Sweep
    <3>1. {connections[a] : a \in Agents} \ {NoConn} \in SUBSET Conns
      BY DEF TypeOK
    <3>2. OutTypeOK' /\ readLoop' \in [Conns -> {"running", "ended"}]
      BY <2>1, <3>1, CloseTypes DEF Sweep
    <3> QED BY <2>1, <3>2 DEF Sweep, TypeOK, InTypeOK
  <2>2. CASE UNCHANGED <<outVars, inVars, tables>>
    BY <2>2 DEF TypeOK, OutTypeOK, InTypeOK, outVars, inVars, tables
  <2> QED BY <2>1, <2>2 DEF AcceptFails, Cancel, CloseListener, StopReturn
<1>4. OwnerInv'
  BY <1>1 DEF OwnerInv, OwnerOk, handler
<1> QED BY <1>1, <1>2, <1>3, <1>4 DEF TypeOK, router, handler

LEMMA TypeStep ==
  ASSUME TypeOK, OwnerInv, [Next]_vars
  PROVE  TypeOK' /\ OwnerInv'
<1>1. CASE UNCHANGED vars
  BY <1>1 DEF TypeOK, OutTypeOK, InTypeOK, OwnerInv, OwnerOk, vars, outVars, inVars,
              tables, router, handler, life
<1>2. ASSUME NEW c \in Conns, Loops(c)
      PROVE  TypeOK' /\ OwnerInv'
  BY <1>2, LoopTypes
     DEF TypeOK, OwnerInv, OwnerOk, Loops, others, tables, router, handler, life
<1> QED BY <1>1, <1>2, ListenType, EnterType, TakeType, ServeType, LeaveType,
           StopType, Steps

LEMMA TypeInvariant == Spec => [](TypeOK /\ OwnerInv)
<1>1. ASSUME Init PROVE TypeOK
  <2>1. OutTypeOK /\ InTypeOK
    BY <1>1 DEF Init, OutInit, InInit, OutTypeOK, InTypeOK
  <2>2. 0 \in 0 .. MaxOffline
    OBVIOUS
  <2>3. queued \in [Agents -> 0 .. MaxOffline] /\ unsent \in 0 .. MaxOffline
    BY <1>1, <2>2 DEF Init
  <2>4. hpc \in [Conns -> Labels]
    BY <1>1 DEF Init, Labels
  <2> QED BY <1>1, <2>1, <2>3, <2>4 DEF Init, TypeOK, Labels
<1>2. ASSUME Init PROVE OwnerInv
  BY <1>2 DEF Init, OwnerInv, OwnerOk, Entering, Serving, Leaving
<1> QED BY <1>1, <1>2, TypeStep, PTL DEF Spec

(* Every variable of the server keeps its type, whatever the numbers of    *)
(* agents and connections and the limits of its queues: no agent is looked *)
(* up before a registration named one, and no queue goes past its limit.   *)
THEOREM TypeCorrect == Spec => []TypeOK
BY TypeInvariant, PTL

-----------------------------------------------------------------------------
(* The tables.  An entry is named by a handler that is still to remove it: *)
(* by any handler of the agent for the registry, by the handler of the     *)
(* connection in the entry for the other two, since a cleanup that finds   *)
(* another connection there removes that one too.                          *)

InStore == {"store", "routing", "deliver", "greet"} \cup Serving \cup {"unregister"}
InMap == {"routing", "deliver", "greet"} \cup Serving \cup {"unregister", "forget"}
InTable == {"deliver", "greet"} \cup Serving \cup {"unregister", "forget", "unroute"}

StoreInv == \A a \in registered : \E c \in Conns : owner[c] = a /\ hpc[c] \in InStore
MapInv == \A a \in Agents : connections[a] # NoConn =>
            owner[connections[a]] = a /\ hpc[connections[a]] \in InMap
RouteInv == \A a \in Agents : table[a] # NoConn =>
              owner[table[a]] = a /\ hpc[table[a]] \in InTable
EntryInv == StoreInv /\ MapInv /\ RouteInv

(* Until Stop is called nobody leaves and no served connection is closed,  *)
(* so every handler past an entry finds it made.                           *)
Kept(c) ==
  /\ hpc[c] \notin {"unregister", "forget", "unroute"}
  /\ closed[c] => hpc[c] = "ended"
  /\ hpc[c] \in InStore => owner[c] \in registered
  /\ hpc[c] \in InMap => connections[owner[c]] # NoConn
  /\ hpc[c] \in InTable => table[owner[c]] # NoConn
RunningInv == /\ ctxDone <=> stopPc # "idle"
              /\ ~ctxDone => \A c \in Conns : Kept(c)

\* A step of c that changes no table.
LEMMA QuietEntries ==
  ASSUME EntryInv, NEW c \in Conns, UNCHANGED tables,
         \A d \in Conns : d # c => hpc'[d] = hpc[d] /\ owner'[d] = owner[d],
         TypeOK,
         owner[c] # NoAgent => owner'[c] = owner[c],
         hpc[c] \in InStore => hpc'[c] \in InStore,
         hpc[c] \in InMap => hpc'[c] \in InMap,
         hpc[c] \in InTable => hpc'[c] \in InTable
  PROVE  EntryInv'
<1>1. /\ \A a \in Agents : connections[a] \in Conns \cup {NoConn}
      /\ \A a \in Agents : table[a] \in Conns \cup {NoConn}
      /\ registered \subseteq Agents
  BY DEF TypeOK
<1>2. StoreInv'
  BY <1>1 DEF EntryInv, StoreInv, tables
<1>3. MapInv'
  BY <1>1 DEF EntryInv, MapInv, tables
<1>4. RouteInv'
  BY <1>1 DEF EntryInv, RouteInv, tables
<1> QED BY <1>2, <1>3, <1>4 DEF EntryInv

\* What most steps of a handler do to its label and to the tables.
LEMMA ListenMoves ==
  ASSUME TypeOK, NEW c \in Conns, Listen(c)
  PROVE  /\ hpc[c] \in {"unborn", "backlog"} /\ hpc'[c] \in {"backlog", "ended", "await"}
         /\ \A d \in Conns : d # c => hpc'[d] = hpc[d]
         /\ UNCHANGED <<tables, owner, ctxDone, stopPc>>
BY DEF Listen, Connect, Discard, Accept, Goto, handler, life, TypeOK

LEMMA TakeMoves ==
  ASSUME TypeOK, NEW c \in Conns, Take(c)
  PROVE  /\ hpc[c] \in Serving
         /\ \/ hpc'[c] \in Serving
            \/ hpc'[c] = "unregister" /\ (ctxDone \/ closed[c])
         /\ \A d \in Conns : d # c => hpc'[d] = hpc[d]
         /\ UNCHANGED <<outVars, tables, owner, ctxDone, stopPc>>
<1>1. \/ \E l \in Serving : Goto(c, l)
      \/ Goto(c, "unregister") /\ (ctxDone \/ closed[c])
  BY DEF Take, LoopTop, ReadEnds, ReadStopped, ReadInvalid, ReadTo, ReadUnknown,
         ReadQueryAgents, ReadTodos, ReadHeartbeat, ReadRename, ReadSend,
         InRegistry, Serving
<1>2. hpc[c] \in Serving /\ UNCHANGED <<outVars, tables, owner, ctxDone, stopPc>>
  BY DEF Take, LoopTop, ReadEnds, ReadInvalid, ReadTo, ReadUnknown, ReadQueryAgents,
         ReadTodos, ReadHeartbeat, ReadRename, ReadSend, Serving, handler, life
<1> QED BY <1>1, <1>2 DEF Goto, TypeOK

LEMMA ServeMoves ==
  ASSUME TypeOK, NEW c \in Conns, Serve(c)
  PROVE  /\ hpc[c] \in Serving /\ hpc'[c] \in Serving
         /\ \A d \in Conns : d # c => hpc'[d] = hpc[d]
         /\ registered' = registered \/ registered' = registered \cup {owner[c]}
         /\ UNCHANGED <<closed, connections, table, owner, ctxDone, stopPc>>
<1>1. ASSUME NEW d \in Conns, Written(d) \/ Refused(d)
      PROVE  UNCHANGED closed
  BY <1>1, WriteTypes
<1>2. CASE WriteBack(c) \/ Route(c) \/ QueueOffline(c) \/ SendDone(c)
  <2>1. \E l \in Serving : Goto(c, l)
    BY <1>2 DEF WriteBack, Route, QueueOffline, SendDone, Serving
  <2>2. /\ hpc[c] \in Serving
        /\ UNCHANGED <<closed, connections, table, owner, ctxDone, stopPc>>
        /\ registered' = registered \/ registered' = registered \cup {owner[c]}
    BY <1>2 DEF WriteBack, Route, QueueOffline, SendDone, Forgotten, Serving, outVars,
                tables, handler, life
  <2> QED BY <2>1, <2>2 DEF Goto, TypeOK
<1>3. ASSUME NEW d \in Conns, SendOne(c, d)
      PROVE  /\ hpc[c] \in Serving /\ hpc' = hpc
             /\ UNCHANGED <<closed, registered, connections, table, owner, ctxDone, stopPc>>
  BY <1>1, <1>3 DEF SendOne, Serving, tables, life
<1>4. CASE Reply(c) \/ SendError(c)
  <2>1. Goto(c, "loop") \/ Goto(c, "error")
    BY <1>4 DEF Reply, SendError
  <2>2. /\ hpc[c] \in Serving
        /\ UNCHANGED <<closed, registered, connections, table, owner, ctxDone, stopPc>>
    BY <1>1, <1>4 DEF Reply, SendError, Serving, tables, handler, life
  <2> QED BY <2>1, <2>2 DEF Goto, Serving, TypeOK
<1> QED BY <1>2, <1>3, <1>4 DEF Serve

Entered(c, from, to) == /\ hpc[c] = from /\ hpc'[c] = to
                        /\ \A d \in Conns : d # c => hpc'[d] = hpc[d]
                        /\ UNCHANGED <<closed, ctxDone, stopPc>>

LEMMA EnterMoves ==
  ASSUME TypeOK, NEW c \in Conns, Enter(c)
  PROVE  \/ /\ Entered(c, "await", "register") /\ UNCHANGED tables
            /\ \A d \in Conns : d # c => owner'[d] = owner[d]
         \/ /\ UNCHANGED <<tables, owner>>
            /\ \/ Entered(c, "await", "refuse") \/ Entered(c, "refuse", "close")
               \/ Entered(c, "deliver", "deliver") \/ Entered(c, "deliver", "greet")
               \/ Entered(c, "greet", "loop")
         \/ /\ Entered(c, "register", "store") /\ registered' = registered \cup {owner[c]}
            /\ UNCHANGED <<connections, table, owner>>
         \/ /\ Entered(c, "store", "routing")
            /\ connections' = [connections EXCEPT ![owner[c]] = c]
            /\ UNCHANGED <<registered, table, owner>>
         \/ /\ Entered(c, "routing", "deliver") /\ table' = [table EXCEPT ![owner[c]] = c]
            /\ UNCHANGED <<registered, connections, owner>>
<1>0. Written(c) \/ Refused(c) => UNCHANGED closed
  BY WriteTypes
<1>1. ASSUME NEW a \in Agents, AwaitRegistration(c, a)
      PROVE  /\ Entered(c, "await", "register") /\ UNCHANGED tables
             /\ \A d \in Conns : d # c => owner'[d] = owner[d]
  BY <1>1 DEF AwaitRegistration, Entered, Goto, outVars, life, TypeOK
<1>2. ASSUME AwaitFails(c)
      PROVE  Entered(c, "await", "refuse") /\ UNCHANGED <<tables, owner>>
  BY <1>2 DEF AwaitFails, Entered, Goto, outVars, handler, life, TypeOK
<1>3. ASSUME Refuse(c)
      PROVE  Entered(c, "refuse", "close") /\ UNCHANGED <<tables, owner>>
  BY <1>0, <1>3 DEF Refuse, Entered, Goto, handler, life, TypeOK
<1>4. ASSUME DeliverOne(c)
      PROVE  Entered(c, "deliver", "deliver") /\ UNCHANGED <<tables, owner>>
  BY <1>0, <1>4 DEF DeliverOne, Entered, handler, life, TypeOK
<1>5. ASSUME DeliverDone(c)
      PROVE  Entered(c, "deliver", "greet") /\ UNCHANGED <<tables, owner>>
  BY <1>5 DEF DeliverDone, Entered, Goto, outVars, handler, life, TypeOK
<1>6. ASSUME Greet(c)
      PROVE  Entered(c, "greet", "loop") /\ UNCHANGED <<tables, owner>>
  BY <1>0, <1>6 DEF Greet, Entered, Goto, handler, life, TypeOK
<1>7. ASSUME Register(c)
      PROVE  /\ Entered(c, "register", "store") /\ registered' = registered \cup {owner[c]}
             /\ UNCHANGED <<connections, table, owner>>
  BY <1>7 DEF Register, Entered, Goto, outVars, handler, life, TypeOK
<1>8. ASSUME StoreConnection(c)
      PROVE  /\ Entered(c, "store", "routing")
             /\ connections' = [connections EXCEPT ![owner[c]] = c]
             /\ UNCHANGED <<registered, table, owner>>
  BY <1>8 DEF StoreConnection, Entered, Goto, outVars, handler, life, TypeOK
<1>9. ASSUME RouterRegister(c)
      PROVE  /\ Entered(c, "routing", "deliver") /\ table' = [table EXCEPT ![owner[c]] = c]
             /\ UNCHANGED <<registered, connections, owner>>
  BY <1>9 DEF RouterRegister, Entered, Goto, outVars, handler, life, TypeOK
<1> QED BY <1>1, <1>2, <1>3, <1>4, <1>5, <1>6, <1>7, <1>8, <1>9 DEF Enter

LEMMA EnterEntries ==
  ASSUME TypeOK, OwnerInv, EntryInv, NEW c \in Conns, Enter(c)
  PROVE  EntryInv'
<1>0. OwnerOk(c)
  BY DEF OwnerInv
<1>1. CASE UNCHANGED tables
  <2>1. /\ \A d \in Conns : d # c => hpc'[d] = hpc[d] /\ owner'[d] = owner[d]
        /\ owner[c] # NoAgent => owner'[c] = owner[c]
        /\ hpc[c] \in InStore => hpc'[c] \in InStore
        /\ hpc[c] \in InMap => hpc'[c] \in InMap
        /\ hpc[c] \in InTable => hpc'[c] \in InTable
    BY <1>0, <1>1, EnterMoves DEF Entered, OwnerOk, InStore, InMap, InTable, Serving
  <2> QED BY <1>1, <2>1, QuietEntries
<1>2. CASE /\ Entered(c, "register", "store") /\ registered' = registered \cup {owner[c]}
           /\ UNCHANGED <<connections, table, owner>>
  <2>1. StoreInv'
    BY <1>2 DEF Entered, EntryInv, StoreInv, InStore, Serving
  <2>2. MapInv' /\ RouteInv'
    BY <1>2 DEF Entered, EntryInv, MapInv, RouteInv, InMap, InTable, Serving, TypeOK
  <2> QED BY <2>1, <2>2 DEF EntryInv
<1>3. CASE /\ Entered(c, "store", "routing")
           /\ connections' = [connections EXCEPT ![owner[c]] = c]
           /\ UNCHANGED <<registered, table, owner>>
  <2>1. StoreInv'
    BY <1>3 DEF Entered, EntryInv, StoreInv, InStore, Serving
  <2>2. MapInv'
    <3> SUFFICES ASSUME NEW a \in Agents, connections'[a] # NoConn
                 PROVE  owner[connections'[a]] = a /\ hpc'[connections'[a]] \in InMap
      BY <1>3 DEF MapInv
    <3>1. CASE a = owner[c]
      BY <1>3, <3>1 DEF Entered, InMap, TypeOK
    <3>2. CASE a # owner[c]
      <4>1. connections'[a] = connections[a] /\ connections[a] \in Conns
        BY <1>3, <3>2 DEF TypeOK
      <4>2. owner[connections[a]] = a /\ hpc[connections[a]] \in InMap
        BY <4>1 DEF EntryInv, MapInv
      <4> QED BY <1>3, <3>2, <4>1, <4>2 DEF Entered
    <3> QED BY <3>1, <3>2
  <2>3. RouteInv'
    BY <1>3 DEF Entered, EntryInv, RouteInv, InTable, Serving, TypeOK
  <2> QED BY <2>1, <2>2, <2>3 DEF EntryInv
<1>4. CASE /\ Entered(c, "routing", "deliver") /\ table' = [table EXCEPT ![owner[c]] = c]
           /\ UNCHANGED <<registered, connections, owner>>
  <2>1. StoreInv'
    BY <1>4 DEF Entered, EntryInv, StoreInv, InStore, Serving
  <2>2. MapInv'
    BY <1>4 DEF Entered, EntryInv, MapInv, InMap, Serving, TypeOK
  <2>3. RouteInv'
    <3> SUFFICES ASSUME NEW a \in Agents, table'[a] # NoConn
                 PROVE  owner[table'[a]] = a /\ hpc'[table'[a]] \in InTable
      BY <1>4 DEF RouteInv
    <3>1. CASE a = owner[c]
      BY <1>4, <3>1 DEF Entered, InTable, TypeOK
    <3>2. CASE a # owner[c]
      <4>1. table'[a] = table[a] /\ table[a] \in Conns
        BY <1>4, <3>2 DEF TypeOK
      <4>2. owner[table[a]] = a /\ hpc[table[a]] \in InTable
        BY <4>1 DEF EntryInv, RouteInv
      <4> QED BY <1>4, <3>2, <4>1, <4>2 DEF Entered
    <3> QED BY <3>1, <3>2
  <2> QED BY <2>1, <2>2, <2>3 DEF EntryInv
<1> QED BY <1>1, <1>2, <1>3, <1>4, EnterMoves DEF tables

LEMMA LeaveMoves ==
  ASSUME TypeOK, NEW c \in Conns, Leave(c)
  PROVE  /\ \A d \in Conns : d # c => hpc'[d] = hpc[d]
         /\ UNCHANGED <<owner, ctxDone, stopPc>>
         /\ \/ /\ hpc[c] = "unregister" /\ hpc'[c] = "forget"
               /\ registered' = registered \ {owner[c]} /\ UNCHANGED <<connections, table>>
            \/ /\ hpc[c] = "forget" /\ hpc'[c] = "unroute"
               /\ connections' = [connections EXCEPT ![owner[c]] = NoConn]
               /\ UNCHANGED <<registered, table>>
            \/ /\ hpc[c] = "unroute" /\ hpc'[c] = "close"
               /\ table' = [table EXCEPT ![owner[c]] = NoConn]
               /\ UNCHANGED <<registered, connections>>
            \/ hpc[c] = "close" /\ hpc'[c] = "ended" /\ UNCHANGED tables
BY DEF Leave, Unregister, Forget, Unroute, Unrouted, End, Goto, tables, handler, life, TypeOK

LEMMA LeaveEntries ==
  ASSUME TypeOK, OwnerInv, EntryInv, NEW c \in Conns, Leave(c)
  PROVE  EntryInv'
<1>0. OwnerOk(c)
  BY DEF OwnerInv
<1>1. \A d \in Conns : d # c => hpc'[d] = hpc[d] /\ owner' = owner
  BY LeaveMoves
<1>2. StoreInv'
  <2>1. hpc[c] \in InStore => hpc[c] = "unregister" /\ registered' = registered \ {owner[c]}
    BY LeaveMoves DEF InStore, Serving
  <2>2. registered' \subseteq registered /\ owner' = owner
    BY LeaveMoves DEF tables
  <2> QED BY <1>1, <2>1, <2>2 DEF EntryInv, StoreInv
<1>3. MapInv'
  <2> SUFFICES ASSUME NEW a \in Agents, connections'[a] # NoConn
               PROVE  owner[connections'[a]] = a /\ hpc'[connections'[a]] \in InMap
    BY LeaveMoves DEF MapInv
  <2>1. connections'[a] = connections[a] /\ connections[a] \in Conns
    BY LeaveMoves DEF tables, TypeOK
  <2>2. owner[connections[a]] = a /\ hpc[connections[a]] \in InMap
    BY <2>1 DEF EntryInv, MapInv
  <2>3. connections[a] = c => hpc'[c] \in InMap
    <3>1. CASE hpc[c] = "unregister"
      BY <3>1, LeaveMoves DEF InMap
    <3>2. CASE hpc[c] = "forget"
      BY <2>1, <2>2, <3>2, LeaveMoves DEF TypeOK
    <3>3. CASE hpc[c] \in {"unroute", "close"}
      BY <2>2, <3>3 DEF InMap, Serving
    <3> QED BY <3>1, <3>2, <3>3, LeaveMoves
  <2> QED BY <1>1, <2>1, <2>2, <2>3
<1>4. RouteInv'
  <2> SUFFICES ASSUME NEW a \in Agents, table'[a] # NoConn
               PROVE  owner[table'[a]] = a /\ hpc'[table'[a]] \in InTable
    BY LeaveMoves DEF RouteInv
  <2>1. table'[a] = table[a] /\ table[a] \in Conns
    BY LeaveMoves DEF tables, TypeOK
  <2>2. owner[table[a]] = a /\ hpc[table[a]] \in InTable
    BY <2>1 DEF EntryInv, RouteInv
  <2>3. table[a] = c => hpc'[c] \in InTable
    <3>1. CASE hpc[c] \in {"unregister", "forget"}
      BY <3>1, LeaveMoves DEF InTable
    <3>2. CASE hpc[c] = "unroute"
      BY <2>1, <2>2, <3>2, LeaveMoves DEF TypeOK
    <3>3. CASE hpc[c] = "close"
      BY <2>2, <3>3 DEF InTable, Serving
    <3> QED BY <3>1, <3>2, <3>3, LeaveMoves
  <2> QED BY <1>1, <2>1, <2>2, <2>3
<1> QED BY <1>2, <1>3, <1>4 DEF EntryInv

LEMMA EntryStep ==
  ASSUME TypeOK, OwnerInv, EntryInv, [Next]_vars
  PROVE  EntryInv'
<1>1. ASSUME NEW c \in Conns, Listen(c)
      PROVE  EntryInv'
  <2>1. hpc[c] \notin InStore \cup InMap \cup InTable
    BY <1>1, ListenMoves DEF InStore, InMap, InTable, Serving
  <2> QED BY <1>1, <2>1, ListenMoves, QuietEntries
<1>2. ASSUME NEW c \in Conns, Take(c)
      PROVE  EntryInv'
  <2>1. hpc'[c] \in InStore /\ hpc'[c] \in InMap /\ hpc'[c] \in InTable
    BY <1>2, TakeMoves DEF InStore, InMap, InTable
  <2> QED BY <1>2, <2>1, TakeMoves, QuietEntries
<1>3. ASSUME NEW c \in Conns, Serve(c)
      PROVE  EntryInv'
  <2>1. hpc'[c] \in InStore /\ hpc'[c] \in InMap /\ hpc'[c] \in InTable
    BY <1>3, ServeMoves DEF InStore, InMap, InTable
  <2>2. CASE registered' = registered
    BY <1>3, <2>1, <2>2, ServeMoves, QuietEntries DEF tables
  <2>3. CASE registered' = registered \cup {owner[c]}
    <3>1. StoreInv'
      BY <1>3, <2>1, <2>3, ServeMoves DEF EntryInv, StoreInv
    <3>2. MapInv' /\ RouteInv'
      BY <1>3, <2>1, ServeMoves DEF EntryInv, MapInv, RouteInv, TypeOK
    <3> QED BY <3>1, <3>2 DEF EntryInv
  <2> QED BY <1>3, <2>2, <2>3, ServeMoves
<1>4. CASE AcceptFails \/ Cancel \/ Sweep \/ CloseListener \/ StopReturn
  <2>1. /\ UNCHANGED <<registered, table, hpc, owner>>
        /\ \A a \in Agents : connections'[a] \in {connections[a], NoConn}
    BY <1>4 DEF AcceptFails, Cancel, Sweep, CloseListener, StopReturn, tables, handler
  <2> QED BY <2>1 DEF EntryInv, StoreInv, MapInv, RouteInv
<1>5. CASE UNCHANGED <<tables, hpc, owner>>
  BY <1>5 DEF EntryInv, StoreInv, MapInv, RouteInv, tables
<1>6. (\E c \in Conns : Loops(c)) \/ UNCHANGED vars => UNCHANGED <<tables, hpc, owner>>
  BY DEF Loops, others, vars, handler
<1> QED BY <1>1, <1>2, <1>3, <1>4, <1>5, <1>6, EnterEntries, LeaveEntries, Steps

(* When every connection of an agent has been cleaned up, no table names   *)
(* the agent: for any number of connections of the agent, whatever the     *)
(* order of registration, late write-backs, cleanups and Stop.             *)
THEOREM NoTableNamesAGhost == Spec => []NoGhostAgents
<1>1. Init => EntryInv
  BY DEF Init, EntryInv, StoreInv, MapInv, RouteInv
<1>2. TypeOK /\ OwnerInv /\ EntryInv /\ [Next]_vars => EntryInv'
  BY EntryStep
<1>3. TypeOK /\ EntryInv => NoGhostAgents
  <2> SUFFICES ASSUME TypeOK, EntryInv, NEW a \in Agents,
                      \A c \in Conns : owner[c] = a => hpc[c] \in {"close", "ended"}
               PROVE  a \notin registered /\ connections[a] = NoConn /\ table[a] = NoConn
    BY DEF NoGhostAgents
  <2>1. connections[a] \in Conns \cup {NoConn} /\ table[a] \in Conns \cup {NoConn}
    BY DEF TypeOK
  <2>2. {"close", "ended"} \cap (InStore \cup InMap \cup InTable) = {}
    BY DEF InStore, InMap, InTable, Serving
  <2> QED BY <2>1, <2>2 DEF EntryInv, StoreInv, MapInv, RouteInv
<1> QED BY <1>1, <1>2, <1>3, TypeInvariant, PTL DEF Spec

-----------------------------------------------------------------------------
(* Before Stop.                                                            *)

\* A connection that a step leaves alone, if no entry is removed.
LEMMA StillKept ==
  ASSUME TypeOK, OwnerInv, NEW d \in Conns, Kept(d),
         hpc'[d] = hpc[d], owner'[d] = owner[d], closed'[d] = closed[d],
         registered \subseteq registered',
         \A a \in Agents : connections[a] # NoConn => connections'[a] # NoConn,
         \A a \in Agents : table[a] # NoConn => table'[a] # NoConn
  PROVE  Kept(d)'
<1>1. hpc[d] \in InStore \cup InMap \cup InTable => owner[d] \in Agents
  BY DEF OwnerInv, OwnerOk, InStore, InMap, InTable, Entering, Leaving
<1> QED BY <1>1 DEF Kept

\* A step of a serving handler that neither leaves nor removes an entry.
LEMMA ServingKept ==
  ASSUME TypeOK, OwnerInv, NEW c \in Conns, \A d \in Conns : Kept(d),
         hpc[c] \in Serving, hpc'[c] \in Serving,
         \A d \in Conns : d # c => hpc'[d] = hpc[d],
         registered \subseteq registered',
         UNCHANGED <<closed, connections, table, owner>>
  PROVE  \A d \in Conns : Kept(d)'
<1>1. hpc[c] \in InStore /\ hpc[c] \in InMap /\ hpc[c] \in InTable /\ hpc[c] # "ended"
  BY DEF InStore, InMap, InTable, Serving
<1>2. hpc'[c] \notin {"unregister", "forget", "unroute"}
  BY DEF Serving
<1>3. Kept(c)'
  BY <1>1, <1>2 DEF Kept
<1> QED BY <1>3, StillKept

LEMMA EnterKept ==
  ASSUME TypeOK, OwnerInv, NEW c \in Conns, \A d \in Conns : Kept(d), Enter(c)
  PROVE  \A d \in Conns : Kept(d)'
<1>0. OwnerOk(c) /\ Kept(c)
  BY DEF OwnerInv
<1>1. ASSUME NEW d \in Conns, d # c
      PROVE  Kept(d)'
  <2>1. hpc'[d] = hpc[d] /\ owner'[d] = owner[d] /\ closed'[d] = closed[d]
    BY <1>1, EnterMoves DEF Entered
  <2>2. /\ registered \subseteq registered'
        /\ \A a \in Agents : connections[a] # NoConn => connections'[a] # NoConn
        /\ \A a \in Agents : table[a] # NoConn => table'[a] # NoConn
    BY EnterMoves DEF tables, TypeOK
  <2> QED BY <2>1, <2>2, StillKept
<1>2. Kept(c)'
  <2>1. CASE Entered(c, "await", "register")
    BY <1>0, <2>1 DEF Entered, Kept, InStore, InMap, InTable, Serving
  <2>2. CASE /\ UNCHANGED <<tables, owner>>
             /\ Entered(c, "await", "refuse") \/ Entered(c, "refuse", "close")
    BY <1>0, <2>2 DEF Entered, Kept, InStore, InMap, InTable, Serving
  <2>3. CASE /\ UNCHANGED <<tables, owner>>
             /\ \/ Entered(c, "deliver", "deliver") \/ Entered(c, "deliver", "greet")
                \/ Entered(c, "greet", "loop")
    <3>1. /\ hpc[c] \in InStore /\ hpc[c] \in InMap /\ hpc[c] \in InTable
          /\ hpc[c] # "ended" /\ hpc'[c] \notin {"unregister", "forget", "unroute"}
      BY <2>3 DEF Entered, InStore, InMap, InTable
    <3> QED BY <1>0, <2>3, <3>1 DEF Entered, Kept, tables
  <2>4. CASE /\ Entered(c, "register", "store") /\ registered' = registered \cup {owner[c]}
             /\ UNCHANGED <<connections, table, owner>>
    BY <1>0, <2>4 DEF Entered, Kept, InMap, InTable, Serving
  <2>5. CASE /\ Entered(c, "store", "routing")
             /\ connections' = [connections EXCEPT ![owner[c]] = c]
             /\ UNCHANGED <<registered, table, owner>>
    <3>1. owner[c] \in Agents /\ owner[c] \in registered
      BY <1>0, <2>5 DEF Entered, OwnerOk, Kept, InStore, Entering
    <3>2. connections'[owner[c]] # NoConn
      BY <2>5, <3>1 DEF TypeOK
    <3> QED BY <1>0, <2>5, <3>1, <3>2 DEF Entered, Kept, InTable, Serving
  <2>6. CASE /\ Entered(c, "routing", "deliver") /\ table' = [table EXCEPT ![owner[c]] = c]
             /\ UNCHANGED <<registered, connections, owner>>
    <3>1. /\ owner[c] \in Agents /\ owner[c] \in registered
          /\ connections[owner[c]] # NoConn
      BY <1>0, <2>6 DEF Entered, OwnerOk, Kept, InStore, InMap, Entering
    <3>2. table'[owner[c]] # NoConn
      BY <2>6, <3>1 DEF TypeOK
    <3> QED BY <1>0, <2>6, <3>1, <3>2 DEF Entered, Kept
  <2> QED BY <2>1, <2>2, <2>3, <2>4, <2>5, <2>6, EnterMoves
<1> QED BY <1>1, <1>2

LEMMA EndKept ==
  ASSUME TypeOK, OwnerInv, NEW c \in Conns, \A d \in Conns : Kept(d), Leave(c)
  PROVE  \A d \in Conns : Kept(d)'
<1>1. /\ hpc[c] = "close" /\ hpc'[c] = "ended" /\ UNCHANGED <<tables, owner>>
      /\ \A d \in Conns : d # c => hpc'[d] = hpc[d]
  BY LeaveMoves DEF Kept
<1>2. \A d \in Conns : d # c => closed'[d] = closed[d]
  <2>1. End(c)
    BY <1>1 DEF Leave, Unregister, Forget, Unroute
  <2>2. ASSUME NEW d \in Conns, d # c
        PROVE  closed'[d] = (closed[d] \/ d \in {c})
    BY <2>1, Zenon DEF End, CloseEnds, CloseAll
  <2>3. ASSUME NEW d \in Conns, d # c
        PROVE  closed[d] \in BOOLEAN
    BY DEF TypeOK, OutTypeOK
  <2> QED BY <2>2, <2>3
<1>3. Kept(c)'
  BY <1>1 DEF Kept, InStore, InMap, InTable, Serving
<1> QED BY <1>1, <1>2, <1>3, StillKept DEF tables

LEMMA RunningStep ==
  ASSUME TypeOK, OwnerInv, RunningInv, [Next]_vars
  PROVE  RunningInv'
<1> USE DEF RunningInv
<1>1. ASSUME NEW c \in Conns, Listen(c)
      PROVE  RunningInv'
  <2>1. CASE ctxDone
    BY <1>1, <2>1, ListenMoves
  <2>2. CASE ~ctxDone
    <3>1. Connect(c) \/ Accept(c)
      BY <1>1, <2>2 DEF Listen, Discard, ListenerClosed
    <3>2. UNCHANGED closed
      BY <3>1 DEF Connect, Accept, outVars
    <3>3. hpc'[c] \in {"backlog", "await"}
      BY <3>1 DEF Connect, Accept, Goto, TypeOK
    <3>4. Kept(c)'
      BY <1>1, <2>2, <3>2, <3>3, ListenMoves DEF Kept, InStore, InMap, InTable, Serving
    <3>5. \A d \in Conns : d # c => Kept(d)'
      BY <1>1, <2>2, <3>2, ListenMoves, StillKept DEF tables
    <3> QED BY <1>1, <3>4, <3>5, ListenMoves
  <2> QED BY <2>1, <2>2
<1>2. ASSUME NEW c \in Conns, Enter(c)
      PROVE  RunningInv'
  BY <1>2, EnterMoves, EnterKept DEF Entered
<1>3. ASSUME NEW c \in Conns, Take(c)
      PROVE  RunningInv'
  <2>1. CASE ctxDone
    BY <1>3, <2>1, TakeMoves
  <2>2. CASE ~ctxDone
    <3>1. hpc[c] # "ended"
      BY <1>3, TakeMoves DEF Serving
    <3>2. hpc'[c] \in Serving
      BY <1>3, <2>2, <3>1, TakeMoves DEF Kept
    <3>3. \A d \in Conns : Kept(d)'
      BY <1>3, <2>2, <3>2, TakeMoves, ServingKept DEF outVars, tables
    <3> QED BY <1>3, <3>3, TakeMoves
  <2> QED BY <2>1, <2>2
<1>4. ASSUME NEW c \in Conns, Serve(c)
      PROVE  RunningInv'
  <2>1. registered \subseteq registered'
    BY <1>4, ServeMoves
  <2>2. ~ctxDone => \A d \in Conns : Kept(d)'
    BY <1>4, <2>1, ServeMoves, ServingKept
  <2> QED BY <1>4, <2>2, ServeMoves
<1>5. ASSUME NEW c \in Conns, Leave(c)
      PROVE  RunningInv'
  BY <1>5, LeaveMoves, EndKept
<1>6. CASE AcceptFails \/ Cancel \/ Sweep \/ CloseListener \/ StopReturn
  BY <1>6 DEF AcceptFails, ListenerClosed, Cancel, Sweep, CloseListener, StopReturn, TypeOK
<1>7. CASE UNCHANGED <<closed, tables, hpc, owner, ctxDone, stopPc>>
  BY <1>7 DEF Kept, tables
<1>8. (\E c \in Conns : Loops(c)) \/ UNCHANGED vars
        => UNCHANGED <<closed, tables, hpc, owner, ctxDone, stopPc>>
  BY LoopTypes DEF Loops, others, vars, outVars, handler, life
<1> QED BY <1>1, <1>2, <1>3, <1>4, <1>5, <1>6, <1>7, <1>8, Steps

(* Until Stop is called, the agent of a serving handler is in all three    *)
(* tables, under a connection that registered as this agent, and under the *)
(* handler's own if no other did: for any number of connections, however   *)
(* their registrations and requests overlap.                               *)
THEOREM ServedAgentsAreReachable == Spec => []ServedAgentsReachable
<1>1. Init => EntryInv /\ RunningInv
  BY DEF Init, OutInit, EntryInv, StoreInv, MapInv, RouteInv, RunningInv, Kept,
         InStore, InMap, InTable, Serving
<1>2. TypeOK /\ OwnerInv /\ EntryInv /\ RunningInv /\ [Next]_vars
        => EntryInv' /\ RunningInv'
  BY EntryStep, RunningStep
<1>3. TypeOK /\ OwnerInv /\ EntryInv /\ RunningInv => ServedAgentsReachable
  <2> SUFFICES ASSUME TypeOK, OwnerInv, EntryInv, RunningInv, ~ctxDone,
                      NEW c \in Conns, hpc[c] \in Serving
               PROVE  /\ owner[c] \in registered
                      /\ \A entry \in {connections[owner[c]], table[owner[c]]} :
                           /\ entry \in Conns /\ owner[entry] = owner[c]
                           /\ (\A d \in Conns \ {c} : owner[d] # owner[c]) => entry = c
    BY DEF ServedAgentsReachable
  <2>1. owner[c] \in Agents /\ Kept(c)
    BY DEF OwnerInv, OwnerOk, RunningInv
  <2>2. hpc[c] \in InStore /\ hpc[c] \in InMap /\ hpc[c] \in InTable
    BY DEF InStore, InMap, InTable
  <2>3. /\ owner[c] \in registered
        /\ connections[owner[c]] \in Conns /\ owner[connections[owner[c]]] = owner[c]
        /\ table[owner[c]] \in Conns /\ owner[table[owner[c]]] = owner[c]
    BY <2>1, <2>2 DEF Kept, EntryInv, MapInv, RouteInv, TypeOK
  <2> QED BY <2>3
<1> QED BY <1>1, <1>2, <1>3, TypeInvariant, PTL DEF Spec

-----------------------------------------------------------------------------
(* Stop is never stuck.  StopNeverStuck says so with ENABLED, of which the *)
(* prover knows nothing; here the conditions are written out under which   *)
(* each of the goroutines can go on.                                       *)

CanWrite(c) == closed[c] \/ Room(c)

CanHandle(c) ==
  \/ hpc[c] \in {"register", "store", "loop", "touch", "rename",
                 "unregister", "forget", "close"}
  \/ hpc[c] \in {"refuse", "greet", "reply", "error"} /\ CanWrite(c)
  \/ hpc[c] \in {"routing", "route", "queue", "unroute"} /\ RouterFree
  \/ hpc[c] = "await" /\ (inbox[c] > 0 \/ NilReady(c))
  \/ hpc[c] = "read" /\ (inbox[c] > 0 \/ NilReady(c) \/ closed[c])
  \/ hpc[c] = "deliver" /\ (unsent = 0 \/ CanWrite(c))
  \/ hpc[c] = "write" /\ (todo[c] = {} \/ \E d \in todo[c] : CanWrite(d))

CanRead(c) == Born(c) /\ readLoop[c] = "running" /\ inbox[c] < ReadCap
CanFlush(c) == Born(c) /\ writeLoop[c] = "running" /\ buffered[c] > 0

CanAccept == accepting /\ (ListenerClosed \/ \E c \in Conns : hpc[c] = "backlog")
CanStop == stopPc \in {"sweep", "listener"} \/ (stopPc = "wait" /\ Waited)

SomebodyCanGoOn == \/ CanAccept \/ CanStop
                   \/ \E c \in Conns : CanHandle(c) \/ CanRead(c) \/ CanFlush(c)

\* Who holds the router is writing an offline queue, and nobody is to be
\* written to whose loops were never started.
LockInv == routerLock # NoConn => hpc[routerLock] = "deliver"
TodoInv == \A c \in Conns : \A d \in todo[c] : Born(d)
WaitInv == LockInv /\ TodoInv

\* A step of c that keeps the router's lock and gives c nobody new to write to.
LEMMA WaitKept ==
  ASSUME TypeOK, WaitInv, NEW c \in Conns,
         \A d \in Conns : d # c => hpc'[d] = hpc[d],
         hpc'[c] # "unborn",
         routerLock' = NoConn \/ (routerLock' = routerLock /\ hpc[c] # "deliver")
           \/ hpc'[routerLock'] = "deliver",
         \A d \in Conns : todo'[d] \subseteq todo[d]
  PROVE  WaitInv'
<1>1. LockInv'
  BY DEF WaitInv, LockInv, TypeOK
<1>2. TodoInv'
  BY DEF WaitInv, TodoInv, Born, TypeOK
<1> QED BY <1>1, <1>2 DEF WaitInv

LEMMA WaitEnter ==
  ASSUME TypeOK, WaitInv, NEW c \in Conns, Enter(c)
  PROVE  WaitInv'
<1>1. todo' = todo
  BY DEF Enter, AwaitRegistration, AwaitFails, Refuse, Register, StoreConnection,
         RouterRegister, DeliverOne, DeliverDone, Greet, handler
<1>2. /\ \A d \in Conns : d # c => hpc'[d] = hpc[d]
      /\ hpc'[c] # "unborn"
  BY EnterMoves DEF Entered
<1>3. CASE RouterRegister(c)
  BY <1>1, <1>2, <1>3, WaitKept DEF RouterRegister, Goto, TypeOK
<1>4. CASE DeliverOne(c)
  BY <1>1, <1>2, <1>4, WaitKept DEF DeliverOne, WaitInv, LockInv
<1>5. CASE DeliverDone(c)
  BY <1>1, <1>2, <1>5, WaitKept DEF DeliverDone
<1>6. ASSUME \/ \E a \in Agents : AwaitRegistration(c, a)
             \/ AwaitFails(c) \/ Refuse(c) \/ Register(c) \/ StoreConnection(c)
             \/ Greet(c)
      PROVE  routerLock' = routerLock /\ hpc[c] # "deliver"
  BY <1>6 DEF AwaitRegistration, AwaitFails, Refuse, Register, StoreConnection,
              Greet, router
<1> QED BY <1>1, <1>2, <1>3, <1>4, <1>5, <1>6, WaitKept DEF Enter

LEMMA WaitServe ==
  ASSUME TypeOK, EntryInv, WaitInv, NEW c \in Conns, Serve(c)
  PROVE  WaitInv'
<1>1. /\ hpc[c] # "deliver" /\ hpc'[c] # "unborn"
      /\ \A d \in Conns : d # c => hpc'[d] = hpc[d]
  BY ServeMoves DEF Serving
<1>2. routerLock' = routerLock
  BY DEF Serve, WriteBack, Route, QueueOffline, SendOne, SendDone, Reply, SendError,
         router
<1>3. CASE Route(c)
  <2>1. /\ \A d \in Conns : d # c => todo'[d] = todo[d]
        /\ \A d \in todo'[c] : d \in todo[c] \/ \E a \in Agents : d = table[a] /\ d # NoConn
    BY <1>3 DEF Route, Broadcasts, TypeOK
  <2>2. \A a \in Agents : table[a] # NoConn => table[a] \in Conns /\ Born(table[a])
    BY DEF EntryInv, RouteInv, InTable, Serving, Born, TypeOK
  <2>3. TodoInv'
    BY <1>1, <2>1, <2>2 DEF WaitInv, TodoInv, Born, TypeOK
  <2> QED BY <1>1, <1>2, <2>3 DEF WaitInv, LockInv, TypeOK
<1>4. CASE ~Route(c)
  <2>1. \A d \in Conns : todo'[d] \subseteq todo[d]
    BY <1>4 DEF Serve, WriteBack, QueueOffline, SendOne, SendDone, Reply, SendError,
                Forgotten, handler, TypeOK
  <2> QED BY <1>1, <1>2, <2>1, WaitKept
<1> QED BY <1>3, <1>4

LEMMA WaitStep ==
  ASSUME TypeOK, EntryInv, WaitInv, [Next]_vars
  PROVE  WaitInv'
<1>1. ASSUME NEW c \in Conns, Listen(c)
      PROVE  WaitInv'
  <2>1. routerLock' = routerLock /\ todo' = todo
    BY <1>1 DEF Listen, Connect, Discard, Accept, router, handler
  <2> QED BY <1>1, <2>1, ListenMoves, WaitKept
<1>2. ASSUME NEW c \in Conns, Take(c)
      PROVE  WaitInv'
  <2>1. routerLock' = routerLock /\ todo' = todo
    BY <1>2 DEF Take, LoopTop, ReadEnds, ReadInvalid, ReadTo, ReadUnknown,
                ReadQueryAgents, ReadTodos, ReadHeartbeat, ReadRename, ReadSend,
                router, handler
  <2>2. hpc[c] # "deliver" /\ hpc'[c] # "unborn"
    BY <1>2, TakeMoves DEF Serving
  <2> QED BY <1>2, <2>1, <2>2, TakeMoves, WaitKept
<1>3. ASSUME NEW c \in Conns, Leave(c)
      PROVE  WaitInv'
  <2>1. routerLock' = routerLock /\ todo' = todo
    BY <1>3 DEF Leave, Unregister, Forget, Unroute, End, router, handler
  <2>2. /\ hpc[c] # "deliver" /\ hpc'[c] # "unborn"
        /\ \A d \in Conns : d # c => hpc'[d] = hpc[d]
    BY <1>3 DEF Leave, Unregister, Forget, Unroute, End, Goto, TypeOK
  <2> QED BY <2>1, <2>2, WaitKept
<1>4. ASSUME \/ \E c \in Conns : Loops(c)
             \/ AcceptFails \/ Cancel \/ Sweep \/ CloseListener \/ StopReturn
             \/ UNCHANGED vars
      PROVE  UNCHANGED <<hpc, routerLock, todo>>
  BY <1>4 DEF Loops, others, AcceptFails, Cancel, Sweep, CloseListener, StopReturn,
              router, handler, vars
<1>5. UNCHANGED <<hpc, routerLock, todo>> => WaitInv'
  BY DEF WaitInv, LockInv, TodoInv, Born
<1> QED BY <1>1, <1>2, <1>3, <1>4, <1>5, WaitEnter, WaitServe, Steps

\* Whoever waits to write to d waits for d's writeLoop, which can go on.
LEMMA WriterCanGoOn ==
  ASSUME TypeOK, NEW d \in Conns, Born(d), ~Stalled(d), ~CanWrite(d)
  PROVE  CanFlush(d)
BY DEF CanWrite, CanFlush, Stalled, Room, TypeOK, OutTypeOK

(* From the call of Stop until it returns somebody can take a step, unless *)
(* some connection is stalled: for any number of connections, nobody waits *)
(* for ever on the router's lock, on a connection, or on wg.Wait.  What    *)
(* waits for the lock waits for a deliverQueued, that for a writeLoop.     *)
THEOREM StopIsNotStuck ==
  Spec => [](ctxDone /\ stopPc # "returned" /\ (\A c \in Conns : ~Stalled(c))
               => SomebodyCanGoOn)
<1>1. Init => EntryInv /\ WaitInv /\ RunningInv
  BY DEF Init, EntryInv, StoreInv, MapInv, RouteInv, WaitInv, LockInv, TodoInv,
         RunningInv, Kept, InStore, InMap, InTable, Serving, OutInit
<1>2. TypeOK /\ OwnerInv /\ EntryInv /\ [Next]_vars => EntryInv'
  BY EntryStep
<1>3. TypeOK /\ EntryInv /\ WaitInv /\ [Next]_vars => WaitInv'
  BY WaitStep
<1>4. TypeOK /\ OwnerInv /\ EntryInv /\ RunningInv /\ [Next]_vars => RunningInv'
  BY RunningStep
<1>5. ASSUME TypeOK, WaitInv, RunningInv, ctxDone, stopPc # "returned",
             \A c \in Conns : ~Stalled(c), ~SomebodyCanGoOn
      PROVE  FALSE
  <2>0. \A c \in Conns : ~CanHandle(c) /\ ~CanRead(c) /\ ~CanFlush(c)
    BY <1>5 DEF SomebodyCanGoOn
  <2>1. \A d \in Conns : Born(d) => CanWrite(d)
    BY <1>5, <2>0, WriterCanGoOn
  <2>2. RouterFree
    <3>1. ASSUME routerLock # NoConn PROVE FALSE
      <4>1. routerLock \in Conns /\ hpc[routerLock] = "deliver"
        BY <1>5, <3>1 DEF WaitInv, LockInv, TypeOK
      <4> QED BY <4>1, <2>0, <2>1 DEF CanHandle, Born
    <3> QED BY <3>1 DEF RouterFree
  <2>3. \A c \in Conns : Born(c) => inbox[c] > 0 \/ NilReady(c)
    BY <1>5, <2>0 DEF CanRead, NilReady, TypeOK, InTypeOK
  <2>4. \A c \in Conns : hpc[c] \in {"unborn", "backlog", "ended"}
    <3>1. SUFFICES ASSUME NEW c \in Conns,
                          hpc[c] \notin {"unborn", "backlog", "ended"}
                   PROVE  CanHandle(c)
      BY <2>0
    <3>2. Born(c) /\ CanWrite(c)
      BY <2>1, <3>1 DEF Born
    <3>3. hpc[c] = "write" => todo[c] = {} \/ \E d \in todo[c] : CanWrite(d)
      BY <1>5, <2>1 DEF WaitInv, TodoInv, TypeOK
    <3>4. hpc[c] \in {"await", "refuse"} \cup Entering \cup Serving \cup Leaving
      BY <1>5, <3>1 DEF TypeOK
    <3> QED BY <2>2, <2>3, <3>2, <3>3, <3>4 DEF CanHandle, Entering, Serving, Leaving
  <2>5. stopPc = "wait"
    BY <1>5 DEF RunningInv, SomebodyCanGoOn, CanStop, TypeOK
  <2>6. ~accepting
    BY <1>5, <2>5 DEF SomebodyCanGoOn, CanAccept, ListenerClosed
  <2> QED BY <1>5, <2>4, <2>5, <2>6 DEF SomebodyCanGoOn, CanStop, Waited
<1>6. TypeOK /\ WaitInv /\ RunningInv =>
        (ctxDone /\ stopPc # "returned" /\ (\A c \in Conns : ~Stalled(c))
           => SomebodyCanGoOn)
  BY <1>5
<1> QED BY <1>1, <1>2, <1>3, <1>4, <1>6, TypeInvariant, PTL DEF Spec
=============================================================================
