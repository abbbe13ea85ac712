---------------------------- MODULE RouterProofs ----------------------------
(***************************************************************************)
(* Theorems about Router, for every value of its constants.                *)
(***************************************************************************)
EXTENDS Router, FiniteSetTheorems, WellFoundedInduction, TLAPS

USE WriteCapAssumption, MaxOfflineAssumption, FromAssumption,
    PriorityAssumption, NullsAssumption

-----------------------------------------------------------------------------
(* Type correctness.                                                       *)

LEMMA InitType == Init => TypeOK
BY DEF Init, OutInit, TypeOK, OutTypeOK

LEMMA RouteType ==
  ASSUME TypeOK, NEW m \in Msgs, NEW to \in Agents \cup {Everyone}, Route(m, to)
  PROVE  TypeOK'
BY DEF TypeOK, OutTypeOK, Route, connVars, outVars, routerVars

LEMMA LookupType ==
  ASSUME TypeOK, NEW m \in Msgs, LookupDirect(m) \/ LookupBroadcast(m)
  PROVE  TypeOK'
<1>1. CASE LookupDirect(m)
  <2>1. /\ UNCHANGED <<connVars, routerVars, dest, earlier, writing, failed>>
        /\ dest[m] \in Agents /\ conns[dest[m]] \in Conns \cup {NoConn}
    BY <1>1 DEF LookupDirect, TypeOK
  <2>2. pc' \in [Msgs -> {"new", "lookup", "queue", "sending", "done"}]
    <3>1. pc \in [Msgs -> {"new", "lookup", "queue", "sending", "done"}]
      BY DEF TypeOK
    <3>2. \/ pc' = [pc EXCEPT ![m] = "queue"]
          \/ pc' = [pc EXCEPT ![m] = "sending"]
      BY <1>1 DEF LookupDirect
    <3> QED BY <3>1, <3>2
  <2>3. targets' \in [Msgs -> SUBSET Conns]
    <3>1. conns[dest[m]] # NoConn => Recipients(m) \in SUBSET Conns
      BY <2>1 DEF Recipients
    <3>2. CASE conns[dest[m]] = NoConn
      BY <1>1, <3>2 DEF LookupDirect, TypeOK
    <3>3. CASE conns[dest[m]] # NoConn
      <4>1. targets' = [targets EXCEPT ![m] = Recipients(m)]
        BY <1>1, <3>3 DEF LookupDirect
      <4> QED BY <3>1, <3>3, <4>1 DEF TypeOK
    <3> QED BY <3>2, <3>3
  <2> QED BY <2>1, <2>2, <2>3 DEF TypeOK, OutTypeOK, connVars, outVars, routerVars
<1>2. CASE LookupBroadcast(m)
  BY <1>2 DEF TypeOK, OutTypeOK, LookupBroadcast, Connected, connVars, outVars, routerVars
<1> QED BY <1>1, <1>2

LEMMA FailType ==
  ASSUME TypeOK, NEW m \in Msgs, Fail(m)
  PROVE  failed' \in [Msgs -> BOOLEAN]
BY DEF TypeOK, Fail

LEMMA QueueOfflineType ==
  ASSUME TypeOK, NEW m \in Msgs, QueueOffline(m)
  PROVE  TypeOK'
<1>1. CASE QueueFull(dest[m])
  <2>1. failed' \in [Msgs -> BOOLEAN] /\ UNCHANGED offlineQ
    BY <1>1, FailType DEF QueueOffline
  <2> QED BY <2>1 DEF TypeOK, OutTypeOK, QueueOffline, connVars, outVars
<1>2. CASE ~QueueFull(dest[m])
  <2>1. offlineQ' = [offlineQ EXCEPT ![dest[m]] = @ \cup {m}]
    BY <1>2 DEF QueueOffline
  <2>2. \A a \in Agents : offlineQ[a] \cup {m} \in SUBSET Msgs
    BY DEF TypeOK
  <2>3. offlineQ' \in [Agents -> SUBSET Msgs]
    BY <2>1, <2>2 DEF TypeOK
  <2> QED BY <1>2, <2>3 DEF TypeOK, OutTypeOK, QueueOffline, connVars, outVars
<1> QED BY <1>1, <1>2

LEMMA PutType ==
  ASSUME TypeOK, NEW c \in Conns, NEW m \in Msgs, Accept(c, m)
  PROVE  OutTypeOK' /\ stream' \in [Conns -> Seq(Msgs)]
BY DEF TypeOK, OutTypeOK, Accept, Put, Room

LEMMA SendType ==
  ASSUME TypeOK, NEW m \in Msgs,
         \/ \E c \in Conns : SendCheck(m, c)
         \/ SendPut(m) \/ SendStopped(m) \/ Return(m)
  PROVE  TypeOK'
<1>1. ASSUME NEW c \in Conns, SendCheck(m, c) PROVE TypeOK'
  <2>1. failed' \in [Msgs -> BOOLEAN]
    BY <1>1, FailType DEF SendCheck, TypeOK
  <2>2. targets' \in [Msgs -> SUBSET Conns]
    <3>1. targets[m] \ {c} \in SUBSET Conns
      BY DEF TypeOK
    <3>2. \/ targets' = [targets EXCEPT ![m] = targets[m] \ {c}]
          \/ targets' = targets
      BY <1>1 DEF SendCheck
    <3>3. targets \in [Msgs -> SUBSET Conns]
      BY DEF TypeOK
    <3> QED BY <3>1, <3>2, <3>3
  <2>3. writing' \in [Msgs -> Conns \cup {NoConn}]
    <3>1. \/ writing' = writing
          \/ writing' = [writing EXCEPT ![m] = c]
      BY <1>1 DEF SendCheck
    <3>2. writing \in [Msgs -> Conns \cup {NoConn}]
      BY DEF TypeOK
    <3> QED BY <3>1, <3>2
  <2> QED BY <1>1, <2>1, <2>2, <2>3 DEF SendCheck, TypeOK, OutTypeOK, connVars, outVars, routerVars
<1>2. CASE SendPut(m)
  <2>1. writing[m] \in Conns
    BY <1>2 DEF SendPut, Sending, TypeOK
  <2>2. OutTypeOK' /\ stream' \in [Conns -> Seq(Msgs)]
    BY <1>2, <2>1, PutType DEF SendPut
  <2> QED BY <1>2, <2>2 DEF TypeOK, SendPut, Sent, routerVars
<1>3. CASE SendStopped(m)
  <2>1. failed' \in [Msgs -> BOOLEAN]
    BY <1>3, FailType DEF SendStopped
  <2> QED BY <1>3, <2>1 DEF TypeOK, OutTypeOK, SendStopped, Sent, connVars, outVars, routerVars
<1>4. CASE Return(m)
  BY <1>4 DEF TypeOK, OutTypeOK, Return, connVars, outVars, routerVars
<1> QED BY <1>1, <1>2, <1>3, <1>4

LEMMA DeliverType ==
  ASSUME TypeOK, Deliver
  PROVE  TypeOK'
<1>1. ASSUME NEW m \in Msgs, DeliverCheck(m) PROVE TypeOK'
  <2>1. pending' \in SUBSET Msgs
    <3>1. pending' = pending \/ pending' = pending \ {m}
      BY <1>1 DEF DeliverCheck
    <3> QED BY <3>1 DEF TypeOK
  <2>2. writing' \in [Msgs -> Conns \cup {NoConn}]
    <3>1. /\ lock \in Conns \cup {NoConn}
          /\ writing \in [Msgs -> Conns \cup {NoConn}]
      BY DEF TypeOK
    <3>2. \/ writing' = writing
          \/ writing' = [writing EXCEPT ![m] = lock]
      BY <1>1 DEF DeliverCheck
    <3> QED BY <3>1, <3>2
  <2> QED BY <1>1, <2>1, <2>2 DEF TypeOK, OutTypeOK, DeliverCheck, connVars, outVars, callVars
<1>2. ASSUME NEW m \in Msgs, DeliverPut(m) PROVE TypeOK'
  <2>1. lock \in Conns
    BY <1>2 DEF DeliverPut, Delivering, Unlocked, TypeOK
  <2>2. OutTypeOK' /\ stream' \in [Conns -> Seq(Msgs)]
    BY <1>2, <2>1, PutType DEF DeliverPut
  <2> QED BY <1>2, <2>2 DEF TypeOK, DeliverPut, Delivered, callVars
<1>3. ASSUME NEW m \in Msgs, DeliverStopped(m) PROVE TypeOK'
  BY <1>3 DEF TypeOK, OutTypeOK, DeliverStopped, Delivered, connVars, outVars, callVars
<1>4. ASSUME NEW c \in Conns, DeliverDone(c) PROVE TypeOK'
  BY <1>4 DEF TypeOK, OutTypeOK, DeliverDone, Cleared, connVars, outVars, callVars
<1> QED BY <1>1, <1>2, <1>3, <1>4 DEF Deliver

LEMMA RegisterType ==
  ASSUME TypeOK, NEW c \in Conns,
         (\E a \in Agents : RegisterConnection(c, a)) \/ UnregisterConnection(c)
  PROVE  TypeOK'
<1>1. ASSUME NEW a \in Agents, RegisterConnection(c, a) PROVE TypeOK'
  BY <1>1 DEF TypeOK, OutTypeOK, RegisterConnection, connVars, outVars, callVars
<1>2. CASE UnregisterConnection(c)
  BY <1>2 DEF TypeOK, OutTypeOK, UnregisterConnection, connVars, outVars, callVars
<1> QED BY <1>1, <1>2

LEMMA TransportType ==
  ASSUME TypeOK, NEW c \in Conns, Transport(c)
  PROVE  TypeOK'
<1>1. OutTypeOK'
  <2>1. CASE Close(c)
    <3>1. closed' \in [Conns -> BOOLEAN]
      BY <2>1, Zenon DEF TypeOK, OutTypeOK, Close, CloseAll
    <3> QED BY <2>1, <3>1 DEF TypeOK, OutTypeOK, Close, CloseAll
  <2>2. CASE Flush(c) \/ WriteFails(c)
    <3>1. buffered[c] - 1 \in 0 .. WriteCap
      BY <2>2 DEF Flush, WriteFails, TypeOK, OutTypeOK
    <3>2. buffered' = [buffered EXCEPT ![c] = buffered[c] - 1]
      BY <2>2 DEF Flush, WriteFails
    <3>3. buffered' \in [Conns -> 0 .. WriteCap]
      BY <3>1, <3>2 DEF TypeOK, OutTypeOK
    <3> QED BY <2>2, <3>3 DEF TypeOK, OutTypeOK, Flush, WriteFails
  <2>3. CASE PingFails(c)
    BY <2>3 DEF TypeOK, OutTypeOK, PingFails
  <2> QED BY <2>1, <2>2, <2>3 DEF Transport, WriteLoop
<1> QED BY <1>1 DEF TypeOK, Transport, routerVars, callVars

LEMMA TypeStep ==
  ASSUME TypeOK, [Next]_vars
  PROVE  TypeOK'
<1>1. CASE UNCHANGED vars
  BY <1>1 DEF TypeOK, OutTypeOK, vars, connVars, outVars, routerVars, callVars
<1>2. ASSUME NEW m \in Msgs, RouteCall(m) PROVE TypeOK'
  BY <1>2, LookupType, QueueOfflineType, SendType DEF RouteCall
<1> QED BY <1>1, <1>2, RouteType, DeliverType, RegisterType, TransportType
        DEF Next

(* Every variable of the router keeps its type, whatever the numbers of    *)
(* agents, connections, messages and goroutines and the two limits.        *)
THEOREM TypeCorrect == Spec => []TypeOK
<1>1. TypeOK /\ [Next]_vars => TypeOK'
  BY TypeStep
<1> QED BY InitType, <1>1, PTL DEF Spec

-----------------------------------------------------------------------------
(* The offline queues.  The bound alone is not inductive: the cardinality  *)
(* of a queue only means something while the queue is finite.              *)

QueueInv == \A a \in Agents : /\ IsFiniteSet(offlineQ[a])
                              /\ Cardinality(offlineQ[a]) <= MaxOffline

LEMMA QueueStep ==
  ASSUME TypeOK, QueueInv, [Next]_vars
  PROVE  QueueInv'
<1>1. ASSUME NEW m \in Msgs, QueueOffline(m) PROVE QueueInv'
  <2> SUFFICES ASSUME NEW a \in Agents
               PROVE  /\ IsFiniteSet(offlineQ'[a])
                      /\ Cardinality(offlineQ'[a]) <= MaxOffline
    BY DEF QueueInv
  <2>1. IsFiniteSet(offlineQ[a]) /\ Cardinality(offlineQ[a]) <= MaxOffline
    BY DEF QueueInv
  <2>2. CASE offlineQ'[a] = offlineQ[a]
    BY <2>1, <2>2
  <2>3. CASE offlineQ'[a] # offlineQ[a]
    <3>1. ~QueueFull(a) /\ offlineQ'[a] = offlineQ[a] \cup {m}
      BY <1>1, <2>3 DEF QueueOffline, TypeOK
    <3>2. Cardinality(offlineQ[a]) \in Nat
      BY <2>1, FS_CardinalityType
    <3>3. Cardinality(offlineQ[a]) < MaxOffline
      BY <3>1, <3>2 DEF QueueFull
    <3>4. /\ IsFiniteSet(offlineQ[a] \cup {m})
          /\ \/ Cardinality(offlineQ[a] \cup {m}) = Cardinality(offlineQ[a])
             \/ Cardinality(offlineQ[a] \cup {m}) = Cardinality(offlineQ[a]) + 1
      BY <2>1, FS_AddElement
    <3> QED BY <3>1, <3>2, <3>3, <3>4
  <2> QED BY <2>2, <2>3
<1>2. ASSUME NEW c \in Conns, DeliverDone(c) PROVE QueueInv'
  <2>1. \A a \in Agents : offlineQ'[a] = offlineQ[a] \/ offlineQ'[a] = {}
    BY <1>2 DEF DeliverDone, Cleared, TypeOK
  <2>2. IsFiniteSet({}) /\ Cardinality({}) <= MaxOffline
    BY FS_EmptySet
  <2> QED BY <2>1, <2>2 DEF QueueInv
<1>3. CASE UNCHANGED offlineQ
  BY <1>3 DEF QueueInv
<1>4. UNCHANGED offlineQ \/ (\E m \in Msgs : QueueOffline(m))
                        \/ (\E c \in Conns : DeliverDone(c))
  BY DEF Next, vars, routerVars, connVars, Route, RouteCall, LookupDirect,
         LookupBroadcast, SendCheck, SendPut, SendStopped, Sent, Return, Deliver,
         DeliverCheck, DeliverPut, DeliverStopped, Delivered, RegisterConnection,
         UnregisterConnection, Transport
<1> QED BY <1>1, <1>2, <1>3, <1>4

LEMMA QueuesAreFinite == Spec => []QueueInv
<1>1. Init => QueueInv
  BY FS_EmptySet DEF Init, QueueInv
<1>2. TypeOK /\ QueueInv /\ [Next]_vars => QueueInv'
  BY QueueStep
<1> QED BY <1>1, <1>2, TypeCorrect, PTL DEF Spec

(* No offline queue exceeds maxOffline, for any number of messages and of  *)
(* calls between their look at the table and their turn to queue.          *)
THEOREM QueuesAreBounded == Spec => []QueueBounded
<1>1. QueueInv => QueueBounded
  BY DEF QueueInv, QueueBounded
<1> QED BY <1>1, QueuesAreFinite, PTL

-----------------------------------------------------------------------------
(* What a nil result of Route stands for.  An entry of the table, a target *)
(* of a call and the connection being registered all belong to the agent   *)
(* they were found under, and a connection never changes its agent; what   *)
(* the running deliverQueued has dealt with is written or its connection   *)
(* is closed, so nothing is lost when the queue is cleared.                *)

Reached(c, a) == owner[c] = a /\ hpc[c] # "idle"

TableInv ==
  /\ \A a \in Agents : conns[a] # NoConn => Reached(conns[a], a)
  /\ \A c \in Conns : hpc[c] = "idle" => owner[c] = NoAgent
  /\ lock # NoConn => hpc[lock] = "deliver" /\ owner[lock] \in Agents

CallInv ==
  \A m \in Msgs :
    /\ pc[m] \in {"new", "lookup", "queue"} => writing[m] = NoConn
    /\ pc[m] = "queue" => dest[m] \in Agents
    /\ m \in pending \/ (\E a \in Agents : m \in offlineQ[a]) => pc[m] = "done"

SendOk(m) ==
  pc[m] = "sending" /\ dest[m] \in Agents =>
    /\ \A c \in targets[m] : Reached(c, dest[m])
    /\ writing[m] # NoConn => writing[m] \in targets[m]
    /\ \/ targets[m] # {}
       \/ failed[m]
       \/ \E c \in Conns : Carries(c, m) /\ owner[c] = dest[m]
SendInv == \A m \in Msgs : SendOk(m)

DeliverInv ==
  lock # NoConn =>
    \A m \in offlineQ[owner[lock]] \ pending : Carries(lock, m) \/ closed[lock]

\* Steps that leave the table, the queues and every call as they are.
Idle == UNCHANGED <<routerVars, callVars, writing, stream>>

\* Next, one disjunct per action.
LEMMA Actions ==
  ASSUME [Next]_vars
  PROVE  \/ \E m \in Msgs, to \in Agents \cup {Everyone} : Route(m, to)
         \/ \E m \in Msgs : LookupDirect(m)
         \/ \E m \in Msgs : LookupBroadcast(m)
         \/ \E m \in Msgs : QueueOffline(m)
         \/ \E m \in Msgs, c \in Conns : SendCheck(m, c)
         \/ \E m \in Msgs : SendPut(m)
         \/ \E m \in Msgs : SendStopped(m)
         \/ \E m \in Msgs : Return(m)
         \/ \E c \in Conns, a \in Agents : RegisterConnection(c, a)
         \/ \E m \in Msgs : DeliverCheck(m)
         \/ \E m \in Msgs : DeliverPut(m)
         \/ \E m \in Msgs : DeliverStopped(m)
         \/ \E c \in Conns : DeliverDone(c)
         \/ \E c \in Conns : UnregisterConnection(c)
         \/ Idle
BY DEF Next, RouteCall, Deliver, Transport, Idle, vars, connVars

\* What a connection accepted stays accepted, and m is then on c.
LEMMA AcceptGrows ==
  ASSUME TypeOK, NEW c \in Conns, NEW m \in Msgs, Accept(c, m)
  PROVE  /\ \A d \in Conns, n \in Msgs : Carries(d, n) => Carries(d, n)'
         /\ Carries(c, m)'
<1>1. /\ stream \in [Conns -> Seq(Msgs)]
      /\ stream' = [stream EXCEPT ![c] = Append(@, m)]
  BY DEF TypeOK, Accept
<1>2. \A d \in Conns : d # c => stream'[d] = stream[d]
  BY <1>1
<1>3. /\ stream'[c] = Append(stream[c], m) /\ stream[c] \in Seq(Msgs)
      /\ DOMAIN stream[c] = 1 .. Len(stream[c]) /\ Len(stream[c]) \in Nat
      /\ DOMAIN stream'[c] = 1 .. Len(stream[c]) + 1
  BY <1>1
<1>4. /\ \A i \in DOMAIN stream[c] : i \in DOMAIN stream'[c] /\ stream'[c][i] = stream[c][i]
      /\ Len(stream[c]) + 1 \in DOMAIN stream'[c]
      /\ stream'[c][Len(stream[c]) + 1] = m
  BY <1>3
<1> QED BY <1>2, <1>4 DEF Carries

LEMMA Grows ==
  ASSUME TypeOK, [Next]_vars
  PROVE  /\ \A d \in Conns, n \in Msgs : Carries(d, n) => Carries(d, n)'
         /\ \A d \in Conns : closed[d] => closed'[d]
<1>1. \A d \in Conns, n \in Msgs : Carries(d, n) => Carries(d, n)'
  <2>1. ASSUME NEW m \in Msgs, SendPut(m)
        PROVE  \A d \in Conns, n \in Msgs : Carries(d, n) => Carries(d, n)'
    <3>1. writing[m] \in Conns /\ Accept(writing[m], m)
      BY <2>1 DEF SendPut, Sending, TypeOK
    <3> QED BY <3>1, AcceptGrows
  <2>2. ASSUME NEW m \in Msgs, DeliverPut(m)
        PROVE  \A d \in Conns, n \in Msgs : Carries(d, n) => Carries(d, n)'
    <3>1. lock \in Conns /\ Accept(lock, m)
      BY <2>2 DEF DeliverPut, Delivering, Unlocked, TypeOK
    <3> QED BY <3>1, AcceptGrows
  <2>3. CASE UNCHANGED stream
    BY <2>3 DEF Carries
  <2>4. UNCHANGED stream \/ (\E m \in Msgs : SendPut(m) \/ DeliverPut(m))
    BY Actions DEF connVars, Route, LookupDirect, LookupBroadcast, QueueOffline,
       SendCheck, SendStopped, Return, RegisterConnection, DeliverCheck,
       DeliverStopped, DeliverDone, UnregisterConnection, Idle
  <2> QED BY <2>1, <2>2, <2>3, <2>4
<1>2. \A d \in Conns : closed[d] => closed'[d]
  <2>1. ASSUME NEW c \in Conns, Close(c)
        PROVE  \A d \in Conns : closed[d] => closed'[d]
    BY <2>1, Zenon DEF Close, CloseAll
  <2>2. UNCHANGED closed \/ \E c \in Conns : Close(c)
    BY DEF Next, vars, connVars, outVars, Route, RouteCall, LookupDirect,
       LookupBroadcast, QueueOffline, SendCheck, SendPut, SendStopped, Return,
       RegisterConnection, Deliver, DeliverCheck, DeliverPut, DeliverStopped,
       DeliverDone, UnregisterConnection, Transport, WriteLoop, Flush,
       WriteFails, PingFails, Accept, Put
  <2> QED BY <2>1, <2>2
<1> QED BY <1>1, <1>2

LEMMA OwnerKept ==
  ASSUME TypeOK, TableInv, [Next]_vars, NEW c \in Conns, NEW a \in Agents, owner[c] = a
  PROVE  owner'[c] = a /\ Reached(c, a)'
<1>1. hpc[c] # "idle"
  BY DEF TableInv
<1>2. ASSUME NEW d \in Conns, NEW b \in Agents, RegisterConnection(d, b)
      PROVE  owner'[c] = a /\ hpc'[c] # "idle"
  BY <1>1, <1>2 DEF RegisterConnection, TypeOK
<1>3. ASSUME NEW d \in Conns, DeliverDone(d) \/ UnregisterConnection(d)
      PROVE  owner'[c] = a /\ hpc'[c] # "idle"
  BY <1>1, <1>3 DEF DeliverDone, UnregisterConnection, TypeOK
<1>4. CASE UNCHANGED <<owner, hpc>>
  BY <1>1, <1>4 DEF Reached
<1>5. \/ UNCHANGED <<owner, hpc>>
      \/ \E d \in Conns, b \in Agents : RegisterConnection(d, b)
      \/ \E d \in Conns : DeliverDone(d) \/ UnregisterConnection(d)
  BY Actions DEF routerVars, Route, LookupDirect, LookupBroadcast, QueueOffline,
     SendCheck, SendPut, SendStopped, Return, DeliverCheck, DeliverPut,
     DeliverStopped, Delivered, Idle
<1> QED BY <1>2, <1>3, <1>4, <1>5 DEF Reached

LEMMA TableStep ==
  ASSUME TypeOK, TableInv, [Next]_vars
  PROVE  TableInv'
<1>1. ASSUME NEW c \in Conns, NEW a \in Agents, RegisterConnection(c, a)
      PROVE  TableInv'
  <2>1. (\A b \in Agents : conns[b] # NoConn => Reached(conns[b], b))'
    <3> SUFFICES ASSUME NEW b \in Agents, conns'[b] # NoConn
                 PROVE  owner'[conns'[b]] = b /\ hpc'[conns'[b]] # "idle"
      BY DEF Reached
    <3>1. CASE b = a
      BY <1>1, <3>1 DEF RegisterConnection, TypeOK
    <3>2. CASE b # a
      <4>1. conns'[b] = conns[b] /\ conns[b] \in Conns
        BY <1>1, <3>2 DEF RegisterConnection, TypeOK
      <4>2. owner[conns[b]] = b /\ hpc[conns[b]] # "idle"
        BY <4>1 DEF TableInv, Reached
      <4> QED BY <1>1, <4>1, <4>2 DEF RegisterConnection, TypeOK
    <3> QED BY <3>1, <3>2
  <2>2. \A d \in Conns : hpc'[d] = "idle" => owner'[d] = NoAgent
    BY <1>1 DEF RegisterConnection, TableInv, TypeOK
  <2>3. lock' = c /\ hpc'[c] = "deliver" /\ owner'[c] \in Agents
    BY <1>1 DEF RegisterConnection, TypeOK
  <2> QED BY <1>1, <2>1, <2>2, <2>3 DEF TableInv
<1>2. ASSUME NEW c \in Conns, DeliverDone(c) \/ UnregisterConnection(c)
      PROVE  TableInv'
  <2>1. /\ \A b \in Agents : conns'[b] \in {conns[b], NoConn}
        /\ \A d \in Conns : hpc'[d] = hpc[d] \/ (d = c /\ hpc'[d] # "idle" /\ hpc[d] # "idle")
        /\ lock' = NoConn /\ owner' = owner
    BY <1>2 DEF DeliverDone, UnregisterConnection, Unlocked, TypeOK
  <2>2. (\A b \in Agents : conns[b] # NoConn => Reached(conns[b], b))'
    <3> SUFFICES ASSUME NEW b \in Agents, conns'[b] # NoConn
                 PROVE  owner'[conns'[b]] = b /\ hpc'[conns'[b]] # "idle"
      BY DEF Reached
    <3>1. conns'[b] = conns[b] /\ conns[b] \in Conns
      BY <2>1 DEF TypeOK
    <3>2. owner[conns[b]] = b /\ hpc[conns[b]] # "idle"
      BY <3>1 DEF TableInv, Reached
    <3> QED BY <2>1, <3>1, <3>2
  <2> QED BY <2>1, <2>2 DEF TableInv
<1>3. CASE UNCHANGED <<conns, hpc, owner, lock>>
  BY <1>3 DEF TableInv, Reached
<1>4. \/ UNCHANGED <<conns, hpc, owner, lock>>
      \/ \E c \in Conns, a \in Agents : RegisterConnection(c, a)
      \/ \E c \in Conns : DeliverDone(c) \/ UnregisterConnection(c)
  BY Actions DEF routerVars, Route, LookupDirect, LookupBroadcast, QueueOffline,
     SendCheck, SendPut, SendStopped, Return, DeliverCheck, DeliverPut,
     DeliverStopped, Delivered, Idle
<1> QED BY <1>1, <1>2, <1>3, <1>4

LEMMA CallStep ==
  ASSUME TypeOK, CallInv, [Next]_vars
  PROVE  CallInv'
<1>1. ASSUME NEW m \in Msgs, NEW to \in Agents \cup {Everyone}, Route(m, to)
      PROVE  CallInv'
  BY <1>1 DEF Route, routerVars, CallInv, TypeOK
<1>2. ASSUME NEW m \in Msgs, LookupDirect(m) \/ LookupBroadcast(m)
      PROVE  CallInv'
  BY <1>2 DEF LookupDirect, LookupBroadcast, routerVars, CallInv, TypeOK
<1>3. ASSUME NEW m \in Msgs, QueueOffline(m)
      PROVE  CallInv'
  <2>1. \A a \in Agents : offlineQ'[a] \subseteq offlineQ[a] \cup {m}
    <3>1. offlineQ \in [Agents -> SUBSET Msgs]
      BY DEF TypeOK
    <3>2. offlineQ' = offlineQ \/ offlineQ' = [offlineQ EXCEPT ![dest[m]] = @ \cup {m}]
      BY <1>3 DEF QueueOffline
    <3> QED BY <3>1, <3>2
  <2> QED BY <1>3, <2>1 DEF QueueOffline, CallInv, TypeOK
<1>4. ASSUME NEW m \in Msgs,
             \/ \E c \in Conns : SendCheck(m, c)
             \/ SendPut(m) \/ SendStopped(m) \/ Return(m)
      PROVE  CallInv'
  <2>1. /\ \A n \in Msgs : n # m => pc'[n] = pc[n] /\ writing'[n] = writing[n]
        /\ pc[m] = "sending" /\ pc'[m] \in {"sending", "done"}
        /\ UNCHANGED <<offlineQ, pending, dest>>
    BY <1>4 DEF SendCheck, SendPut, Sending, SendStopped, Sent, Return,
                routerVars, TypeOK
  <2> QED BY <2>1 DEF CallInv
<1>5. ASSUME NEW c \in Conns, NEW a \in Agents, RegisterConnection(c, a)
      PROVE  CallInv'
  BY <1>5 DEF RegisterConnection, callVars, CallInv
<1>6. ASSUME NEW m \in Msgs, DeliverCheck(m) \/ DeliverPut(m) \/ DeliverStopped(m)
      PROVE  CallInv'
  <2>1. /\ \A n \in Msgs : n # m => writing'[n] = writing[n]
        /\ m \in pending /\ pending' \subseteq pending
        /\ UNCHANGED <<pc, dest, offlineQ>>
    BY <1>6 DEF DeliverCheck, NextQueued, DeliverPut, DeliverStopped, Delivering,
                Delivered, callVars, TypeOK
  <2> QED BY <2>1 DEF CallInv
<1>7. ASSUME NEW c \in Conns, DeliverDone(c)
      PROVE  CallInv'
  <2>1. \A a \in Agents : offlineQ'[a] \subseteq offlineQ[a]
    BY <1>7 DEF DeliverDone, Cleared, TypeOK
  <2> QED BY <1>7, <2>1 DEF DeliverDone, callVars, CallInv
<1>8. CASE UNCHANGED <<pc, dest, writing, pending, offlineQ>>
  BY <1>8 DEF CallInv
<1>9. (\E c \in Conns : UnregisterConnection(c)) \/ Idle
        => UNCHANGED <<pc, dest, writing, pending, offlineQ>>
  BY DEF UnregisterConnection, Idle, routerVars, callVars
<1> QED BY <1>1, <1>2, <1>3, <1>4, <1>5, <1>6, <1>7, <1>8, <1>9, Actions

\* A call that a step leaves alone keeps its part of SendInv.
LEMMA SendKept ==
  ASSUME TypeOK, TableInv, [Next]_vars, NEW m \in Msgs, SendOk(m),
         pc'[m] = pc[m], dest'[m] = dest[m], targets'[m] = targets[m],
         writing'[m] = writing[m], failed'[m] = failed[m]
  PROVE  SendOk(m)'
<1> SUFFICES ASSUME pc[m] = "sending", dest[m] \in Agents
             PROVE  /\ (\A c \in targets[m] : Reached(c, dest[m]))'
                    /\ writing[m] # NoConn => writing[m] \in targets[m]
                    /\ \/ targets[m] # {}
                       \/ failed[m]
                       \/ (\E c \in Conns : Carries(c, m) /\ owner[c] = dest[m])'
  BY DEF SendOk
<1>1. targets[m] \subseteq Conns
  BY DEF TypeOK
<1>2. \A c \in Conns : owner[c] = dest[m] => owner'[c] = dest[m] /\ hpc'[c] # "idle"
  BY OwnerKept DEF Reached
<1>3. \A c \in Conns : Carries(c, m) => Carries(c, m)'
  BY Grows
<1> QED BY <1>1, <1>2, <1>3 DEF SendOk, Reached

LEMMA SendStep ==
  ASSUME TypeOK, TableInv, CallInv, SendInv, [Next]_vars, NEW m \in Msgs
  PROVE  SendOk(m)'
<1>0. SendOk(m)
  BY DEF SendInv
<1>1. ASSUME NEW to \in Agents \cup {Everyone}, Route(m, to)
      PROVE  pc'[m] = "lookup"
  BY <1>1 DEF Route, TypeOK
<1>2. ASSUME LookupDirect(m)
      PROVE  SendOk(m)'
  <2>1. CASE conns[dest[m]] = NoConn
    <3>1. pc'[m] = "queue"
      BY <1>2, <2>1 DEF LookupDirect, TypeOK
    <3> QED BY <3>1 DEF SendOk
  <2>2. CASE conns[dest[m]] # NoConn
    <3>1. /\ dest[m] \in Agents /\ conns[dest[m]] \in Conns
          /\ targets' = [targets EXCEPT ![m] = {conns[dest[m]]}]
          /\ UNCHANGED <<dest, writing, owner, hpc>>
          /\ pc[m] = "lookup"
      BY <1>2, <2>2 DEF LookupDirect, Recipients, routerVars, TypeOK
    <3>2. targets'[m] = {conns[dest[m]]} /\ writing'[m] = NoConn
      BY <3>1 DEF TypeOK, CallInv
    <3>3. owner[conns[dest[m]]] = dest[m] /\ hpc[conns[dest[m]]] # "idle"
      BY <2>2, <3>1 DEF TableInv, Reached
    <3> QED BY <3>1, <3>2, <3>3 DEF SendOk, Reached
  <2> QED BY <2>1, <2>2
<1>3. ASSUME LookupBroadcast(m)
      PROVE  dest'[m] \notin Agents
  BY <1>3 DEF LookupBroadcast
<1>4. ASSUME QueueOffline(m) \/ Return(m)
      PROVE  pc'[m] = "done"
  BY <1>4 DEF QueueOffline, Return, TypeOK
<1>5. ASSUME NEW c \in Conns, SendCheck(m, c)
      PROVE  SendOk(m)'
  <2>1. CASE closed[c]
    <3>1. /\ targets' = [targets EXCEPT ![m] = @ \ {c}] /\ Fail(m)
          /\ UNCHANGED <<writing, dest, owner, hpc>> /\ writing[m] = NoConn
          /\ pc[m] = "sending"
      BY <1>5, <2>1 DEF SendCheck, routerVars
    <3>2. targets'[m] \subseteq targets[m] /\ failed'[m] /\ writing'[m] = NoConn
      BY <3>1 DEF TypeOK, Fail
    <3> QED BY <1>0, <3>1, <3>2 DEF SendOk, Reached, Carries
  <2>2. CASE ~closed[c]
    <3>1. /\ writing' = [writing EXCEPT ![m] = c] /\ c \in targets[m]
          /\ UNCHANGED <<targets, dest, owner, hpc>> /\ pc[m] = "sending"
      BY <1>5, <2>2 DEF SendCheck, routerVars
    <3>2. writing'[m] = c
      BY <3>1 DEF TypeOK
    <3> QED BY <1>0, <3>1, <3>2 DEF SendOk, Reached
  <2> QED BY <2>1, <2>2
<1>6. ASSUME SendPut(m) \/ SendStopped(m)
      PROVE  SendOk(m)'
  <2>1. PICK w \in Conns : w = writing[m]
    BY <1>6 DEF SendPut, SendStopped, Sending, TypeOK
  <2>2. pc[m] = "sending" /\ Sent(m) /\ UNCHANGED <<dest, owner, hpc>>
    BY <1>6 DEF SendPut, SendStopped, Sending, routerVars
  <2>3. writing'[m] = NoConn /\ targets'[m] \subseteq targets[m]
    BY <2>2 DEF Sent, TypeOK
  <2>4. failed'[m] \/ Carries(w, m)'
    <3>1. CASE SendPut(m)
      BY <2>1, <3>1, AcceptGrows DEF SendPut
    <3>2. CASE SendStopped(m)
      BY <3>2 DEF SendStopped, Fail, TypeOK
    <3> QED BY <1>6, <3>1, <3>2
  <2>5. dest[m] \in Agents => owner[w] = dest[m]
    BY <1>0, <2>1, <2>2 DEF SendOk, Reached
  <2> QED BY <1>0, <2>2, <2>3, <2>4, <2>5 DEF SendOk, Reached
<1>7. \/ pc'[m] = "lookup" \/ pc'[m] = "done" \/ dest'[m] \notin Agents
      \/ LookupDirect(m) \/ (\E c \in Conns : SendCheck(m, c))
      \/ SendPut(m) \/ SendStopped(m)
      \/ pc[m] # "sending" /\ pc'[m] = pc[m]
      \/ /\ pc'[m] = pc[m] /\ dest'[m] = dest[m] /\ targets'[m] = targets[m]
         /\ writing'[m] = writing[m] /\ failed'[m] = failed[m]
  <2>1. ASSUME NEW n \in Msgs, n # m,
               \/ \E to \in Agents \cup {Everyone} : Route(n, to)
               \/ LookupDirect(n) \/ LookupBroadcast(n) \/ QueueOffline(n)
               \/ \E c \in Conns : SendCheck(n, c)
               \/ SendPut(n) \/ SendStopped(n) \/ Return(n)
        PROVE  /\ pc'[m] = pc[m] /\ dest'[m] = dest[m] /\ targets'[m] = targets[m]
               /\ writing'[m] = writing[m] /\ failed'[m] = failed[m]
    BY <2>1 DEF Route, LookupDirect, LookupBroadcast, QueueOffline, SendCheck,
                SendPut, SendStopped, Sent, Return, Fail, TypeOK
  <2>2. ASSUME NEW n \in Msgs, DeliverCheck(n) \/ DeliverPut(n) \/ DeliverStopped(n)
        PROVE  /\ pc' = pc /\ dest' = dest /\ targets' = targets /\ failed' = failed
               /\ pc[m] = "sending" => writing'[m] = writing[m]
    <3>1. n \in pending /\ UNCHANGED callVars
      BY <2>2 DEF DeliverCheck, NextQueued, DeliverPut, DeliverStopped, Delivering, Delivered
    <3>2. pc[n] = "done"
      BY <3>1 DEF CallInv
    <3>3. m # n => writing'[m] = writing[m]
      BY <2>2 DEF DeliverCheck, DeliverPut, DeliverStopped, Delivered, TypeOK
    <3> QED BY <3>1, <3>2, <3>3 DEF callVars
  <2>3. ASSUME \/ \E c \in Conns, a \in Agents : RegisterConnection(c, a)
               \/ \E c \in Conns : DeliverDone(c) \/ UnregisterConnection(c)
               \/ Idle
        PROVE  UNCHANGED <<pc, dest, targets, writing, failed>>
    BY <2>3 DEF RegisterConnection, DeliverDone, UnregisterConnection, Idle, callVars
  <2> QED BY <1>1, <1>3, <1>4, <2>1, <2>2, <2>3, Actions
<1>8. ASSUME pc'[m] # "sending" \/ dest'[m] \notin Agents
      PROVE  SendOk(m)'
  BY <1>8 DEF SendOk
<1> QED BY <1>0, <1>1, <1>2, <1>5, <1>6, <1>7, <1>8, SendKept

LEMMA DeliverStep ==
  ASSUME TypeOK, TableInv, DeliverInv, [Next]_vars
  PROVE  DeliverInv'
<1>1. ASSUME NEW c \in Conns, NEW a \in Agents, RegisterConnection(c, a)
      PROVE  DeliverInv'
  <2>1. lock' = c /\ owner'[c] = a /\ pending' = offlineQ[a] /\ offlineQ' = offlineQ
    BY <1>1 DEF RegisterConnection, TypeOK
  <2> QED BY <2>1 DEF DeliverInv
<1>2. ASSUME NEW m \in Msgs, DeliverCheck(m) \/ DeliverPut(m) \/ DeliverStopped(m)
      PROVE  DeliverInv'
  <2>1. PICK c \in Conns : c = lock
    BY <1>2 DEF DeliverCheck, DeliverPut, DeliverStopped, Delivering, Unlocked, TypeOK
  <2>2. UNCHANGED <<lock, owner, offlineQ>>
    BY <1>2 DEF DeliverCheck, DeliverPut, DeliverStopped, Delivered
  <2>3. \/ pending' = pending
        \/ pending' = pending \ {m} /\ (Carries(c, m)' \/ closed'[c])
    <3>1. CASE DeliverCheck(m)
      BY <2>1, <3>1 DEF DeliverCheck, connVars, outVars
    <3>2. CASE DeliverPut(m)
      BY <2>1, <3>2, AcceptGrows DEF DeliverPut, Delivered
    <3>3. CASE DeliverStopped(m)
      BY <2>1, <3>3 DEF DeliverStopped, StopSeen, Delivered, connVars, outVars
    <3> QED BY <1>2, <3>1, <3>2, <3>3
  <2>4. offlineQ[owner[c]] \subseteq Msgs
    BY <2>1 DEF TypeOK, TableInv
  <2>5. \A n \in offlineQ[owner[c]] \ pending : Carries(c, n)' \/ closed'[c]
    BY <2>1, <2>4, Grows DEF DeliverInv
  <2> QED BY <2>1, <2>2, <2>3, <2>5 DEF DeliverInv
<1>3. CASE lock' = NoConn
  BY <1>3 DEF DeliverInv
<1>4. CASE UNCHANGED <<lock, owner, offlineQ, pending>>
  <2>1. CASE lock = NoConn
    BY <1>4, <2>1 DEF DeliverInv
  <2>2. CASE lock # NoConn
    <3>1. PICK c \in Conns : c = lock
      BY <2>2 DEF TypeOK
    <3>2. offlineQ[owner[c]] \subseteq Msgs
      BY <2>2, <3>1 DEF TypeOK, TableInv
    <3>3. \A n \in offlineQ[owner[c]] \ pending : Carries(c, n)' \/ closed'[c]
      BY <2>2, <3>1, <3>2, Grows DEF DeliverInv
    <3> QED BY <1>4, <3>1, <3>3 DEF DeliverInv
  <2> QED BY <2>1, <2>2
<1>5. \/ \E c \in Conns, a \in Agents : RegisterConnection(c, a)
      \/ \E m \in Msgs : DeliverCheck(m) \/ DeliverPut(m) \/ DeliverStopped(m)
      \/ lock' = NoConn
      \/ UNCHANGED <<lock, owner, offlineQ, pending>>
  BY Actions DEF routerVars, Route, LookupDirect, LookupBroadcast, QueueOffline,
     SendCheck, SendPut, SendStopped, Return, DeliverDone, UnregisterConnection,
     Unlocked, Idle
<1> QED BY <1>1, <1>2, <1>3, <1>4, <1>5

Accepted(m) == \/ \E c \in Conns : Carries(c, m) /\ owner[c] = dest[m]
               \/ m \in offlineQ[dest[m]]
               \/ \E c \in Conns : owner[c] = dest[m] /\ closed[c] /\ hpc[c] # "idle"

LEMMA AcceptedKept ==
  ASSUME TypeOK, TableInv, DeliverInv, [Next]_vars,
         NEW m \in Msgs, dest[m] \in Agents, dest'[m] = dest[m], Accepted(m)
  PROVE  Accepted(m)'
<1>1. ASSUME NEW c \in Conns, owner[c] = dest[m], Carries(c, m) \/ closed[c]
      PROVE  Accepted(m)'
  <2>1. owner'[c] = dest[m] /\ hpc'[c] # "idle"
    BY <1>1, OwnerKept DEF Reached
  <2>2. Carries(c, m)' \/ closed'[c]
    BY <1>1, Grows
  <2> QED BY <2>1, <2>2 DEF Accepted
<1>2. CASE m \in offlineQ[dest[m]]
  <2>1. ASSUME NEW c \in Conns, DeliverDone(c)
        PROVE  \/ m \in offlineQ'[dest[m]]
               \/ owner[c] = dest[m] /\ (Carries(c, m) \/ closed[c])
    <3>1. lock = c /\ pending = {} /\ offlineQ' = [offlineQ EXCEPT ![owner[c]] = {}]
      BY <2>1 DEF DeliverDone, Cleared
    <3>2. CASE owner[c] = dest[m]
      <4>1. c # NoConn /\ m \in offlineQ[owner[c]] \ pending
        BY <1>2, <3>1, <3>2
      <4> QED BY <3>1, <3>2, <4>1 DEF DeliverInv
    <3>3. CASE owner[c] # dest[m]
      <4>1. offlineQ'[dest[m]] = offlineQ[dest[m]]
        BY <3>1, <3>3 DEF TypeOK
      <4> QED BY <1>2, <4>1
    <3> QED BY <3>2, <3>3
  <2>2. ASSUME NEW n \in Msgs, QueueOffline(n)
        PROVE  m \in offlineQ'[dest[m]]
    <3>1. offlineQ \in [Agents -> SUBSET Msgs]
      BY DEF TypeOK
    <3>2. offlineQ' = offlineQ \/ offlineQ' = [offlineQ EXCEPT ![dest[n]] = @ \cup {n}]
      BY <2>2 DEF QueueOffline
    <3> QED BY <1>2, <3>1, <3>2
  <2>3. \/ UNCHANGED offlineQ \/ (\E n \in Msgs : QueueOffline(n))
        \/ (\E c \in Conns : DeliverDone(c))
    BY Actions DEF routerVars, Route, LookupDirect, LookupBroadcast, SendCheck,
       SendPut, SendStopped, Return, RegisterConnection, DeliverCheck, DeliverPut,
       DeliverStopped, Delivered, UnregisterConnection, Idle
  <2> QED BY <1>1, <1>2, <2>1, <2>2, <2>3 DEF Accepted
<1> QED BY <1>1, <1>2 DEF Accepted

LEMMA NilStep ==
  ASSUME TypeOK, TableInv, CallInv, SendInv, DeliverInv, NilMeansAccepted, [Next]_vars
  PROVE  NilMeansAccepted'
<1> SUFFICES ASSUME NEW m \in Msgs, pc'[m] = "done", ~failed'[m], dest'[m] \in Agents
             PROVE  Accepted(m)'
  BY DEF NilMeansAccepted, Accepted
<1>1. CASE pc[m] = "done"
  <2>1. dest'[m] = dest[m] /\ failed'[m] = failed[m]
    BY <1>1, Actions DEF Route, LookupDirect, LookupBroadcast, QueueOffline, Fail,
       SendCheck, SendPut, SendStopped, Sending, Return, RegisterConnection,
       DeliverCheck, DeliverPut, DeliverStopped, Delivered, DeliverDone,
       UnregisterConnection, callVars, Idle, TypeOK
  <2>2. Accepted(m)
    BY <1>1, <2>1 DEF NilMeansAccepted, Accepted
  <2> QED BY <2>1, <2>2, AcceptedKept
<1>2. CASE QueueOffline(m)
  <2>1. dest'[m] = dest[m] /\ ~QueueFull(dest[m])
    BY <1>2 DEF QueueOffline, Fail, TypeOK
  <2>2. m \in offlineQ'[dest[m]]
    BY <1>2, <2>1 DEF QueueOffline, TypeOK
  <2> QED BY <2>1, <2>2 DEF Accepted
<1>3. CASE Return(m)
  <2>1. /\ pc[m] = "sending" /\ targets[m] = {}
        /\ UNCHANGED <<dest, failed, owner, stream>>
    BY <1>3 DEF Return, routerVars, connVars
  <2>2. \E c \in Conns : Carries(c, m) /\ owner[c] = dest[m]
    BY <2>1 DEF SendInv, SendOk
  <2> QED BY <2>1, <2>2 DEF Accepted, Carries
<1>4. pc[m] = "done" \/ QueueOffline(m) \/ Return(m)
  BY Actions DEF Route, LookupDirect, LookupBroadcast, QueueOffline,
     SendCheck, SendPut, SendStopped, Return, RegisterConnection, DeliverCheck,
     DeliverPut, DeliverStopped, Delivered, DeliverDone, UnregisterConnection,
     callVars, Idle, TypeOK
<1> QED BY <1>1, <1>2, <1>3, <1>4

(* A direct Route call that returns nil has written the message to a       *)
(* connection of its addressee or left it in the addressee's queue, or a   *)
(* connection that the addressee registered has been closed: for any       *)
(* number of agents, connections and calls in flight.                      *)
THEOREM NilResultsAreAccepted == Spec => []NilMeansAccepted
<1> DEFINE IInv == TableInv /\ CallInv /\ SendInv /\ DeliverInv /\ NilMeansAccepted
<1>1. Init => IInv
  BY DEF Init, TableInv, CallInv, SendInv, SendOk, DeliverInv, NilMeansAccepted
<1>2. TypeOK /\ IInv /\ [Next]_vars => IInv'
  BY TableStep, CallStep, SendStep, DeliverStep, NilStep DEF SendInv
<1>3. IInv => NilMeansAccepted
  OBVIOUS
<1> QED BY <1>1, <1>2, <1>3, TypeCorrect, PTL DEF Spec

-----------------------------------------------------------------------------
(* Where a message can be.  Only messages of an agent are in its queue,    *)
(* what is still to be sent is still in the queue, and only a call that is *)
(* sending or the running deliverQueued is inside a Write.                 *)
PlaceInv ==
  /\ \A a \in Agents : \A m \in offlineQ[a] : dest[m] = a
  /\ lock = NoConn => pending = {}
  /\ lock # NoConn => pending \subseteq offlineQ[owner[lock]]
  /\ \A c \in Conns : hpc[c] = "deliver" => lock = c
  /\ \A c \in Conns : hpc[c] # "idle" => owner[c] \in Agents

LEMMA PlaceStep ==
  ASSUME TypeOK, TableInv, CallInv, PlaceInv, [Next]_vars
  PROVE  PlaceInv'
<1>1. ASSUME NEW m \in Msgs, NEW to \in Agents \cup {Everyone}, Route(m, to)
      PROVE  PlaceInv'
  <2>1. \A a \in Agents : \A n \in offlineQ[a] : n \in Msgs /\ n # m
    BY <1>1 DEF Route, CallInv, TypeOK
  <2> QED BY <1>1, <2>1 DEF Route, routerVars, PlaceInv, TypeOK
<1>2. ASSUME NEW m \in Msgs, QueueOffline(m)
      PROVE  PlaceInv'
  <2>1. \A a \in Agents : \/ offlineQ'[a] = offlineQ[a]
                          \/ a = dest[m] /\ offlineQ'[a] = offlineQ[a] \cup {m}
    <3>1. offlineQ \in [Agents -> SUBSET Msgs]
      BY DEF TypeOK
    <3>2. offlineQ' = offlineQ \/ offlineQ' = [offlineQ EXCEPT ![dest[m]] = @ \cup {m}]
      BY <1>2 DEF QueueOffline
    <3> QED BY <3>1, <3>2
  <2>2. UNCHANGED <<lock, pending, hpc, owner, dest>> /\ lock = NoConn
    BY <1>2 DEF QueueOffline, Unlocked
  <2> QED BY <2>1, <2>2 DEF PlaceInv
<1>3. ASSUME NEW c \in Conns, NEW a \in Agents, RegisterConnection(c, a)
      PROVE  PlaceInv'
  BY <1>3 DEF RegisterConnection, Unlocked, callVars, PlaceInv, TypeOK
<1>4. ASSUME NEW m \in Msgs, DeliverCheck(m) \/ DeliverPut(m) \/ DeliverStopped(m)
      PROVE  PlaceInv'
  <2>1. /\ UNCHANGED <<lock, offlineQ, hpc, owner, dest>> /\ lock # NoConn
        /\ pending' \subseteq pending
    BY <1>4 DEF DeliverCheck, DeliverPut, DeliverStopped, Delivering, Delivered,
                Unlocked, callVars
  <2> QED BY <2>1 DEF PlaceInv
<1>5. ASSUME NEW c \in Conns, DeliverDone(c) \/ UnregisterConnection(c)
      PROVE  PlaceInv'
  <2>1. /\ \A a \in Agents : offlineQ'[a] \subseteq offlineQ[a]
        /\ \A d \in Conns : hpc'[d] = hpc[d] \/ d = c
        /\ hpc[c] # "idle" /\ hpc'[c] # "deliver"
        /\ lock' = NoConn /\ lock \in {c, NoConn} /\ pending' = pending
        /\ UNCHANGED <<owner, dest>>
    BY <1>5 DEF DeliverDone, UnregisterConnection, Cleared, Unlocked, callVars, TypeOK
  <2>2. pending = {}
    BY <1>5 DEF DeliverDone, UnregisterConnection, Unlocked, PlaceInv
  <2> QED BY <2>1, <2>2 DEF PlaceInv
<1>6. CASE UNCHANGED <<routerVars, dest>>
  BY <1>6 DEF routerVars, PlaceInv
<1>7. \/ UNCHANGED <<routerVars, dest>>
      \/ \E m \in Msgs, to \in Agents \cup {Everyone} : Route(m, to)
      \/ \E m \in Msgs : QueueOffline(m)
      \/ \E c \in Conns, a \in Agents : RegisterConnection(c, a)
      \/ \E m \in Msgs : DeliverCheck(m) \/ DeliverPut(m) \/ DeliverStopped(m)
      \/ \E c \in Conns : DeliverDone(c) \/ UnregisterConnection(c)
  BY Actions DEF LookupDirect, LookupBroadcast, SendCheck, SendPut, SendStopped,
     Return, Idle, callVars
<1> QED BY <1>1, <1>2, <1>3, <1>4, <1>5, <1>6, <1>7

-----------------------------------------------------------------------------
(* What a step leaves alone: the other calls, all calls while the queue is *)
(* sent, and whatever the handler of a connection has got past.            *)

LEMMA OtherCalls ==
  ASSUME TypeOK, NEW m \in Msgs, NEW n \in Msgs, n # m,
         (\E to \in Agents \cup {Everyone} : Route(n, to)) \/ RouteCall(n)
  PROVE  /\ pc'[m] = pc[m] /\ dest'[m] = dest[m] /\ earlier'[m] = earlier[m]
         /\ targets'[m] = targets[m] /\ writing'[m] = writing[m]
BY DEF RouteCall, Route, LookupDirect, LookupBroadcast, QueueOffline, SendCheck,
       SendPut, SendStopped, Sent, Return, TypeOK

LEMMA CallKeeps ==
  ASSUME NEW n \in Msgs,
         (\E to \in Agents \cup {Everyone} : Route(n, to)) \/ RouteCall(n)
  PROVE  UNCHANGED <<conns, lock, pending, hpc, owner>>
BY DEF RouteCall, Route, LookupDirect, LookupBroadcast, QueueOffline, SendCheck,
       SendPut, SendStopped, Return, routerVars

LEMMA DeliverKeeps ==
  ASSUME TypeOK, CallInv,
         NEW n \in Msgs, DeliverCheck(n) \/ DeliverPut(n) \/ DeliverStopped(n)
  PROVE  /\ n \in pending /\ pc[n] = "done" /\ lock \in Conns
         /\ pending' \in {pending, pending \ {n}}
         /\ \A m \in Msgs : m # n => writing'[m] = writing[m]
         /\ UNCHANGED callVars /\ UNCHANGED <<conns, offlineQ, lock, hpc, owner>>
BY DEF DeliverCheck, NextQueued, DeliverPut, DeliverStopped, Delivering,
       Delivered, Unlocked, CallInv, TypeOK

LEMMA HandlerKept ==
  ASSUME TypeOK, [Next]_vars, NEW c \in Conns, hpc[c] \in {"serving", "left"}
  PROVE  hpc'[c] \in {"serving", "left"}
BY Actions DEF Route, LookupDirect, LookupBroadcast, QueueOffline, SendCheck,
   SendPut, SendStopped, Return, RegisterConnection, DeliverCheck, DeliverPut,
   DeliverStopped, Delivered, DeliverDone, UnregisterConnection, Idle,
   routerVars, TypeOK

\* Next once more, by what its steps touch.
LEMMA Kinds ==
  ASSUME [Next]_vars
  PROVE  \/ \E m \in Msgs : \/ \E to \in Agents \cup {Everyone} : Route(m, to)
                            \/ RouteCall(m)
         \/ \E c \in Conns, a \in Agents : RegisterConnection(c, a)
         \/ \E m \in Msgs : DeliverCheck(m) \/ DeliverPut(m) \/ DeliverStopped(m)
         \/ \E c \in Conns : DeliverDone(c) \/ UnregisterConnection(c)
         \/ Idle
BY DEF Next, Deliver, Transport, Idle, vars, connVars

-----------------------------------------------------------------------------
(* What a call may still do.  The addressee is fixed by Route; a target    *)
(* has its queue behind it and a direct message has one; a Write that is   *)
(* under way belongs to a sending call or to the queue being sent.         *)
TargetOk(m) ==
  /\ pc[m] = "new" => dest[m] = NoAgent
  /\ pc[m] # "new" => dest[m] \in Agents \cup {Everyone}
  /\ pc[m] = "done" /\ writing[m] # NoConn => m \in pending
  /\ pc[m] = "sending" =>
       /\ writing[m] # NoConn => writing[m] \in targets[m]
       /\ \A c \in targets[m] : hpc[c] \in {"serving", "left"}
       /\ dest[m] \in Agents => \A c, d \in targets[m] : c = d
TargetInv == \A m \in Msgs : TargetOk(m)

LEMMA ConnectedServe ==
  ASSUME TypeOK, TableInv, PlaceInv, Unlocked
  PROVE  \A c \in Connected : c \in Conns /\ hpc[c] \in {"serving", "left"}
<1> SUFFICES ASSUME NEW a \in Agents, conns[a] # NoConn
             PROVE  conns[a] \in Conns /\ hpc[conns[a]] \in {"serving", "left"}
  BY DEF Connected
<1>1. conns[a] \in Conns /\ hpc[conns[a]] # "idle"
  BY DEF TypeOK, TableInv, Reached
<1>2. hpc[conns[a]] # "deliver"
  BY <1>1 DEF PlaceInv, Unlocked
<1> QED BY <1>1, <1>2 DEF TypeOK

LEMMA TargetStep ==
  ASSUME TypeOK, TableInv, CallInv, PlaceInv, TargetInv, [Next]_vars, NEW m \in Msgs
  PROVE  TargetOk(m)'
<1>0. TargetOk(m)
  BY DEF TargetInv
<1>k. \A c \in targets[m] : c \in Conns /\ (hpc[c] \in {"serving", "left"}
                                            => hpc'[c] \in {"serving", "left"})
  BY HandlerKept DEF TypeOK
<1>1. ASSUME NEW to \in Agents \cup {Everyone}, Route(m, to)
      PROVE  TargetOk(m)'
  BY <1>1 DEF Route, TargetOk, TypeOK
<1>2. ASSUME LookupDirect(m) \/ LookupBroadcast(m)
      PROVE  TargetOk(m)'
  <2>1. /\ pc[m] = "lookup" /\ Unlocked /\ writing[m] = NoConn
        /\ UNCHANGED <<writing, dest, hpc>> /\ dest[m] \in Agents \cup {Everyone}
    BY <1>0, <1>2 DEF LookupDirect, LookupBroadcast, routerVars, CallInv, TargetOk
  <2>2. CASE pc'[m] = "sending"
    <3>1. CASE LookupDirect(m)
      <4>1. targets'[m] = {conns[dest[m]]} /\ conns[dest[m]] \in Connected
        BY <2>2, <3>1 DEF LookupDirect, Recipients, Connected, TypeOK
      <4>2. \A c \in targets'[m] : hpc[c] \in {"serving", "left"}
        BY <2>1, <4>1, ConnectedServe
      <4> QED BY <2>1, <2>2, <4>1, <4>2 DEF TargetOk
    <3>2. CASE LookupBroadcast(m)
      <4>1. targets'[m] = Connected /\ dest[m] = Everyone
        BY <3>2 DEF LookupBroadcast, TypeOK
      <4>2. \A c \in targets'[m] : hpc[c] \in {"serving", "left"}
        BY <2>1, <4>1, ConnectedServe
      <4> QED BY <2>1, <2>2, <4>1, <4>2 DEF TargetOk
    <3> QED BY <1>2, <3>1, <3>2
  <2>3. CASE pc'[m] = "queue"
    BY <2>1, <2>3 DEF TargetOk
  <2>4. pc'[m] \in {"sending", "queue"}
    BY <1>2 DEF LookupDirect, LookupBroadcast, TypeOK
  <2> QED BY <2>2, <2>3, <2>4
<1>3. ASSUME QueueOffline(m)
      PROVE  TargetOk(m)'
  BY <1>0, <1>3 DEF QueueOffline, CallInv, TargetOk, TypeOK
<1>4. ASSUME (\E c \in Conns : SendCheck(m, c)) \/ SendPut(m) \/ SendStopped(m)
      PROVE  TargetOk(m)'
  <2>1. /\ pc[m] = "sending" /\ UNCHANGED <<pc, dest, hpc>>
        /\ targets'[m] \subseteq targets[m]
        /\ writing'[m] # NoConn => writing'[m] \in targets'[m]
    BY <1>4 DEF SendCheck, SendPut, SendStopped, Sending, Sent, routerVars, TypeOK
  <2> QED BY <1>0, <2>1 DEF TargetOk
<1>5. ASSUME Return(m)
      PROVE  TargetOk(m)'
  BY <1>0, <1>5 DEF Return, routerVars, TargetOk, TypeOK
<1>6. ASSUME NEW n \in Msgs, DeliverCheck(n) \/ DeliverPut(n) \/ DeliverStopped(n)
      PROVE  TargetOk(m)'
  <2>1. /\ n \in pending /\ pc[n] = "done" /\ pending' \in {pending, pending \ {n}}
        /\ n # m => writing'[m] = writing[m]
        /\ UNCHANGED <<pc, dest, targets, hpc>>
    BY <1>6, DeliverKeeps DEF callVars
  <2>2. CASE n # m
    BY <1>0, <2>1, <2>2 DEF TargetOk
  <2>3. CASE n = m
    <3>1. writing'[m] # NoConn => m \in pending'
      BY <1>6, <2>1, <2>3 DEF DeliverCheck, DeliverPut, DeliverStopped, Delivered, TypeOK
    <3> QED BY <1>0, <2>1, <2>3, <3>1 DEF TargetOk
  <2> QED BY <2>2, <2>3
<1>7. ASSUME \/ \E c \in Conns, a \in Agents : RegisterConnection(c, a)
             \/ \E c \in Conns : DeliverDone(c) \/ UnregisterConnection(c)
             \/ Idle
      PROVE  TargetOk(m)'
  <2>1. UNCHANGED <<pc, dest, targets, writing>>
    BY <1>7 DEF RegisterConnection, DeliverDone, UnregisterConnection, Idle, callVars
  <2>2. pending = {} \/ pending' = pending
    BY <1>7 DEF RegisterConnection, DeliverDone, UnregisterConnection, Idle,
                routerVars, Unlocked, PlaceInv
  <2> QED BY <1>0, <1>k, <2>1, <2>2 DEF TargetOk
<1>8. ASSUME NEW n \in Msgs, n # m,
             (\E to \in Agents \cup {Everyone} : Route(n, to)) \/ RouteCall(n)
      PROVE  TargetOk(m)'
  <2>1. /\ pc'[m] = pc[m] /\ dest'[m] = dest[m] /\ targets'[m] = targets[m]
        /\ writing'[m] = writing[m]
    BY <1>8, OtherCalls
  <2>2. UNCHANGED <<hpc, pending>>
    BY <1>8, CallKeeps
  <2> QED BY <1>0, <2>1, <2>2 DEF TargetOk
<1>9. RouteCall(m) => \/ LookupDirect(m) \/ LookupBroadcast(m) \/ QueueOffline(m)
                      \/ (\E c \in Conns : SendCheck(m, c)) \/ SendPut(m)
                      \/ SendStopped(m) \/ Return(m)
  BY DEF RouteCall
<1> QED BY <1>1, <1>2, <1>3, <1>4, <1>5, <1>6, <1>7, <1>8, <1>9, Kinds

-----------------------------------------------------------------------------
(* At most once.  A message that nobody has sent yet is on no connection.  *)
OnNone(m) == \A c \in Conns : ~Carries(c, m)
FreshOk(m) ==
  /\ pc[m] \in {"new", "lookup", "queue"} => OnNone(m)
  /\ Waiting(m) => OnNone(m)
  /\ pc[m] = "sending" =>
       /\ \A c \in targets[m] : ~Carries(c, m)
       /\ dest[m] \in Agents /\ targets[m] # {} => OnNone(m)
FreshInv == /\ \A m \in Msgs : FreshOk(m)
            /\ \A c \in Conns : hpc[c] = "idle" => stream[c] = <<>>

\* Where Accept puts its frame: at the end of one stream.
LEMMA AcceptAppends ==
  ASSUME TypeOK, NEW c \in Conns, NEW m \in Msgs, Accept(c, m)
  PROVE  /\ \A d \in Conns : d # c => stream'[d] = stream[d]
         /\ Len(stream[c]) \in Nat
         /\ DOMAIN stream[c] = 1 .. Len(stream[c])
         /\ DOMAIN stream'[c] = 1 .. Len(stream[c]) + 1
         /\ \A i \in 1 .. Len(stream[c]) : stream'[c][i] = stream[c][i]
         /\ stream'[c][Len(stream[c]) + 1] = m
<1>1. /\ stream \in [Conns -> Seq(Msgs)]
      /\ stream' = [stream EXCEPT ![c] = Append(@, m)]
  BY DEF TypeOK, Accept
<1>2. \A d \in Conns : d # c => stream'[d] = stream[d]
  BY <1>1
<1>3. stream'[c] = Append(stream[c], m) /\ stream[c] \in Seq(Msgs)
  BY <1>1
<1> QED BY <1>2, <1>3

LEMMA AcceptAddsOne ==
  ASSUME TypeOK, NEW c \in Conns, NEW m \in Msgs, Accept(c, m)
  PROVE  \A d \in Conns, n \in Msgs : Carries(d, n)' => Carries(d, n) \/ (d = c /\ n = m)
<1> SUFFICES ASSUME NEW d \in Conns, NEW n \in Msgs,
                    NEW i \in DOMAIN stream'[d], stream'[d][i] = n
             PROVE  Carries(d, n) \/ (d = c /\ n = m)
  BY DEF Carries
<1>1. CASE d # c
  BY <1>1, AcceptAppends DEF Carries
<1>2. CASE d = c
  <2>1. i \in 1 .. Len(stream[c]) \/ i = Len(stream[c]) + 1
    BY <1>2, AcceptAppends
  <2> QED BY <1>2, <2>1, AcceptAppends DEF Carries
<1> QED BY <1>1, <1>2

\* Only two steps write: a call to a target, the queue to the new connection.
LEMMA Writes ==
  ASSUME TypeOK, [Next]_vars
  PROVE  \/ UNCHANGED stream
         \/ \E m \in Msgs, c \in Conns :
              \/ SendPut(m) /\ writing[m] = c /\ Accept(c, m)
              \/ DeliverPut(m) /\ lock = c /\ Accept(c, m)
<1>1. UNCHANGED stream \/ (\E m \in Msgs : SendPut(m) \/ DeliverPut(m))
  BY Actions DEF connVars, Route, LookupDirect, LookupBroadcast, QueueOffline,
     SendCheck, SendStopped, Return, RegisterConnection, DeliverCheck,
     DeliverStopped, DeliverDone, UnregisterConnection, Idle
<1>2. \A m \in Msgs : SendPut(m) => writing[m] \in Conns /\ Accept(writing[m], m)
  BY DEF SendPut, Sending, TypeOK
<1>3. \A m \in Msgs : DeliverPut(m) => lock \in Conns /\ Accept(lock, m)
  BY DEF DeliverPut, Delivering, Unlocked, TypeOK
<1> QED BY <1>1, <1>2, <1>3

LEMMA CarriedBy ==
  ASSUME TypeOK, [Next]_vars,
         NEW c \in Conns, NEW m \in Msgs, Carries(c, m)', ~Carries(c, m)
  PROVE  (SendPut(m) /\ writing[m] = c) \/ (DeliverPut(m) /\ lock = c)
<1>1. stream' # stream
  BY DEF Carries
<1>2. PICK n \in Msgs, d \in Conns : \/ SendPut(n) /\ writing[n] = d /\ Accept(d, n)
                                     \/ DeliverPut(n) /\ lock = d /\ Accept(d, n)
  BY <1>1, Writes
<1>3. c = d /\ m = n
  BY <1>2, AcceptAddsOne
<1> QED BY <1>2, <1>3

\* A message starts to wait when its call queues it, and never again.
LEMMA WaitingFrom ==
  ASSUME TypeOK, TableInv, PlaceInv, [Next]_vars, NEW m \in Msgs, Waiting(m)'
  PROVE  Waiting(m) \/ QueueOffline(m)
<1>1. ASSUME NEW n \in Msgs, QueueOffline(n)
      PROVE  Waiting(m) \/ QueueOffline(m)
  <2>1. \A a \in Agents : offlineQ'[a] \subseteq offlineQ[a] \cup {n}
    <3>1. offlineQ \in [Agents -> SUBSET Msgs]
      BY DEF TypeOK
    <3>2. offlineQ' = offlineQ \/ offlineQ' = [offlineQ EXCEPT ![dest[n]] = @ \cup {n}]
      BY <1>1 DEF QueueOffline
    <3> QED BY <3>1, <3>2
  <2>2. lock = NoConn
    BY <1>1 DEF QueueOffline, Unlocked
  <2> QED BY <1>1, <2>1, <2>2 DEF Waiting
<1>2. ASSUME NEW c \in Conns, NEW a \in Agents, RegisterConnection(c, a)
      PROVE  Waiting(m)
  BY <1>2 DEF RegisterConnection, Unlocked, Waiting
<1>3. ASSUME NEW n \in Msgs, DeliverCheck(n) \/ DeliverPut(n) \/ DeliverStopped(n)
      PROVE  Waiting(m)
  <2>1. UNCHANGED <<offlineQ, lock, owner>> /\ pending' \subseteq pending
    BY <1>3 DEF DeliverCheck, DeliverPut, DeliverStopped, Delivered
  <2> QED BY <2>1 DEF Waiting
<1>4. ASSUME NEW c \in Conns, DeliverDone(c)
      PROVE  Waiting(m)
  <2>1. PICK a \in Agents : m \in offlineQ'[a]
    BY DEF Waiting
  <2>2. /\ lock = c /\ owner[c] \in Agents
        /\ offlineQ' = [offlineQ EXCEPT ![owner[c]] = {}]
    BY <1>4 DEF DeliverDone, Cleared, TableInv
  <2>3. a # owner[c] /\ m \in offlineQ[a]
    BY <2>1, <2>2 DEF TypeOK
  <2> QED BY <2>2, <2>3 DEF Waiting
<1>5. CASE UNCHANGED <<offlineQ, lock, owner, pending>>
  BY <1>5 DEF Waiting
<1>6. \/ UNCHANGED <<offlineQ, lock, owner, pending>>
      \/ \E n \in Msgs : QueueOffline(n)
      \/ \E c \in Conns, a \in Agents : RegisterConnection(c, a)
      \/ \E n \in Msgs : DeliverCheck(n) \/ DeliverPut(n) \/ DeliverStopped(n)
      \/ \E c \in Conns : DeliverDone(c)
  BY Actions DEF routerVars, Route, LookupDirect, LookupBroadcast, SendCheck,
     SendPut, SendStopped, Return, UnregisterConnection, Idle
<1> QED BY <1>1, <1>2, <1>3, <1>4, <1>5, <1>6

\* Writing a message from the queue ends its wait.
LEMMA DeliveredWaitsNot ==
  ASSUME TypeOK, TableInv, PlaceInv, NEW m \in Msgs,
         m \in pending, pending' = pending \ {m}, lock # NoConn,
         UNCHANGED <<offlineQ, lock, owner>>
  PROVE  Waiting(m) /\ ~Waiting(m)'
<1>1. owner[lock] \in Agents /\ m \in offlineQ[owner[lock]]
  BY DEF PlaceInv, TableInv
<1>2. \A a \in Agents : m \in offlineQ[a] => a = owner[lock]
  BY <1>1 DEF PlaceInv
<1> QED BY <1>1, <1>2 DEF Waiting

\* The call that creates, looks up or queues a message has not sent it.
LEMMA PcFrom ==
  ASSUME TypeOK, [Next]_vars, NEW m \in Msgs
  PROVE  /\ pc'[m] \in {"new", "lookup", "queue"} => pc[m] \in {"new", "lookup", "queue"}
         /\ pc'[m] = "sending" =>
              \/ pc[m] = "lookup"
              \/ pc[m] = "sending" /\ dest'[m] = dest[m] /\ targets'[m] \subseteq targets[m]
<1>1. CASE \E to \in Agents \cup {Everyone} : Route(m, to)
  BY <1>1 DEF Route, TypeOK
<1>2. CASE RouteCall(m)
  BY <1>2 DEF RouteCall, LookupDirect, LookupBroadcast, QueueOffline, SendCheck,
              SendPut, SendStopped, Sent, Return, TypeOK
<1>3. CASE UNCHANGED callVars
  BY <1>3 DEF callVars
<1>4. ASSUME NEW n \in Msgs, n # m,
             (\E to \in Agents \cup {Everyone} : Route(n, to)) \/ RouteCall(n)
      PROVE  pc'[m] = pc[m] /\ dest'[m] = dest[m] /\ targets'[m] = targets[m]
  BY <1>4, OtherCalls
<1>5. \/ UNCHANGED callVars
      \/ \E n \in Msgs : (\E to \in Agents \cup {Everyone} : Route(n, to)) \/ RouteCall(n)
  BY Kinds DEF RegisterConnection, DeliverCheck, DeliverPut, DeliverStopped,
     Delivered, DeliverDone, UnregisterConnection, Idle
<1> QED BY <1>1, <1>2, <1>3, <1>4, <1>5

LEMMA FreshStep ==
  ASSUME TypeOK, TableInv, CallInv, PlaceInv, TargetInv, FreshInv, [Next]_vars,
         NEW m \in Msgs
  PROVE  FreshOk(m)'
<1>0. FreshOk(m) /\ TargetOk(m)
  BY DEF FreshInv, TargetInv
<1>s. ASSUME SendPut(m)
      PROVE  /\ pc[m] = "sending" /\ pc'[m] = "sending" /\ writing[m] \in targets[m]
             /\ targets'[m] = targets[m] \ {writing[m]}
  BY <1>0, <1>s DEF SendPut, Sending, Sent, TargetOk, TypeOK
<1>d. ASSUME DeliverPut(m)
      PROVE  pc[m] = "done" /\ pc'[m] = "done" /\ Waiting(m) /\ ~Waiting(m)'
  <2>1. pc[m] = "done" /\ pc' = pc
    BY <1>d, DeliverKeeps DEF callVars
  <2>2. /\ m \in pending /\ pending' = pending \ {m} /\ lock # NoConn
        /\ UNCHANGED <<offlineQ, lock, owner>>
    BY <1>d DEF DeliverPut, Delivering, Delivered, Unlocked
  <2> QED BY <2>1, <2>2, DeliveredWaitsNot
<1>1. ASSUME pc'[m] \in {"new", "lookup", "queue"}
      PROVE  OnNone(m)'
  <2>1. OnNone(m)
    BY <1>0, <1>1, PcFrom DEF FreshOk
  <2> QED BY <1>1, <1>s, <1>d, <2>1, CarriedBy DEF OnNone
<1>2. ASSUME Waiting(m)'
      PROVE  OnNone(m)'
  <2>1. Waiting(m) \/ QueueOffline(m)
    BY <1>2, WaitingFrom
  <2>2. OnNone(m)
    BY <1>0, <2>1 DEF FreshOk, QueueOffline
  <2>3. pc[m] # "sending"
    <3>1. Waiting(m) => pc[m] = "done"
      BY DEF Waiting, CallInv
    <3> QED BY <2>1, <3>1 DEF QueueOffline
  <2> QED BY <1>2, <1>s, <1>d, <2>2, <2>3, CarriedBy DEF OnNone
<1>3. ASSUME pc'[m] = "sending"
      PROVE  /\ (\A c \in targets[m] : ~Carries(c, m))'
             /\ (dest[m] \in Agents /\ targets[m] # {} => OnNone(m))'
  <2>1. targets'[m] \subseteq Conns
    BY TypeStep DEF TypeOK
  <2>2. CASE pc[m] = "lookup"
    <3>1. OnNone(m)
      BY <1>0, <2>2 DEF FreshOk
    <3>2. OnNone(m)'
      BY <1>s, <1>d, <2>2, <3>1, CarriedBy DEF OnNone
    <3> QED BY <2>1, <3>2 DEF OnNone
  <2>3. CASE pc[m] = "sending" /\ dest'[m] = dest[m] /\ targets'[m] \subseteq targets[m]
    <3>1. ASSUME NEW c \in targets'[m]
          PROVE  ~Carries(c, m)'
      <4>1. c \in Conns /\ c \in targets[m] /\ ~Carries(c, m)
        BY <1>0, <2>1, <2>3 DEF FreshOk
      <4> QED BY <1>s, <1>d, <2>3, <4>1, CarriedBy
    <3>2. ASSUME dest'[m] \in Agents, targets'[m] # {}
          PROVE  OnNone(m)'
      <4>1. OnNone(m)
        BY <1>0, <2>3, <3>2 DEF FreshOk
      <4>2. ~SendPut(m)
        BY <1>0, <1>s, <2>3, <3>2 DEF TargetOk
      <4> QED BY <1>d, <2>3, <4>1, <4>2, CarriedBy DEF OnNone
    <3> QED BY <3>1, <3>2
  <2> QED BY <1>3, <2>2, <2>3, PcFrom
<1> QED BY <1>1, <1>2, <1>3 DEF FreshOk

LEMMA IdleStep ==
  ASSUME TypeOK, TableInv, CallInv, TargetInv, FreshInv, [Next]_vars,
         NEW c \in Conns, hpc'[c] = "idle"
  PROVE  stream'[c] = <<>>
<1>1. hpc[c] = "idle"
  BY Actions DEF Route, LookupDirect, LookupBroadcast, QueueOffline, SendCheck,
     SendPut, SendStopped, Return, RegisterConnection, DeliverCheck, DeliverPut,
     DeliverStopped, Delivered, DeliverDone, UnregisterConnection, Idle,
     routerVars, TypeOK
<1>2. ASSUME NEW m \in Msgs, NEW d \in Conns, Accept(d, m),
             (SendPut(m) /\ writing[m] = d) \/ (DeliverPut(m) /\ lock = d)
      PROVE  hpc[d] # "idle"
  <2>1. SendPut(m) => pc[m] = "sending" /\ writing[m] # NoConn
    BY DEF SendPut, Sending
  <2>2. DeliverPut(m) => lock # NoConn
    BY DEF DeliverPut, Delivering, Unlocked
  <2> QED BY <1>2, <2>1, <2>2 DEF TargetInv, TargetOk, TableInv
<1>3. stream'[c] = stream[c]
  BY <1>1, <1>2, Writes, AcceptAppends
<1> QED BY <1>1, <1>3 DEF FreshInv

Unique(m) ==
  dest[m] # Everyone =>
    \A c, d \in Conns : \A i \in DOMAIN stream[c], j \in DOMAIN stream[d] :
      stream[c][i] = m /\ stream[d][j] = m => c = d /\ i = j

LEMMA UniqueStep ==
  ASSUME TypeOK, TableInv, CallInv, PlaceInv, TargetInv, FreshInv, [Next]_vars,
         NEW m \in Msgs, Unique(m)
  PROVE  Unique(m)'
<1>0. FreshOk(m) /\ TargetOk(m)
  BY DEF FreshInv, TargetInv
<1>1. dest'[m] = dest[m] \/ (OnNone(m) /\ UNCHANGED stream)
  <2>1. ASSUME NEW to \in Agents \cup {Everyone}, Route(m, to)
        PROVE  OnNone(m) /\ UNCHANGED stream
    BY <1>0, <2>1 DEF Route, FreshOk, connVars
  <2>2. ASSUME NEW n \in Msgs, n # m,
               (\E to \in Agents \cup {Everyone} : Route(n, to)) \/ RouteCall(n)
        PROVE  dest'[m] = dest[m]
    BY <2>2, OtherCalls
  <2>3. RouteCall(m) => UNCHANGED dest
    BY DEF RouteCall, LookupDirect, LookupBroadcast, QueueOffline, SendCheck,
           SendPut, SendStopped, Return
  <2>4. \/ UNCHANGED dest
        \/ \E n \in Msgs : (\E to \in Agents \cup {Everyone} : Route(n, to)) \/ RouteCall(n)
    BY Kinds DEF RegisterConnection, DeliverCheck, DeliverPut, DeliverStopped,
       Delivered, DeliverDone, UnregisterConnection, Idle, callVars
  <2> QED BY <2>1, <2>2, <2>3, <2>4
<1>2. CASE UNCHANGED stream
  BY <1>1, <1>2 DEF Unique, OnNone, Carries
<1>3. ASSUME NEW n \in Msgs, NEW c \in Conns, Accept(c, n),
             (SendPut(n) /\ writing[n] = c) \/ (DeliverPut(n) /\ lock = c)
      PROVE  Unique(m)'
  <2> DEFINE k == Len(stream[c]) + 1
  <2>1. /\ \A d \in Conns : d # c => stream'[d] = stream[d]
        /\ DOMAIN stream[c] = 1 .. Len(stream[c]) /\ Len(stream[c]) \in Nat
        /\ DOMAIN stream'[c] = 1 .. k
        /\ \A i \in 1 .. Len(stream[c]) : stream'[c][i] = stream[c][i]
        /\ stream'[c][k] = n
    BY <1>3, AcceptAppends
  <2>2. k \in DOMAIN stream'[c] /\ \A i \in DOMAIN stream'[c] : i \in DOMAIN stream[c] \/ i = k
    BY <2>1
  <2> HIDE DEF k
  <2>3. \A d \in Conns : \A i \in DOMAIN stream'[d] :
           \/ d = c /\ i = k
           \/ i \in DOMAIN stream[d] /\ stream'[d][i] = stream[d][i]
    BY <2>1, <2>2
  <2>4. dest'[m] = dest[m]
    <3>1. stream' # stream
      BY <2>1, <2>2, <1>3 DEF Accept, k
    <3> QED BY <1>1, <3>1
  <2>5. CASE n # m
    BY <2>1, <2>3, <2>4, <2>5 DEF Unique
  <2>6. CASE n = m /\ dest[m] # Everyone
    <3>1. SendPut(m) => /\ pc[m] = "sending" /\ writing[m] \in targets[m]
                        /\ dest[m] \in Agents
      BY <1>0, <2>6 DEF SendPut, Sending, TargetOk
    <3>2. DeliverPut(m) => Waiting(m)
      <4>1. DeliverPut(m) => /\ m \in pending /\ pending' = pending \ {m} /\ lock # NoConn
                             /\ UNCHANGED <<offlineQ, lock, owner>>
        BY DEF DeliverPut, Delivering, Delivered, Unlocked
      <4> QED BY <4>1, DeliveredWaitsNot
    <3>3. OnNone(m)
      BY <1>0, <1>3, <2>6, <3>1, <3>2 DEF FreshOk
    <3> QED BY <2>3, <3>3 DEF Unique, OnNone, Carries
  <2> QED BY <2>4, <2>5, <2>6 DEF Unique
<1> QED BY <1>2, <1>3, Writes

\* What the theorems below share.
RouterInv == /\ TypeOK /\ TableInv /\ CallInv /\ PlaceInv
             /\ TargetInv /\ FreshInv /\ SendInv

LEMMA RouterInvariant == Spec => []RouterInv
<1>1. Init => RouterInv
  BY InitType DEF Init, RouterInv, TableInv, CallInv, PlaceInv, TargetInv, TargetOk,
     FreshInv, FreshOk, OnNone, Carries, Waiting, SendInv, SendOk
<1>2. RouterInv /\ [Next]_vars => RouterInv'
  <2> SUFFICES ASSUME RouterInv, [Next]_vars PROVE RouterInv'
    OBVIOUS
  <2> USE DEF RouterInv
  <2>1. TypeOK' /\ TableInv' /\ CallInv' /\ PlaceInv'
    BY TypeStep, TableStep, CallStep, PlaceStep
  <2>2. TargetInv' /\ FreshInv' /\ SendInv'
    BY TargetStep, FreshStep, IdleStep, SendStep DEF TargetInv, FreshInv, SendInv
  <2> QED BY <2>1, <2>2
<1> QED BY <1>1, <1>2, PTL DEF Spec

(* No direct message is written twice, to one connection or to two, or     *)
(* written while it still waits in a queue, for any number of agents,      *)
(* connections and calls: although deliverQueued sends from the queue      *)
(* before it clears it, and a call acts on a table it read earlier.        *)
THEOREM WrittenAtMostOnce == Spec => []AtMostOnce
<1> DEFINE Uniques == \A m \in Msgs : Unique(m)
<1>1. Init => Uniques
  BY DEF Init, Unique
<1>2. RouterInv /\ Uniques /\ [Next]_vars => Uniques'
  BY UniqueStep DEF RouterInv
<1>3. RouterInv /\ Uniques => AtMostOnce
  BY DEF RouterInv, FreshInv, FreshOk, OnNone, Unique, AtMostOnce
<1> QED BY <1>1, <1>2, <1>3, RouterInvariant, PTL DEF Spec

-----------------------------------------------------------------------------
(* Order.  Creation orders all messages, and a goroutine's running call is *)
(* its latest; while the queue is sent, the new connection carries nothing *)
(* else, and nothing that was sent should have come after what was not.    *)
EarlierInv ==
  \A m, n \in Msgs : m # n /\ pc[m] # "new" /\ pc[n] # "new" =>
    /\ m \in earlier[n] \/ n \in earlier[m]
    /\ Active(m) /\ From[n] = From[m] => n \in earlier[m]

SortedInv ==
  lock # NoConn =>
    /\ \A n \in Msgs : Carries(lock, n) => n \in offlineQ[owner[lock]] \ pending
    /\ \A m \in pending, n \in offlineQ[owner[lock]] \ pending : ~Before(m, n)
    /\ \A m \in pending : writing[m] # NoConn => NextQueued(m)

LEMMA EarlierKept ==
  ASSUME TypeOK, [Next]_vars, NEW m \in Msgs, pc[m] # "new"
  PROVE  /\ earlier'[m] = earlier[m] /\ pc'[m] # "new"
         /\ Active(m)' => Active(m)
<1>1. ASSUME NEW n \in Msgs, n # m,
             (\E to \in Agents \cup {Everyone} : Route(n, to)) \/ RouteCall(n)
      PROVE  earlier'[m] = earlier[m] /\ pc'[m] = pc[m]
  BY <1>1, OtherCalls
<1>2. ~Route(m, Everyone) /\ \A to \in Agents : ~Route(m, to)
  BY DEF Route
<1>3. RouteCall(m) => /\ UNCHANGED earlier /\ Active(m)
                      /\ pc'[m] \in {"lookup", "queue", "sending", "done"}
  BY DEF RouteCall, LookupDirect, LookupBroadcast, QueueOffline, SendCheck, SendPut,
         SendStopped, Sending, Return, Active, TypeOK
<1>4. \/ UNCHANGED callVars
      \/ \E n \in Msgs : (\E to \in Agents \cup {Everyone} : Route(n, to)) \/ RouteCall(n)
  BY Kinds DEF RegisterConnection, DeliverCheck, DeliverPut, DeliverStopped,
     Delivered, DeliverDone, UnregisterConnection, Idle
<1> QED BY <1>1, <1>2, <1>3, <1>4 DEF callVars, Active

LEMMA EarlierStep ==
  ASSUME TypeOK, EarlierInv, [Next]_vars
  PROVE  EarlierInv'
<1>1. ASSUME NEW k \in Msgs, NEW to \in Agents \cup {Everyone}, Route(k, to)
      PROVE  EarlierInv'
  <2>1. /\ pc[k] = "new" /\ pc'[k] = "lookup"
        /\ earlier'[k] = {n \in Msgs : pc[n] # "new"}
        /\ \A n \in Msgs : n # k => pc'[n] = pc[n] /\ earlier'[n] = earlier[n]
        /\ \A n \in Msgs : From[n] = From[k] => ~Active(n)
    BY <1>1 DEF Route, TypeOK
  <2> SUFFICES ASSUME NEW m \in Msgs, NEW n \in Msgs,
                      m # n, pc'[m] # "new", pc'[n] # "new"
               PROVE  /\ m \in earlier'[n] \/ n \in earlier'[m]
                      /\ Active(m)' /\ From[n] = From[m] => n \in earlier'[m]
    BY DEF EarlierInv
  <2>2. CASE m = k
    BY <2>1, <2>2
  <2>3. CASE n = k
    BY <2>1, <2>3 DEF Active
  <2>4. CASE m # k /\ n # k
    BY <2>1, <2>4 DEF EarlierInv, Active
  <2> QED BY <2>2, <2>3, <2>4
<1>2. CASE \A m \in Msgs : pc[m] = "new" => pc'[m] = "new"
  <2> SUFFICES ASSUME NEW m \in Msgs, NEW n \in Msgs,
                      m # n, pc'[m] # "new", pc'[n] # "new"
               PROVE  /\ m \in earlier'[n] \/ n \in earlier'[m]
                      /\ Active(m)' /\ From[n] = From[m] => n \in earlier'[m]
    BY DEF EarlierInv
  <2>1. pc[m] # "new" /\ pc[n] # "new"
    BY <1>2
  <2> QED BY <2>1, EarlierKept DEF EarlierInv
<1>3. \/ \A m \in Msgs : pc[m] = "new" => pc'[m] = "new"
      \/ \E k \in Msgs, to \in Agents \cup {Everyone} : Route(k, to)
  BY Actions DEF LookupDirect, LookupBroadcast, QueueOffline, SendCheck, SendPut,
     SendStopped, Sending, Return, RegisterConnection, DeliverCheck, DeliverPut,
     DeliverStopped, Delivered, DeliverDone, UnregisterConnection, Idle, callVars,
     TypeOK
<1> QED BY <1>1, <1>2, <1>3

\* A step of the delivery of m under the lock.
LEMMA SortedDelivery ==
  ASSUME TypeOK, TableInv, CallInv, PlaceInv, SortedInv, NEW m \in Msgs,
         DeliverCheck(m) \/ DeliverPut(m) \/ DeliverStopped(m)
  PROVE  SortedInv'
<1>1. PICK c \in Conns : c = lock
  BY DeliverKeeps
<1>2. /\ m \in pending /\ pending' \in {pending, pending \ {m}}
      /\ \A n \in Msgs : n # m => writing'[n] = writing[n]
      /\ UNCHANGED <<lock, owner, offlineQ, earlier>>
      /\ pending \subseteq offlineQ[owner[c]] /\ offlineQ[owner[c]] \subseteq Msgs
  BY <1>1, DeliverKeeps DEF PlaceInv, TableInv, callVars, TypeOK
<1>3. NextQueued(m)
  <2>1. CASE DeliverCheck(m)
    BY <2>1 DEF DeliverCheck
  <2>2. CASE Delivering(m)
    BY <2>2 DEF Delivering, Unlocked, SortedInv
  <2> QED BY <2>1, <2>2 DEF DeliverPut, DeliverStopped
<1>4. \A n \in Msgs : Carries(c, n)' => n \in offlineQ[owner[c]] \ pending'
  <2>1. \A n \in Msgs : Carries(c, n) => n \in offlineQ[owner[c]] \ pending'
    BY <1>1, <1>2 DEF SortedInv
  <2>2. CASE UNCHANGED stream
    BY <2>1, <2>2 DEF Carries
  <2>3. CASE DeliverPut(m)
    <3>1. Accept(c, m) /\ pending' = pending \ {m}
      BY <1>1, <2>3 DEF DeliverPut, Delivered
    <3>2. \A n \in Msgs : Carries(c, n)' => Carries(c, n) \/ n = m
      BY <3>1, AcceptAddsOne
    <3> QED BY <1>2, <2>1, <3>1, <3>2
  <2> QED BY <2>2, <2>3 DEF DeliverCheck, DeliverStopped, connVars
<1>5. \A k \in pending', n \in offlineQ[owner[c]] \ pending' : ~Before(k, n)'
  <2> SUFFICES ASSUME NEW k \in pending', NEW n \in offlineQ[owner[c]] \ pending'
               PROVE  ~Before(k, n)
    BY <1>2 DEF Before
  <2>1. k \in pending /\ (n = m \/ n \notin pending)
    BY <1>2
  <2> QED BY <1>1, <1>3, <2>1 DEF SortedInv, NextQueued
<1>6. \A n \in pending' : writing'[n] # NoConn => NextQueued(n)'
  <2> SUFFICES ASSUME NEW n \in pending', writing'[n] # NoConn
               PROVE  NextQueued(n)
    BY <1>2 DEF NextQueued, Before
  <2>1. CASE n = m
    BY <1>3, <2>1
  <2>2. CASE n # m
    <3>1. n \in pending /\ n \in Msgs /\ writing[n] # NoConn
      BY <1>2, <2>2
    <3> QED BY <1>1, <3>1 DEF SortedInv
  <2> QED BY <2>1, <2>2
<1> QED BY <1>1, <1>2, <1>4, <1>5, <1>6 DEF SortedInv

LEMMA SortedStep ==
  ASSUME TypeOK, TableInv, CallInv, PlaceInv, TargetInv, FreshInv, SortedInv, [Next]_vars
  PROVE  SortedInv'
<1>1. ASSUME NEW c \in Conns, NEW a \in Agents, RegisterConnection(c, a)
      PROVE  SortedInv'
  <2>1. /\ lock' = c /\ owner'[c] = a /\ pending' = offlineQ[a]
        /\ hpc[c] = "idle" /\ lock = NoConn
        /\ UNCHANGED <<offlineQ, stream, writing, earlier>>
    BY <1>1 DEF RegisterConnection, Unlocked, connVars, callVars, TypeOK
  <2>2. \A n \in Msgs : ~Carries(c, n)'
    BY <2>1 DEF FreshInv, Carries
  <2>3. \A m \in offlineQ[a] : writing[m] = NoConn
    <3>1. \A m \in offlineQ[a] : m \in Msgs /\ pc[m] = "done" /\ m \notin pending
      BY <2>1 DEF CallInv, PlaceInv, TypeOK
    <3> QED BY <3>1 DEF TargetInv, TargetOk
  <2> QED BY <2>1, <2>2, <2>3 DEF SortedInv
<1>2. CASE lock' = NoConn
  BY <1>2 DEF SortedInv
<1>3. ASSUME NEW k \in Msgs, lock' # NoConn,
             (\E to \in Agents \cup {Everyone} : Route(k, to)) \/ RouteCall(k)
      PROVE  SortedInv'
  <2>1. UNCHANGED <<lock, pending, hpc, owner, offlineQ>> /\ lock # NoConn
    BY <1>3 DEF RouteCall, Route, LookupDirect, LookupBroadcast, QueueOffline,
                SendCheck, SendPut, SendStopped, Return, Unlocked, routerVars
  <2>2. PICK c \in Conns : c = lock
    BY <2>1 DEF TypeOK
  <2>3. /\ pending \subseteq offlineQ[owner[c]] /\ offlineQ[owner[c]] \subseteq Msgs
        /\ \A n \in offlineQ[owner[c]] : pc[n] = "done" /\ n # k
    <3>1. owner[c] \in Agents
      BY <2>1, <2>2 DEF TableInv
    <3>2. pc[k] # "done"
      BY <1>3 DEF RouteCall, Route, LookupDirect, LookupBroadcast, QueueOffline,
                  SendCheck, SendPut, SendStopped, Sending, Return
    <3> QED BY <2>1, <2>2, <3>1, <3>2 DEF PlaceInv, CallInv, TypeOK
  <2>4. \A n \in offlineQ[owner[c]] : writing'[n] = writing[n] /\ earlier'[n] = earlier[n]
    BY <1>3, <2>3, OtherCalls
  <2>5. \A n \in Msgs : Carries(c, n)' => Carries(c, n)
    <3> SUFFICES ASSUME NEW n \in Msgs, Carries(c, n)', ~Carries(c, n) PROVE FALSE
      OBVIOUS
    <3>1. CASE SendPut(n) /\ writing[n] = c
      BY <2>1, <2>2, <3>1 DEF SendPut, Sending, TargetInv, TargetOk, TableInv
    <3>2. CASE DeliverPut(n)
      BY <1>3, <2>1, <3>2, DeliverKeeps DEF DeliverPut, Delivering, Delivered
    <3> QED BY <3>1, <3>2, CarriedBy
  <2> QED BY <2>1, <2>2, <2>3, <2>4, <2>5 DEF SortedInv, NextQueued, Before
<1>4. CASE Idle
  BY <1>4 DEF Idle, routerVars, callVars, SortedInv, NextQueued, Before, Carries
<1>5. ASSUME NEW c \in Conns, DeliverDone(c) \/ UnregisterConnection(c)
      PROVE  lock' = NoConn
  BY <1>5 DEF DeliverDone, UnregisterConnection, Unlocked
<1> QED BY <1>1, <1>2, <1>3, <1>4, <1>5, SortedDelivery, Kinds

\* What a step puts on c comes after what c carries, if one sender sent both.
LEMMA AppendsInOrder ==
  ASSUME TypeOK, TableInv, CallInv, PlaceInv, TargetInv, FreshInv, EarlierInv, SortedInv,
         NEW m \in Msgs, NEW c \in Conns,
         (SendPut(m) /\ writing[m] = c) \/ (DeliverPut(m) /\ lock = c),
         NEW n \in Msgs, Carries(c, n), From[n] = From[m], Priority[n] = Priority[m]
  PROVE  n \in earlier[m]
<1>1. pc[n] # "new"
  BY DEF FreshInv, FreshOk, OnNone
<1>2. CASE SendPut(m) /\ writing[m] = c
  <2>1. pc[m] = "sending" /\ writing[m] \in targets[m]
    BY <1>2 DEF SendPut, Sending, TargetInv, TargetOk
  <2>2. n # m
    BY <1>2, <2>1 DEF FreshInv, FreshOk
  <2> QED BY <1>1, <2>1, <2>2 DEF EarlierInv, Active
<1>3. CASE DeliverPut(m) /\ lock = c
  <2>1. lock # NoConn /\ m \in pending
    BY <1>3 DEF DeliverPut, Delivering, Unlocked
  <2>2. n \in offlineQ[owner[c]] \ pending
    BY <1>3, <2>1 DEF SortedInv
  <2>3. ~Before(m, n) /\ n # m
    BY <1>3, <2>1, <2>2 DEF SortedInv
  <2>4. pc[m] = "done"
    BY <2>1 DEF CallInv
  <2> QED BY <1>1, <2>3, <2>4 DEF Before, EarlierInv
<1> QED BY <1>2, <1>3

LEMMA OrderStep ==
  ASSUME TypeOK, TableInv, CallInv, PlaceInv, TargetInv, FreshInv, EarlierInv, SortedInv,
         SenderOrder, [Next]_vars
  PROVE  SenderOrder'
<1>1. ASSUME NEW c \in Conns, NEW i \in DOMAIN stream[c]
      PROVE  stream[c][i] \in Msgs /\ earlier'[stream[c][i]] = earlier[stream[c][i]]
  <2>1. stream[c][i] \in Msgs /\ Carries(c, stream[c][i])
    BY DEF TypeOK, Carries
  <2>2. pc[stream[c][i]] # "new"
    BY <2>1 DEF FreshInv, FreshOk, OnNone
  <2> QED BY <2>1, <2>2, EarlierKept
<1>2. CASE UNCHANGED stream
  BY <1>1, <1>2 DEF SenderOrder
<1>3. ASSUME NEW m \in Msgs, NEW c \in Conns, Accept(c, m),
             (SendPut(m) /\ writing[m] = c) \/ (DeliverPut(m) /\ lock = c)
      PROVE  SenderOrder'
  <2> SUFFICES ASSUME NEW d \in Conns, NEW i \in DOMAIN stream'[d], NEW j \in DOMAIN stream'[d],
                      i < j, From[stream'[d][i]] = From[stream'[d][j]],
                      Priority[stream'[d][i]] = Priority[stream'[d][j]]
               PROVE  stream'[d][i] \in earlier'[stream'[d][j]]
    BY DEF SenderOrder
  <2>1. CASE d # c
    <3>1. stream'[d] = stream[d]
      BY <1>3, <2>1, AcceptAppends
    <3> QED BY <1>1, <3>1 DEF SenderOrder
  <2>2. CASE d = c /\ j \in DOMAIN stream[c]
    <3>0. /\ Len(stream[c]) \in Nat /\ DOMAIN stream[c] = 1 .. Len(stream[c])
          /\ i \in 1 .. Len(stream[c]) + 1 /\ j \in 1 .. Len(stream[c]) /\ i < j
      BY <1>3, <2>2, AcceptAppends
    <3>1. /\ i \in DOMAIN stream[c]
          /\ stream'[c][i] = stream[c][i] /\ stream'[c][j] = stream[c][j]
      <4>1. i \in 1 .. Len(stream[c])
        BY <3>0
      <4> QED BY <1>3, <3>0, <4>1, AcceptAppends
    <3> QED BY <1>1, <2>2, <3>1 DEF SenderOrder
  <2>3. CASE d = c /\ j \notin DOMAIN stream[c]
    <3>1. /\ i \in DOMAIN stream[c] /\ stream'[c][i] = stream[c][i]
          /\ stream'[c][j] = m
      BY <1>3, <2>3, AcceptAppends
    <3>2. stream[c][i] \in Msgs /\ Carries(c, stream[c][i])
      BY <1>1, <3>1 DEF Carries
    <3>3. stream[c][i] \in earlier[m]
      BY <1>3, <2>3, <3>1, <3>2, AppendsInOrder
    <3>4. earlier'[m] = earlier[m]
      <4>1. pc[m] # "new"
        BY <1>3, DeliverKeeps DEF SendPut, Sending
      <4> QED BY <4>1, EarlierKept
    <3> QED BY <2>3, <3>1, <3>3, <3>4
  <2> QED BY <2>1, <2>2, <2>3
<1> QED BY <1>2, <1>3, Writes

(* On every connection, the messages of one sender and one priority arrive *)
(* in the order of their creation, through the queue or not, for any       *)
(* number of senders, agents, connections and calls in flight.             *)
THEOREM SendersStayInOrder == Spec => []SenderOrder
<1> DEFINE IInv == EarlierInv /\ SortedInv /\ SenderOrder
<1>1. Init => IInv
  BY DEF Init, EarlierInv, SortedInv, SenderOrder
<1>2. RouterInv /\ IInv /\ [Next]_vars => IInv'
  BY EarlierStep, SortedStep, OrderStep DEF RouterInv
<1>3. IInv => SenderOrder
  OBVIOUS
<1> QED BY <1>1, <1>2, <1>3, RouterInvariant, PTL DEF Spec

-----------------------------------------------------------------------------
(* Nobody is stuck.  For the delivery this needs a next message: the order *)
(* of the sort has a first in every finite queue, as creation (OrderInv)   *)
(* goes round in no circle; and what is being written goes to the new      *)
(* connection (TargetOfQueue).                                             *)

\* What comes before nothing comes first: the one with fewest before it.
LEMMA HasFirst ==
  ASSUME NEW S, IsFiniteSet(S), S # {}, NEW R,
         \A x \in S : <<x, x>> \notin R,
         \A x, y, z \in S : <<x, y>> \in R /\ <<y, z>> \in R => <<x, z>> \in R
  PROVE  \E x \in S : \A y \in S : <<y, x>> \notin R
<1> DEFINE Below(x) == {y \in S : <<y, x>> \in R}
           Sizes == {Cardinality(Below(x)) : x \in S}
<1>1. \A x \in S : Below(x) \in SUBSET S /\ IsFiniteSet(Below(x))
                  /\ Cardinality(Below(x)) \in Nat
  <2> SUFFICES ASSUME NEW x \in S
               PROVE  /\ Below(x) \in SUBSET S /\ IsFiniteSet(Below(x))
                      /\ Cardinality(Below(x)) \in Nat
    OBVIOUS
  <2>1. Below(x) \in SUBSET S
    OBVIOUS
  <2>2. IsFiniteSet(Below(x))
    BY <2>1, FS_Subset
  <2> QED BY <2>1, <2>2, FS_CardinalityType
<1>2. PICK n \in Sizes : \A k \in Sizes : ~(k < n)
  <2>1. Sizes \subseteq Nat /\ Sizes # {}
    <3> HIDE DEF Below
    <3> QED BY <1>1
  <2> HIDE DEF Sizes
  <2>2. PICK x \in Sizes : \A y \in Sizes : ~(<<y, x>> \in OpToRel(<, Nat))
    BY <2>1, WFMin, NatLessThanWellFounded
  <2>3. \A y \in Sizes : <<y, x>> \in OpToRel(<, Nat) <=> y < x
    BY <2>1 DEF OpToRel
  <2> QED BY <2>2, <2>3, Zenon
<1>3. PICK x \in S : n = Cardinality(Below(x))
  OBVIOUS
<1>4. ASSUME NEW y \in S, <<y, x>> \in R PROVE FALSE
  <2>1. Below(y) \in SUBSET Below(x) /\ y \in Below(x) /\ y \notin Below(y)
    BY <1>4
  <2>2. Cardinality(Below(y)) <= Cardinality(Below(x)) /\ Below(y) # Below(x)
    BY <1>1, <2>1, FS_Subset
  <2>3. Cardinality(Below(y)) # Cardinality(Below(x))
    BY <1>1, <2>1, <2>2, FS_Subset
  <2>4. Cardinality(Below(y)) < n /\ Cardinality(Below(y)) \in Sizes
    <3>1. Cardinality(Below(y)) \in Nat /\ Cardinality(Below(x)) \in Nat
      BY <1>1
    <3> HIDE DEF Below
    <3> QED BY <1>3, <2>2, <2>3, <3>1
  <2> QED BY <1>2, <2>4
<1> QED BY <1>4

OrderInv ==
  \A m \in Msgs : /\ m \notin earlier[m]
                  /\ \A n \in earlier[m] : pc[n] # "new" /\ earlier[n] \subseteq earlier[m]

TargetOfQueue == \A m \in pending : writing[m] \in {NoConn, lock}

LEMMA OrderInvStep ==
  ASSUME TypeOK, OrderInv, [Next]_vars
  PROVE  OrderInv'
<1>1. ASSUME NEW k \in Msgs, NEW to \in Agents \cup {Everyone}, Route(k, to)
      PROVE  OrderInv'
  <2>1. /\ pc[k] = "new" /\ pc'[k] = "lookup"
        /\ earlier'[k] = {n \in Msgs : pc[n] # "new"}
        /\ \A n \in Msgs : n # k => pc'[n] = pc[n] /\ earlier'[n] = earlier[n]
        /\ \A n \in Msgs : earlier[n] \subseteq Msgs
    BY <1>1 DEF Route, TypeOK
  <2>2. \A n \in Msgs : k \notin earlier[n]
    BY <2>1 DEF OrderInv
  <2> QED BY <2>1, <2>2 DEF OrderInv
<1>2. CASE \A m \in Msgs : earlier'[m] = earlier[m] /\ (pc[m] # "new" => pc'[m] # "new")
  BY <1>2 DEF OrderInv, TypeOK
<1>3. \/ UNCHANGED callVars
      \/ \E n \in Msgs : (\E to \in Agents \cup {Everyone} : Route(n, to)) \/ RouteCall(n)
  BY Kinds DEF RegisterConnection, DeliverCheck, DeliverPut, DeliverStopped,
     Delivered, DeliverDone, UnregisterConnection, Idle
<1>4. ASSUME NEW n \in Msgs, RouteCall(n)
      PROVE  \A m \in Msgs : earlier'[m] = earlier[m] /\ (pc[m] # "new" => pc'[m] # "new")
  BY <1>4, EarlierKept
     DEF RouteCall, LookupDirect, LookupBroadcast, QueueOffline, SendCheck, SendPut,
         SendStopped, Return
<1> QED BY <1>1, <1>2, <1>3, <1>4 DEF callVars

LEMMA TargetOfQueueStep ==
  ASSUME RouterInv, TargetOfQueue, [Next]_vars
  PROVE  TargetOfQueue'
<1>1. ASSUME NEW n \in Msgs,
             (\E to \in Agents \cup {Everyone} : Route(n, to)) \/ RouteCall(n)
      PROVE  TargetOfQueue'
  <2>1. pc[n] # "done"
    BY <1>1 DEF Route, RouteCall, LookupDirect, LookupBroadcast, QueueOffline,
       SendCheck, SendPut, SendStopped, Sending, Return
  <2>2. n \notin pending
    BY <2>1 DEF RouterInv, CallInv
  <2>3. pending' = pending /\ lock' = lock /\ \A m \in Msgs \ {n} : writing'[m] = writing[m]
    BY <1>1 DEF Route, RouteCall, LookupDirect, LookupBroadcast, QueueOffline,
       SendCheck, SendPut, SendStopped, Sent, Return, routerVars, RouterInv, TypeOK
  <2> QED BY <2>2, <2>3 DEF TargetOfQueue, RouterInv, TypeOK
<1>2. ASSUME NEW c \in Conns, NEW a \in Agents, RegisterConnection(c, a)
      PROVE  TargetOfQueue'
  <2>1. pending = {} /\ pending' = offlineQ[a] /\ writing' = writing
    BY <1>2 DEF RegisterConnection, Unlocked, RouterInv, PlaceInv
  <2>2. \A m \in offlineQ[a] : m \in Msgs /\ pc[m] = "done"
    BY DEF RouterInv, CallInv, TypeOK
  <2> QED BY <2>1, <2>2 DEF TargetOfQueue, RouterInv, TargetInv, TargetOk
<1>3. ASSUME NEW n \in Msgs, DeliverCheck(n) \/ DeliverPut(n) \/ DeliverStopped(n)
      PROVE  TargetOfQueue'
  <2>1. /\ pending' \in {pending, pending \ {n}} /\ lock' = lock
        /\ \A m \in Msgs : m # n => writing'[m] = writing[m]
    BY <1>3, DeliverKeeps DEF RouterInv
  <2>2. writing'[n] \in {NoConn, lock} \/ writing'[n] = writing[n]
    BY <1>3 DEF DeliverCheck, DeliverPut, DeliverStopped, Delivered, RouterInv, TypeOK
  <2> QED BY <2>1, <2>2 DEF TargetOfQueue, RouterInv, TypeOK
<1>4. ASSUME NEW c \in Conns, DeliverDone(c) \/ UnregisterConnection(c)
      PROVE  TargetOfQueue'
  BY <1>4 DEF DeliverDone, UnregisterConnection, Unlocked, TargetOfQueue, RouterInv,
     PlaceInv
<1>5. CASE Idle
  BY <1>5 DEF Idle, routerVars, TargetOfQueue
<1> QED BY <1>1, <1>2, <1>3, <1>4, <1>5, Kinds

LEMMA QueueHasNext ==
  ASSUME TypeOK, OrderInv, IsFiniteSet(pending), pending # {}
  PROVE  \E m \in pending : NextQueued(m)
<1> DEFINE R == {p \in Msgs \X Msgs : Before(p[1], p[2])}
<1>1. pending \subseteq Msgs /\ \A m \in Msgs : Priority[m] \in Nat
  BY DEF TypeOK
<1>2. \A x, y \in pending : <<x, y>> \in R <=> Before(x, y)
  BY <1>1
<1>3. \A x \in pending : ~Before(x, x)
  BY <1>1 DEF Before, OrderInv
<1>4. \A x, y, z \in pending : Before(x, y) /\ Before(y, z) => Before(x, z)
  BY <1>1 DEF Before, OrderInv
<1> HIDE DEF R
<1>5. PICK x \in pending : \A y \in pending : <<y, x>> \notin R
  BY <1>2, <1>3, <1>4, HasFirst
<1> QED BY <1>2, <1>5 DEF NextQueued

(* Nobody in the router waits in a circle, for any number of calls and     *)
(* connections and any capacity (router.go:51-57, 155-193): whoever waits, *)
(* waits in the end for a writeLoop that can go on or has gone.            *)
THEOREM NobodyIsStuck == Spec => []RouteNeverStuck
<1> DEFINE IInv == OrderInv /\ TargetOfQueue
<1>1. Init => IInv
  BY DEF Init, OrderInv, TargetOfQueue
<1>2. RouterInv /\ IInv /\ [Next]_vars => IInv'
  BY OrderInvStep, TargetOfQueueStep DEF RouterInv
<1>3. RouterInv /\ QueueInv /\ IInv => RouteNeverStuck
  <2> SUFFICES ASSUME RouterInv, QueueInv, IInv PROVE RouteNeverStuck
    OBVIOUS
  <2>0. \A c \in Conns : Served(c) \/ Stalled(c)
    BY DEF RouterInv, TypeOK, OutTypeOK, Served, Room, StopSeen, Stalled
  <2>1. Unlocked \/ DeliveryGoes \/ Stalled(lock)
    <3> SUFFICES ASSUME lock # NoConn, ~Stalled(lock) PROVE DeliveryGoes
      BY DEF Unlocked
    <3>1. lock \in Conns /\ hpc[lock] = "deliver" /\ owner[lock] \in Agents
      BY DEF RouterInv, TypeOK, TableInv
    <3>2. IsFiniteSet(pending)
      <4>1. pending \in SUBSET offlineQ[owner[lock]] /\ IsFiniteSet(offlineQ[owner[lock]])
        BY <3>1 DEF RouterInv, PlaceInv, QueueInv
      <4> QED BY <4>1, FS_Subset
    <3>3. CASE pending = {}
      BY <3>1, <3>3 DEF DeliveryGoes
    <3>4. CASE pending # {} /\ \A m \in pending : writing[m] = NoConn
      BY <3>2, <3>4, QueueHasNext DEF DeliveryGoes, RouterInv
    <3>5. CASE \E m \in pending : writing[m] # NoConn
      BY <2>0, <3>1, <3>5 DEF DeliveryGoes, TargetOfQueue
    <3> QED BY <3>3, <3>4, <3>5
  <2>2. ASSUME NEW m \in Msgs, Active(m), Unlocked
        PROVE  CallGoes(m) \/ Stalled(writing[m])
    <3>1. pc[m] \in {"lookup", "queue", "sending"} /\ writing[m] \in Conns \cup {NoConn}
      BY <2>2 DEF Active, RouterInv, TypeOK
    <3> QED BY <2>0, <2>2, <3>1 DEF CallGoes
  <2> QED BY <2>1, <2>2 DEF RouteNeverStuck
<1> QED BY <1>1, <1>2, <1>3, RouterInvariant, QueuesAreFinite, PTL DEF Spec

-----------------------------------------------------------------------------
(* The router implements Mailbox.  First, what the phase of a message is   *)
(* at each point of its call.                                              *)

PhaseOk(m) ==
  /\ pc[m] = "new" => Phase(m) = "unsent"
  /\ pc[m] \in {"lookup", "queue"} => Phase(m) = "travelling"
  /\ pc[m] = "sending" =>
       Phase(m) = IF dest[m] # Everyone /\ targets[m] = {} THEN "settled" ELSE "travelling"
  /\ pc[m] = "done" => Phase(m) = IF Waiting(m) THEN "waiting" ELSE "settled"
PhasesOk == \A m \in Msgs : PhaseOk(m)

LEMMA PhaseAt == CallInv => PhasesOk
<1> SUFFICES ASSUME CallInv, NEW m \in Msgs PROVE PhaseOk(m)
  BY DEF PhasesOk
<1>1. Waiting(m) => pc[m] = "done"
  BY DEF CallInv, Waiting
<1>2. CASE pc[m] = "new"
  BY <1>1, <1>2 DEF Phase, PhaseOk
<1>3. CASE pc[m] \in {"lookup", "queue"}
  BY <1>1, <1>3 DEF Phase, PhaseOk
<1>4. CASE pc[m] = "sending"
  BY <1>1, <1>4 DEF Phase, PhaseOk
<1>5. CASE pc[m] = "done"
  BY <1>5 DEF Phase, PhaseOk
<1> QED BY <1>2, <1>3, <1>4, <1>5 DEF PhaseOk

LEMMA PhaseAtNext == CallInv' => PhasesOk'
BY PhaseAt, PTL

\* A wait ends when the running deliverQueued is done with the message.
LEMMA WaitingUntil ==
  ASSUME TypeOK, TableInv, PlaceInv, [Next]_vars,
         NEW m \in Msgs, Waiting(m), ~Waiting(m)'
  PROVE  /\ DeliverCheck(m) \/ DeliverPut(m) \/ DeliverStopped(m)
         /\ m \in pending /\ pending' = pending \ {m}
<1>0. PICK a \in Agents : m \in offlineQ[a] /\ (lock # NoConn /\ owner[lock] = a => m \in pending)
  BY DEF Waiting
<1>1. ASSUME NEW n \in Msgs, QueueOffline(n)
      PROVE  Waiting(m)'
  <2>1. m \in offlineQ'[a]
    <3>1. offlineQ \in [Agents -> SUBSET Msgs]
      BY DEF TypeOK
    <3>2. offlineQ' = offlineQ \/ offlineQ' = [offlineQ EXCEPT ![dest[n]] = @ \cup {n}]
      BY <1>1 DEF QueueOffline
    <3> QED BY <1>0, <3>1, <3>2
  <2>2. lock' = NoConn
    BY <1>1 DEF QueueOffline, Unlocked
  <2> QED BY <2>1, <2>2 DEF Waiting
<1>2. ASSUME NEW c \in Conns, NEW b \in Agents, RegisterConnection(c, b)
      PROVE  Waiting(m)'
  <2>1. offlineQ' = offlineQ /\ lock' = c /\ owner'[c] = b /\ pending' = offlineQ[b]
    BY <1>2 DEF RegisterConnection, TypeOK
  <2> QED BY <1>0, <2>1 DEF Waiting
<1>3. ASSUME NEW c \in Conns, DeliverDone(c)
      PROVE  Waiting(m)'
  <2>1. /\ lock = c /\ c # NoConn /\ pending = {} /\ lock' = NoConn
        /\ offlineQ' = [offlineQ EXCEPT ![owner[c]] = {}]
    BY <1>3 DEF DeliverDone, Cleared
  <2>2. a # owner[c] /\ m \in offlineQ'[a]
    BY <1>0, <2>1 DEF TypeOK
  <2> QED BY <2>1, <2>2 DEF Waiting
<1>4. ASSUME NEW n \in Msgs, DeliverCheck(n) \/ DeliverPut(n) \/ DeliverStopped(n)
      PROVE  n = m /\ m \in pending /\ pending' = pending \ {m}
  <2>1. UNCHANGED <<offlineQ, lock, owner>> /\ pending' \in {pending, pending \ {n}}
    BY <1>4 DEF DeliverCheck, DeliverPut, DeliverStopped, Delivered
  <2>2. lock # NoConn /\ owner[lock] = a /\ m \in pending /\ m \notin pending'
    BY <1>0, <2>1 DEF Waiting
  <2> QED BY <2>1, <2>2
<1>5. CASE UNCHANGED <<offlineQ, lock, owner, pending>>
  BY <1>5 DEF Waiting
<1>6. \/ UNCHANGED <<offlineQ, lock, owner, pending>>
      \/ \E n \in Msgs : QueueOffline(n)
      \/ \E c \in Conns, b \in Agents : RegisterConnection(c, b)
      \/ \E n \in Msgs : DeliverCheck(n) \/ DeliverPut(n) \/ DeliverStopped(n)
      \/ \E c \in Conns : DeliverDone(c)
  BY Actions DEF routerVars, Route, LookupDirect, LookupBroadcast, SendCheck,
     SendPut, SendStopped, Return, UnregisterConnection, Idle
<1> QED BY <1>1, <1>2, <1>3, <1>4, <1>5, <1>6

\* A message that a step neither sends nor holds stays in its phase.
LEMMA PhaseSame ==
  ASSUME NEW m \in Msgs, pc'[m] = pc[m], dest'[m] = dest[m], targets'[m] = targets[m],
         Waiting(m)' <=> Waiting(m)
  PROVE  Phase(m)' = Phase(m)
BY DEF Phase

LEMMA OthersStay ==
  ASSUME TypeOK, TableInv, PlaceInv, [Next]_vars, NEW m \in Msgs,
         (\E to \in Agents \cup {Everyone} : Route(m, to)) \/ RouteCall(m)
  PROVE  \A n \in Msgs : n # m => Phase(n)' = Phase(n)
<1> SUFFICES ASSUME NEW n \in Msgs, n # m PROVE Phase(n)' = Phase(n)
  OBVIOUS
<1>1. pc'[n] = pc[n] /\ dest'[n] = dest[n] /\ targets'[n] = targets[n]
  BY OtherCalls
<1>2. pending' = pending
  BY CallKeeps
<1>3. ~QueueOffline(n)
  BY <1>1 DEF QueueOffline, TypeOK
<1>4. Waiting(n)' <=> Waiting(n)
  BY <1>2, <1>3, WaitingFrom, WaitingUntil
<1> QED BY <1>1, <1>4, PhaseSame

LEMMA OthersStayToo ==
  ASSUME TypeOK, TableInv, CallInv, PlaceInv, [Next]_vars, NEW m \in Msgs,
         DeliverCheck(m) \/ DeliverPut(m) \/ DeliverStopped(m)
  PROVE  \A n \in Msgs : n # m => Phase(n)' = Phase(n)
<1> SUFFICES ASSUME NEW n \in Msgs, n # m PROVE Phase(n)' = Phase(n)
  OBVIOUS
<1>1. m \in pending /\ pending' \in {pending, pending \ {m}} /\ UNCHANGED callVars
  BY DeliverKeeps
<1>2. ~QueueOffline(n)
  BY <1>1 DEF QueueOffline, callVars, TypeOK
<1>3. Waiting(n)' <=> Waiting(n)
  BY <1>1, <1>2, WaitingFrom, WaitingUntil
<1> QED BY <1>1, <1>3, PhaseSame DEF callVars

LEMMA AllStay ==
  ASSUME TypeOK, TableInv, PlaceInv, [Next]_vars,
         \/ \E c \in Conns, a \in Agents : RegisterConnection(c, a)
         \/ \E c \in Conns : DeliverDone(c) \/ UnregisterConnection(c)
         \/ Idle
  PROVE  \A n \in Msgs : Phase(n)' = Phase(n)
<1> SUFFICES ASSUME NEW n \in Msgs PROVE Phase(n)' = Phase(n)
  OBVIOUS
<1>1. UNCHANGED callVars
  BY DEF RegisterConnection, DeliverDone, UnregisterConnection, Idle
<1>2. ~QueueOffline(n)
  BY <1>1 DEF QueueOffline, callVars, TypeOK
<1>3. Waiting(n) => Waiting(n)'
  <2>1. ASSUME DeliverCheck(n) \/ DeliverPut(n) \/ DeliverStopped(n),
               n \in pending, pending' = pending \ {n}
        PROVE  FALSE
    <3>1. lock # NoConn /\ hpc' = hpc /\ lock' = lock
      BY <2>1 DEF DeliverCheck, DeliverPut, DeliverStopped, Delivering, Delivered, Unlocked
    <3>2. pending' # pending
      BY <2>1
    <3> QED BY <3>1, <3>2 DEF RegisterConnection, DeliverDone, UnregisterConnection,
               Unlocked, Idle, routerVars
  <2> QED BY <2>1, WaitingUntil
<1>4. Waiting(n)' <=> Waiting(n)
  BY <1>2, <1>3, WaitingFrom
<1> QED BY <1>1, <1>4, PhaseSame DEF callVars

PhaseMap == [m \in Msgs |-> Phase(m)]

LEMMA PhaseMoves ==
  ASSUME NEW m \in Msgs, NEW x, Phase(m)' = x,
         \A n \in Msgs : n # m => Phase(n)' = Phase(n)
  PROVE  PhaseMap[m] = Phase(m) /\ PhaseMap' = [PhaseMap EXCEPT ![m] = x]
BY DEF PhaseMap

LEMMA PhaseStays ==
  ASSUME \A n \in Msgs : Phase(n)' = Phase(n)
  PROVE  PhaseMap' = PhaseMap
BY DEF PhaseMap

\* Each action of the router, as a step of the mailbox.

LEMMA RouteSends ==
  ASSUME TypeOK, TableInv, CallInv, CallInv', PlaceInv, [Next]_vars,
         NEW m \in Msgs, NEW to \in Agents \cup {Everyone}, Route(m, to)
  PROVE  Abstract!Send(m, to)
<1>1. pc[m] = "new" /\ pc'[m] = "lookup"
  BY DEF Route, TypeOK
<1>2. PhaseOk(m) /\ PhaseOk(m)'
  BY PhaseAt, PhaseAtNext DEF PhasesOk
<1>3. Phase(m) = "unsent" /\ Phase(m)' = "travelling"
  BY <1>1, <1>2 DEF PhaseOk
<1>4. PhaseMap[m] = Phase(m) /\ PhaseMap' = [PhaseMap EXCEPT ![m] = "travelling"]
  BY <1>3, OthersStay, PhaseMoves
<1>5. dest' = [dest EXCEPT ![m] = to] /\ UNCHANGED <<owner, stream>>
  BY DEF Route, routerVars, connVars
<1> QED BY <1>3, <1>4, <1>5 DEF Abstract!Send, PhaseMap

LEMMA LookupStutters ==
  ASSUME TypeOK, TableInv, CallInv, CallInv', PlaceInv, [Next]_vars,
         NEW m \in Msgs, LookupDirect(m) \/ LookupBroadcast(m)
  PROVE  UNCHANGED Abstract!vars
<1>1. pc[m] = "lookup" /\ UNCHANGED <<dest, owner, stream>>
  BY DEF LookupDirect, LookupBroadcast, routerVars, connVars
<1>2. PhaseOk(m) /\ PhaseOk(m)'
  BY PhaseAt, PhaseAtNext DEF PhasesOk
<1>3. \/ pc'[m] = "queue"
      \/ pc'[m] = "sending" /\ (dest'[m] = Everyone \/ targets'[m] # {})
  <2>1. CASE LookupDirect(m)
    <3>1. CASE conns[dest[m]] = NoConn
      BY <2>1, <3>1 DEF LookupDirect, TypeOK
    <3>2. CASE conns[dest[m]] # NoConn
      <4>1. pc'[m] = "sending" /\ targets'[m] = {conns[dest[m]]}
        BY <2>1, <3>2 DEF LookupDirect, Recipients, TypeOK
      <4> QED BY <4>1
    <3> QED BY <3>1, <3>2
  <2>2. CASE LookupBroadcast(m)
    BY <2>2 DEF LookupBroadcast, TypeOK
  <2> QED BY <2>1, <2>2
<1>4. Phase(m) = "travelling" /\ Phase(m)' = "travelling"
  BY <1>1, <1>2, <1>3 DEF PhaseOk
<1>5. RouteCall(m)
  BY DEF RouteCall
<1>6. PhaseMap' = PhaseMap
  BY <1>4, <1>5, OthersStay, PhaseStays
<1> QED BY <1>1, <1>6 DEF Abstract!vars, PhaseMap

LEMMA QueueHoldsOrSettles ==
  ASSUME TypeOK, TableInv, CallInv, CallInv', PlaceInv, [Next]_vars,
         NEW m \in Msgs, QueueOffline(m)
  PROVE  Abstract!Hold(m) \/ Abstract!Settle(m)
<1>1. /\ pc[m] = "queue" /\ pc'[m] = "done" /\ dest[m] \in Agents /\ lock' = NoConn
      /\ dest[m] # Everyone /\ UNCHANGED <<dest, owner, stream>>
  BY DEF QueueOffline, Unlocked, CallInv, TypeOK, connVars
<1>2. PhaseOk(m) /\ PhaseOk(m)'
  BY PhaseAt, PhaseAtNext DEF PhasesOk
<1>3. Phase(m) = "travelling"
  BY <1>1, <1>2 DEF PhaseOk
<1>4. RouteCall(m)
  BY DEF RouteCall
<1>5. CASE Waiting(m)'
  <2>1. Phase(m)' = "waiting"
    BY <1>1, <1>2, <1>5 DEF PhaseOk
  <2>2. PhaseMap[m] = Phase(m) /\ PhaseMap' = [PhaseMap EXCEPT ![m] = "waiting"]
    BY <1>4, <2>1, OthersStay, PhaseMoves
  <2> QED BY <1>1, <1>3, <2>2 DEF Abstract!Hold, PhaseMap
<1>6. CASE ~Waiting(m)'
  <2>1. Phase(m)' = "settled"
    BY <1>1, <1>2, <1>6 DEF PhaseOk
  <2>2. PhaseMap[m] = Phase(m) /\ PhaseMap' = [PhaseMap EXCEPT ![m] = "settled"]
    BY <1>4, <2>1, OthersStay, PhaseMoves
  <2> QED BY <1>1, <1>3, <2>2 DEF Abstract!Settle, PhaseMap
<1> QED BY <1>5, <1>6

\* A target dropped from a call: the message is settled if it had but one.
LEMMA DroppedTarget ==
  ASSUME TypeOK, TableInv, CallInv, CallInv', PlaceInv, TargetInv, [Next]_vars,
         NEW m \in Msgs, RouteCall(m), NEW c \in Conns,
         pc[m] = "sending", c \in targets[m], pc'[m] = pc[m], dest' = dest,
         targets'[m] = targets[m] \ {c}
  PROVE  /\ PhaseMap[m] = "travelling"
         /\ dest[m] \in Agents => PhaseMap' = [PhaseMap EXCEPT ![m] = "settled"]
         /\ dest[m] = Everyone => PhaseMap' = PhaseMap
         /\ dest[m] \in Agents \cup {Everyone}
<1>1. PhaseOk(m) /\ PhaseOk(m)' /\ TargetOk(m)
  BY PhaseAt, PhaseAtNext DEF PhasesOk, TargetInv
<1>2. Phase(m) = "travelling" /\ dest[m] \in Agents \cup {Everyone}
  BY <1>1 DEF PhaseOk, TargetOk
<1>3. ASSUME dest[m] \in Agents
      PROVE  PhaseMap' = [PhaseMap EXCEPT ![m] = "settled"]
  <2>1. targets'[m] = {}
    BY <1>1, <1>3 DEF TargetOk
  <2>2. Phase(m)' = "settled"
    BY <1>1, <1>3, <2>1 DEF PhaseOk
  <2> QED BY <2>2, OthersStay, PhaseMoves
<1>4. ASSUME dest[m] = Everyone
      PROVE  PhaseMap' = PhaseMap
  <2>1. Phase(m)' = "travelling"
    BY <1>1, <1>4 DEF PhaseOk
  <2> QED BY <1>2, <2>1, OthersStay, PhaseStays
<1> QED BY <1>2, <1>3, <1>4 DEF PhaseMap

LEMMA FailedSendSettles ==
  ASSUME TypeOK, TableInv, CallInv, CallInv', PlaceInv, TargetInv, [Next]_vars,
         NEW m \in Msgs, (\E c \in Conns : SendCheck(m, c)) \/ SendStopped(m)
  PROVE  Abstract!Settle(m) \/ UNCHANGED Abstract!vars
<1>1. RouteCall(m) /\ UNCHANGED <<pc, dest, owner, stream>> /\ pc[m] = "sending"
  BY DEF RouteCall, SendCheck, SendStopped, Sending, routerVars, connVars
<1>2. \/ UNCHANGED targets
      \/ \E c \in targets[m] : targets'[m] = targets[m] \ {c}
  <2>1. CASE \E c \in Conns : SendCheck(m, c)
    BY <2>1 DEF SendCheck, TypeOK
  <2>2. CASE SendStopped(m)
    BY <2>2 DEF SendStopped, Sending, Sent, TargetInv, TargetOk, TypeOK
  <2> QED BY <2>1, <2>2
<1>3. CASE UNCHANGED targets
  <2>1. Waiting(m)' <=> Waiting(m)
    <3>1. ~QueueOffline(m) /\ pending' = pending
      BY <1>1, CallKeeps DEF QueueOffline
    <3> QED BY <3>1, WaitingFrom, WaitingUntil
  <2>2. Phase(m)' = Phase(m)
    BY <1>1, <1>3, <2>1, PhaseSame
  <2>3. PhaseMap' = PhaseMap
    BY <1>1, <2>2, OthersStay, PhaseStays
  <2> QED BY <1>1, <2>3 DEF Abstract!vars, PhaseMap
<1>4. ASSUME NEW c \in targets[m], targets'[m] = targets[m] \ {c}
      PROVE  Abstract!Settle(m) \/ UNCHANGED Abstract!vars
  <2>1. c \in Conns
    BY DEF TypeOK
  <2>2. /\ PhaseMap[m] = "travelling"
        /\ \/ PhaseMap' = [PhaseMap EXCEPT ![m] = "settled"]
           \/ PhaseMap' = PhaseMap
    BY <1>1, <1>4, <2>1, DroppedTarget
  <2> QED BY <1>1, <2>2 DEF Abstract!Settle, Abstract!vars, PhaseMap
<1> QED BY <1>2, <1>3, <1>4

LEMMA SendHands ==
  ASSUME TypeOK, TableInv, CallInv, CallInv', PlaceInv, TargetInv, SendInv, FreshInv,
         [Next]_vars, NEW m \in Msgs, SendPut(m)
  PROVE  \E c \in Conns : Abstract!Hand(m, c) \/ Abstract!HandBroadcast(m, c)
<1>1. PICK c \in Conns : c = writing[m] /\ c \in targets[m]
  BY DEF SendPut, Sending, TargetInv, TargetOk, TypeOK
<1>2. /\ pc[m] = "sending" /\ pc'[m] = pc[m] /\ RouteCall(m)
      /\ targets'[m] = targets[m] \ {c}
      /\ stream' = [stream EXCEPT ![c] = Append(@, m)]
      /\ UNCHANGED <<dest, owner>>
  BY <1>1 DEF SendPut, Sending, Sent, Accept, RouteCall, routerVars, TypeOK
<1>3. /\ PhaseMap[m] = "travelling"
      /\ dest[m] \in Agents => PhaseMap' = [PhaseMap EXCEPT ![m] = "settled"]
      /\ dest[m] = Everyone => PhaseMap' = PhaseMap
      /\ dest[m] \in Agents \cup {Everyone}
  BY <1>1, <1>2, DroppedTarget
<1>4. CASE dest[m] \in Agents
  <2>1. dest[m] = owner[c]
    BY <1>1, <1>2, <1>4 DEF SendInv, SendOk, Reached
  <2> QED BY <1>2, <1>3, <1>4, <2>1 DEF Abstract!Hand, PhaseMap
<1>5. CASE dest[m] = Everyone
  <2>1. ~Carries(c, m) /\ owner[c] # NoAgent
    <3>1. hpc[c] # "idle"
      BY <1>1, <1>2 DEF TargetInv, TargetOk
    <3> QED BY <1>1, <1>2, <3>1 DEF FreshInv, FreshOk, PlaceInv
  <2> QED BY <1>2, <1>3, <1>5, <2>1
          DEF Abstract!HandBroadcast, Abstract!Carries, Carries, PhaseMap
<1> QED BY <1>3, <1>4, <1>5

LEMMA ReturnSettles ==
  ASSUME TypeOK, TableInv, CallInv, CallInv', PlaceInv, [Next]_vars,
         NEW m \in Msgs, Return(m)
  PROVE  Abstract!Settle(m) \/ UNCHANGED Abstract!vars
<1>1. /\ pc[m] = "sending" /\ pc'[m] = "done" /\ targets[m] = {}
      /\ RouteCall(m) /\ UNCHANGED <<dest, owner, stream, targets>>
  BY DEF Return, RouteCall, routerVars, connVars, TypeOK
<1>2. PhaseOk(m) /\ PhaseOk(m)'
  BY PhaseAt, PhaseAtNext DEF PhasesOk
<1>3. ~Waiting(m)'
  <2>1. ~Waiting(m) /\ ~QueueOffline(m)
    BY <1>1 DEF Waiting, CallInv, QueueOffline
  <2> QED BY <2>1, WaitingFrom
<1>4. Phase(m)' = "settled" /\ Phase(m) \in {"settled", "travelling"}
  BY <1>1, <1>2, <1>3 DEF PhaseOk
<1>5. PhaseMap[m] = Phase(m) /\ PhaseMap' = [PhaseMap EXCEPT ![m] = "settled"]
  BY <1>1, <1>4, OthersStay, PhaseMoves
<1>6. CASE Phase(m) = "travelling"
  BY <1>1, <1>5, <1>6 DEF Abstract!Settle, PhaseMap
<1>7. CASE Phase(m) = "settled"
  <2>1. PhaseMap' = PhaseMap
    BY <1>1, <1>4, <1>7, OthersStay, PhaseStays
  <2> QED BY <1>1, <2>1 DEF Abstract!vars, PhaseMap
<1> QED BY <1>4, <1>6, <1>7

LEMMA RegistrationAttaches ==
  ASSUME TypeOK, TableInv, PlaceInv, [Next]_vars,
         NEW c \in Conns, NEW a \in Agents, RegisterConnection(c, a)
  PROVE  Abstract!Attach(c, a)
<1>1. /\ owner[c] = NoAgent /\ owner' = [owner EXCEPT ![c] = a]
      /\ UNCHANGED <<dest, stream>>
  BY DEF RegisterConnection, TableInv, callVars, connVars
<1>2. PhaseMap' = PhaseMap
  BY AllStay, PhaseStays
<1> QED BY <1>1, <1>2 DEF Abstract!Attach, PhaseMap

\* The queue: a message leaves it as one handed over or as one dropped.
LEMMA DeliveryHandsOrSettles ==
  ASSUME TypeOK, TableInv, CallInv, CallInv', PlaceInv, [Next]_vars, NEW m \in Msgs,
         DeliverCheck(m) \/ DeliverPut(m) \/ DeliverStopped(m)
  PROVE  \/ Abstract!Settle(m) \/ UNCHANGED Abstract!vars
         \/ \E c \in Conns : Abstract!Hand(m, c)
<1>1. PICK c \in Conns : c = lock
  BY DeliverKeeps
<1>2. /\ m \in pending /\ pc[m] = "done" /\ lock # NoConn
      /\ pending' \in {pending, pending \ {m}}
      /\ UNCHANGED <<pc, dest, targets, offlineQ, lock, owner>>
  BY <1>1, DeliverKeeps DEF callVars
<1>3. PhaseOk(m) /\ PhaseOk(m)'
  BY PhaseAt, PhaseAtNext DEF PhasesOk
<1>4. owner[c] \in Agents /\ m \in offlineQ[owner[c]] /\ dest[m] = owner[c]
  BY <1>1, <1>2 DEF PlaceInv, TableInv
<1>5. CASE pending' = pending
  <2>1. UNCHANGED stream
    BY <1>2, <1>5 DEF DeliverCheck, DeliverPut, DeliverStopped, Delivered, connVars
  <2>2. Waiting(m)' <=> Waiting(m)
    BY <1>2, <1>5 DEF Waiting
  <2>3. PhaseMap' = PhaseMap
    BY <1>2, <2>2, PhaseSame, OthersStayToo, PhaseStays
  <2> QED BY <1>2, <2>1, <2>3 DEF Abstract!vars, PhaseMap
<1>6. CASE pending' = pending \ {m}
  <2>1. Waiting(m) /\ ~Waiting(m)'
    BY <1>2, <1>6, DeliveredWaitsNot
  <2>2. Phase(m) = "waiting" /\ Phase(m)' = "settled"
    BY <1>2, <1>3, <2>1 DEF PhaseOk
  <2>3. PhaseMap[m] = Phase(m) /\ PhaseMap' = [PhaseMap EXCEPT ![m] = "settled"]
    BY <2>2, OthersStayToo, PhaseMoves
  <2>4. CASE DeliverPut(m)
    <3>1. stream' = [stream EXCEPT ![c] = Append(@, m)]
      BY <1>1, <2>4 DEF DeliverPut, Accept
    <3> QED BY <1>2, <1>4, <2>2, <2>3, <3>1 DEF Abstract!Hand, PhaseMap
  <2>5. CASE DeliverCheck(m) \/ DeliverStopped(m)
    <3>1. UNCHANGED stream
      BY <2>5 DEF DeliverCheck, DeliverStopped, connVars
    <3> QED BY <1>2, <2>2, <2>3, <3>1 DEF Abstract!Settle, PhaseMap
  <2> QED BY <2>4, <2>5
<1> QED BY <1>2, <1>5, <1>6

LEMMA ReleaseStutters ==
  ASSUME TypeOK, TableInv, PlaceInv, [Next]_vars,
         (\E c \in Conns : DeliverDone(c) \/ UnregisterConnection(c)) \/ Idle
  PROVE  UNCHANGED Abstract!vars
<1>1. UNCHANGED <<dest, owner, stream>>
  BY DEF DeliverDone, UnregisterConnection, Idle, routerVars, callVars, connVars
<1>2. PhaseMap' = PhaseMap
  BY AllStay, PhaseStays
<1> QED BY <1>1, <1>2 DEF Abstract!vars, PhaseMap

LEMMA MailboxStep ==
  ASSUME TypeOK, TableInv, CallInv, CallInv', PlaceInv, TargetInv, SendInv, FreshInv,
         [Next]_vars
  PROVE  [Abstract!Next]_(Abstract!vars)
<1>1. ASSUME NEW m \in Msgs, NEW to \in Agents \cup {Everyone}, Route(m, to)
      PROVE  Abstract!Next
  BY <1>1, RouteSends DEF Abstract!Next
<1>2. ASSUME NEW m \in Msgs, LookupDirect(m) \/ LookupBroadcast(m)
      PROVE  UNCHANGED Abstract!vars
  BY <1>2, LookupStutters
<1>3. ASSUME NEW m \in Msgs, QueueOffline(m)
      PROVE  Abstract!Next
  BY <1>3, QueueHoldsOrSettles DEF Abstract!Next
<1>4. ASSUME NEW m \in Msgs,
             (\E c \in Conns : SendCheck(m, c)) \/ SendStopped(m) \/ Return(m)
      PROVE  Abstract!Next \/ UNCHANGED Abstract!vars
  BY <1>4, FailedSendSettles, ReturnSettles DEF Abstract!Next
<1>5. ASSUME NEW m \in Msgs, SendPut(m)
      PROVE  Abstract!Next
  BY <1>5, SendHands DEF Abstract!Next
<1>6. ASSUME NEW c \in Conns, NEW a \in Agents, RegisterConnection(c, a)
      PROVE  Abstract!Next
  BY <1>6, RegistrationAttaches DEF Abstract!Next
<1>7. ASSUME NEW m \in Msgs, DeliverCheck(m) \/ DeliverPut(m) \/ DeliverStopped(m)
      PROVE  Abstract!Next \/ UNCHANGED Abstract!vars
  BY <1>7, DeliveryHandsOrSettles DEF Abstract!Next
<1>8. ASSUME (\E c \in Conns : DeliverDone(c) \/ UnregisterConnection(c)) \/ Idle
      PROVE  UNCHANGED Abstract!vars
  BY <1>8, ReleaseStutters
<1> QED BY <1>1, <1>2, <1>3, <1>4, <1>5, <1>6, <1>7, <1>8, Actions

(* The router implements Mailbox: under the mapping Phase, its every step  *)
(* is a step of the mailbox or changes nothing the mailbox sees, so a      *)
(* message is handed over, held or dropped as that specification allows.   *)
THEOREM RouterImplementsMailbox == Spec => ImplementsMailbox
<1>1. Init /\ RouterInv => Abstract!Init
  <2> SUFFICES ASSUME Init, RouterInv PROVE Abstract!Init
    OBVIOUS
  <2>1. \A m \in Msgs : Phase(m) = "unsent"
    <3>1. PhasesOk
      BY PhaseAt DEF RouterInv
    <3> QED BY <3>1 DEF PhasesOk, PhaseOk, Init
  <2> QED BY <2>1 DEF Abstract!Init, Init
<1>2. RouterInv /\ RouterInv' /\ [Next]_vars => [Abstract!Next]_(Abstract!vars)
  BY MailboxStep DEF RouterInv
<1> QED BY <1>1, <1>2, RouterInvariant, PTL DEF Spec, ImplementsMailbox, Abstract!Spec
=============================================================================
