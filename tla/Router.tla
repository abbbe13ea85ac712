------------------------------- MODULE Router -------------------------------
(***************************************************************************)
(* pkg/messaging/router.go: routing of direct and broadcast messages, the  *)
(* per-agent offline queues and the registration of connections, as the    *)
(* handler goroutines of the server interleave them.                       *)
(*                                                                         *)
(* r.mu is a sync.RWMutex.  Its sections that only touch maps are single   *)
(* steps, enabled while nobody holds the write lock; the section of        *)
(* RegisterConnection writes to a connection and may block there, so it is *)
(* several steps under the lock `lock'.  A Route call reads the connection *)
(* table in one section and then acts on what it read without the lock.    *)
(*                                                                         *)
(* Each message is routed by one call of Route, so the message names the   *)
(* call: pc[m] is its program counter.  Callers are the goroutines that    *)
(* call Route; each runs one call at a time.                               *)
(***************************************************************************)
EXTENDS WsOutbound, Sequences, FiniteSets

CONSTANTS Agents, Msgs, Callers,
          From,         \* From[m]: the goroutine that routes m
          Priority,     \* Priority[m]: Message.Priority
          MaxOffline,   \* maxOffline (1000 in the code)
          NoConn, NoAgent, Everyone

ASSUME MaxOfflineAssumption == MaxOffline \in Nat
ASSUME FromAssumption == From \in [Msgs -> Callers]
ASSUME PriorityAssumption == Priority \in [Msgs -> Nat]
ASSUME NullsAssumption == /\ NoConn \notin Conns
                          /\ NoAgent \notin Agents /\ Everyone \notin Agents
                          /\ NoAgent # Everyone

VARIABLES conns,     \* conns[a]: the routing table, NoConn when a has no entry
          offlineQ,  \* offlineQ[a]: the queue of a; its slice order is never used
          lock,      \* the connection whose registration holds r.mu, or NoConn
          pending,   \* what the running deliverQueued still has to send
          hpc,       \* handler of a connection: idle, deliver, serving or left
          owner,     \* the agent a connection registered for
          pc,        \* new, lookup, queue, sending or done
          dest,      \* the recipient; Everyone when To is nil or ""
          earlier,   \* earlier[m]: messages created before m (its Timestamp)
          targets,   \* connections the call still has to write to
          writing,   \* the connection whose `closed' check m's Write has passed
          failed,    \* the call saw an error and will return it
          stream     \* history: stream[c] is what Write accepted on c, in order

routerVars == <<conns, offlineQ, lock, pending, hpc, owner>>
callVars == <<pc, dest, earlier, targets, failed>>
connVars == <<outVars, stream>>
vars == <<connVars, routerVars, callVars, writing>>

TypeOK == /\ OutTypeOK
          /\ conns \in [Agents -> Conns \cup {NoConn}]
          /\ offlineQ \in [Agents -> SUBSET Msgs]
          /\ lock \in Conns \cup {NoConn}
          /\ pending \in SUBSET Msgs
          /\ hpc \in [Conns -> {"idle", "deliver", "serving", "left"}]
          /\ owner \in [Conns -> Agents \cup {NoAgent}]
          /\ pc \in [Msgs -> {"new", "lookup", "queue", "sending", "done"}]
          /\ dest \in [Msgs -> Agents \cup {Everyone, NoAgent}]
          /\ earlier \in [Msgs -> SUBSET Msgs]
          /\ targets \in [Msgs -> SUBSET Conns]
          /\ writing \in [Msgs -> Conns \cup {NoConn}]
          /\ failed \in [Msgs -> BOOLEAN]
          /\ stream \in [Conns -> Seq(Msgs)]

Init == /\ OutInit
        /\ conns = [a \in Agents |-> NoConn]
        /\ offlineQ = [a \in Agents |-> {}]
        /\ lock = NoConn /\ pending = {}
        /\ hpc = [c \in Conns |-> "idle"]
        /\ owner = [c \in Conns |-> NoAgent]
        /\ pc = [m \in Msgs |-> "new"]
        /\ dest = [m \in Msgs |-> NoAgent]
        /\ earlier = [m \in Msgs |-> {}]
        /\ targets = [m \in Msgs |-> {}]
        /\ writing = [m \in Msgs |-> NoConn]
        /\ failed = [m \in Msgs |-> FALSE]
        /\ stream = [c \in Conns |-> <<>>]

-----------------------------------------------------------------------------
(* Route.                                                                  *)

Unlocked == lock = NoConn
Active(m) == pc[m] \notin {"new", "done"}

\* Mutant: the error is dropped and the call returns nil.
Fail_Swallowed(m) == UNCHANGED failed
Fail(m) == failed' = [failed EXCEPT ![m] = TRUE]

\* A handler goroutine creates m (NewMessage takes the timestamp) and calls
\* Route, which finds the sender and the type that the server always sets.
Route(m, to) ==
  /\ pc[m] = "new"
  /\ \A n \in Msgs : From[n] = From[m] => ~Active(n)
  /\ pc' = [pc EXCEPT ![m] = "lookup"]
  /\ dest' = [dest EXCEPT ![m] = to]
  /\ earlier' = [earlier EXCEPT ![m] = {n \in Msgs : pc[n] # "new"}]
  /\ UNCHANGED <<connVars, routerVars, targets, writing, failed>>

Connected == {conns[a] : a \in Agents} \ {NoConn}

\* Mutant: a direct message goes to every entry of the table.
Recipients_All(m) == Connected
Recipients(m) == {conns[dest[m]]}

\* routeDirect reads the table under the read lock.
LookupDirect(m) ==
  /\ pc[m] = "lookup" /\ dest[m] \in Agents /\ Unlocked
  /\ IF conns[dest[m]] = NoConn
     THEN /\ pc' = [pc EXCEPT ![m] = "queue"]
          /\ UNCHANGED targets
     ELSE /\ pc' = [pc EXCEPT ![m] = "sending"]
          /\ targets' = [targets EXCEPT ![m] = Recipients(m)]
  /\ UNCHANGED <<connVars, routerVars, dest, earlier, writing, failed>>

\* routeBroadcast takes a snapshot of the table under the read lock.
LookupBroadcast(m) ==
  /\ pc[m] = "lookup" /\ dest[m] = Everyone /\ Unlocked
  /\ pc' = [pc EXCEPT ![m] = "sending"]
  /\ targets' = [targets EXCEPT ![m] = Connected]
  /\ UNCHANGED <<connVars, routerVars, dest, earlier, writing, failed>>

\* Mutant: the limit is compared with > instead of >=.
QueueFull_OffByOne(a) == Cardinality(offlineQ[a]) > MaxOffline
QueueFull(a) == Cardinality(offlineQ[a]) >= MaxOffline

\* queueOffline takes the write lock afresh; the table may have changed.
QueueOffline(m) ==
  /\ pc[m] = "queue" /\ Unlocked
  /\ pc' = [pc EXCEPT ![m] = "done"]
  /\ IF QueueFull(dest[m])
     THEN /\ Fail(m)
          /\ UNCHANGED offlineQ
     ELSE /\ offlineQ' = [offlineQ EXCEPT ![dest[m]] = @ \cup {m}]
          /\ UNCHANGED failed
  /\ UNCHANGED <<connVars, conns, lock, pending, hpc, owner,
                 dest, earlier, targets, writing>>

\* Write, first step: the closed flag.  An error ends this send only.
SendCheck(m, c) ==
  /\ pc[m] = "sending" /\ writing[m] = NoConn /\ c \in targets[m]
  /\ IF closed[c]
     THEN /\ targets' = [targets EXCEPT ![m] = @ \ {c}]
          /\ Fail(m)
          /\ UNCHANGED writing
     ELSE /\ writing' = [writing EXCEPT ![m] = c]
          /\ UNCHANGED <<targets, failed>>
  /\ UNCHANGED <<connVars, routerVars, pc, dest, earlier>>

\* Write, second step: the frame enters writeChan, or stopChan is seen.
Sending(m) == pc[m] = "sending" /\ writing[m] # NoConn
Sent(m) == /\ writing' = [writing EXCEPT ![m] = NoConn]
           /\ targets' = [targets EXCEPT ![m] = @ \ {writing[m]}]

Accept(c, m) == Put(c) /\ stream' = [stream EXCEPT ![c] = Append(@, m)]

SendPut(m) == /\ Sending(m) /\ Accept(writing[m], m) /\ Sent(m)
              /\ UNCHANGED <<routerVars, pc, dest, earlier, failed>>

SendStopped(m) == /\ Sending(m) /\ StopSeen(writing[m]) /\ Sent(m)
                  /\ Fail(m)
                  /\ UNCHANGED <<connVars, routerVars, pc, dest, earlier>>

Return(m) == /\ pc[m] = "sending" /\ targets[m] = {}
             /\ pc' = [pc EXCEPT ![m] = "done"]
             /\ UNCHANGED <<connVars, routerVars, dest, earlier, targets,
                            writing, failed>>

-----------------------------------------------------------------------------
(* RegisterConnection and deliverQueued, all of it under the write lock.   *)

RegisterConnection(c, a) ==
  /\ hpc[c] = "idle" /\ Unlocked
  /\ lock' = c
  /\ hpc' = [hpc EXCEPT ![c] = "deliver"]
  /\ owner' = [owner EXCEPT ![c] = a]
  /\ conns' = [conns EXCEPT ![a] = c]
  /\ pending' = offlineQ[a]
  /\ UNCHANGED <<connVars, offlineQ, callVars, writing>>

\* The order of sort.Slice: priority, then creation.
Before(m, n) == \/ Priority[m] > Priority[n]
                \/ Priority[m] = Priority[n] /\ m \in earlier[n]

\* Mutant: the queue is sent in slice order, without the sort.
NextQueued_Unsorted(m) == m \in pending
NextQueued(m) == m \in pending /\ \A n \in pending : ~Before(n, m)

DeliverCheck(m) ==
  /\ ~Unlocked /\ NextQueued(m) /\ writing[m] = NoConn
  /\ IF closed[lock]
     THEN pending' = pending \ {m} /\ UNCHANGED writing   \* "log but continue"
     ELSE writing' = [writing EXCEPT ![m] = lock] /\ UNCHANGED pending
  /\ UNCHANGED <<connVars, conns, offlineQ, lock, hpc, owner, callVars>>

Delivering(m) == ~Unlocked /\ m \in pending /\ writing[m] = lock
Delivered(m) == /\ writing' = [writing EXCEPT ![m] = NoConn]
                /\ pending' = pending \ {m}
                /\ UNCHANGED <<conns, offlineQ, lock, hpc, owner, callVars>>

DeliverPut(m) == Delivering(m) /\ Accept(lock, m) /\ Delivered(m)

DeliverStopped(m) == /\ Delivering(m) /\ StopSeen(lock) /\ Delivered(m)
                     /\ UNCHANGED connVars

\* Mutant: the queue is sent but not cleared.
Cleared_Kept(c) == offlineQ
Cleared(c) == [offlineQ EXCEPT ![owner[c]] = {}]

\* The queue is cleared whatever became of its messages; the lock is released.
DeliverDone(c) ==
  /\ lock = c /\ hpc[c] = "deliver" /\ pending = {}
  /\ offlineQ' = Cleared(c)
  /\ lock' = NoConn
  /\ hpc' = [hpc EXCEPT ![c] = "serving"]
  /\ UNCHANGED <<connVars, conns, pending, owner, callVars, writing>>

\* The entry goes by agent id, whichever connection it holds by now.
UnregisterConnection(c) ==
  /\ hpc[c] = "serving" /\ Unlocked
  /\ hpc' = [hpc EXCEPT ![c] = "left"]
  /\ conns' = [conns EXCEPT ![owner[c]] = NoConn]
  /\ UNCHANGED <<connVars, offlineQ, lock, pending, owner, callVars, writing>>

-----------------------------------------------------------------------------
(* The connections: the handler's cleanup or Server.Stop closes one at any *)
(* time, and writeLoop runs on its own.                                    *)

Transport(c) == /\ Close(c) \/ WriteLoop(c)
                /\ UNCHANGED <<routerVars, callVars, writing, stream>>

RouteCall(m) == \/ LookupDirect(m) \/ LookupBroadcast(m) \/ QueueOffline(m)
                \/ \E c \in Conns : SendCheck(m, c)
                \/ SendPut(m) \/ SendStopped(m) \/ Return(m)

Deliver == \/ \E m \in Msgs : DeliverCheck(m) \/ DeliverPut(m) \/ DeliverStopped(m)
           \/ \E c \in Conns : DeliverDone(c)

Next == \/ \E m \in Msgs, to \in Agents \cup {Everyone} : Route(m, to)
        \/ \E m \in Msgs : RouteCall(m)
        \/ \E c \in Conns, a \in Agents : RegisterConnection(c, a)
        \/ Deliver
        \/ \E c \in Conns : UnregisterConnection(c)
        \/ \E c \in Conns : Transport(c)

Spec == Init /\ [][Next]_vars

(* Goroutines that can run are scheduled, and a running writeLoop writes   *)
(* or fails within its 10 s deadline.  The sections under r.mu are finite  *)
(* and a model has finitely many calls, so weak fairness is all the mutex  *)
(* has to give.  Nobody is obliged to call Route, to disconnect or to      *)
(* Close.                                                                  *)
Fairness == /\ \A m \in Msgs : WF_vars(RouteCall(m))
            /\ WF_vars(Deliver)
            /\ \A c \in Conns : WF_vars((Flush(c) \/ WriteFails(c))
                                        /\ UNCHANGED <<routerVars, callVars, writing, stream>>)

FairSpec == Spec /\ Fairness

-----------------------------------------------------------------------------
(* What the router must get right.                                         *)

Carries(c, m) == \E i \in DOMAIN stream[c] : stream[c][i] = m

\* A queued message that the running deliverQueued has not dealt with yet.
Waiting(m) == \E a \in Agents :
                /\ m \in offlineQ[a]
                /\ lock # NoConn /\ owner[lock] = a => m \in pending

(* No offline queue ever exceeds maxOffline (line 160), whatever calls     *)
(* were between their look at the table and their turn to queue.           *)
QueueBounded == \A a \in Agents : Cardinality(offlineQ[a]) <= MaxOffline

(* A direct message is written to at most one connection, once, and not    *)
(* while it still waits in a queue: deliverQueued (lines 169-193) leaves   *)
(* nothing behind to send again, although it sends from the queue first    *)
(* and clears it afterwards, and a call that queues does not also send.    *)
AtMostOnce ==
  \A m \in Msgs : dest[m] # Everyone =>
    /\ \A c, d \in Conns : \A i \in DOMAIN stream[c], j \in DOMAIN stream[d] :
         stream[c][i] = m /\ stream[d][j] = m => c = d /\ i = j
    /\ \A c \in Conns : Carries(c, m) => ~Waiting(m)

(* On one connection the messages of one sender, of equal priority, arrive *)
(* in the order they were created, through the queue or not: this needs    *)
(* the sort (176), the lock held while the queue is sent (51-57) and the   *)
(* order in which RegisterConnection publishes and sends.                  *)
SenderOrder ==
  \A c \in Conns : \A i, j \in DOMAIN stream[c] :
    /\ i < j
    /\ From[stream[c][i]] = From[stream[c][j]]
    /\ Priority[stream[c][i]] = Priority[stream[c][j]]
    => stream[c][i] \in earlier[stream[c][j]]

(* Route returns nil for a direct message only if the message was written  *)
(* to a connection or put in the queue; whatever it is not told about is   *)
(* what deliverQueued then drops on a closed connection (line 185).        *)
NilMeansAccepted ==
  \A m \in Msgs : pc[m] = "done" /\ ~failed[m] /\ dest[m] \in Agents =>
    \/ \E c \in Conns : Carries(c, m) /\ owner[c] = dest[m]
    \/ m \in offlineQ[dest[m]]
    \/ \E c \in Conns : owner[c] = dest[m] /\ closed[c] /\ hpc[c] # "idle"

(* Every Route call returns, unless a writeLoop has ended without anybody  *)
(* closing its connection and that connection's writeChan is full: then a  *)
(* writer is parked there, possibly under the router's write lock.         *)
RouteReturns ==
  \A m \in Msgs : Active(m) ~> (pc[m] = "done" \/ \E c \in Conns : Stalled(c))

\* Write to c can go on, or the writeLoop that makes room for it can.
Served(c) == Room(c) \/ StopSeen(c) \/ writeLoop[c] = "running"

\* The holder of the write lock: the end of deliverQueued or its next message.
DeliveryGoes == \/ pending = {} /\ hpc[lock] = "deliver"
                \/ \E m \in pending : writing[m] = NoConn /\ NextQueued(m)
                \/ \E m \in pending : writing[m] = lock /\ Served(lock)

CallGoes(m) == \/ pc[m] \in {"lookup", "queue"} /\ Unlocked
               \/ pc[m] = "sending" /\ (writing[m] = NoConn \/ Served(writing[m]))

(* Nobody waits in a circle: a call waits for nothing but the connection   *)
(* it writes to and the holder of the lock, which itself waits for nothing *)
(* but its new connection, and neither waits there unless the writeLoop    *)
(* has gone and left the writeChan full (router.go:51-57, 169-193,         *)
(* transport.go:198).                                                      *)
RouteNeverStuck ==
  /\ Unlocked \/ DeliveryGoes \/ Stalled(lock)
  /\ \A m \in Msgs : Active(m) => ~Unlocked \/ CallGoes(m) \/ Stalled(writing[m])

(* docs/DESIGN.md:37 says "Messages queued for disconnected agents": a     *)
(* queue is empty while its agent has a connection past its delivery.      *)
QueuedForDisconnectedOnly ==
  \A a \in Agents : conns[a] # NoConn /\ Unlocked => offlineQ[a] = {}

-----------------------------------------------------------------------------
(* The router implements Mailbox.                                          *)

Phase(m) ==
  CASE pc[m] = "new" -> "unsent"
    [] Waiting(m) -> "waiting"
    [] /\ ~Waiting(m)
       /\ pc[m] \in {"lookup", "queue", "sending"}
       /\ ~(pc[m] = "sending" /\ dest[m] # Everyone /\ targets[m] = {}) -> "travelling"
    [] OTHER -> "settled"

Abstract == INSTANCE Mailbox WITH phase <- [m \in Msgs |-> Phase(m)]

(* Every step of the router is one step of the mailbox or none: a message  *)
(* waits, is handed to a connection of its addressee, or is dropped, each  *)
(* at most once, and after that it stays settled.                          *)
ImplementsMailbox == Abstract!Spec
=============================================================================
