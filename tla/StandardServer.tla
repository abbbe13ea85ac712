--------------------------- MODULE StandardServer ---------------------------
(***************************************************************************)
(* pkg/server/server.go over the websocket transport: the accept loop, one *)
(* handler goroutine per connection from its first frame to its cleanup,   *)
(* the three tables a handler enters its agent in (registry, connections,  *)
(* router) and Stop.                                                       *)
(*                                                                         *)
(* A step is what runs between two points where goroutines can interleave: *)
(* one section under connMu or the router's mutex, one store operation of  *)
(* the registry, one Read or Write.  Frames carry no content: the handler  *)
(* chooses what a frame asks for when it reads it.  Write is one step; the *)
(* Router module splits it.  The registry's capability index and heartbeat *)
(* times, and the text of messages and replies, are left out.              *)
(***************************************************************************)
EXTENDS WsInbound

CONSTANTS Agents,
          MaxOffline,   \* the router's maxOffline (1000 in the code)
          NoConn, NoAgent, Everyone

ASSUME MaxOfflineAssumption == MaxOffline \in Nat
ASSUME NullsAssumption == /\ NoConn \notin Conns
                          /\ NoAgent \notin Agents /\ Everyone \notin Agents
                          /\ NoAgent # Everyone

VARIABLES
  registered,   \* agents in the registry's store
  connections,  \* Server.connections, NoConn when an agent has no entry
  table,        \* Router.conns
  queued,       \* length of Router.offlineQ
  routerLock,   \* the connection whose RegisterConnection holds the router
  unsent,       \* what that deliverQueued has still to write
  hpc,          \* program counter of the handler of each connection
  owner,        \* the agent id of the registration message
  dest,         \* recipient of the message being routed
  todo,         \* connections it has still to be written to
  failed,       \* a send of it returned an error
  ctxDone,      \* Server.ctx is cancelled
  accepting,    \* acceptLoop has not ended
  stopPc        \* Stop: idle, sweep, listener, wait or returned

tables == <<registered, connections, table>>
router == <<queued, routerLock, unsent>>
handler == <<owner, dest, todo, failed>>
life == <<ctxDone, accepting, stopPc>>
vars == <<outVars, inVars, tables, router, hpc, handler, life>>

Serving == {"loop", "read", "touch", "rename", "route", "queue", "write",
            "reply", "error"}
Leaving == {"unregister", "forget", "unroute", "close"}
Entering == {"register", "store", "routing", "deliver", "greet"}

TypeOK == /\ OutTypeOK /\ InTypeOK
          /\ registered \in SUBSET Agents
          /\ connections \in [Agents -> Conns \cup {NoConn}]
          /\ table \in [Agents -> Conns \cup {NoConn}]
          /\ queued \in [Agents -> 0 .. MaxOffline]
          /\ routerLock \in Conns \cup {NoConn}
          /\ unsent \in 0 .. MaxOffline
          /\ hpc \in [Conns -> {"unborn", "backlog", "await", "refuse", "ended"}
                               \cup Entering \cup Serving \cup Leaving]
          /\ owner \in [Conns -> Agents \cup {NoAgent}]
          /\ dest \in [Conns -> Agents \cup {Everyone, NoAgent}]
          /\ todo \in [Conns -> SUBSET Conns]
          /\ failed \in [Conns -> BOOLEAN]
          /\ ctxDone \in BOOLEAN
          /\ accepting \in BOOLEAN
          /\ stopPc \in {"idle", "sweep", "listener", "wait", "returned"}

Init == /\ OutInit /\ InInit
        /\ registered = {}
        /\ connections = [a \in Agents |-> NoConn]
        /\ table = [a \in Agents |-> NoConn]
        /\ queued = [a \in Agents |-> 0]
        /\ routerLock = NoConn /\ unsent = 0
        /\ hpc = [c \in Conns |-> "unborn"]
        /\ owner = [c \in Conns |-> NoAgent]
        /\ dest = [c \in Conns |-> NoAgent]
        /\ todo = [c \in Conns |-> {}]
        /\ failed = [c \in Conns |-> FALSE]
        /\ ctxDone = FALSE /\ accepting = TRUE /\ stopPc = "idle"

Goto(c, label) == hpc' = [hpc EXCEPT ![c] = label]
RouterFree == routerLock = NoConn

\* conn.Write from a goroutine at its last point before it: accepted, or refused.
Written(c) == ~closed[c] /\ Put(c)
Refused(c) == StopSeen(c) /\ UNCHANGED outVars

-----------------------------------------------------------------------------
(* The listener: handleWebSocket, Accept and acceptLoop.                   *)

ListenerClosed == stopPc \in {"wait", "returned"}

Connect(c) == /\ hpc[c] = "unborn" /\ ~ListenerClosed
              /\ Goto(c, "backlog")
              /\ UNCHANGED <<outVars, inVars, tables, router, handler, life>>

\* handleWebSocket sees stopChan before there is room in connChan.
Discard(c) == /\ hpc[c] = "backlog" /\ ListenerClosed
              /\ CloseEnds({c})
              /\ Goto(c, "ended")
              /\ UNCHANGED <<inbox, tables, router, handler, life>>

\* acceptLoop looks at the context before every Accept.  A Cancel that comes
\* between this Accept and the next look is left to AcceptFails.
Accept(c) == /\ accepting /\ hpc[c] = "backlog"
             /\ accepting' = ~ctxDone
             /\ Goto(c, "await")
             /\ UNCHANGED <<outVars, inVars, tables, router, handler,
                            ctxDone, stopPc>>

AcceptFails == /\ accepting /\ ListenerClosed
               /\ accepting' = FALSE
               /\ UNCHANGED <<outVars, inVars, tables, router, hpc, handler,
                              ctxDone, stopPc>>

-----------------------------------------------------------------------------
(* handleConnection up to the message loop.                                *)

\* The first frame is a registration for a, or it is not one; nil is not.
\* Nobody closes a connection that has not registered, so Read does not fail.
AwaitRegistration(c, a) == /\ hpc[c] = "await" /\ ReadFrame(c)
                           /\ owner' = [owner EXCEPT ![c] = a]
                           /\ Goto(c, "register")
                           /\ UNCHANGED <<outVars, tables, router, dest, todo,
                                          failed, life>>

AwaitFails(c) == /\ hpc[c] = "await"
                 /\ ReadFrame(c) \/ ReadNil(c)
                 /\ Goto(c, "refuse")
                 /\ UNCHANGED <<outVars, tables, router, handler, life>>

Refuse(c) == /\ hpc[c] = "refuse"
             /\ Written(c) \/ Refused(c)
             /\ Goto(c, "close")
             /\ UNCHANGED <<inVars, tables, router, handler, life>>

\* registry.Register cannot fail: the id is not empty and the store is a map.
Register(c) == /\ hpc[c] = "register"
               /\ registered' = registered \cup {owner[c]}
               /\ Goto(c, "store")
               /\ UNCHANGED <<outVars, inVars, connections, table, router,
                              handler, life>>

StoreConnection(c) == /\ hpc[c] = "store"
                      /\ connections' = [connections EXCEPT ![owner[c]] = c]
                      /\ Goto(c, "routing")
                      /\ UNCHANGED <<outVars, inVars, registered, table, router,
                                     handler, life>>

\* Router.RegisterConnection: the queue is written under the router's lock.
RouterRegister(c) == /\ hpc[c] = "routing" /\ RouterFree
                     /\ routerLock' = c
                     /\ table' = [table EXCEPT ![owner[c]] = c]
                     /\ unsent' = queued[owner[c]]
                     /\ Goto(c, "deliver")
                     /\ UNCHANGED <<outVars, inVars, registered, connections,
                                    queued, handler, life>>

DeliverOne(c) == /\ hpc[c] = "deliver" /\ unsent > 0
                 /\ Written(c) \/ Refused(c)
                 /\ unsent' = unsent - 1
                 /\ UNCHANGED <<inVars, tables, queued, routerLock, hpc,
                                handler, life>>

DeliverDone(c) == /\ hpc[c] = "deliver" /\ unsent = 0
                  /\ queued' = [queued EXCEPT ![owner[c]] = 0]
                  /\ routerLock' = NoConn
                  /\ Goto(c, "greet")
                  /\ UNCHANGED <<outVars, inVars, tables, unsent, handler, life>>

Greet(c) == /\ hpc[c] = "greet"
            /\ Written(c) \/ Refused(c)
            /\ Goto(c, "loop")
            /\ UNCHANGED <<inVars, tables, router, handler, life>>

-----------------------------------------------------------------------------
(* handleMessages: the loop, Read and the requests.                        *)

LoopTop(c) == /\ hpc[c] = "loop"
              /\ Goto(c, IF ctxDone THEN "unregister" ELSE "read")
              /\ UNCHANGED <<outVars, inVars, tables, router, handler, life>>

ReadEnds(c) == /\ hpc[c] = "read" /\ ReadStopped(c)
               /\ Goto(c, "unregister")
               /\ UNCHANGED <<outVars, tables, router, handler, life>>

\* nil is no JSON: "invalid request".
\* Mutant: the handler ends, as if Read had returned an error.
ReadInvalid_Ends(c) == /\ hpc[c] = "read" /\ ReadNil(c)
                       /\ Goto(c, "unregister")
                       /\ UNCHANGED <<outVars, tables, router, handler, life>>
ReadInvalid(c) == /\ hpc[c] = "read" /\ ReadNil(c)
                  /\ Goto(c, "error")
                  /\ UNCHANGED <<outVars, tables, router, handler, life>>

ReadTo(c, label) == /\ hpc[c] = "read" /\ ReadFrame(c)
                    /\ Goto(c, label)
                    /\ UNCHANGED <<outVars, tables, router, handler, life>>

\* A frame that does not parse, or an unknown method.
ReadUnknown(c) == ReadTo(c, "error")

ReadQueryAgents(c) == ReadTo(c, "reply")

\* publish_todo does not reply; get_todos does; either may not parse.
ReadTodos(c) == \E label \in {"loop", "reply", "error"} : ReadTo(c, label)

\* UpdateHeartbeat and handleRename read the registry first, and fail without
\* an entry; a rename to an invalid name fails before that.
InRegistry(c, label) == IF owner[c] \in registered THEN label ELSE "error"
ReadHeartbeat(c) == ReadTo(c, InRegistry(c, "touch"))
ReadRename(c) == ReadTo(c, "error") \/ ReadTo(c, InRegistry(c, "rename"))

\* send_message and broadcast.
ReadSend(c, to) ==
  /\ hpc[c] = "read" /\ ReadFrame(c)
  /\ dest' = [dest EXCEPT ![c] = to]
  /\ Goto(c, "route")
  /\ UNCHANGED <<outVars, tables, router, owner, todo, failed, life>>

\* UpdateHeartbeat and handleRename write back what they read before; rename
\* goes on to broadcast the update, whose errors it ignores, and to reply.
WriteBack(c) ==
  /\ hpc[c] \in {"touch", "rename"}
  /\ registered' = registered \cup {owner[c]}
  /\ Goto(c, IF hpc[c] = "touch" THEN "loop" ELSE "route")
  /\ UNCHANGED <<outVars, inVars, connections, table, router, handler, life>>

\* NoAgent stands for the broadcast of a rename, Everyone for any other.
Broadcasts(c) == dest[c] \notin Agents

\* The locals of a routing call go out of scope.
Forgotten(c) == /\ dest' = [dest EXCEPT ![c] = NoAgent]
                /\ failed' = [failed EXCEPT ![c] = FALSE]
                /\ UNCHANGED <<owner, todo>>

Route(c) ==
  /\ hpc[c] = "route" /\ RouterFree
  /\ IF Broadcasts(c)
     THEN /\ todo' = [todo EXCEPT ![c] = {table[a] : a \in Agents} \ {NoConn}]
          /\ Goto(c, "write")
     ELSE IF table[dest[c]] = NoConn
     THEN Goto(c, "queue") /\ UNCHANGED todo
     ELSE /\ todo' = [todo EXCEPT ![c] = {table[dest[c]]}]
          /\ Goto(c, "write")
  /\ UNCHANGED <<outVars, inVars, tables, router, owner, dest, failed, life>>

QueueOffline(c) ==
  /\ hpc[c] = "queue" /\ RouterFree
  /\ IF queued[dest[c]] >= MaxOffline
     THEN Goto(c, "error") /\ UNCHANGED queued
     ELSE /\ queued' = [queued EXCEPT ![dest[c]] = @ + 1]
          /\ Goto(c, "loop")
  /\ Forgotten(c)
  /\ UNCHANGED <<outVars, inVars, tables, routerLock, unsent, life>>

SendOne(c, d) ==
  /\ hpc[c] = "write" /\ d \in todo[c]
  /\ \/ Written(d) /\ UNCHANGED failed
     \/ Refused(d) /\ failed' = [failed EXCEPT ![c] = TRUE]
  /\ todo' = [todo EXCEPT ![c] = @ \ {d}]
  /\ UNCHANGED <<inVars, tables, router, hpc, owner, dest, life>>

SendDone(c) == /\ hpc[c] = "write" /\ todo[c] = {}
               /\ Goto(c, CASE dest[c] = NoAgent -> "reply"
                            [] dest[c] # NoAgent /\ failed[c] -> "error"
                            [] OTHER -> "loop")
               /\ Forgotten(c)
               /\ UNCHANGED <<outVars, inVars, tables, router, life>>

\* A reply that is refused is reported by an error on the same connection.
Reply(c) == /\ hpc[c] = "reply"
            /\ \/ Written(c) /\ Goto(c, "loop")
               \/ Refused(c) /\ Goto(c, "error")
            /\ UNCHANGED <<inVars, tables, router, handler, life>>

SendError(c) == /\ hpc[c] = "error"
                /\ Written(c) \/ Refused(c)
                /\ Goto(c, "loop")
                /\ UNCHANGED <<inVars, tables, router, handler, life>>

-----------------------------------------------------------------------------
(* The deferred cleanup, which goes by agent id.                           *)

Unregister(c) == /\ hpc[c] = "unregister"
                 /\ registered' = registered \ {owner[c]}
                 /\ Goto(c, "forget")
                 /\ UNCHANGED <<outVars, inVars, connections, table, router,
                                handler, life>>

Forget(c) == /\ hpc[c] = "forget"
             /\ connections' = [connections EXCEPT ![owner[c]] = NoConn]
             /\ Goto(c, "unroute")
             /\ UNCHANGED <<outVars, inVars, registered, table, router,
                            handler, life>>

\* Mutant: the cleanup forgets the router.
Unrouted_Kept(c) == table
Unrouted(c) == [table EXCEPT ![owner[c]] = NoConn]

Unroute(c) == /\ hpc[c] = "unroute" /\ RouterFree
              /\ table' = Unrouted(c)
              /\ Goto(c, "close")
              /\ UNCHANGED <<outVars, inVars, registered, connections, router,
                             handler, life>>

\* conn.Close and the end of the goroutine (wg.Done).
End(c) == /\ hpc[c] = "close"
          /\ CloseEnds({c})
          /\ inbox' = [inbox EXCEPT ![c] = 0]
          /\ Goto(c, "ended")
          /\ UNCHANGED <<tables, router, handler, life>>

-----------------------------------------------------------------------------
(* Stop.                                                                   *)

Cancel == /\ stopPc = "idle"
          /\ ctxDone' = TRUE /\ stopPc' = "sweep"
          /\ UNCHANGED <<outVars, inVars, tables, router, hpc, handler, accepting>>

\* Under connMu: every connection of the map is closed, the map is emptied.
Sweep == /\ stopPc = "sweep"
         /\ CloseEnds({connections[a] : a \in Agents} \ {NoConn})
         /\ connections' = [a \in Agents |-> NoConn]
         /\ stopPc' = "listener"
         /\ UNCHANGED <<inbox, registered, table, router,
                        hpc, handler, ctxDone, accepting>>

CloseListener == /\ stopPc = "listener"
                 /\ stopPc' = "wait"
                 /\ UNCHANGED <<outVars, inVars, tables, router, hpc, handler,
                                ctxDone, accepting>>

Waited == /\ ~accepting
          /\ \A c \in Conns : hpc[c] \in {"unborn", "backlog", "ended"}

StopReturn == /\ stopPc = "wait" /\ Waited
              /\ stopPc' = "returned"
              /\ UNCHANGED <<outVars, inVars, tables, router, hpc, handler,
                             ctxDone, accepting>>

-----------------------------------------------------------------------------
Handle(c) ==
  \/ \E a \in Agents : AwaitRegistration(c, a)
  \/ AwaitFails(c) \/ Refuse(c) \/ Register(c) \/ StoreConnection(c)
  \/ RouterRegister(c) \/ DeliverOne(c) \/ DeliverDone(c) \/ Greet(c)
  \/ LoopTop(c) \/ ReadEnds(c) \/ ReadInvalid(c) \/ ReadUnknown(c)
  \/ ReadQueryAgents(c) \/ ReadTodos(c) \/ ReadHeartbeat(c) \/ ReadRename(c)
  \/ \E to \in Agents \cup {Everyone} : ReadSend(c, to)
  \/ WriteBack(c) \/ Route(c) \/ QueueOffline(c)
  \/ \E d \in Conns : SendOne(c, d)
  \/ SendDone(c) \/ Reply(c) \/ SendError(c)
  \/ Unregister(c) \/ Forget(c) \/ Unroute(c) \/ End(c)

AcceptLoop == AcceptFails \/ \E c \in Conns : Accept(c)

StopSteps == Sweep \/ CloseListener \/ StopReturn

others == <<tables, router, hpc, handler, life>>

Born(c) == hpc[c] # "unborn"

Loops(c) == /\ Born(c)
            /\ \/ Receive(c) \/ ReadLoopEnds(c)
               \/ WriteLoop(c) /\ UNCHANGED inVars
            /\ UNCHANGED others

Next == \/ \E c \in Conns : Connect(c) \/ Discard(c) \/ Handle(c) \/ Loops(c)
        \/ AcceptLoop
        \/ Cancel \/ StopSteps

Spec == Init /\ [][Next]_vars

(* Every goroutine that can run does; the loops of a connection are bound  *)
(* by their read and write deadlines.  No client has to connect, send or   *)
(* disconnect, and nobody has to call Stop.                                *)
ReadSide(c) == Born(c) /\ (Receive(c) \/ ReadLoopEnds(c)) /\ UNCHANGED others
WriteSide(c) == Born(c) /\ (Flush(c) \/ WriteFails(c)) /\ UNCHANGED <<inVars, others>>

Fairness == /\ \A c \in Conns : /\ WF_vars(Handle(c))
                                /\ WF_vars(ReadSide(c))
                                /\ WF_vars(WriteSide(c))
            /\ WF_vars(AcceptLoop) /\ WF_vars(StopSteps)

FairSpec == Spec /\ Fairness

-----------------------------------------------------------------------------
(* What the server must get right.                                         *)

(* When every connection that registered as an agent has been cleaned up,  *)
(* no table names the agent any more (the deferred cleanup, 200-212): not  *)
(* after a heartbeat or a rename wrote back a registry entry, not when     *)
(* registration, replacement, cleanup and Stop overlap.                    *)
NoGhostAgents ==
  \A a \in Agents :
    (\A c \in Conns : owner[c] = a => hpc[c] \in {"close", "ended"}) =>
       a \notin registered /\ connections[a] = NoConn /\ table[a] = NoConn

(* While Stop has not been called, the agent of a serving handler is in    *)
(* all three tables, under a connection that registered as this agent, and *)
(* under the handler's own if no other did.  A handler that is left over   *)
(* from an earlier connection would break this with its cleanup, which     *)
(* goes by agent id; it does not get there, because Read gives it no error *)
(* before Stop (see CleanupOnDisconnect).                                  *)
ServedAgentsReachable ==
  ~ctxDone => \A c \in Conns : hpc[c] \in Serving =>
    /\ owner[c] \in registered
    /\ \A entry \in {connections[owner[c]], table[owner[c]]} :
         /\ entry \in Conns /\ owner[entry] = owner[c]
         /\ (\A d \in Conns \ {c} : owner[d] # owner[c]) => entry = c

(* Stop returns (wg.Wait, 109): when it has not, somebody it waits for can *)
(* take a step, unless a connection has lost its writeLoop with a full     *)
(* writeChan and is not closed: a goroutine that writes to it is parked.   *)
(* After Stop nobody steps for ever, as a handler goes round its loop at   *)
(* most once; so this says that Stop returns, in a form TLC can check on   *)
(* an instance that is too large for liveness.                             *)
StopNeverStuck ==
  /\ ctxDone /\ stopPc # "returned"
  /\ \A c \in Conns : ~Stalled(c)
  => \/ ENABLED AcceptLoop \/ ENABLED StopSteps
     \/ \E c \in Conns : ENABLED (Handle(c) \/ ReadSide(c) \/ WriteSide(c))

(* server.go:201 says "Cleanup on disconnect": when readLoop has lost the  *)
(* peer, the agent's handler unregisters it and ends.                      *)
CleanupOnDisconnect ==
  \A c \in Conns : (hpc[c] \in Serving /\ readLoop[c] = "ended") ~> hpc[c] = "ended"
=============================================================================
