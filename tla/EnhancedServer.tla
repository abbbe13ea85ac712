--------------------------- MODULE EnhancedServer ---------------------------
(***************************************************************************)
(* pkg/server/enhanced.go with pkg/storage/sqlite/store.go: one handler    *)
(* goroutine per connection around the map `connections', the subscription *)
(* filter, and the SQLite tables that hold agents, messages and offline    *)
(* messages.                                                               *)
(*                                                                         *)
(* s.mu is Go's sync.RWMutex.  A goroutine that calls Lock announces       *)
(* itself and waits for the readers inside; from then on RLock waits, also *)
(* for a goroutine that already holds a read lock.  Sections that hold the *)
(* lock over no other lock and no map iteration are one step; the loops    *)
(* that hold it while shouldDeliver takes it again are several.            *)
(*                                                                         *)
(* Every store call is one step, a statement of its own in SQLite.         *)
(* Assumed: it fails once the server's context is cancelled and only then. *)
(* The code looks at no error when it saves an agent or saves, queues or   *)
(* deletes messages (119, 147, 259, 274, 329, 402, 429); a statement that  *)
(* failed alone, on a full disk or a busy database, would break what is    *)
(* said below: a message that is written and not deleted is written again, *)
(* one that is not saved is queued for nothing, an agent that is not saved *)
(* stays online.                                                           *)
(*                                                                         *)
(* Of the messages only the direct ones have an identity: of an event, a   *)
(* broadcast or an answer there is the write.                              *)
(*                                                                         *)
(* No write has a deadline.  To a peer that has stopped reading it blocks  *)
(* until the socket is closed, from either end, and returns an error then, *)
(* which nobody looks at.                                                  *)
(*                                                                         *)
(* The process may be killed, or started again after Stop, at any time: it *)
(* loses its memory and its connections and finds the tables as they were. *)
(***************************************************************************)
EXTENDS Naturals

CONSTANTS Agents, Conns, Msgs,
          MaxRestarts,  \* bound: processes after the first
          MayStall,     \* bound: connections whose peer may stop reading
          Filters,      \* bound: what a subscribe or unsubscribe may lead to
          NoConn, NoAgent, NoMsg, Stopper

ASSUME NullsAssumption == /\ NoConn \notin Conns /\ Stopper \notin Conns
                          /\ NoConn # Stopper
                          /\ NoAgent \notin Agents /\ NoMsg \notin Msgs
ASSUME BoundsAssumption == /\ MaxRestarts \in Nat /\ MayStall \subseteq Conns
                           /\ Filters \subseteq {"all", "direct", "other"}

VARIABLES
  announced,    \* the writer of s.mu, waiting or inside; NoConn if none
  readers,      \* handlers inside a read-locked loop
  connections,  \* the map, NoConn when an agent has no entry
  filter,       \* subscriptions of an agent: all (none made), direct or other
  status,       \* agents table: absent, online or offline
  sentTo,       \* the recipient in a message that was created, or NoAgent
  saved,        \* messages table
  offline,      \* offline_messages table: offline[a], the ids queued for a
  hpc,          \* program counter of the handler of a connection
  owner,        \* the agent id it registered
  batch,        \* what the running deliver or fetch still has to write
  scan,         \* connections the running loop has still to look at
  targets,      \* those it has collected, or the one its write blocks on
  msg,          \* the direct message in hand
  found,        \* the connection handleSendMessage looked up
  seen,         \* the status GetAgent returned
  open,         \* FALSE when the socket is closed, by the peer or by Close
  stalled,      \* connections whose peer reads no more: the buffers are full
  copies,       \* history: how often a message was written to a connection
  ctxDone, stopPc,
  restarts,     \* counts restarts, for the bound
  overlapped,   \* history: agents that had two handlers at once
  queued        \* history: messages that QueueOfflineMessage has stored

lockVars == <<announced, readers>>
memory == <<connections, filter>>
db == <<status, sentTo, saved, offline>>
locals == <<owner, batch, scan, targets, msg, found, seen>>
sockets == <<open, stalled>>
life == <<ctxDone, stopPc>>
history == <<restarts, overlapped, queued>>
vars == <<lockVars, memory, db, hpc, locals, sockets, copies, life, history>>

Serving == {"loop", "read", "check", "filter", "write", "enqueue", "touch", "rename",
            "subscribe", "subscribe wait", "fetch", "fetch send", "fetch clear",
            "reply", "notify", "scan", "notify renamed", "scan renamed",
            "broadcast", "collect", "spread"}
Entering == {"register", "register wait", "save", "greet", "deliver",
             "deliver send", "deliver clear"}
Over == {"unborn", "ended", "past"}
Leaving == {"leave", "leave wait", "mark offline", "notify left", "scan left", "close"}
Labels == {"unborn", "await", "ended", "past"} \cup Entering \cup Serving \cup Leaving

TypeOK == /\ announced \in Conns \cup {Stopper, NoConn}
          /\ readers \in SUBSET Conns
          /\ connections \in [Agents -> Conns \cup {NoConn}]
          /\ filter \in [Agents -> {"all", "direct", "other"}]
          /\ status \in [Agents -> {"absent", "online", "offline"}]
          /\ sentTo \in [Msgs -> Agents \cup {NoAgent}]
          /\ saved \in SUBSET Msgs
          /\ offline \in [Agents -> SUBSET Msgs]
          /\ hpc \in [Conns -> Labels]
          /\ owner \in [Conns -> Agents \cup {NoAgent}]
          /\ batch \in [Conns -> SUBSET Msgs]
          /\ scan \in [Conns -> SUBSET Conns]
          /\ targets \in [Conns -> SUBSET Conns]
          /\ msg \in [Conns -> Msgs \cup {NoMsg}]
          /\ found \in [Conns -> Conns \cup {NoConn}]
          /\ seen \in [Conns -> {"absent", "online", "offline"}]
          /\ open \in [Conns -> BOOLEAN]
          /\ stalled \subseteq MayStall
          /\ copies \in [Conns -> [Msgs -> 0 .. 2]]
          /\ ctxDone \in BOOLEAN
          /\ stopPc \in {"idle", "lock", "sweep", "wait", "returned"}
          /\ restarts \in 0 .. MaxRestarts
          /\ overlapped \subseteq Agents /\ queued \subseteq Msgs

Init == /\ announced = NoConn /\ readers = {}
        /\ connections = [a \in Agents |-> NoConn]
        /\ filter = [a \in Agents |-> "all"]
        /\ status = [a \in Agents |-> "absent"]
        /\ sentTo = [m \in Msgs |-> NoAgent]
        /\ saved = {}
        /\ offline = [a \in Agents |-> {}]
        /\ hpc = [c \in Conns |-> "unborn"]
        /\ owner = [c \in Conns |-> NoAgent]
        /\ batch = [c \in Conns |-> {}]
        /\ scan = [c \in Conns |-> {}]
        /\ targets = [c \in Conns |-> {}]
        /\ msg = [c \in Conns |-> NoMsg]
        /\ found = [c \in Conns |-> NoConn]
        /\ seen = [c \in Conns |-> "absent"]
        /\ open = [c \in Conns |-> TRUE] /\ stalled = {}
        /\ copies = [c \in Conns |-> [m \in Msgs |-> 0]]
        /\ ctxDone = FALSE /\ stopPc = "idle"
        /\ restarts = 0 /\ overlapped = {} /\ queued = {}

-----------------------------------------------------------------------------
(* The mutex.                                                              *)

Goto(c, label) == hpc' = [hpc EXCEPT ![c] = label]

CanRead == announced = NoConn
Announce(p) == announced = NoConn /\ announced' = p /\ UNCHANGED readers
\* Lock obtained, section run and Unlock: nobody else is inside.
Exclusive(p) == announced = p /\ readers = {} /\ announced' = NoConn /\ UNCHANGED readers

Lock(c) == \E op \in {"register", "subscribe", "leave"} :
             /\ hpc[c] = op /\ Announce(c)
             /\ Goto(c, CASE op = "register" -> "register wait"
                          [] op = "subscribe" -> "subscribe wait"
                          [] op = "leave" -> "leave wait")
             /\ UNCHANGED <<memory, db, locals, sockets, copies, life, history>>

-----------------------------------------------------------------------------
(* The statements on the agents and messages tables.                       *)

HasRow(a) == ~ctxDone /\ status[a] # "absent"
SaveAgent(a, st) == status' = IF ctxDone THEN status ELSE [status EXCEPT ![a] = st]
\* Mutant: the message is not saved while its recipient is not connected.
SaveMessage_IfOnline(m) == saved' = IF ctxDone \/ connections[sentTo'[m]] = NoConn
                                    THEN saved ELSE saved \cup {m}
SaveMessage(m) == saved' = IF ctxDone THEN saved ELSE saved \cup {m}

-----------------------------------------------------------------------------
(* handleWebSocket and handleConnection.                                   *)

\* The http server is never shut down: connections are accepted at any time.
Connect(c) == /\ hpc[c] = "unborn"
              /\ Goto(c, "await")
              /\ UNCHANGED <<lockVars, memory, db, locals, sockets, copies, life, history>>

Disconnect(c) == /\ hpc[c] \notin Over /\ open[c]
                 /\ open' = [open EXCEPT ![c] = FALSE]
                 /\ UNCHANGED <<lockVars, memory, db, hpc, locals, stalled, copies,
                                life, history>>

\* The peer stops reading and the buffers on the way to it fill up.  It may
\* go on making requests.  A peer that reads again has been slow, no more.
PeerStops(c) == /\ c \in MayStall \ stalled
                /\ hpc[c] \notin Over /\ open[c]
                /\ stalled' = stalled \cup {c}
                /\ UNCHANGED <<lockVars, memory, db, hpc, locals, open, copies,
                               life, history>>

\* WriteMessage returns: with the frame written, or with the error of a closed
\* socket.
Writable(d) == ~open[d] \/ d \notin stalled

Handled(a) == \E c \in Conns : owner[c] = a /\ hpc[c] \notin Over

AwaitRegistration(c, a) ==
  /\ hpc[c] = "await" /\ open[c]
  /\ owner' = [owner EXCEPT ![c] = a]
  /\ overlapped' = IF Handled(a) THEN overlapped \cup {a} ELSE overlapped
  /\ Goto(c, "register")
  /\ UNCHANGED <<lockVars, memory, db, batch, scan, targets, msg, found, seen,
                 sockets, copies, life, restarts, queued>>

\* No registration, or an invalid one: the connection is closed.  To a peer that
\* does not read the answer blocks: like a silent peer it keeps the handler here.
AwaitFails(c) == /\ hpc[c] = "await"
                 /\ Goto(c, "ended")
                 /\ open' = [open EXCEPT ![c] = FALSE]
                 /\ UNCHANGED <<lockVars, memory, db, locals, stalled, copies, life,
                                history>>

\* Mutant: a server that is stopping enters nobody.
Entered_Running(c) == IF ctxDone THEN connections
                      ELSE [connections EXCEPT ![owner[c]] = c]
Entered(c) == [connections EXCEPT ![owner[c]] = c]

Register(c) == /\ hpc[c] = "register wait" /\ Exclusive(c)
               /\ connections' = Entered(c)
               /\ Goto(c, "save")
               /\ UNCHANGED <<filter, db, locals, sockets, copies, life, history>>

\* SaveAgent(Status: online) and the agent_joined event.
SaveOnline(c) == /\ hpc[c] = "save"
                 /\ SaveAgent(owner[c], "online")
                 /\ Goto(c, "greet")
                 /\ UNCHANGED <<lockVars, memory, sentTo, saved, offline, locals, sockets,
                                copies, life, history>>

Greet(c) == /\ hpc[c] = "greet" /\ Writable(c)
            /\ Goto(c, "deliver")
            /\ UNCHANGED <<lockVars, memory, db, locals, sockets, copies, life, history>>

-----------------------------------------------------------------------------
(* deliverOfflineMessages and handleGetOfflineMessages: read the queue,    *)
(* write each message, delete the queue.  The join with the messages table *)
(* returns the queued messages that were saved.  On connect an empty       *)
(* result ends it; the request deletes all the same.                       *)

\* Mutant: the queue is read without the condition on the agent.
Queue_OfAll(a) == UNION {offline[b] : b \in Agents} \cap saved
Queue(a) == offline[a] \cap saved

GetOffline(c) ==
  /\ hpc[c] \in {"deliver", "fetch"}
  /\ batch' = [batch EXCEPT ![c] = IF ctxDone THEN {} ELSE Queue(owner[c])]
  /\ Goto(c, CASE hpc[c] = "deliver" /\ batch'[c] = {} -> "notify"
               [] hpc[c] = "deliver" /\ batch'[c] # {} -> "deliver send"
               [] hpc[c] = "fetch" /\ ctxDone -> "reply"
               [] OTHER -> "fetch send")
  /\ UNCHANGED <<lockVars, memory, db, owner, scan, targets, msg, found, seen,
                 sockets, copies, life, history>>

\* WriteMessage: an open socket gets the frame, the error of a closed one is dropped.
Deliver(d, m) == copies' = IF open[d] THEN [copies EXCEPT ![d][m] = @ + 1] ELSE copies

SendOffline(c, m) ==
  /\ hpc[c] \in {"deliver send", "fetch send"} /\ m \in batch[c]
  /\ Writable(c)
  /\ Deliver(c, m)
  /\ batch' = [batch EXCEPT ![c] = @ \ {m}]
  /\ UNCHANGED <<lockVars, memory, db, hpc, owner, scan, targets, msg, found, seen,
                 sockets, life, history>>

SendOfflineDone(c) ==
  /\ hpc[c] \in {"deliver send", "fetch send"} /\ batch[c] = {}
  /\ Goto(c, IF hpc[c] = "deliver send" THEN "deliver clear" ELSE "fetch clear")
  /\ UNCHANGED <<lockVars, memory, db, locals, sockets, copies, life, history>>

\* Mutant: nothing is deleted.
Cleared_Kept(a) == offline
\* Mutant: the delete has no condition on the agent.
Cleared_All(a) == [b \in Agents |-> {}]
Cleared(a) == [offline EXCEPT ![a] = {}]

ClearOffline(c) ==
  /\ hpc[c] \in {"deliver clear", "fetch clear"}
  /\ offline' = IF ctxDone THEN offline ELSE Cleared(owner[c])
  /\ Goto(c, IF hpc[c] = "deliver clear" THEN "notify" ELSE "reply")
  /\ UNCHANGED <<lockVars, memory, status, sentTo, saved, locals, sockets, copies,
                 life, history>>

-----------------------------------------------------------------------------
(* handleMessages: the loop and the requests.                              *)

\* At the top of the loop the context is looked at, then a frame is awaited.
LoopTop(c) == /\ hpc[c] = "loop"
              /\ Goto(c, IF ctxDone THEN "leave" ELSE "read")
              /\ UNCHANGED <<lockVars, memory, db, locals, sockets, copies, life, history>>

\* Mutant: the error of ReadMessage does not end the loop.
ReadEnds_Continues(c) == /\ hpc[c] = "read" /\ ~open[c]
                         /\ Goto(c, "loop")
                         /\ UNCHANGED <<lockVars, memory, db, locals, sockets, copies,
                                        life, history>>
ReadEnds(c) == /\ hpc[c] = "read" /\ ~open[c]
               /\ Goto(c, "leave")
               /\ UNCHANGED <<lockVars, memory, db, locals, sockets, copies, life, history>>

ReadTo(c, label) == /\ hpc[c] = "read" /\ open[c]
                    /\ Goto(c, label)
                    /\ UNCHANGED <<lockVars, memory, db, locals, sockets, copies,
                                   life, history>>

\* Requests that leave no trace here: query_agents, get_todos and errors are
\* answered, a send_message, broadcast or publish_todo whose parameters cannot
\* be read and a heartbeat without a row are not.
ReadLocal(c) == ReadTo(c, "reply") \/ ReadTo(c, "loop")
\* sendSuccess, sendError and sendResponse: the last thing a request does.
Reply(c) == /\ hpc[c] = "reply" /\ Writable(c)
            /\ Goto(c, "loop")
            /\ UNCHANGED <<lockVars, memory, db, locals, sockets, copies, life, history>>

ReadBroadcast(c) == ReadTo(c, "broadcast")
ReadPublishTodo(c) == ReadTo(c, "notify")
ReadSubscribe(c) == ReadTo(c, "subscribe")
ReadGetOffline(c) == ReadTo(c, "fetch")

\* heartbeat and rename begin with GetAgent and save back what it returned;
\* rename then broadcasts the update and answers.
ReadGetAgent(c) == /\ hpc[c] = "read" /\ open[c]
                   /\ HasRow(owner[c])
                   /\ seen' = [seen EXCEPT ![c] = status[owner[c]]]
                   /\ \E op \in {"touch", "rename"} : Goto(c, op)
                   /\ UNCHANGED <<lockVars, memory, db, owner, batch, scan, targets, msg,
                                  found, sockets, copies, life, history>>

SaveBack(c) == /\ hpc[c] \in {"touch", "rename"}
               /\ SaveAgent(owner[c], seen[c])
               /\ seen' = [seen EXCEPT ![c] = "absent"]
               /\ Goto(c, IF hpc[c] = "touch" THEN "loop" ELSE "notify renamed")
               /\ UNCHANGED <<lockVars, memory, sentTo, saved, offline, owner, batch,
                              scan, targets, msg, found, sockets, copies, life, history>>

\* subscribe and unsubscribe: afterwards the agent has no subscriptions, some
\* with direct messages among them, or others.
Subscribe(c) == /\ hpc[c] = "subscribe wait" /\ Exclusive(c)
                /\ \E f \in Filters :
                     filter' = [filter EXCEPT ![owner[c]] = f]
                /\ Goto(c, "reply")
                /\ UNCHANGED <<connections, db, locals, sockets, copies, life, history>>

\* handleSendMessage: SaveMessage, look up, filter, write or queue.
ReadSend(c, m, a) ==
  /\ hpc[c] = "read" /\ open[c] /\ sentTo[m] = NoAgent
  /\ sentTo' = [sentTo EXCEPT ![m] = a]
  /\ msg' = [msg EXCEPT ![c] = m]
  /\ SaveMessage(m)
  /\ Goto(c, "check")
  /\ UNCHANGED <<lockVars, memory, status, offline, owner, batch, scan, targets, found,
                 seen, sockets, copies, life, history>>

To(c) == sentTo[msg[c]]

CheckOnline(c) ==
  /\ hpc[c] = "check" /\ CanRead
  /\ found' = [found EXCEPT ![c] = connections[To(c)]]
  /\ Goto(c, IF connections[To(c)] = NoConn THEN "enqueue" ELSE "filter")
  /\ UNCHANGED <<lockVars, memory, db, owner, batch, scan, targets, msg, seen,
                 sockets, copies, life, history>>

\* The locals of the request go out of scope.
Dropped(c) == /\ msg' = [msg EXCEPT ![c] = NoMsg]
              /\ found' = [found EXCEPT ![c] = NoConn]
              /\ UNCHANGED <<owner, batch, scan, targets, seen>>

\* shouldDeliver; a message that is filtered out is not queued either.
CheckFilter(c) ==
  /\ hpc[c] = "filter" /\ CanRead
  /\ IF filter[To(c)] = "other"
     THEN Goto(c, "loop") /\ Dropped(c)
     ELSE Goto(c, "write") /\ UNCHANGED locals
  /\ UNCHANGED <<lockVars, memory, db, sockets, copies, life, history>>

WriteDirect(c) ==
  /\ hpc[c] = "write" /\ Writable(found[c])
  /\ Deliver(found[c], msg[c])
  /\ Goto(c, "loop") /\ Dropped(c)
  /\ UNCHANGED <<lockVars, memory, db, sockets, life, history>>

QueueOffline(c) ==
  /\ hpc[c] = "enqueue"
  /\ IF ctxDone
     THEN UNCHANGED <<offline, queued>>
     ELSE /\ offline' = [offline EXCEPT ![To(c)] = @ \cup {msg[c]}]
          /\ queued' = queued \cup {msg[c]}
  /\ Goto(c, "loop") /\ Dropped(c)
  /\ UNCHANGED <<lockVars, memory, status, sentTo, saved, sockets, copies, life,
                 restarts, overlapped>>

-----------------------------------------------------------------------------
(* The loops over the map.  broadcastToSubscribers writes to each entry     *)
(* that shouldDeliver lets through, handleBroadcast collects them and      *)
(* writes after RUnlock.  The outer read lock is held while shouldDeliver  *)
(* takes the inner one, and in the first loop during each write: what the  *)
(* peer does between the inner RUnlock and a write it might do before.     *)

EventLoops == {"scan", "scan renamed", "scan left"}
Loops == EventLoops \cup {"collect"}

LoopOf == [op \in {"notify", "notify renamed", "notify left", "broadcast"} |->
             CASE op = "notify" -> "scan"
               [] op = "notify renamed" -> "scan renamed"
               [] op = "notify left" -> "scan left"
               [] op = "broadcast" -> "collect"]

\* A broadcast does not ask for its sender.
Skipped(c) == IF hpc[c] = "broadcast" THEN {owner[c]} ELSE {}

ScanStart(c) ==
  /\ hpc[c] \in DOMAIN LoopOf /\ CanRead
  /\ readers' = readers \cup {c}
  /\ scan' = [scan EXCEPT ![c] =
                {connections[a] : a \in Agents \ Skipped(c)} \ {NoConn}]
  /\ Goto(c, LoopOf[hpc[c]])
  /\ UNCHANGED <<announced, memory, db, owner, batch, targets, msg, found, seen,
                 sockets, copies, life, history>>

\* WriteMessage in a loop: it returns, or the loop stays with this connection.
EventTo(c, d) == targets' = IF Writable(d) THEN targets
                            ELSE [targets EXCEPT ![c] = {d}]

\* shouldDeliver of the next entry, yes if its agent has subscribed to nothing,
\* else whether to this type; then the entry is written to or collected.
ScanOne(c) ==
  /\ hpc[c] \in Loops /\ CanRead
  /\ hpc[c] \in EventLoops => targets[c] = {}
  /\ \E d \in scan[c] :
       /\ scan' = [scan EXCEPT ![c] = @ \ {d}]
       /\ \/ hpc[c] \in EventLoops /\ EventTo(c, d)
          \/ hpc[c] = "collect" /\ targets' = [targets EXCEPT ![c] = @ \cup {d}]
          \/ filter[owner[d]] # "all" /\ UNCHANGED targets
  /\ UNCHANGED <<lockVars, memory, db, hpc, owner, batch, msg, found, seen,
                 sockets, copies, life, history>>

\* Mutant: the read lock is not released.
ScanEnd_Locked(c) ==
  /\ hpc[c] \in EventLoops /\ scan[c] = {} /\ targets[c] = {}
  /\ Goto(c, CASE hpc[c] = "scan" -> "loop"
               [] hpc[c] = "scan renamed" -> "reply"
               [] hpc[c] = "scan left" -> "close")
  /\ UNCHANGED <<lockVars, memory, db, locals, sockets, copies, life, history>>
ScanEnd(c) ==
  /\ hpc[c] \in EventLoops /\ scan[c] = {} /\ targets[c] = {}
  /\ readers' = readers \ {c}
  /\ Goto(c, CASE hpc[c] = "scan" -> "loop"
               [] hpc[c] = "scan renamed" -> "reply"
               [] hpc[c] = "scan left" -> "close")
  /\ UNCHANGED <<announced, memory, db, locals, sockets, copies, life, history>>

\* conns is complete: RUnlock, and now they are written to.
CollectEnd(c) ==
  /\ hpc[c] = "collect" /\ scan[c] = {}
  /\ readers' = readers \ {c}
  /\ scan' = [scan EXCEPT ![c] = targets[c]]
  /\ targets' = [targets EXCEPT ![c] = {}]
  /\ Goto(c, "spread")
  /\ UNCHANGED <<announced, memory, db, owner, batch, msg, found, seen,
                 sockets, copies, life, history>>

SpreadOne(c) ==
  /\ hpc[c] = "spread" /\ targets[c] = {}
  /\ \E d \in scan[c] : scan' = [scan EXCEPT ![c] = @ \ {d}] /\ EventTo(c, d)
  /\ UNCHANGED <<lockVars, memory, db, hpc, owner, batch, msg, found, seen,
                 sockets, copies, life, history>>

SpreadEnd(c) ==
  /\ hpc[c] = "spread" /\ scan[c] = {} /\ targets[c] = {}
  /\ Goto(c, "loop")
  /\ UNCHANGED <<lockVars, memory, db, locals, sockets, copies, life, history>>

\* A write that has blocked returns when the socket is closed.
WriteEvent(c) ==
  /\ hpc[c] \in EventLoops \cup {"spread"}
  /\ \E d \in targets[c] : /\ Writable(d)
                           /\ targets' = [targets EXCEPT ![c] = @ \ {d}]
  /\ UNCHANGED <<lockVars, memory, db, hpc, owner, batch, scan, msg, found, seen,
                 sockets, copies, life, history>>

-----------------------------------------------------------------------------
(* The deferred cleanup: by agent id, whichever connection it holds.       *)

Leave(c) == /\ hpc[c] = "leave wait" /\ Exclusive(c)
            /\ connections' = [connections EXCEPT ![owner[c]] = NoConn]
            /\ Goto(c, "mark offline")
            /\ UNCHANGED <<filter, db, locals, sockets, copies, life, history>>

\* Mutant: the cleanup saves the agent as it read it.
Gone_Kept(a) == status[a]
Gone(a) == "offline"

\* GetAgent only decides whether there is a row to save; rows are never deleted.
MarkOffline(c) ==
  /\ hpc[c] = "mark offline"
  /\ IF HasRow(owner[c]) THEN SaveAgent(owner[c], Gone(owner[c])) ELSE UNCHANGED status
  /\ Goto(c, "notify left")
  /\ UNCHANGED <<lockVars, memory, sentTo, saved, offline, locals, sockets, copies,
                 life, history>>

CloseConn(c) == /\ hpc[c] = "close"
                /\ open' = [open EXCEPT ![c] = FALSE]
                /\ Goto(c, "ended")
                /\ UNCHANGED <<lockVars, memory, db, locals, stalled, copies, life,
                               history>>

-----------------------------------------------------------------------------
(* Stop.                                                                   *)

Cancel == /\ stopPc = "idle"
          /\ ctxDone' = TRUE /\ stopPc' = "lock"
          /\ UNCHANGED <<lockVars, memory, db, hpc, locals, sockets, copies, history>>

StopLock == /\ stopPc = "lock" /\ Announce(Stopper)
            /\ stopPc' = "sweep"
            /\ UNCHANGED <<memory, db, hpc, locals, sockets, copies, ctxDone, history>>

StopSweep == /\ stopPc = "sweep" /\ Exclusive(Stopper)
             /\ open' = [c \in Conns |-> open[c] /\ \A a \in Agents : connections[a] # c]
             /\ stopPc' = "wait"
             /\ UNCHANGED <<memory, db, hpc, locals, stalled, copies, ctxDone,
                            history>>

StopReturn == /\ stopPc = "wait"
              /\ \A c \in Conns : hpc[c] \in Over
              /\ stopPc' = "returned"
              /\ UNCHANGED <<lockVars, memory, db, hpc, locals, sockets, copies,
                             ctxDone, history>>

-----------------------------------------------------------------------------
(* NewEnhancedServer on the database of a process that was killed, or that *)
(* has been stopped.  A statement of a killed process was done or was not. *)

Restart ==
  /\ restarts < MaxRestarts /\ restarts' = restarts + 1
  /\ announced' = NoConn /\ readers' = {}
  /\ connections' = [a \in Agents |-> NoConn]
  /\ filter' = [a \in Agents |-> "all"]
  /\ hpc' = [c \in Conns |-> IF hpc[c] = "unborn" THEN "unborn" ELSE "past"]
  /\ batch' = [c \in Conns |-> {}]
  /\ scan' = [c \in Conns |-> {}] /\ targets' = [c \in Conns |-> {}]
  /\ msg' = [c \in Conns |-> NoMsg] /\ found' = [c \in Conns |-> NoConn]
  /\ seen' = [c \in Conns |-> "absent"]
  /\ open' = [c \in Conns |-> hpc[c] = "unborn"] /\ stalled' = {}
  /\ ctxDone' = FALSE /\ stopPc' = "idle"
  /\ UNCHANGED <<db, owner, copies, overlapped, queued>>

-----------------------------------------------------------------------------
\* What a handler does without waiting for a request; it may wait for a peer to
\* read.
Handle(c) ==
  \/ Lock(c) \/ Register(c) \/ SaveOnline(c) \/ Greet(c)
  \/ GetOffline(c) \/ (\E m \in Msgs : SendOffline(c, m))
  \/ SendOfflineDone(c) \/ ClearOffline(c)
  \/ LoopTop(c) \/ ReadEnds(c) \/ SaveBack(c) \/ Subscribe(c) \/ Reply(c)
  \/ CheckOnline(c) \/ CheckFilter(c) \/ WriteDirect(c) \/ QueueOffline(c)
  \/ ScanStart(c) \/ ScanOne(c) \/ ScanEnd(c)
  \/ CollectEnd(c) \/ SpreadOne(c) \/ SpreadEnd(c) \/ WriteEvent(c)
  \/ Leave(c) \/ MarkOffline(c) \/ CloseConn(c)

Client(c) ==
  \/ Connect(c) \/ Disconnect(c) \/ PeerStops(c) \/ AwaitFails(c)
  \/ \E a \in Agents : AwaitRegistration(c, a)
  \/ ReadLocal(c) \/ ReadBroadcast(c) \/ ReadPublishTodo(c) \/ ReadSubscribe(c)
  \/ ReadGetOffline(c) \/ ReadGetAgent(c)
  \/ \E m \in Msgs, a \in Agents : ReadSend(c, m, a)

StopSteps == StopLock \/ StopSweep \/ StopReturn

Next == \/ \E c \in Conns : Handle(c) \/ Client(c)
        \/ Cancel \/ StopSteps \/ Restart

Spec == Init /\ [][Next]_vars

(* Goroutines that can run do; Go's mutex does not let one waiter starve,  *)
(* hence strong fairness.  Clients do what they like; in particular no     *)
(* fairness makes a peer read or close its socket, so a write that blocks  *)
(* may block for ever.                                                     *)
FairSpec == Spec /\ (\A c \in Conns : SF_vars(Handle(c))) /\ SF_vars(StopSteps)

-----------------------------------------------------------------------------
(* What the server must get right.                                         *)

(* A connection gets a message at most once, whatever of the direct write, *)
(* the delivery on connect and get_offline_messages takes it there, as     *)
(* long as no delete fails alone (402, 429).                               *)
AtMostOncePerConnection == \A c \in Conns, m \in Msgs : copies[c][m] <= 1

(* Only the recipient's connections get a direct message.  Queued messages *)
(* are found by the join of two tables (store.go:193-199), written ones by *)
(* a connection looked up before.                                          *)
OnlyToRecipient ==
  \A c \in Conns, m \in Msgs : copies[c][m] > 0 => owner[c] = sentTo[m]

(* When the last handler of an agent has ended in a server that has not    *)
(* been stopped, the agents table says offline: no registration, heartbeat *)
(* or rename (Get, then Save of what was read) has the last word, nor what *)
(* a killed process left of the agent.                                     *)
GoneIsOffline ==
  ~ctxDone => \A a \in Agents :
    /\ \E c \in Conns : owner[c] = a /\ hpc[c] = "ended"
    /\ ~Handled(a)
    => status[a] # "online"

(* A message that is queued is put in both tables that GetOfflineMessages  *)
(* joins (store.go:193-199), and what they hold leaves them only where a   *)
(* handler of its recipient has gone through the queue and deletes it:     *)
(* over Stop, a crash between any two statements and a restart, whoever    *)
(* else connects, sends or asks for messages.                              *)
QueuedIsKept ==
  [][\A m \in queued' :
       \/ m \in saved' \cap offline'[sentTo'[m]]
       \/ m \in queued /\ m \notin saved \cap offline[sentTo[m]]
       \/ \E c \in Conns : /\ owner[c] = sentTo[m]
                          /\ hpc[c] \in {"deliver clear", "fetch clear"}
                          /\ hpc'[c] \in {"notify", "reply"}]_vars

(* An agent that never had two handlers at once is found by the senders    *)
(* under the connection it is served on, so its messages are not queued    *)
(* (enhanced.go:107 and 141): no cleanup of an earlier connection and no   *)
(* restart takes the entry away.                                           *)
ServedAloneIsReachable ==
  \A c \in Conns :
    hpc[c] \in Serving /\ owner[c] \notin overlapped => connections[owner[c]] = c

\* The connections the next step of a handler writes to.
WritesTo(c) ==
  CASE hpc[c] \in {"greet", "reply"} -> {c}
    [] hpc[c] \in {"deliver send", "fetch send"} -> IF batch[c] = {} THEN {} ELSE {c}
    [] hpc[c] = "write" -> {found[c]}
    [] hpc[c] \in EventLoops \cup {"spread"} -> targets[c]
    [] OTHER -> {}

\* A handler inside a write to a peer that does not read.
Parked(c) == \E d \in WritesTo(c) : ~Writable(d)

\* A loop about to take the read lock of shouldDeliver inside its own.
AtInnerLock(c) == scan[c] # {} /\ (hpc[c] = "collect" \/ targets[c] = {})

\* A writer waits for a reader that waits for the writer.
Deadlocked == announced # NoConn /\ \E c \in readers : AtInnerLock(c)

\* The goroutines inside the mutex that can go on although a writer waits.
CanTake(c) == /\ announced = c /\ readers = {}
              /\ hpc[c] \in {"register wait", "subscribe wait", "leave wait"}
CanSweep == announced = Stopper /\ readers = {} /\ stopPc = "sweep"
CanFinish(c) == /\ c \in readers /\ hpc[c] \in Loops
                /\ scan[c] = {} /\ (hpc[c] = "collect" \/ targets[c] = {})
CanWrite(c) == /\ c \in readers /\ hpc[c] \in EventLoops
               /\ \E d \in targets[c] : Writable(d)

(* Whoever waits for the mutex waits for a goroutine that can go on, save  *)
(* for two ways to be stuck: a loop at its second read lock behind the     *)
(* writer (enhanced.go:434 inside 296 and 449), and a loop that writes     *)
(* under the read lock to a peer that does not read (452).  Otherwise      *)
(* every Lock of the handlers and of Stop is given up again, every loop    *)
(* leaves its read lock, and a connection that ends, or whose agent has    *)
(* another handler, takes neither with it (78, 107, 140, 214, 236).        *)
MutexIsReleased ==
  /\ announced # NoConn =>
       \/ CanSweep
       \/ \E c \in Conns : CanTake(c) \/ CanFinish(c) \/ CanWrite(c)
       \/ Deadlocked
       \/ \E c \in readers : Parked(c)
  /\ \A c \in readers : hpc[c] \in Loops

(* A handler whose socket is closed cleans up and ends, unless a second    *)
(* read lock behind a writer deadlocks the mutex, or, from some time on, a *)
(* peer that does not read always holds up the handler itself (270, 307,   *)
(* 452) or a loop that has the read lock (452).                            *)
DisconnectEndsHandler ==
  \A c \in Conns :
    (hpc[c] \in Serving /\ ~open[c])
      ~> (\/ hpc[c] = "ended" \/ Deadlocked
          \/ [](\E d \in readers \cup {c} : Parked(d)))

(* cmd/extended_tests/main.go:413-416 requires of every concurrent client, *)
(* which keeps its connection open, that its registration is answered.     *)
RegistrationAnswered ==
  \A c \in Conns : hpc[c] = "register" ~> (hpc[c] \notin Entering \/ ctxDone \/ ~open[c])

(* README.md:17 says "Messages delivered when agents reconnect": a message *)
(* leaves the offline queue only when it was written to a connection of    *)
(* the agent.                                                              *)
QueuedUntilDelivered ==
  [][\A a \in Agents : \A m \in offline[a] \ offline'[a] :
       \E c \in Conns : owner[c] = a /\ copies[c][m] > 0]_vars

-----------------------------------------------------------------------------
(* The server implements DurableMailbox.  A queued message waits as long   *)
(* as the join of the two tables returns it.                               *)

InSomeHand(m) == \E c \in Conns : msg[c] = m
Sent(m) == sentTo[m] # NoAgent

Phase(m) ==
  CASE ~Sent(m) -> "unsent"
    [] Sent(m) /\ InSomeHand(m) -> "travelling"
    [] Sent(m) /\ ~InSomeHand(m) /\ m \in queued ->
         IF m \in Queue(sentTo[m]) THEN "waiting" ELSE "released"
    [] OTHER -> "settled"

Abstract == INSTANCE DurableMailbox WITH
  phase <- [m \in Msgs |-> Phase(m)], dest <- sentTo,
  left <- {c \in Conns : hpc[c] \in {"ended", "past"}}

(* Every step of the server, crashes and restarts included, is one step of *)
(* the durable mailbox or none: a message that was queued leaves the queue *)
(* only while a connection of its recipient is being served, one that was  *)
(* dropped or written directly is never written again, and no connection   *)
(* gets anything twice or what is for another agent (enhanced.go:245-278,  *)
(* 389-431).                                                               *)
ImplementsDurableMailbox == Abstract!Spec
=============================================================================
