# Multi-agent chat MCP in TLA+

The repository is a chat service for agents: an agent keeps one websocket
connection to a server, registers under an id, and then sends direct messages,
broadcasts, todo lists and heartbeats; messages for an agent that is not
connected wait for it. There are two servers, a standard one with tables in
memory (`pkg/server/server.go`) and an enhanced one over SQLite
(`pkg/server/enhanced.go`), a client library and a bridge for Claude Code.

All the difficulty is in the goroutines: each connection has a reader, a writer
and a handler, the handlers share a router, a registry and maps under mutexes,
and any of them can be parked in a channel operation when another one closes
the connection or stops the server. This directory models those interleavings,
checks them with TLC and proves some of the results with TLAPS.

## Components

| component | state | operations | interacts by |
|---|---|---|---|
| websocket transport (`pkg/transport/websocket`) | `readChan`, `writeChan`, `stopChan`, `closed` per connection; `connChan`, `stopped` of the listener | Read, Write, Close, readLoop, writeLoop; handleWebSocket, Accept, Close | channels to the handler; Close from any goroutine |
| router (`pkg/messaging/router.go`) | `conns`, `offlineQ` under one RWMutex | Route, RegisterConnection, UnregisterConnection | called by every handler; writes to connections |
| standard server (`pkg/server/server.go`) | `connections` under `connMu`, a context, a wait group | acceptLoop, handleConnection, handleMessages and its requests, Stop | router, registry, task board, transport |
| registry (`pkg/registry`) | agent store, capability index, heartbeats, each under its own mutex | Register, Unregister, UpdateHeartbeat, UpdateStatus, CheckStaleAgents; Query, GetByCapability | called by the handlers |
| enhanced server (`pkg/server/enhanced.go`) | `connections`, `subscribers` under one RWMutex | handleConnection, handleMessages and its requests, Stop | the SQLite store; writes to the sockets directly |
| SQLite store (`pkg/storage/sqlite`) | tables agents, messages, offline_messages, subscriptions, events, task states | one statement per operation | called by the enhanced server |
| task board (`pkg/taskboard`) | todo lists per agent, subscribers under a mutex; CRDT and vector clock are values | Publish, Get, GetAll, Subscribe, Unsubscribe; Merge, Increment, Compare | called by the standard server; calls its subscribers and the pub/sub |
| in-memory pub/sub (`pkg/pubsub/memory`) | handlers per event type under a mutex | Publish, Subscribe, Unsubscribe | called by the task board |
| agent client (`pkg/client`) | connection, two goroutines, stopChan, handlers | Connect, requests, readLoop, heartbeatLoop, Disconnect | the wire protocol, over the transport |
| Claude bridge (`pkg/claudebridge`) | socket, context, a channel of messages | Connect, requests, readLoop, Disconnect | the wire protocol, on the websocket library itself |
| identity, message types, utilities, memory stores, interfaces, commands | values and maps | | |

What makes each of them correct:

- *transport*: a writer never waits on a connection that is closed; a frame
  enters at most one buffer, once; a lost peer is noticed.
- *router*: a message reaches its addressee at most once and nobody else, in the
  order its sender created it; queues are bounded; a nil result means something;
  a call returns.
- *standard server*: the three tables an agent is entered in agree with the
  handlers that serve it; the cleanup leaves nothing behind; Stop returns.
- *enhanced server*: a queued message is kept until it is delivered and is not
  duplicated, over Stop, a crash and a restart; an agent is found under the
  connection it is served on; the agents table tells who is online; the mutex
  is given up again, but for two ways to be stuck that the code has.
- *registry*: index, heartbeats and store agree.
- *client*: a successful Connect was confirmed, a failed one leaves nothing
  open; calls and Disconnect return; no handler runs afterwards.
- *bridge*: the application gets what the server wrote, whole and in order, and
  next to nothing after Disconnect; its goroutine ends.
- *task board*: a subscriber is never left behind the store, and one that has
  left is left alone; the merge keeps the newest version of each item, sorted.

The hazards, with the line where each one bites and the property that covers it,
are listed under `hazards` in PROJECT.json.

## Modules

`WsOutbound` is the outgoing half of a connection: the `closed` flag, the number
of frames in `writeChan` and `writeLoop`. `Put`, `StopSeen` are the two cases of
the select in Write, `CloseAll` is Close, `Flush`, `WriteFails`, `PingFails` the
cases of `writeLoop`. A Close at once empties `writeChan` and ends `writeLoop`;
the code does that a moment later, but what happens to the frames in between is
not visible to anybody. `Stalled(c)` is the state the code can get stuck in:
`writeLoop` has ended on a write error, nobody has closed the connection, and
`writeChan` is full.

`WsInbound` adds the incoming half: `readLoop`, `readChan` and the three
outcomes of Read, of which `ReadNil` is the closed `readChan`.

`Router` is `router.go`. A message names the call of Route that carries it:
`pc[m]` is that call's program counter, and `From[m]` the goroutine that makes
it, which runs one call at a time. The look-up, the queueing and each half of a
Write are separate steps, because the code holds no lock across them;
`RegisterConnection` keeps `lock` through all of `deliverQueued`, whose sends
may block, and everything else that needs the mutex waits for it. `stream[c]`
is a history variable, what Write accepted on `c`. `earlier[m]` is the order of
the timestamps.

`Mailbox` is what the router promises: a message is unsent, travelling, waiting
or settled, a direct one is handed to a connection of its addressee at most
once. `Router!ImplementsMailbox` is the refinement, with the phase computed from
the program counter, the targets and the queue.

`StandardServer` is `server.go` with the listener: one program counter per
connection from `handleWebSocket` to the end of its handler, the three tables,
the router in a coarser form (a queue is its length, Write is one step), and
Stop in its four steps. A frame has no content; the handler chooses what it asks
for when it reads it. Only whether an agent is in the registry is kept; what the
registry does inside its operations is `Registry`.

`EnhancedServer` is `enhanced.go` with the tables of `store.go` it uses. Its
RWMutex is Go's: a writer announces itself, waits for the readers inside, and
makes every later RLock wait, that of a goroutine that already reads included.
Direct messages have an identity; events, broadcasts and answers are the writes
of their loops. No write has a deadline: `PeerStops` puts a connection into
`stalled`, and from then on every write to it blocks until its socket is closed
(`Writable`). A loop that is in such a write keeps the connection in `targets`
(`EventTo`, `WriteEvent`), and broadcastToSubscribers keeps its read lock;
handleBroadcast collects its connections in `targets`, lets go of the lock and
writes then (`CollectEnd`, `SpreadOne`). A subscription is the one thing the
filter asks: none, one that lets direct messages through, one that does not.
Each SQL statement is a step. It is assumed to fail once the server's context is
cancelled and only then: the code looks at no error of SaveAgent, SaveMessage,
QueueOfflineMessage and ClearOfflineMessages (119, 147, 259, 274, 329, 402, 429),
and a delete that failed alone would have its messages delivered again, a save
would lose one that is queued afterwards. `Restart` is a new process on the
database of one that was killed at any point, or stopped: what is in memory and
the connections are gone (`past`), the tables are as they were. `queued` and
`overlapped` are history variables, the messages QueueOfflineMessage has stored
and the agents that had two handlers at once.

`DurableMailbox` is what that server promises of a direct message: it is unsent,
travelling (in the hand of its sender's handler), waiting (as long as the join
of the two tables returns it), released (deleted from the queue, perhaps while a
batch with it is still being written) or settled. Only a connection of the
recipient that is still there releases it (`left` are the others), no connection
is given it twice, nobody else gets it, and a crash settles what travels, keeps
what waits and takes connections away. `EnhancedServer!Phase`
computes the phase from the tables and the hands, and `ImplementsDurableMailbox`
is the refinement: `Restart` is Crash, `ClearOffline` is Release, `SendOffline`
is Forward, what a handler lets go of is Hand or Settle, the end of a handler is
Part, and the rest stutters.

`AgentClient` is `client.go` over `WsInbound`: Connect step by step, readLoop,
heartbeatLoop, the callers of the application and Disconnect, with the server
end reduced to what it may write for what it reads. A call is `query` (writes a
request and takes the next frame from `readChan`, which readLoop reads too),
`rename` (answered always) or `tell` (answered by errors only). A frame is what
it is about and what its `success` field says. That the queue may be sent before
the registration is confirmed is `RouterRegister` before `Greet` of
`StandardServer`.

`Registry` is `service.go` of the registry with its three mutexes: an operation
of a goroutine is a sequence of the sections under one of them, and operations
interleave there. `store` is the entry of each agent, `index[cap][a]` how often
an agent is in the list of a capability, `beats` whether its heartbeat is fresh.
`clashed` is a history variable: the agents two operations were at work on at
once. Query with AgentFilter.Match and GetByCapability are operators on the
state. CheckStaleAgents is there section by section: the look at the times under
one mutex, and for each stale agent a Get, a Set and their error.

`ClaudeBridge` is `client.go` of the bridge: Connect in five steps, readLoop with
the frame in its hand, the channel `messages`, the application that takes from
it or does not, and Disconnect, which cancels, closes and waits for nobody. A
frame is its number in the order the server wrote it. The socket is the
library's: a read takes what lies in the buffer also after a close, a write to a
lost peer may go unnoticed, and the frames on the way may be lost with the peer.

`TaskBoard` is `service.go` of the task board with the pub/sub under it: Publish
stores, copies the subscribers under the lock, calls them one by one outside it,
and does the same with the listeners of the pub/sub; subscriptions come and go
meanwhile. A handler remembers what it was told (`known`). `due`, `gone` and
`clashed` are history variables, from which the properties take what a handler
is owed. PubSub.Unsubscribe compares the addresses of two local variables and
removes nobody, and so does `PubSubUnsubscribe`.

`TodoMerge` has the items with the edits of `messaging/types.go`, and CRDT.Merge
on lists as functions from ids to items; `TodoLists` has Merge on slices as the
code runs it: the two loops over a map, the map in any order, the exchange sort,
each loop a recursive function of its turns; and a definition of the result to
compare with. `VectorClock` has the clock.

`MCRouter`, `MCStandardServer`, `MCEnhancedServer`, `MCClients` and `MCServices`
give the constants their values for TLC; `RouterProofs`, `StandardServerProofs`,
`EnhancedProofs`, `RegistryProofs`, `ClientProofs`, `BridgeProofs`,
`TaskBoardProofs` and `TodoProofs` hold the proofs.

`MCClients` and `MCServices` put side by side components that share nothing: the
two client libraries, and the registry, the task board and the merge. `library`
and `service` choose in the initial state whose behaviour it is, the others stay
as they start, so the state space is the sum and not the product, and each
component is checked exactly as it would be alone. `MCServices` adds `silent`,
what NoErrorMeansMarked remembers of a running CheckStaleAgents.

The correspondence of definitions to lines is in `map` of PROJECT.json. Every
definition whose name is another one's followed by `_` and a word is a mutant:
the bug in its comment, which the run must notice.

## Runs

| run | instance | checks |
|---|---|---|
| router_refines | 2 agents, 2 connections, 2 messages of one sender, queue 1, writeChan 1 | types, AtMostOnce, refinement of Mailbox |
| router_queue | 1 agent, 1 connection, 3 messages of two senders and two priorities, queue 2 | QueueBounded, SenderOrder, NilMeansAccepted, RouteNeverStuck, RouteReturns |
| router_stranded | as small as it gets | *violated*: a queue is empty while its agent is connected |
| server_tables | 2 agents, 2 connections, all buffers 1 | types, NoGhostAgents, ServedAgentsReachable, StopNeverStuck |
| server_cleanup | 1 connection | *violated*: cleanup on disconnect |
| client_calls | client: 1 caller, 3 calls or heartbeats, 1 message of another agent, all buffers 1; bridge: 4 frames, 1 call, a channel of 1 | types, ConnectedMeansConfirmed, FailedConnectIsClosed, NoHandlerAfterDisconnect, DisconnectNotStuck, DisconnectReturns, CallsReturn; BridgeDropsNothing, BridgeStopsSending, BridgeLoopEnds |
| client_confirmation | the client of client_calls | *violated*: the frame Connect takes for the confirmation is the confirmation |
| registry_tables | registry: 2 agents, 2 capabilities, 2 goroutines, 4 operations; task board: the same agents and goroutines, 2 lists, 3 publications, a subscriber and a listener; merge: every pair of slices of up to 2 items over 3 ids, 2 times and 2 statuses | types, IndexMatchesStore, LookupsMatch, StoredAgentsAreWatched, NoErrorMeansMarked; BoardSubscribersInStep, BoardLeavesGoneAlone; MergeKeepsNewest, MergeIsSorted |
| enhanced_delivery | 2 agents, 2 connections, 1 message, 1 restart, peers that read | types, AtMostOncePerConnection, OnlyToRecipient, GoneIsOffline, QueuedIsKept, ServedAloneIsReachable, refinement of DurableMailbox |
| enhanced_mutex | 1 agent, 2 connections, 1 message, no restart, 1 peer that may stop reading | MutexIsReleased, DisconnectEndsHandler |
| enhanced_registration | 2 connections | *violated*: a registration is answered |
| enhanced_lost | 2 connections, 1 message | *violated*: a message leaves the queue only when delivered |

Why the bounds are enough. A `writeChan` and a `readChan` of one frame can be
empty, neither (never with one) or full; what the code does depends only on
"full" and "empty". A queue of one or two is reached by two or three messages.
Two connections are the least for a replaced or reused connection and for two
goroutines in each other's critical sections; the router needs a third message
only for the two priorities. TypeOK of `EnhancedServer` bounds the history
`copies` by 2, which a second delivery of one message to one connection
reaches; AtMostOncePerConnection says it does not go beyond 1. In `client_calls`
readLoop, the caller and the heartbeat compete for a buffer of one, and three
calls are enough for an answer to be taken by somebody else. In
`registry_tables` four operations of two goroutines are a registration, another
with other capabilities, and two that meet; the sections of any two operations
interleave in every way. A CheckStaleAgents needs two agents to pass one over.
Three publications are one before, one while and one after a subscription, or
two that meet and one that comes to rest. Two items on each side are enough for
a duplicate within a slice, one across the slices, a tie in time and an exchange
of the sort; for longer slices the law is proved (`TodoProofs`). Of the
bridge's four frames one goes to Connect, and the others can be taken, in the
channel and in readLoop's hand at the same time. One restart is what a crash
needs; a second process that crashes is in the same states as the first. The
runs enhanced_mutex, enhanced_registration and enhanced_lost have none, as a
restart releases the mutex and is not needed for what they show. `MayStall` and
`Filters` bound `EnhancedServer` to what a run is about. In enhanced_mutex one of
the two peers may stop reading, which is the one that holds the other up, in a
loop (452), in an answer, in a delivery or in a direct write (270); the agent is
one, so that its own messages and events go to it, and a broadcast, which leaves
out its sender, finds nobody to write to. In enhanced_delivery all peers read: a
write that blocks takes behaviours away and adds none, as far as messages and
tables are concerned; that the invariants hold with peers that do not read is
proved. In enhanced_registration and enhanced_lost it would only add other ways
to fail. The instances
stop when their connections and messages are used up, so deadlock is not
checked; that nobody waits for ever is what RouteReturns, StopNeverStuck,
DisconnectEndsHandler, DisconnectReturns and CallsReturn say, and
RouteNeverStuck, MutexIsReleased and DisconnectNotStuck in a form that can be
proved: who waits, waits for somebody whose next step is possible.

The agents and connections of `server_tables` and `enhanced_delivery` and the
agents, capabilities, goroutines and lists of `registry_tables` are
interchangeable, and these runs check safety only (of one step at most; the
refinement of DurableMailbox has no fairness), hence their symmetry sets.

Three of the properties say less than one might hope, because the code promises no
more. BoardSubscribersInStep leaves out agents with two publications at once:
they may be stored in one order and told in the other. ServedAloneIsReachable
leaves out agents with two handlers at once: the cleanup of the old connection
takes the entry of the new one. IndexMatchesStore likewise leaves out agents on
which two operations met, whose index may differ from the store for good. In all
three cases the overlap is in the model, the run reaches it, and it is recorded
with the hazard: what the code does there contradicts no statement of the
repository, so that there is nothing to check it against.

What the violated runs show:

- *router_stranded* (docs/DESIGN.md:37). routeDirect looks up without finding,
  the agent registers and gets its queue, then routeDirect queues the message.
  It stays there although the agent is connected.
- *client_confirmation* (client.go:77). The server sends the queue of an agent
  before it answers the registration (server.go:187 and 190), and Connect takes
  the first frame for the answer. A message has no success field, so an agent
  that reconnects to collect its messages closes the connection and reports a
  failed registration.
- *server_cleanup* (server.go:201). The reader of a lost connection closes
  `readChan` only. Read returns nil, which is "invalid request"; the reply fills
  `writeChan`, whose writer is gone, and the handler is parked. The agent stays
  registered until Stop. ServedAgentsReachable depends on this: were the handler
  to end, the cleanup of a replaced connection would remove the agent's new one.
- *enhanced_registration* (cmd/extended_tests/main.go:413-416). The loops over
  the connections hold the read lock and take it again in shouldDeliver; a
  registration that announces its Lock in between waits for the loop, and the
  loop for it.
- *enhanced_lost* (README.md:17). Delivery ignores the errors of its writes and
  then deletes the queue, and what was queued after the read is deleted too.

Fairness. In `Router` a call that can take a step takes one, the delivery under
the lock goes on, and a running `writeLoop` writes or fails, since every write
has a 10 s deadline. In `StandardServer` the handlers, the accept loop, Stop and
both sides of a connection go on (the reader has a 60 s deadline). In
`EnhancedServer` handlers and Stop have strong fairness, because Go's RWMutex
does not let a waiter starve; nobody has to restart it, and no peer has to read
or to close its socket, so that a write that blocks may block for ever.
DisconnectEndsHandler therefore has two exceptions, and the run fails as soon as
one of them is left out: the deadlock of enhanced_registration, and, from some
time on, a write to a peer that does not read, which holds up the handler itself
or a loop that has the read lock. In `AgentClient` each goroutine goes on,
handlers return, a Read of the socket ends by its deadline, and the transport
writes or fails; the server need not answer and a heartbeat need not tick. In
`ClaudeBridge` Connect, readLoop and the second half of Disconnect go on when
they can; as the socket has no deadline, the server need not write and a Read
may wait for ever, and the application need not take a message. `MCClients`
states the fairness of both clients, each for the behaviours that are its own.
No client is obliged to do anything, and nobody has to call Route, Close or
Stop. Pings may always succeed: `PingFails` is in no fairness condition.
`TaskBoard` and `Registry` are checked for safety only.

## Proofs

`RouterProofs` proves about `Router`, for all agents, connections, messages,
goroutines, priorities and limits that satisfy the assumptions of `Router` and
`WsOutbound` (capacities are numbers, `WriteCap` not zero; each message has one
goroutine and a priority; the null values are not agents or connections):

- `TypeCorrect`, the type invariant, one lemma per group of actions.
- `QueuesAreBounded`. The bound alone is not inductive, since the cardinality of
  a set that is not known to be finite says nothing; `QueueInv` adds finiteness.
- `NilResultsAreAccepted`. NilMeansAccepted says nothing of calls that are still
  running nor of a queue that is being sent. The inductive invariant adds
  `TableInv` (an entry of the table belongs to its agent, an idle connection to
  nobody), `CallInv` (a message in a queue is no call any more, a call that has
  not looked up is not writing), `SendInv` (a direct call's targets belong to the
  addressee, and a call without targets has been accepted or has failed) and
  `DeliverInv` (what the running deliverQueued has dealt with is on the
  connection, or the connection is closed, so clearing the queue loses nothing
  else). `Grows` and `OwnerKept` say what no step takes back: frames accepted,
  closed flags, owners. All parts were checked by TLC before they were proved.
- `WrittenAtMostOnce`. AtMostOnce looks at the connections only, and so does not
  see what is about to be written. `PlaceInv` says where a message can be (only
  the agent's messages are in its queue, what deliverQueued has still to send is
  still in the queue, only a sending call or deliverQueued is inside a Write),
  `TargetInv` that a direct call has at most one target and that targets are not
  idle, and `FreshInv` where a message is certainly on no connection: before its
  call sends, while it waits in a queue and is not yet behind deliverQueued, and
  on the targets that are left. A step writes at most one message (`Writes`), to
  a connection that did not carry it, which is all `Unique` needs.
- `SendersStayInOrder`. Creation orders all messages that have been sent, and a
  goroutine's running call is its latest (`EarlierInv`); a connection that
  deliverQueued writes to carries nothing else yet, and what was sent there came
  before what was not (`SortedInv`). So a message is always appended behind
  those it must follow (`AppendsInOrder`).
- `NobodyIsStuck`, that a call waits for nothing but its connection or the holder
  of the lock, and that one for nothing but its new connection. deliverQueued
  needs a next message, so the order of the sort must have a first in every
  queue: creation goes round in no circle (`OrderInv`), the queues are finite
  (`QueueInv`), and a finite set ordered without circles has a first element, the
  one with fewest before it (`HasFirst`). `TargetOfQueue` says that what is
  written under the lock goes to the new connection.
- `RouterImplementsMailbox`, that `Router` implements `Mailbox` under the
  mapping `Phase`, one lemma per kind of step. A step changes the phase of one
  message, of all that wait for one agent, or of none (`PhasesOk` says what each
  phase tells of the other variables), and the mailbox makes the same change or
  stutters. The end of deliverQueued stutters too: a message it has sent counts
  as settled although it is in the queue until then.

`StandardServerProofs` proves about `StandardServer`, for all agents,
connections and capacities (not zero) and every limit of the queue
(`NullsAssumption`: the null values are none of them). The steps are sorted by
where the handler is: listening, entering, taking a frame, serving, leaving.

- `TypeCorrect`. A handler reads its agent from its locals; `OwnerInv` says
  where it has one.
- `NoTableNamesAGhost`. NoGhostAgents speaks of agents all of whose connections
  are cleaned up, which says nothing while one is left. `EntryInv` names for
  every entry a handler that has still to remove it: for the registry any
  handler of the agent, for the two maps the handler of the connection in the
  entry. A late write-back of a heartbeat or a rename is made by such a handler.
- `ServedAgentsAreReachable`. Before Stop no served connection is closed and no
  handler leaves, so what a handler has entered stays there (`RunningInv`); that
  the entry is a connection of the agent is `EntryInv` again.
- `StopIsNotStuck`. The conditions under which each goroutine can go on are
  written out as state predicates, since the prover has no ENABLED. Who holds
  the router is writing a queue (`LockInv`), and whoever is to be written to has
  its loops running or ended (`TodoInv`); so nobody waits but for a `writeLoop`
  or a `readLoop` that can go on, and when all handlers have ended the wait group
  is done.

`EnhancedProofs` proves all invariants of `EnhancedServer`, for all agents,
connections and messages, any peers that stop reading and any number of restarts
(`NullsAssumption`: the null values are not among them; `BoundsAssumption`: the
bounds are a number, connections and subscriptions).
`Steps` sorts the steps first: most leave messages and owners alone (`Still`,
`Quiet`), the others belong to a direct message (`Direct`), to the delivery of a
queue (`Deliveries`), to entering and leaving the map (`Entries`) or are Restart.

- `OnlyRecipients`. `Addressed` follows the address: the map (`Entry`), what a
  sender has looked up (`Aimed`), the tables (`QueuedFor`), the batches
  (`BatchFor`) and what was written (`Copied`).
- `NoDuplicates`. `OnceInv` says that a message in a hand is nowhere else
  (`OneHand`, `HandFresh`), that a batch holds what was not yet written
  (`Pending`), and that a handler which wrote a message still in the queue will
  delete it before it reads the queue again, or the server is stopping
  (`Deleted`).
- `TypeCorrect`: TypeOK bounds the copies, so it needs NoDuplicates; `TypeInv`,
  which all the others use, takes them as numbers.
- `QueuedAreKept`, of steps: what is queued is put in both tables and leaves them
  only where a handler of the recipient deletes the queue. `HandSaved`: a message
  in a hand has been saved, or the server is stopping and will not queue it;
  `Grows`: the other steps take nothing out of the tables.
- `AloneIsReachable`. `Alone`: an agent without overlapping handlers has one;
  `Reached`: it is in the map from its entry to its cleanup.
- `GoneIsMarked`. `OfflineInv` speaks of every handler that has marked its agent,
  not only of the ended ones, and of all that may still save it.
- `ServerImplementsDurableMailbox`, that the server implements `DurableMailbox`
  under `Phase`. Besides the invariants above it needs `PostInv`: a message in a
  hand is not queued, what is in a batch has been queued, and a handler that has
  ended has closed its connection (`HandNotQueued`, `TakenWereQueued`,
  `PartedClosed`), so that nothing is given to a connection that has left.
  `LetGo` says what the end of a sender's request does to the phase,
  `DeliveriesForward` is the delivery of a queue, of which the read is a
  stutter, each write a Forward and the delete a Release, and `RestartIsCrash`
  the loss of every hand and batch at once.
- `MutexIsFreed`. The writer that is announced is the one that stands at its
  Lock (`WriterInv`), and the readers inside are the running loops
  (`ReaderInv`). With a writer waiting, a loop asks for its second read lock,
  writes, or is done (`LoopGoesOn`): so who waits, waits for somebody who can go
  on, or for a loop at its second read lock, which is what enhanced_registration
  shows, or for one that writes to a peer that does not read. Nothing else can
  hold the mutex.

`RegistryProofs` proves about `Registry`, for all agents, capabilities,
goroutines and numbers of operations (`NoAgent` is no agent):

- `TypeCorrect`. That a count of the index stays a number needs to know that a
  goroutine in an operation has an agent (`Placed`).
- `IndexIsExact`. IndexMatchesStore speaks of agents nobody works on; the
  inductive invariant `IndexInv` adds `Midway`, what the index holds at each
  point inside an operation (listed under the old capabilities, under none,
  under those of the entry), and `Alone`, that an agent that never saw two
  operations at once is worked on by at most one goroutine.
- `LookupsAgree`, its consequence: GetByCapability, which reads the index, and
  Query, which reads the store, agree.
- `StoredAreWatched`. Inside a Register or an Unregister an agent may be stored
  without a heartbeat; `WatchInv` asks for the heartbeat only of the operations
  that store an entry they have read (`Ready`), and uses `Midway`, by which an
  Unregister removes the heartbeat after the entry.
- `SilentAreMarked`, of the steps of `MCServices`, which has the history the
  property speaks of. An agent that was stale when the check looked and has been
  left alone since is on its list, in its hand, or offline (`SilentInv`).
- `NewestAreKept` and `MergeComesSorted`: `MergeOfSlices` and `SortSorts` of
  `TodoProofs`, for the lists of the composition.
- `ServicesAreTyped`, `SubscribersAreInStep` and `LeaversAreLeftAlone`: the
  composition takes only steps of the registry and of the task board
  (`ComposedStep`, `BoardInside`), so what is proved here and in `TaskBoardProofs`
  holds in what TLC runs, under the names the run uses.

`ClientProofs` proves about `AgentClient`, for all callers, capacities and
numbers of calls and messages (there is one connection, and a caller is none of
the names of frames and requests):

- `TypeCorrect`, with readChan and writeChan as long as their counters say.
- `ConnectedIsConfirmed`. The property is about the end of Connect; the invariant
  `Handshake` is about the time before: nobody else reads or writes
  (`NobodyElse`), the registration is the only request and the server has not
  read it while it waits in writeChan (`OneRequest`), and a frame that says
  success is the answer to it (`OnlyGenuine`).
- `FailedIsClosed`. A Connect that still dials has no connection, and no step
  opens a closed one.
- `NoLateHandler`. Once readLoop has been waited for it is before its check of
  stopChan or not there, also when Connect starts it later.
- `DisconnectGoesOn`. A loop past its check of stopChan was started before the
  Disconnect, which therefore found a connection and closed it (`Closing`); one
  that Connect starts later ends at the check.
- `ClientsAreTyped`, `BridgeKeepsFrames` and `BridgeIsQuietAfterCancel`: the
  composition `MCClients` takes only steps of the two libraries (`ClientInside`,
  `BridgeInside`), so the results of this module and of `BridgeProofs` hold there.

`BridgeProofs` proves about `ClaudeBridge`, for any number of frames and calls
and any capacity (`Bounds`: they are numbers): `TypeCorrect`; `OneAfterCancel`,
from where readLoop can be when the context is cancelled (`Credit`); and
`FramesAreContiguous`, whose invariant `Contiguous` numbers the frames through
the wire, the hand, the channel and what was taken. The runs check the last two
under the names BridgeStopsSending and BridgeDropsNothing.

`TaskBoardProofs` proves about `TaskBoard`, for any agents, lists, publishers and
handlers (`Bounds`: the null values are none of them, and no handler is both a
subscriber and a listener): `GoneAreNotCalled`, and `NobodyIsBehind`, whose
invariant `InStep` says of each agent with one publication under way what is
stored (`Kept`) and who has been told by each point of it (`Told`). The runs
check them as BoardLeavesGoneAlone and BoardSubscribersInStep.

`TodoProofs` proves laws of the data, from the definitions alone: Merge keeps the
newer version of each item, commutes on lists without ties and is associative;
an edited item never wins over the original, since no edit changes the creation
time; Compare of two vector clocks says 1 exactly when one has seen all that the
other has and more; a clock is later than one it has merged once it counts a
step. `ClockLaws` of `MCServices` has TLC evaluate the laws on small clocks.

It also proves what the code of Merge computes, for slices of any length with any
duplicates and ties: `SortSorts`, that the exchange sort permutes its list and
leaves it in the order of creation, and `MergeOfSlices`, that the two loops over
the map, the map in whatever order it is iterated, and the sort return one item
of each id, the newest by the rule of the code. The library's induction theorems
take an operator and are out of the provers' reach, so `Induction` takes a set
of good numbers and looks at the least bad one; `Loop` derives from it that a loop
written as a recursive function is what its definition says. `PassFindsEarliest`
is the invariant of the inner loop of the sort, `MineIsMine` and `BothIsBoth`
those of the two loops over the slices.

Only model-checked: all liveness (RouteReturns, DisconnectReturns, CallsReturn,
BridgeLoopEnds, DisconnectEndsHandler), which is out of the prover's reach, as
is ENABLED and with it StopNeverStuck as it stands. All other properties of the
passing runs are theorems, and for four of these six the theorems NobodyIsStuck,
DisconnectGoesOn, MutexIsFreed and StopIsNotStuck say for every instance that
somebody can take the next step, with the exceptions each of them names; that
the steps come is the fairness above, and that they come to an end is what TLC
adds.

## Not modelled

Contents of messages and replies, and the JSON of the wire. The subscriptions
and events tables of the SQLite store, which are written and never read back. In
`EnhancedServer` two concurrent writers on one socket, which the websocket
library forbids, are just two writes; the library may panic, which ends the
process, and that is `Restart` at that point. A peer that does not read before
its registration is refused is one that does not register. A store that fails
while the server runs is assumed away, as said above. In `AgentClient` and
`ClaudeBridge` Disconnect is called once and not from a handler (in the first a
second call closes a closed channel, and one from a handler waits for itself),
and a call of the bridge before its Connect made a connection, which
dereferences nil, is left out. Neither client connects again by itself, although
docs/CLAUDE_INTEGRATION.md:54 speaks of an automatic reconnection: there is no
code to model. The lists of the capability index have no order in `Registry`,
and GetByCapability returns the slice of the index itself, which later removals
shift under its reader. Nothing in the server sets the task of an entry, so
`Match` has no case for one. Merge and Compare of the vector clock take the lock
of the receiver and then that of the other clock, so two clocks that are
compared with each other at once could deadlock; nobody in src/ shares one, and
`VectorClock` has values only. Get and GetAll of the task board read the store
and have no step. Router.RegisterHandler and HandleMessage are called by nobody.

The interfaces are declarations and the utilities are formatting without state.
The five commands are process start-up and three scripts that drive a server with
pauses between their calls; what they require of the server is quoted by the runs
where it is at stake.

## Plan

What is left, in this order:

1. A statement about when CheckStaleAgents may mark an agent: today it can mark
   one that has sent a heartbeat since the times were looked at.
2. The step conditions of the two that wait and have no theorem: a call of the
   agent client for its answer, and the loop of the bridge for its application.
3. A measure that decreases in every step of a call of Route and of Disconnect, by
   which NobodyIsStuck and DisconnectGoesOn would give termination without a
   temporal argument.
