---------------------------- MODULE AgentClient ----------------------------
(***************************************************************************)
(* pkg/client/client.go over the websocket transport: Connect with its     *)
(* handshake, the readLoop and heartbeatLoop goroutines, the calls that    *)
(* write a request and those that wait for an answer, and Disconnect.      *)
(*                                                                         *)
(* A frame is what the client can tell of it: what it is about and what a  *)
(* struct with a `success' field finds in it, which is FALSE for anything  *)
(* that is no Response.  The server end is pkg/server/server.go as the     *)
(* client sees it: the queue of the agent is sent before the registration  *)
(* is confirmed (StandardServer, RouterRegister to Greet), some requests   *)
(* are answered always and the others only by an error.                    *)
(***************************************************************************)
EXTENDS WsInbound, Sequences

CONSTANTS Conn,         \* the connection of this client
          Callers,      \* goroutines of the application that call it
          MaxCalls,     \* bound: calls and heartbeats in all
          MaxMessages   \* bound: messages of other agents

ASSUME ConnAssumption == Conns = {Conn}
ASSUME BoundsAssumption == MaxCalls \in Nat /\ MaxMessages \in Nat
ASSUME CallersAssumption ==
  Callers \cap {"register", "rename", "tell", "message", "registration", "other"} = {}

VARIABLES
  connectPc,   \* Connect: dial, register, confirm, start, connected, failed
  hasConn,     \* c.conn is not nil
  first,       \* the frame Connect took for the confirmation
  stopping,    \* stopChan is closed
  discPc,      \* Disconnect: idle, close, wait or returned
  readPc,      \* readLoop: none, check, read, handle, notify or ended
  beatPc,      \* heartbeatLoop: none, wait, beat or ended
  callPc,      \* of each caller: idle, send, await
  asked,       \* the method it calls
  calls,       \* counts calls and heartbeats, for the bound
  outgoing,    \* the requests in writeChan, oldest first
  received,    \* the frames in readChan, oldest first
  wire,        \* frames the server has written and readLoop has not read
  server,      \* the server end: waiting, delivering, confirmed or refused
  messages     \* counts messages of other agents, for the bound

channels == <<outVars, inVars, outgoing, received>>
serverVars == <<wire, server, messages>>
connecting == <<connectPc, hasConn, first>>
stop == <<stopping, discPc>>
loops == <<readPc, beatPc>>
calling == <<callPc, asked, calls>>
vars == <<channels, serverVars, connecting, stop, loops, calling>>

Methods == {"query", "rename", "tell"}  \* tell: send_message and its like

Message == [about |-> "message", success |-> FALSE]
Answer(what, ok) == [about |-> what, success |-> ok]
Frames == [about : {"message", "registration", "other"} \cup Callers,
           success : BOOLEAN]
NoFrame == [about |-> "nothing", success |-> FALSE]

Requests == {"register", "rename", "tell"} \cup Callers  \* a query is its caller's

TypeOK == /\ OutTypeOK /\ InTypeOK
          /\ connectPc \in {"dial", "register", "confirm", "start", "connected",
                            "failed"}
          /\ hasConn \in BOOLEAN
          /\ first \in Frames \cup {NoFrame}
          /\ stopping \in BOOLEAN
          /\ discPc \in {"idle", "close", "wait", "returned"}
          /\ readPc \in {"none", "check", "read", "handle", "notify", "ended"}
          /\ beatPc \in {"none", "wait", "beat", "ended"}
          /\ callPc \in [Callers -> {"idle", "send", "await"}]
          /\ asked \in [Callers -> Methods]
          /\ calls \in 0 .. MaxCalls
          /\ outgoing \in Seq(Requests) /\ Len(outgoing) = buffered[Conn]
          /\ received \in Seq(Frames) /\ Len(received) = inbox[Conn]
          /\ wire \in Seq(Frames)
          /\ server \in {"waiting", "delivering", "confirmed", "refused"}
          /\ messages \in 0 .. MaxMessages

Init == /\ OutInit /\ InInit
        /\ connectPc = "dial" /\ hasConn = FALSE /\ first = NoFrame
        /\ stopping = FALSE /\ discPc = "idle"
        /\ readPc = "none" /\ beatPc = "none"
        /\ callPc = [t \in Callers |-> "idle"]
        /\ asked = [t \in Callers |-> "query"]
        /\ calls = 0
        /\ outgoing = << >> /\ received = << >> /\ wire = << >>
        /\ server = "waiting" /\ messages = 0

-----------------------------------------------------------------------------
(* The connection: Write, Read and Close, each one step of the caller.     *)

Written(request) == /\ hasConn /\ ~closed[Conn] /\ Put(Conn)
                    /\ outgoing' = Append(outgoing, request)
                    /\ UNCHANGED <<inVars, received>>
Refused == StopSeen(Conn) /\ UNCHANGED channels

\* A caller that finds no connection gets ErrConnection.
Unsendable == ~hasConn /\ UNCHANGED channels

TakeFrame == /\ ReadFrame(Conn)
             /\ received' = Tail(received)
             /\ UNCHANGED <<outVars, outgoing>>
TakeNil == ReadNil(Conn) /\ UNCHANGED <<outVars, outgoing, received>>
TakeStopped == ReadStopped(Conn) /\ UNCHANGED <<outVars, outgoing, received>>

CloseConn == /\ CloseEnds({Conn})
             /\ outgoing' = << >>
             /\ UNCHANGED <<inbox, received>>

-----------------------------------------------------------------------------
(* Connect.                                                                *)

\* The handshake of the socket may fail; the field is set when it did not.
Dial == /\ connectPc = "dial"
        /\ \/ connectPc' = "register" /\ hasConn' = TRUE
           \/ connectPc' = "failed" /\ UNCHANGED hasConn
        /\ UNCHANGED <<channels, serverVars, first, stop, loops, calling>>

SendRegistration ==
  /\ connectPc = "register"
  /\ \/ Written("register") /\ connectPc' = "confirm"
     \/ Refused /\ connectPc' = "failed"
  /\ UNCHANGED <<serverVars, hasConn, first, stop, loops, calling>>

\* Mutant: the success field of the answer is not looked at.
Confirms_Any(frame) == TRUE
Confirms(frame) == frame.success

\* Whatever comes first is taken for the confirmation.
ReadConfirmation ==
  /\ connectPc = "confirm" /\ inbox[Conn] > 0
  /\ first' = Head(received)
  /\ IF Confirms(Head(received))
     THEN TakeFrame /\ connectPc' = "start"
     ELSE /\ connectPc' = "failed"
          /\ CloseEnds({Conn}) /\ outgoing' = << >>
          /\ inbox' = [inbox EXCEPT ![Conn] = @ - 1]
          /\ received' = Tail(received)
  /\ UNCHANGED <<serverVars, hasConn, stop, loops, calling>>

\* nil does not parse; an error of Read closes as well.
\* Mutant: the connection is left open.
Abandoned_Open == UNCHANGED channels
Abandoned == CloseConn

ConfirmationFails ==
  /\ connectPc = "confirm"
  /\ NilReady(Conn) \/ closed[Conn]
  /\ Abandoned
  /\ connectPc' = "failed"
  /\ UNCHANGED <<serverVars, hasConn, first, stop, loops, calling>>

\* wg.Add(2), the two goroutines and onConnect.
StartLoops ==
  /\ connectPc = "start"
  /\ connectPc' = "connected" /\ readPc' = "check" /\ beatPc' = "wait"
  /\ UNCHANGED <<channels, serverVars, hasConn, first, stop, calling>>

Connect == Dial \/ SendRegistration \/ ReadConfirmation \/ ConfirmationFails
           \/ StartLoops

-----------------------------------------------------------------------------
(* readLoop.  Every frame is a JSON object and parses as a Message, so a   *)
(* Response goes to onMessage too.                                         *)

ReadCheck == /\ readPc = "check"
             /\ readPc' = IF stopping THEN "ended" ELSE "read"
             /\ UNCHANGED <<channels, serverVars, connecting, stop, beatPc,
                            calling>>

ReadNext == /\ readPc = "read"
            /\ \/ TakeFrame /\ readPc' = "handle"
               \/ TakeNil /\ readPc' = "check"
               \/ TakeStopped /\ readPc' = "notify"
            /\ UNCHANGED <<serverVars, connecting, stop, beatPc, calling>>

\* The return of onMessage, or of onDisconnect.
Handled == /\ readPc \in {"handle", "notify"}
           /\ readPc' = IF readPc = "handle" THEN "check" ELSE "ended"
           /\ UNCHANGED <<channels, serverVars, connecting, stop, beatPc,
                          calling>>

ClientReadLoop == ReadCheck \/ ReadNext \/ Handled

(* heartbeatLoop.                                                          *)

BeatStops == /\ beatPc = "wait" /\ stopping
             /\ beatPc' = "ended"
             /\ UNCHANGED <<channels, serverVars, connecting, stop, readPc,
                            calling>>

\* A tick that select finds together with stopChan came before the stop.
Tick == /\ beatPc = "wait" /\ ~stopping /\ calls < MaxCalls
        /\ beatPc' = "beat" /\ calls' = calls + 1
        /\ UNCHANGED <<channels, serverVars, connecting, stop, readPc, callPc,
                       asked>>

Beat == /\ beatPc = "beat"
        /\ Written("tell") \/ Refused
        /\ beatPc' = "wait"
        /\ UNCHANGED <<serverVars, connecting, stop, readPc, calling>>

-----------------------------------------------------------------------------
(* The calls of the application, after Connect has returned: QueryAgents   *)
(* and GetTodos (query) read a frame after they have written the request;  *)
(* the others return as soon as it is in writeChan.                        *)

Call(t, method) ==
  /\ connectPc \in {"connected", "failed"}
  /\ callPc[t] = "idle" /\ calls < MaxCalls
  /\ callPc' = [callPc EXCEPT ![t] = "send"]
  /\ asked' = [asked EXCEPT ![t] = method]
  /\ calls' = calls + 1
  /\ UNCHANGED <<channels, serverVars, connecting, stop, loops>>

CallSend(t) ==
  /\ callPc[t] = "send"
  /\ \/ /\ Written(IF asked[t] = "query" THEN t ELSE asked[t])
        /\ callPc' = [callPc EXCEPT ![t] =
                        IF asked[t] = "query" THEN "await" ELSE "idle"]
     \/ /\ Refused \/ Unsendable
        /\ callPc' = [callPc EXCEPT ![t] = "idle"]
  /\ UNCHANGED <<serverVars, connecting, stop, loops, asked, calls>>

\* Any frame is taken for the answer; nil and an error end the call too.
\* Mutant: nil is skipped.
Ends_NotOnNil(t) == callPc' = [callPc EXCEPT ![t] = IF inbox[Conn] = 0 /\ ~closed[Conn]
                                                    THEN "await" ELSE "idle"]
Ends(t) == callPc' = [callPc EXCEPT ![t] = "idle"]

CallRead(t) ==
  /\ callPc[t] = "await"
  /\ TakeFrame \/ TakeNil \/ TakeStopped
  /\ Ends(t)
  /\ UNCHANGED <<serverVars, connecting, stop, loops, asked, calls>>

-----------------------------------------------------------------------------
(* Disconnect, at any time and from a goroutine of its own.                *)

DisconnectStop == /\ discPc = "idle"
                  /\ discPc' = "close" /\ stopping' = TRUE
                  /\ UNCHANGED <<channels, serverVars, connecting, loops, calling>>

\* Mutant: the connection is closed after wg.Wait.
DisconnectClose_AfterWait ==
  /\ discPc = "close" /\ discPc' = "wait"
  /\ UNCHANGED <<channels, serverVars, connecting, stopping, loops, calling>>
DisconnectClose == /\ discPc = "close"
                   /\ IF hasConn THEN CloseConn ELSE UNCHANGED channels
                   /\ discPc' = "wait"
                   /\ UNCHANGED <<serverVars, connecting, stopping, loops, calling>>

\* wg.Wait.
\* Mutant: only the heartbeat is waited for.
LoopsDone_Beat == beatPc \in {"none", "ended"}
LoopsDone == readPc \in {"none", "ended"} /\ beatPc \in {"none", "ended"}

DisconnectReturn == /\ discPc = "wait" /\ LoopsDone
                    /\ discPc' = "returned"
                    /\ UNCHANGED <<channels, serverVars, connecting, stopping,
                                   loops, calling>>

-----------------------------------------------------------------------------
(* The transport's goroutines and the server at the other end.             *)

Reached == hasConn /\ readLoop[Conn] = "running"

\* What the server may write for a request it reads.
Replies(request) ==
  CASE request = "register" -> {<< >>}
    [] request \in Callers -> {<<Answer(request, ok)>> : ok \in BOOLEAN}
    [] request = "rename" -> {<<Answer("other", ok)>> : ok \in BOOLEAN}
    [] OTHER -> {<< >>, <<Answer("other", FALSE)>>}

ServerReads ==
  /\ hasConn /\ Flush(Conn)
  /\ outgoing' = Tail(outgoing)
  /\ \E reply \in Replies(Head(outgoing)) :
       wire' = IF Reached THEN wire \o reply ELSE wire
  /\ server' = IF Head(outgoing) = "register" THEN "delivering" ELSE server
  /\ UNCHANGED <<inVars, received, messages, connecting, stop, loops, calling>>

\* The queue of the agent, broadcasts and direct messages.
ServerDelivers ==
  /\ Reached /\ server \in {"delivering", "confirmed"}
  /\ messages < MaxMessages
  /\ messages' = messages + 1 /\ wire' = Append(wire, Message)
  /\ UNCHANGED <<channels, server, connecting, stop, loops, calling>>

\* A registration with no agent id is refused before anything is delivered.
ServerConfirms ==
  /\ Reached /\ server = "delivering"
  /\ \/ server' = "confirmed" /\ wire' = Append(wire, Answer("registration", TRUE))
     \/ /\ messages = 0
        /\ server' = "refused" /\ wire' = Append(wire, Answer("registration", FALSE))
  /\ UNCHANGED <<channels, messages, connecting, stop, loops, calling>>

FrameArrives == /\ hasConn /\ wire # << >> /\ Receive(Conn)
                /\ received' = Append(received, Head(wire)) /\ wire' = Tail(wire)
                /\ UNCHANGED <<outgoing, server, messages, connecting, stop,
                               loops, calling>>

PeerLost == /\ hasConn /\ ReadLoopEnds(Conn)
            /\ wire' = << >>
            /\ UNCHANGED <<outgoing, received, server, messages, connecting,
                           stop, loops, calling>>

RequestLost == /\ hasConn /\ WriteFails(Conn)
               /\ outgoing' = Tail(outgoing)
               /\ UNCHANGED <<inVars, received, serverVars, connecting, stop,
                              loops, calling>>

PingLost == /\ hasConn /\ PingFails(Conn)
            /\ UNCHANGED <<inVars, received, outgoing, serverVars, connecting,
                           stop, loops, calling>>

-----------------------------------------------------------------------------
Heartbeat == BeatStops \/ Tick \/ Beat
Caller(t) == CallSend(t) \/ CallRead(t)
Disconnect == DisconnectClose \/ DisconnectReturn
Incoming == FrameArrives \/ PeerLost

Next == \/ Connect \/ ClientReadLoop \/ Heartbeat
        \/ \E t \in Callers : Caller(t) \/ \E method \in Methods : Call(t, method)
        \/ DisconnectStop \/ Disconnect
        \/ ServerReads \/ ServerDelivers \/ ServerConfirms
        \/ Incoming \/ RequestLost \/ PingLost

Spec == Init /\ [][Next]_vars

(* Goroutines that can run do, the handlers return, and a Read of the      *)
(* socket ends within 60 s, with a frame or without.  The server need not  *)
(* answer, and nobody has to call.  A caller that waits on readChan        *)
(* together with readLoop gets its turn, as Go serves receivers in order.  *)
Fairness == /\ WF_vars(Connect) /\ WF_vars(ClientReadLoop)
            /\ WF_vars(BeatStops) /\ WF_vars(Beat)
            /\ WF_vars(Disconnect) /\ WF_vars(Incoming)
            /\ WF_vars(ServerReads \/ RequestLost)
            /\ \A t \in Callers : WF_vars(Caller(t))

FairSpec == Spec /\ Fairness

-----------------------------------------------------------------------------
(* What the client must get right.                                         *)

(* When Connect has started the goroutines, the server has the agent       *)
(* registered and has said so (client.go:84-101): no message, no answer to *)
(* another request and no lost peer is taken for the confirmation.         *)
ConnectedMeansConfirmed ==
  connectPc \in {"start", "connected"} =>
    /\ server = "confirmed"
    /\ first = Answer("registration", TRUE)

(* A Connect that has given up leaves no connection behind: the server's   *)
(* handler, which sees nothing but the socket, is released (client.go:73,  *)
(* 80, 89, 94).                                                            *)
FailedConnectIsClosed == connectPc = "failed" /\ hasConn => closed[Conn]

(* Once Disconnect has returned neither onMessage nor onDisconnect runs,   *)
(* not even when it was called while Connect was on its way (wg.Wait, 122, *)
(* and the check of stopChan, 337).  Connect may still call onConnect.     *)
NoHandlerAfterDisconnect == discPc = "returned" => readPc \notin {"handle", "notify"}

(* Disconnect returns, whether readLoop waits for a frame, goes round on   *)
(* nil or is in a handler, and whether or not a heartbeat waits for room.  *)
DisconnectReturns == discPc # "idle" ~> discPc = "returned"

(* Whichever loop Disconnect waits for can take its next step, and has no  *)
(* turn but its last to come: also when Connect was still dialling and     *)
(* there was nothing to close (client.go:116-122, 337, 357), when calls    *)
(* keep writeChan full, and when readLoop shares readChan with them.       *)
ReadLoopGoes == readPc = "read" => inbox[Conn] > 0 \/ NilReady(Conn) \/ StopSeen(Conn)
HeartbeatGoes == /\ beatPc = "wait" => stopping
                 /\ beatPc = "beat" => StopSeen(Conn)
DisconnectNotStuck == discPc = "wait" => ReadLoopGoes /\ HeartbeatGoes

(* A call returns although readLoop may take its answer from readChan: the *)
(* read deadline of the socket ends the wait with nil.  The exception is a *)
(* connection whose writeLoop has ended with a full writeChan.             *)
CallsReturn == \A t \in Callers :
                 callPc[t] # "idle" ~> (callPc[t] = "idle" \/ Stalled(Conn))

(* client.go:77 says "Wait for confirmation": what Connect takes for the   *)
(* answer to its registration is the answer.                               *)
ConfirmationIsTheAnswer == first \in {NoFrame} \cup
                             {Answer("registration", ok) : ok \in BOOLEAN}
=============================================================================
