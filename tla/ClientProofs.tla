---------------------------- MODULE ClientProofs ----------------------------
(***************************************************************************)
(* Theorems about AgentClient, for any set of callers, any capacities of   *)
(* readChan and writeChan and any numbers of calls and messages, and about *)
(* the composition MCClients of both client libraries.                     *)
(***************************************************************************)
EXTENDS MCClients, TLAPS

\* The part of the types every step touches: the two channels and their
\* contents.
ChannelType == /\ OutTypeOK /\ InTypeOK
               /\ outgoing \in Seq(Requests) /\ Len(outgoing) = buffered[Conn]
               /\ received \in Seq(Frames) /\ Len(received) = inbox[Conn]

ControlType == /\ connectPc \in {"dial", "register", "confirm", "start", "connected",
                                 "failed"}
               /\ hasConn \in BOOLEAN
               /\ first \in Frames \cup {NoFrame}
               /\ stopping \in BOOLEAN
               /\ discPc \in {"idle", "close", "wait", "returned"}
               /\ readPc \in {"none", "check", "read", "handle", "notify", "ended"}
               /\ beatPc \in {"none", "wait", "beat", "ended"}

CallType == /\ callPc \in [Callers -> {"idle", "send", "await"}]
            /\ asked \in [Callers -> Methods]
            /\ calls \in 0 .. MaxCalls

ServerType == /\ wire \in Seq(Frames)
              /\ server \in {"waiting", "delivering", "confirmed", "refused"}
              /\ messages \in 0 .. MaxMessages

TypeParts == ChannelType /\ ControlType /\ CallType /\ ServerType

LEMMA TypeIsItsParts == TypeOK <=> TypeParts
<1> QED BY DEF TypeOK, TypeParts, ChannelType, ControlType, CallType, ServerType

LEMMA ConnIsOne == Conn \in Conns /\ \A c \in Conns : c = Conn
<1> QED BY ConnAssumption

-----------------------------------------------------------------------------
(* What the operations on the connection leave of the channels.            *)

LEMMA WrittenType ==
  ASSUME ChannelType, NEW request \in Requests, Written(request)
  PROVE  ChannelType'
<1>1. /\ Append(outgoing, request) \in Seq(Requests)
      /\ Len(Append(outgoing, request)) = Len(outgoing) + 1
  BY DEF ChannelType
<1>2. /\ buffered' \in [Conns -> 0 .. WriteCap]
      /\ buffered'[Conn] = buffered[Conn] + 1
  BY ConnIsOne, WriteCapAssumption
     DEF ChannelType, OutTypeOK, Written, Put, Room
<1> QED BY <1>1, <1>2 DEF ChannelType, OutTypeOK, InTypeOK, Written, Put, inVars

LEMMA ReadType ==
  ASSUME ChannelType, TakeFrame \/ TakeNil \/ TakeStopped
  PROVE  ChannelType'
<1>1. CASE TakeFrame
  <2>1. inbox[Conn] \in 0 .. ReadCap /\ inbox[Conn] > 0
    BY <1>1, ConnIsOne DEF ChannelType, InTypeOK, TakeFrame, ReadFrame
  <2>2. /\ inbox' \in [Conns -> 0 .. ReadCap]
        /\ inbox'[Conn] = inbox[Conn] - 1
    BY <1>1, <2>1, ConnIsOne, ReadCapAssumption
       DEF ChannelType, InTypeOK, TakeFrame, ReadFrame
  <2>3. Tail(received) \in Seq(Frames) /\ Len(Tail(received)) = Len(received) - 1
    BY <2>1 DEF ChannelType
  <2> QED BY <1>1, <2>2, <2>3
             DEF ChannelType, OutTypeOK, InTypeOK, TakeFrame, ReadFrame, outVars
<1>2. CASE TakeNil \/ TakeStopped
  BY <1>2 DEF ChannelType, OutTypeOK, InTypeOK, TakeNil, ReadNil, TakeStopped,
              ReadStopped, inVars, outVars
<1> QED BY <1>1, <1>2

\* A closed connection has empty channels towards the server and no goroutines.
LEMMA CloseKeepsType ==
  ASSUME ChannelType, CloseEnds({Conn}), outgoing' = << >>
  PROVE  /\ OutTypeOK' /\ readLoop' \in [Conns -> {"running", "ended"}]
         /\ outgoing' \in Seq(Requests) /\ Len(outgoing') = buffered'[Conn]
         /\ closed'[Conn]
<1>1. << >> \in Seq(Requests) /\ Len(<< >>) = 0
  OBVIOUS
<1>2. /\ closed' = [c \in Conns |-> closed[c] \/ c \in {Conn}]
      /\ buffered' = [c \in Conns |-> IF c \in {Conn} THEN 0 ELSE buffered[c]]
      /\ writeLoop' = [c \in Conns |-> IF c \in {Conn} THEN "ended" ELSE writeLoop[c]]
      /\ readLoop' = [c \in Conns |-> IF c \in {Conn} THEN "ended" ELSE readLoop[c]]
  BY DEF CloseEnds, CloseAll
<1>3. closed' \in [Conns -> BOOLEAN] /\ closed'[Conn]
  BY <1>2, ConnIsOne, Zenon
<1>4. /\ buffered' \in [Conns -> 0 .. WriteCap] /\ buffered'[Conn] = 0
      /\ writeLoop' \in [Conns -> {"running", "ended"}]
      /\ readLoop' \in [Conns -> {"running", "ended"}]
  BY <1>2, ConnIsOne, WriteCapAssumption
<1> QED BY <1>1, <1>3, <1>4 DEF OutTypeOK

LEMMA CloseType ==
  ASSUME ChannelType, CloseConn
  PROVE  ChannelType'
<1> QED BY CloseKeepsType DEF CloseConn, ChannelType, InTypeOK

LEMMA IdleType ==
  ASSUME ChannelType, UNCHANGED channels
  PROVE  ChannelType'
<1> QED BY DEF ChannelType, OutTypeOK, InTypeOK, channels, outVars, inVars

-----------------------------------------------------------------------------
LEMMA InitType == Init => TypeParts
<1> SUFFICES ASSUME Init PROVE TypeParts
  OBVIOUS
<1>1. /\ << >> \in Seq(Requests) /\ << >> \in Seq(Frames) /\ Len(<< >>) = 0
  OBVIOUS
<1>2. ChannelType
  BY <1>1, ConnIsOne, WriteCapAssumption, ReadCapAssumption
     DEF Init, OutInit, InInit, ChannelType, OutTypeOK, InTypeOK
<1>3. ControlType
  BY DEF Init, ControlType
<1>4. CallType
  BY BoundsAssumption DEF Init, CallType, Methods
<1>5. ServerType
  BY <1>1, BoundsAssumption DEF Init, ServerType
<1> QED BY <1>2, <1>3, <1>4, <1>5 DEF TypeParts

LEMMA ConnectType ==
  ASSUME TypeParts, Connect
  PROVE  TypeParts'
<1> USE DEF TypeParts, ControlType, CallType, ServerType, stop, loops, calling,
            serverVars
<1>1. CASE Dial
  <2>1. hasConn' \in BOOLEAN /\ connectPc' \in {"register", "failed"}
    BY <1>1 DEF Dial
  <2> QED BY <1>1, <2>1, IdleType DEF Dial
<1>2. CASE SendRegistration
  <2>1. "register" \in Requests
    BY DEF Requests
  <2>2. ChannelType'
    BY <1>2, <2>1, WrittenType, IdleType DEF SendRegistration, Refused
  <2> QED BY <1>2, <2>2 DEF SendRegistration
<1>3. CASE ReadConfirmation
  <2>1. Head(received) \in Frames
    BY <1>3 DEF ReadConfirmation, ChannelType, InTypeOK
  <2>2. ChannelType'
    <3>1. CASE Confirms(Head(received))
      BY <1>3, <3>1, ReadType DEF ReadConfirmation
    <3>2. CASE ~Confirms(Head(received))
      <4>1. inbox[Conn] \in 0 .. ReadCap /\ inbox[Conn] > 0
        BY <1>3, ConnIsOne DEF ChannelType, InTypeOK, ReadConfirmation
      <4>2. /\ inbox' \in [Conns -> 0 .. ReadCap]
            /\ inbox'[Conn] = inbox[Conn] - 1
        <5>1. inbox' = [inbox EXCEPT ![Conn] = @ - 1]
          BY <1>3, <3>2 DEF ReadConfirmation
        <5> QED BY <4>1, <5>1, ConnIsOne, ReadCapAssumption DEF ChannelType, InTypeOK
      <4>3. /\ Tail(received) \in Seq(Frames)
            /\ Len(Tail(received)) = Len(received) - 1
        BY <4>1 DEF ChannelType
      <4> QED BY <1>3, <3>2, <4>2, <4>3, CloseKeepsType
                 DEF ReadConfirmation, ChannelType, InTypeOK
    <3> QED BY <3>1, <3>2
  <2> QED BY <1>3, <2>1, <2>2 DEF ReadConfirmation
<1>4. CASE ConfirmationFails
  BY <1>4, CloseType DEF ConfirmationFails, Abandoned
<1>5. CASE StartLoops
  BY <1>5, IdleType DEF StartLoops
<1> QED BY <1>1, <1>2, <1>3, <1>4, <1>5 DEF Connect

LEMMA LoopType ==
  ASSUME TypeParts, ClientReadLoop \/ Heartbeat
  PROVE  TypeParts'
<1> USE DEF TypeParts, ControlType, CallType, ServerType, stop, connecting, calling,
            serverVars
<1>1. CASE ReadCheck
  BY <1>1, IdleType DEF ReadCheck
<1>2. CASE ReadNext
  BY <1>2, ReadType DEF ReadNext
<1>3. CASE Handled
  BY <1>3, IdleType DEF Handled
<1>4. CASE BeatStops
  BY <1>4, IdleType DEF BeatStops
<1>5. CASE Tick
  BY <1>5, IdleType, BoundsAssumption DEF Tick
<1>6. CASE Beat
  <2>1. "tell" \in Requests
    BY DEF Requests
  <2>2. ChannelType'
    BY <1>6, <2>1, WrittenType, IdleType DEF Beat, Refused
  <2> QED BY <1>6, <2>2 DEF Beat
<1> QED BY <1>1, <1>2, <1>3, <1>4, <1>5, <1>6 DEF ClientReadLoop, Heartbeat

LEMMA CallerType ==
  ASSUME TypeParts, NEW t \in Callers,
         Caller(t) \/ \E method \in Methods : Call(t, method)
  PROVE  TypeParts'
<1> USE DEF TypeParts, ControlType, CallType, ServerType, stop, connecting, loops,
            serverVars
<1>1. CASE \E method \in Methods : Call(t, method)
  BY <1>1, IdleType, BoundsAssumption DEF Call
<1>2. CASE CallSend(t)
  <2>1. (IF asked[t] = "query" THEN t ELSE asked[t]) \in Requests
    BY DEF Requests, Methods
  <2>2. ChannelType'
    BY <1>2, <2>1, WrittenType, IdleType DEF CallSend, Refused, Unsendable
  <2> QED BY <1>2, <2>2 DEF CallSend
<1>3. CASE CallRead(t)
  BY <1>3, ReadType DEF CallRead, Ends
<1> QED BY <1>1, <1>2, <1>3 DEF Caller

LEMMA DisconnectType ==
  ASSUME TypeParts, DisconnectStop \/ Disconnect
  PROVE  TypeParts'
<1> USE DEF TypeParts, ControlType, CallType, ServerType, connecting, loops,
            calling, serverVars
<1>1. CASE DisconnectStop
  BY <1>1, IdleType DEF DisconnectStop
<1>2. CASE DisconnectClose
  BY <1>2, IdleType, CloseType DEF DisconnectClose
<1>3. CASE DisconnectReturn
  BY <1>3, IdleType DEF DisconnectReturn
<1> QED BY <1>1, <1>2, <1>3 DEF Disconnect

\* One frame leaves writeChan: to the server, or lost.
LEMMA DequeueType ==
  ASSUME ChannelType, Flush(Conn) \/ WriteFails(Conn), outgoing' = Tail(outgoing),
         UNCHANGED <<inVars, received>>
  PROVE  ChannelType' /\ outgoing # << >>
<1>1. buffered[Conn] \in 0 .. WriteCap /\ buffered[Conn] > 0
  BY ConnIsOne DEF ChannelType, OutTypeOK, Flush, WriteFails
<1>2. /\ buffered' \in [Conns -> 0 .. WriteCap]
      /\ buffered'[Conn] = buffered[Conn] - 1
  <2>1. buffered' = [buffered EXCEPT ![Conn] = @ - 1]
    BY DEF Flush, WriteFails
  <2> QED BY <1>1, <2>1, ConnIsOne, WriteCapAssumption DEF ChannelType, OutTypeOK
<1>3. /\ outgoing # << >>
      /\ Tail(outgoing) \in Seq(Requests) /\ Len(Tail(outgoing)) = Len(outgoing) - 1
  BY <1>1 DEF ChannelType
<1>4. closed' = closed /\ writeLoop' \in [Conns -> {"running", "ended"}]
  BY DEF ChannelType, OutTypeOK, Flush, WriteFails
<1> QED BY <1>2, <1>3, <1>4 DEF ChannelType, OutTypeOK, InTypeOK, inVars

LEMMA RepliesAreFrames ==
  ASSUME NEW request \in Requests, NEW reply \in Replies(request)
  PROVE  reply \in Seq(Frames)
<1>1. CASE request \in Callers
  <2>1. \A ok \in BOOLEAN : <<Answer(request, ok)>> \in Seq(Frames)
    BY <1>1 DEF Answer, Frames
  <2> QED BY <1>1, <2>1, CallersAssumption DEF Replies
<1>2. CASE request \notin Callers
  <2>1. \A ok \in BOOLEAN : <<Answer("other", ok)>> \in Seq(Frames)
    BY DEF Answer, Frames
  <2>2. << >> \in Seq(Frames)
    OBVIOUS
  <2> QED BY <1>2, <2>1, <2>2 DEF Replies
<1> QED BY <1>1, <1>2

LEMMA PeerType ==
  ASSUME TypeParts,
         ServerReads \/ ServerDelivers \/ ServerConfirms \/ Incoming
           \/ RequestLost \/ PingLost
  PROVE  TypeParts'
<1> USE DEF TypeParts, ControlType, CallType, ServerType, stop, connecting, loops,
            calling, serverVars
<1>1. CASE ServerReads
  <2>1. ChannelType' /\ outgoing # << >>
    BY <1>1, DequeueType DEF ServerReads
  <2>2. PICK reply \in Replies(Head(outgoing)) :
          wire' = IF Reached THEN wire \o reply ELSE wire
    BY <1>1 DEF ServerReads
  <2>3. Head(outgoing) \in Requests
    BY <2>1 DEF ChannelType
  <2>4. reply \in Seq(Frames)
    BY <2>2, <2>3, RepliesAreFrames
  <2>5. wire' \in Seq(Frames)
    BY <2>2, <2>4
  <2> QED BY <1>1, <2>1, <2>5 DEF ServerReads
<1>2. CASE ServerDelivers
  <2>1. Append(wire, Message) \in Seq(Frames)
    BY DEF Message, Frames
  <2> QED BY <1>2, <2>1, IdleType, BoundsAssumption DEF ServerDelivers
<1>3. CASE ServerConfirms
  <2>1. \A ok \in BOOLEAN : Append(wire, Answer("registration", ok)) \in Seq(Frames)
    BY DEF Answer, Frames
  <2>2. /\ wire' \in Seq(Frames)
        /\ server' \in {"waiting", "delivering", "confirmed", "refused"}
    BY <1>3, <2>1 DEF ServerConfirms
  <2> QED BY <1>3, <2>2, IdleType DEF ServerConfirms
<1>4. CASE FrameArrives
  <2>1. Head(wire) \in Frames /\ Tail(wire) \in Seq(Frames)
    BY <1>4 DEF FrameArrives
  <2>2. /\ Append(received, Head(wire)) \in Seq(Frames)
        /\ Len(Append(received, Head(wire))) = Len(received) + 1
    BY <2>1 DEF ChannelType
  <2>3. /\ inbox' \in [Conns -> 0 .. ReadCap]
        /\ inbox'[Conn] = inbox[Conn] + 1
    BY <1>4, ConnIsOne, ReadCapAssumption
       DEF FrameArrives, Receive, ChannelType, InTypeOK
  <2>4. ChannelType'
    BY <1>4, <2>2, <2>3
       DEF FrameArrives, Receive, ChannelType, OutTypeOK, InTypeOK, outVars
  <2> QED BY <1>4, <2>1, <2>4 DEF FrameArrives
<1>5. CASE PeerLost
  <2>1. << >> \in Seq(Frames)
    OBVIOUS
  <2>2. ChannelType'
    BY <1>5 DEF PeerLost, ReadLoopEnds, ChannelType, OutTypeOK, InTypeOK, outVars
  <2> QED BY <1>5, <2>1, <2>2 DEF PeerLost
<1>6. CASE RequestLost
  BY <1>6, DequeueType DEF RequestLost
<1>7. CASE PingLost
  <2>1. ChannelType'
    BY <1>7 DEF PingLost, PingFails, ChannelType, OutTypeOK, InTypeOK, inVars
  <2> QED BY <1>7, <2>1 DEF PingLost
<1> QED BY <1>1, <1>2, <1>3, <1>4, <1>5, <1>6, <1>7 DEF Incoming

LEMMA StepType ==
  ASSUME TypeParts, [Next]_vars
  PROVE  TypeParts'
<1>1. CASE UNCHANGED vars
  BY <1>1, IdleType DEF TypeParts, ControlType, CallType, ServerType, vars, stop,
     connecting, loops, calling, serverVars
<1>2. CASE Next
  BY <1>2, ConnectType, LoopType, CallerType, DisconnectType, PeerType DEF Next
<1> QED BY <1>1, <1>2

LEMMA TypePartsHold == Spec => []TypeParts
<1> QED BY InitType, StepType, PTL DEF Spec

(* The types, in particular that what is in readChan and writeChan is what *)
(* their counters say and never more than their capacity.                  *)
THEOREM TypeCorrect == Spec => []TypeOK
<1> QED BY TypePartsHold, TypeIsItsParts, PTL

-----------------------------------------------------------------------------
\* Everything but Connect leaves its three fields alone.
Others == \/ ClientReadLoop \/ Heartbeat
          \/ \E t \in Callers : Caller(t) \/ \E method \in Methods : Call(t, method)
          \/ DisconnectStop \/ Disconnect
          \/ ServerReads \/ ServerDelivers \/ ServerConfirms
          \/ Incoming \/ RequestLost \/ PingLost

LEMMA NextIsConnectOrOthers == Next => Connect \/ Others
<1> QED BY DEF Next, Others

LEMMA OthersKeepConnecting == Others => UNCHANGED connecting
<1> SUFFICES ASSUME Others PROVE UNCHANGED connecting
  OBVIOUS
<1>1. CASE ClientReadLoop \/ Heartbeat
  BY <1>1 DEF ClientReadLoop, ReadCheck, ReadNext, Handled, Heartbeat, BeatStops,
              Tick, Beat
<1>2. CASE \E t \in Callers : Caller(t) \/ \E method \in Methods : Call(t, method)
  BY <1>2 DEF Caller, Call, CallSend, CallRead
<1>3. CASE DisconnectStop \/ Disconnect
  BY <1>3 DEF DisconnectStop, Disconnect, DisconnectClose, DisconnectReturn
<1>4. CASE ServerReads \/ ServerDelivers \/ ServerConfirms \/ Incoming
             \/ RequestLost \/ PingLost
  BY <1>4 DEF ServerReads, ServerDelivers, ServerConfirms, Incoming, FrameArrives,
              PeerLost, RequestLost, PingLost
<1> QED BY <1>1, <1>2, <1>3, <1>4 DEF Others

\* No step opens the connection again.
LEMMA OthersKeepClosed ==
  ASSUME TypeParts, Others, closed[Conn]
  PROVE  closed'[Conn]
<1> USE DEF channels, outVars, inVars
<1>1. CASE ClientReadLoop \/ Heartbeat
  BY <1>1 DEF ClientReadLoop, ReadCheck, ReadNext, Handled, Heartbeat, BeatStops,
              Tick, Beat, TakeFrame, TakeNil, TakeStopped, Written, Put, Refused
<1>2. CASE \E t \in Callers : Caller(t) \/ \E method \in Methods : Call(t, method)
  BY <1>2 DEF Caller, Call, CallSend, CallRead, TakeFrame, TakeNil, TakeStopped,
              Written, Put, Refused, Unsendable
<1>3. CASE DisconnectStop \/ DisconnectReturn
  BY <1>3 DEF DisconnectStop, DisconnectReturn
<1>4. CASE DisconnectClose
  BY <1>4, CloseKeepsType DEF DisconnectClose, CloseConn, TypeParts
<1>5. CASE ServerReads \/ ServerDelivers \/ ServerConfirms \/ Incoming
             \/ RequestLost \/ PingLost
  BY <1>5 DEF ServerReads, ServerDelivers, ServerConfirms, Incoming, FrameArrives,
              PeerLost, RequestLost, PingLost, Flush, WriteFails, PingFails,
              Receive, ReadLoopEnds
<1> QED BY <1>1, <1>2, <1>3, <1>4, <1>5 DEF Others, Disconnect

(* A Connect that dials has no connection yet, so one that fails there     *)
(* leaves none; every later failure closes it.                             *)
Abandonment == /\ connectPc = "dial" => ~hasConn
               /\ FailedConnectIsClosed

LEMMA ConnectAbandons ==
  ASSUME TypeParts, Abandonment, Connect
  PROVE  Abandonment'
<1> USE DEF Abandonment, FailedConnectIsClosed
<1>1. CASE Dial
  BY <1>1 DEF Dial
<1>2. CASE SendRegistration
  BY <1>2 DEF SendRegistration, Refused, StopSeen, channels, outVars
<1>3. CASE ReadConfirmation
  <2>1. CASE Confirms(Head(received))
    BY <1>3, <2>1 DEF ReadConfirmation
  <2>2. CASE ~Confirms(Head(received))
    BY <1>3, <2>2, CloseKeepsType DEF ReadConfirmation, TypeParts
  <2> QED BY <2>1, <2>2
<1>4. CASE ConfirmationFails
  BY <1>4, CloseKeepsType DEF ConfirmationFails, Abandoned, CloseConn, TypeParts
<1>5. CASE StartLoops
  BY <1>5 DEF StartLoops
<1> QED BY <1>1, <1>2, <1>3, <1>4, <1>5 DEF Connect

(* A Connect that has given up leaves no connection behind (client.go:73,  *)
(* 80, 89, 94), whatever the peer, Disconnect and the calls do meanwhile.  *)
THEOREM FailedIsClosed == Spec => []FailedConnectIsClosed
<1>1. Init => Abandonment
  BY DEF Init, Abandonment, FailedConnectIsClosed
<1>2. TypeParts /\ Abandonment /\ [Next]_vars => Abandonment'
  <2> SUFFICES ASSUME TypeParts, Abandonment, [Next]_vars
               PROVE  Abandonment'
    OBVIOUS
  <2>1. CASE Others
    BY <2>1, OthersKeepConnecting, OthersKeepClosed
       DEF Abandonment, FailedConnectIsClosed, connecting
  <2>2. CASE UNCHANGED vars
    BY <2>2 DEF Abandonment, FailedConnectIsClosed, vars, connecting, channels,
                outVars
  <2> QED BY <2>1, <2>2, ConnectAbandons, NextIsConnectOrOthers
<1>3. Abandonment => FailedConnectIsClosed
  BY DEF Abandonment
<1> QED BY <1>1, <1>2, <1>3, TypePartsHold, PTL DEF Spec

-----------------------------------------------------------------------------
(* From the moment Disconnect was called readLoop is told to stop at its   *)
(* next check, and once it has been waited for it is not in a handler: if  *)
(* Connect starts it later, it ends at its first check.                    *)
Quiet == /\ discPc # "idle" => stopping
         /\ discPc = "returned" => readPc \in {"none", "check", "ended"}

LEMMA QuietKept ==
  ASSUME Quiet, [Next]_vars
  PROVE  Quiet'
<1> USE DEF Quiet, stop, loops
<1>1. CASE Connect
  BY <1>1 DEF Connect, Dial, SendRegistration, ReadConfirmation, ConfirmationFails,
              StartLoops
<1>2. CASE ReadCheck
  BY <1>2 DEF ReadCheck
<1>3. CASE ReadNext \/ Handled
  BY <1>3 DEF ReadNext, Handled
<1>4. CASE Heartbeat
  BY <1>4 DEF Heartbeat, BeatStops, Tick, Beat
<1>5. CASE \E t \in Callers : Caller(t) \/ \E method \in Methods : Call(t, method)
  BY <1>5 DEF Caller, Call, CallSend, CallRead
<1>6. CASE DisconnectStop \/ Disconnect
  BY <1>6 DEF DisconnectStop, Disconnect, DisconnectClose, DisconnectReturn,
              LoopsDone
<1>7. CASE ServerReads \/ ServerDelivers \/ ServerConfirms \/ Incoming
             \/ RequestLost \/ PingLost
  BY <1>7 DEF ServerReads, ServerDelivers, ServerConfirms, Incoming, FrameArrives,
              PeerLost, RequestLost, PingLost
<1>8. CASE UNCHANGED vars
  BY <1>8 DEF vars
<1> QED BY <1>1, <1>2, <1>3, <1>4, <1>5, <1>6, <1>7, <1>8 DEF Next, ClientReadLoop

(* Once Disconnect has returned no handler runs (client.go:122, 337), even *)
(* when it was called while Connect was on its way.                        *)
THEOREM NoLateHandler == Spec => []NoHandlerAfterDisconnect
<1>1. Init => Quiet
  BY DEF Init, Quiet
<1>2. Quiet => NoHandlerAfterDisconnect
  BY DEF Quiet, NoHandlerAfterDisconnect
<1> QED BY <1>1, <1>2, QuietKept, PTL DEF Spec

-----------------------------------------------------------------------------
(* A loop that runs has a connection, so Disconnect closes it; one that is *)
(* started after Disconnect looked for it ends at its check of stopChan.   *)

Running == readPc = "read" \/ beatPc = "beat"
Closing == /\ Running => hasConn
           /\ connectPc \notin {"dial", "failed"} => hasConn
           /\ connectPc # "connected" => readPc = "none" /\ beatPc = "none"
           /\ discPc \in {"wait", "returned"} /\ Running => closed[Conn]

LEMMA KeepsClosed ==
  ASSUME TypeParts, [Next]_vars, closed[Conn]
  PROVE  closed'[Conn]
<1>1. CASE Connect
  <2>1. CASE Dial \/ StartLoops
    BY <2>1 DEF Dial, StartLoops, channels, outVars
  <2>2. CASE SendRegistration
    BY <2>2 DEF SendRegistration, Written, Refused, channels, outVars
  <2>3. CASE ReadConfirmation
    BY <2>3, CloseKeepsType DEF ReadConfirmation, TakeFrame, outVars, TypeParts
  <2>4. CASE ConfirmationFails
    BY <2>4, CloseKeepsType DEF ConfirmationFails, Abandoned, CloseConn, TypeParts
  <2> QED BY <1>1, <2>1, <2>2, <2>3, <2>4 DEF Connect
<1>2. CASE UNCHANGED vars
  BY <1>2 DEF vars, channels, outVars
<1> QED BY <1>1, <1>2, OthersKeepClosed, NextIsConnectOrOthers

LEMMA ClosingKept ==
  ASSUME TypeParts, Quiet, Closing, [Next]_vars
  PROVE  Closing'
<1> USE KeepsClosed DEF Closing, Running, Quiet, stop, loops, connecting
<1>1. CASE Connect
  BY <1>1 DEF Connect, Dial, SendRegistration, ReadConfirmation, ConfirmationFails,
              StartLoops
<1>2. CASE ClientReadLoop
  BY <1>2 DEF ClientReadLoop, ReadCheck, ReadNext, Handled
<1>3. CASE Heartbeat
  BY <1>3 DEF Heartbeat, BeatStops, Tick, Beat
<1>4. CASE \E t \in Callers : Caller(t) \/ \E method \in Methods : Call(t, method)
  BY <1>4 DEF Caller, Call, CallSend, CallRead
<1>5. CASE DisconnectStop \/ DisconnectReturn
  BY <1>5 DEF DisconnectStop, DisconnectReturn
<1>6. CASE DisconnectClose
  <2>1. hasConn => closed'[Conn]
    BY <1>6, CloseKeepsType DEF DisconnectClose, CloseConn, TypeParts
  <2> QED BY <1>6, <2>1 DEF DisconnectClose
<1>7. CASE ServerReads \/ ServerDelivers \/ ServerConfirms \/ Incoming
             \/ RequestLost \/ PingLost
  BY <1>7 DEF ServerReads, ServerDelivers, ServerConfirms, Incoming, FrameArrives,
              PeerLost, RequestLost, PingLost
<1>8. CASE UNCHANGED vars
  BY <1>8 DEF vars
<1> QED BY <1>1, <1>2, <1>3, <1>4, <1>5, <1>6, <1>7, <1>8 DEF Next, Disconnect

(* Disconnect does not wait for a loop that cannot go on, whatever Connect *)
(* and the calls are doing (client.go:116-122).                            *)
THEOREM DisconnectGoesOn == Spec => []DisconnectNotStuck
<1>1. Init => Quiet /\ Closing
  BY DEF Init, Quiet, Closing, Running
<1>2. Quiet /\ Closing => DisconnectNotStuck
  BY DEF Quiet, Closing, Running, DisconnectNotStuck, ReadLoopGoes, HeartbeatGoes,
     StopSeen
<1> QED BY <1>1, <1>2, QuietKept, ClosingKept, TypePartsHold, PTL DEF Spec

-----------------------------------------------------------------------------
(* Until Connect has its confirmation nobody else reads or writes, so the  *)
(* only request is the registration and the only frame that says success   *)
(* is the answer to it.                                                    *)

Early == connectPc \in {"dial", "register", "confirm"}
Late == connectPc \in {"start", "connected"}

NobodyElse == Early => /\ \A t \in Callers : callPc[t] = "idle"
                       /\ readPc = "none" /\ beatPc = "none"

OneRequest ==
  /\ connectPc \in {"dial", "register"} => server = "waiting" /\ outgoing = << >>
  /\ connectPc = "confirm" => \/ outgoing = << >>
                              \/ outgoing = <<"register">> /\ server = "waiting"
  /\ Late => \A i \in 1 .. Len(outgoing) : outgoing[i] # "register"

Genuine(frame) ==
  frame.success => frame = Answer("registration", TRUE) /\ server = "confirmed"
AllGenuine(frames) == \A i \in 1 .. Len(frames) : Genuine(frames[i])
OnlyGenuine == Early => AllGenuine(wire) /\ AllGenuine(received)

Handshake == /\ NobodyElse /\ OneRequest /\ OnlyGenuine
             /\ ConnectedMeansConfirmed

LEMMA GenuineAppend ==
  ASSUME NEW frames \in Seq(Frames), AllGenuine(frames),
         NEW frame \in Frames, Genuine(frame)
  PROVE  AllGenuine(Append(frames, frame))
<1>1. Len(Append(frames, frame)) = Len(frames) + 1
  OBVIOUS
<1>2. /\ \A i \in 1 .. Len(frames) : Append(frames, frame)[i] = frames[i]
      /\ Append(frames, frame)[Len(frames) + 1] = frame
  OBVIOUS
<1>3. \A i \in 1 .. Len(frames) + 1 : i \in 1 .. Len(frames) \/ i = Len(frames) + 1
  OBVIOUS
<1> QED BY <1>1, <1>2, <1>3 DEF AllGenuine

LEMMA GenuineTail ==
  ASSUME NEW frames \in Seq(Frames), AllGenuine(frames), frames # << >>
  PROVE  AllGenuine(Tail(frames)) /\ Genuine(Head(frames))
<1>1. Len(frames) \in Nat \ {0} /\ Len(Tail(frames)) = Len(frames) - 1
  OBVIOUS
<1>2. \A i \in 1 .. Len(frames) - 1 : /\ Tail(frames)[i] = frames[i + 1]
                                      /\ i + 1 \in 1 .. Len(frames)
  OBVIOUS
<1>3. Head(frames) = frames[1] /\ 1 \in 1 .. Len(frames)
  BY <1>1
<1> QED BY <1>1, <1>2, <1>3 DEF AllGenuine

\* As long as the server's state stays, so does what is genuine.
LEMMA GenuineKept ==
  ASSUME server' = server, OnlyGenuine, Early' => Early, UNCHANGED <<wire, received>>
  PROVE  OnlyGenuine'
<1> QED BY DEF OnlyGenuine, AllGenuine, Genuine, Early

LEMMA HandshakeInit == Init => Handshake
<1>1. Len(<< >>) = 0
  OBVIOUS
<1> QED BY <1>1 DEF Init, Handshake, NobodyElse, OneRequest, OnlyGenuine, AllGenuine,
                    Early, Late, ConnectedMeansConfirmed

LEMMA HandshakeConnect ==
  ASSUME TypeParts, Handshake, Connect
  PROVE  Handshake'
<1> USE DEF Handshake, NobodyElse, OneRequest, OnlyGenuine, Early, Late,
            ConnectedMeansConfirmed, serverVars, loops, calling
<1>1. CASE Dial
  BY <1>1, GenuineKept DEF Dial, channels
<1>2. CASE SendRegistration
  <2>1. CASE Written("register") /\ connectPc' = "confirm"
    <3>1. outgoing = << >> /\ outgoing' = Append(outgoing, "register")
      BY <1>2, <2>1 DEF SendRegistration, Written
    <3>2. outgoing' = <<"register">>
      BY <3>1
    <3> QED BY <1>2, <2>1, <3>2, GenuineKept DEF SendRegistration, Written
  <2>2. CASE Refused /\ connectPc' = "failed"
    BY <1>2, <2>2 DEF SendRegistration
  <2> QED BY <1>2, <2>1, <2>2 DEF SendRegistration
<1>3. CASE ReadConfirmation
  <2>1. CASE Confirms(Head(received))
    <3>1. received \in Seq(Frames) /\ Len(received) > 0
      BY <1>3 DEF ReadConfirmation, TypeParts, ChannelType
    <3>2. Genuine(Head(received)) /\ Head(received).success
      BY <1>3, <2>1, <3>1, GenuineTail DEF ReadConfirmation, Confirms
    <3>3. first' = Answer("registration", TRUE) /\ server = "confirmed"
      BY <1>3, <3>2 DEF ReadConfirmation, Genuine
    <3>4. outgoing = << >>
      BY <1>3, <3>3 DEF ReadConfirmation
    <3>5. outgoing' = outgoing /\ connectPc' = "start"
      BY <1>3, <2>1 DEF ReadConfirmation, TakeFrame
    <3>6. \A i \in 1 .. Len(outgoing') : outgoing'[i] # "register"
      BY <3>4, <3>5
    <3> QED BY <1>3, <3>3, <3>5, <3>6 DEF ReadConfirmation
  <2>2. CASE ~Confirms(Head(received))
    BY <1>3, <2>2 DEF ReadConfirmation
  <2> QED BY <2>1, <2>2
<1>4. CASE ConfirmationFails
  BY <1>4 DEF ConfirmationFails
<1>5. CASE StartLoops
  BY <1>5 DEF StartLoops, channels
<1> QED BY <1>1, <1>2, <1>3, <1>4, <1>5 DEF Connect

\* What a step must leave alone when Connect has not got its answer, and what
\* it may do to the requests afterwards.
LEMMA HandshakeLoops ==
  ASSUME TypeParts, Handshake, ClientReadLoop \/ Heartbeat
  PROVE  Handshake'
<1> USE DEF Handshake, NobodyElse, OneRequest, OnlyGenuine, Early, Late,
            ConnectedMeansConfirmed, serverVars, connecting, calling
<1>1. CASE ReadCheck \/ Handled \/ BeatStops \/ Tick
  BY <1>1 DEF ReadCheck, Handled, BeatStops, Tick, channels
<1>2. CASE ReadNext
  BY <1>2 DEF ReadNext, TakeFrame, TakeNil, TakeStopped
<1>3. CASE Beat
  <2>1. CASE Written("tell")
    <3>1. outgoing \in Seq(Requests) /\ outgoing' = Append(outgoing, "tell")
      BY <2>1 DEF Written, TypeParts, ChannelType
    <3>2. Late => \A i \in 1 .. Len(outgoing') : outgoing'[i] # "register"
      BY <3>1
    <3> QED BY <1>3, <3>2 DEF Beat
  <2>2. CASE Refused
    BY <1>3, <2>2 DEF Beat, Refused, channels
  <2> QED BY <1>3, <2>1, <2>2 DEF Beat
<1> QED BY <1>1, <1>2, <1>3 DEF ClientReadLoop, Heartbeat

LEMMA HandshakeCaller ==
  ASSUME TypeParts, Handshake, NEW t \in Callers,
         Caller(t) \/ \E method \in Methods : Call(t, method)
  PROVE  Handshake'
<1> USE DEF Handshake, NobodyElse, OneRequest, OnlyGenuine, Early, Late,
            ConnectedMeansConfirmed, serverVars, connecting, loops
<1>1. CASE \E method \in Methods : Call(t, method)
  BY <1>1 DEF Call, channels
<1>2. CASE CallSend(t)
  <2> DEFINE request == IF asked[t] = "query" THEN t ELSE asked[t]
  <2>1. ~Early
    BY <1>2 DEF CallSend
  <2>2. CASE Written(request)
    <3>1. request \in Requests /\ request # "register"
      BY CallersAssumption DEF TypeParts, CallType, Methods, Requests
    <3>2. outgoing \in Seq(Requests) /\ outgoing' = Append(outgoing, request)
      BY <2>2 DEF Written, TypeParts, ChannelType
    <3>3. Late => \A i \in 1 .. Len(outgoing') : outgoing'[i] # "register"
      BY <3>1, <3>2
    <3> QED BY <1>2, <2>1, <3>3 DEF CallSend
  <2>3. CASE Refused \/ Unsendable
    BY <1>2, <2>1, <2>3 DEF CallSend, Refused, Unsendable, channels
  <2> QED BY <1>2, <2>2, <2>3 DEF CallSend
<1>3. CASE CallRead(t)
  BY <1>3 DEF CallRead, TakeFrame, TakeNil, TakeStopped
<1> QED BY <1>1, <1>2, <1>3 DEF Caller

LEMMA HandshakeDisconnect ==
  ASSUME TypeParts, Handshake, DisconnectStop \/ Disconnect
  PROVE  Handshake'
<1> USE DEF Handshake, NobodyElse, OneRequest, OnlyGenuine, Early, Late,
            ConnectedMeansConfirmed, serverVars, connecting, loops, calling, channels
<1>1. CASE DisconnectStop \/ DisconnectReturn
  BY <1>1, GenuineKept DEF DisconnectStop, DisconnectReturn
<1>2. CASE DisconnectClose
  <2>1. /\ outgoing' = outgoing \/ outgoing' = << >>
        /\ received' = received
    BY <1>2 DEF DisconnectClose, CloseConn
  <2>2. Late => \A i \in 1 .. Len(outgoing') : outgoing'[i] # "register"
    BY <2>1
  <2> QED BY <1>2, <2>1, <2>2, GenuineKept DEF DisconnectClose
<1> QED BY <1>1, <1>2, GenuineKept DEF Disconnect

LEMMA HandshakeServer ==
  ASSUME TypeParts, Handshake, ServerReads \/ ServerDelivers \/ ServerConfirms
  PROVE  Handshake'
<1> USE DEF Handshake, NobodyElse, OneRequest, OnlyGenuine, Early, Late,
            ConnectedMeansConfirmed, connecting, loops, calling, channels
<1>0. wire \in Seq(Frames) /\ received \in Seq(Frames) /\ outgoing \in Seq(Requests)
  BY DEF TypeParts, ChannelType, ServerType
<1>1. CASE ServerReads
  <2>1. outgoing # << >>
    BY <1>1, DequeueType DEF ServerReads, TypeParts
  <2>2. CASE Early
    <3>1. outgoing = <<"register">> /\ server = "waiting" /\ connectPc = "confirm"
      BY <2>1, <2>2
    <3>2. Head(outgoing) = "register" /\ outgoing' = << >>
      BY <1>1, <3>1 DEF ServerReads
    <3>3. Replies("register") = {<< >>} /\ wire \o << >> = wire
      <4>1. Replies("register") = {<< >>}
        BY CallersAssumption DEF Replies
      <4> QED BY <1>0, <4>1
    <3>4. wire' = wire /\ server' = "delivering"
      BY <1>1, <3>2, <3>3 DEF ServerReads
    <3>5. \A frame : Genuine(frame) => Genuine(frame)'
      BY <3>1 DEF Genuine
    <3>6. AllGenuine(wire)' /\ AllGenuine(received)'
      BY <1>1, <2>2, <3>4, <3>5 DEF AllGenuine, ServerReads
    <3>7. /\ connectPc' = connectPc /\ callPc' = callPc
          /\ readPc' = readPc /\ beatPc' = beatPc
      BY <1>1 DEF ServerReads
    <3> QED BY <2>2, <3>1, <3>2, <3>6, <3>7
  <2>3. CASE Late
    <3>1. Head(outgoing) # "register"
      BY <1>0, <2>1, <2>3
    <3>2. outgoing' = Tail(outgoing) /\ server' = server
      BY <1>1, <3>1 DEF ServerReads
    <3>3. \A i \in 1 .. Len(outgoing') : outgoing'[i] # "register"
      BY <1>0, <2>1, <2>3, <3>2
    <3> QED BY <1>1, <2>3, <3>2, <3>3 DEF ServerReads
  <2>4. CASE ~Early /\ ~Late
    BY <1>1, <2>4 DEF ServerReads
  <2> QED BY <2>2, <2>3, <2>4
<1>2. CASE ServerDelivers
  <2>1. wire' = Append(wire, Message) /\ ~Message.success
    BY <1>2 DEF ServerDelivers, Message
  <2>2. Message \in Frames /\ Genuine(Message)
    BY <2>1 DEF Message, Frames, Genuine
  <2>3. Early => AllGenuine(wire') /\ AllGenuine(received)
    BY <1>0, <2>1, <2>2, GenuineAppend
  <2>4. server' = server /\ received' = received
    BY <1>2 DEF ServerDelivers
  <2>5. Early => AllGenuine(wire)' /\ AllGenuine(received)'
    BY <2>3, <2>4 DEF AllGenuine, Genuine
  <2> QED BY <1>2, <2>5 DEF ServerDelivers
<1>3. CASE ServerConfirms
  <2>1. server = "delivering" /\ received' = received /\ ~Late
    BY <1>3 DEF ServerConfirms
  <2>2. PICK ok \in BOOLEAN : /\ wire' = Append(wire, Answer("registration", ok))
                              /\ ok => server' = "confirmed"
    BY <1>3 DEF ServerConfirms
  <2>3. \A frame : Genuine(frame) => Genuine(frame)'
    BY <2>1 DEF Genuine
  <2>4. Genuine(Answer("registration", ok))'
    BY <2>2 DEF Genuine, Answer
  <2>5. Early => AllGenuine(wire)' /\ AllGenuine(received)'
    <3> HAVE Early
    <3>1. AllGenuine(received)'
      BY <2>1, <2>3 DEF AllGenuine
    <3>2. \A i \in 1 .. Len(wire) : \A frame : frame = wire[i] => Genuine(frame)'
      BY <2>3 DEF AllGenuine
    <3>3. /\ Len(wire') = Len(wire) + 1
          /\ \A i \in 1 .. Len(wire) : wire'[i] = wire[i]
          /\ wire'[Len(wire) + 1] = Answer("registration", ok)
      BY <1>0, <2>2
    <3>4. \A i \in 1 .. Len(wire') : i \in 1 .. Len(wire) \/ i = Len(wire) + 1
      BY <1>0, <3>3
    <3>5. \A i \in 1 .. Len(wire') : \A frame : frame = wire'[i] => Genuine(frame)'
      BY <2>4, <3>2, <3>3, <3>4
    <3> QED BY <3>1, <3>5 DEF AllGenuine
  <2> QED BY <1>3, <2>1, <2>5 DEF ServerConfirms
<1> QED BY <1>1, <1>2, <1>3

LEMMA HandshakeTransport ==
  ASSUME TypeParts, Handshake, Incoming \/ RequestLost \/ PingLost
  PROVE  Handshake'
<1> USE DEF Handshake, NobodyElse, OneRequest, OnlyGenuine, Early, Late,
            ConnectedMeansConfirmed, serverVars, connecting, loops, calling
<1>0. wire \in Seq(Frames) /\ received \in Seq(Frames) /\ outgoing \in Seq(Requests)
  BY DEF TypeParts, ChannelType, ServerType
<1>1. CASE FrameArrives
  <2>1. /\ received' = Append(received, Head(wire)) /\ wire' = Tail(wire)
        /\ wire # << >>
    BY <1>1 DEF FrameArrives
  <2>2. Early => AllGenuine(wire') /\ AllGenuine(received')
    BY <1>0, <2>1, GenuineTail, GenuineAppend
  <2>3. server' = server
    BY <1>1 DEF FrameArrives
  <2>4. Early => AllGenuine(wire)' /\ AllGenuine(received)'
    BY <2>2, <2>3 DEF AllGenuine, Genuine
  <2> QED BY <1>1, <2>4 DEF FrameArrives
<1>2. CASE PeerLost
  <2>1. wire' = << >> /\ received' = received /\ server' = server
    BY <1>2 DEF PeerLost
  <2>2. Early => AllGenuine(wire)' /\ AllGenuine(received)'
    <3>1. Len(wire') = 0
      BY <2>1
    <3>2. \A frame : Genuine(frame) => Genuine(frame)'
      BY <2>1 DEF Genuine
    <3> QED BY <2>1, <3>1, <3>2 DEF AllGenuine
  <2> QED BY <1>2, <2>2 DEF PeerLost
<1>3. CASE RequestLost
  <2>1. outgoing' = Tail(outgoing) /\ outgoing # << >>
    BY <1>3, DequeueType DEF RequestLost, TypeParts
  <2>2. outgoing = <<"register">> => outgoing' = << >>
    BY <2>1
  <2>3. Late => \A i \in 1 .. Len(outgoing') : outgoing'[i] # "register"
    BY <1>0, <2>1
  <2> QED BY <1>3, <2>1, <2>2, <2>3, GenuineKept DEF RequestLost
<1>4. CASE PingLost
  BY <1>4, GenuineKept DEF PingLost
<1> QED BY <1>1, <1>2, <1>3, <1>4 DEF Incoming

(* When Connect has started the goroutines the server has said that the    *)
(* agent is registered (client.go:84-101): what else it may write, and     *)
(* what the calls may ask for later, is never taken for that.              *)
THEOREM ConnectedIsConfirmed == Spec => []ConnectedMeansConfirmed
<1>1. TypeParts /\ Handshake /\ [Next]_vars => Handshake'
  <2>1. CASE UNCHANGED vars
    BY <2>1, GenuineKept DEF Handshake, NobodyElse, OneRequest, OnlyGenuine, Early, Late,
       Genuine, ConnectedMeansConfirmed, vars, channels, serverVars, connecting,
       loops, calling
  <2> QED BY <2>1, HandshakeConnect, HandshakeLoops, HandshakeCaller,
             HandshakeDisconnect, HandshakeServer, HandshakeTransport DEF Next
<1>2. Handshake => ConnectedMeansConfirmed
  BY DEF Handshake
<1> QED BY <1>1, <1>2, HandshakeInit, TypePartsHold, PTL DEF Spec

-----------------------------------------------------------------------------
(* The composition MCClients, which TLC runs: what is proved above of this *)
(* library holds there, and so does what BridgeProofs proves of the other. *)

BridgeProofs == INSTANCE BridgeProofs WITH
  MaxFrames <- BridgeFrames, MaxCalls <- BridgeCalls, Cap <- BridgeCap,
  connectPc <- bConnectPc, socket <- bSocket, lost <- bLost,
  requests <- bRequests, calls <- bCalls, served <- bServed, wire <- bWire,
  sent <- bSent, readPc <- bReadPc, inHand <- bInHand, messages <- bMessages,
  taken <- bTaken, cancelled <- bCancelled, discPc <- bDiscPc, late <- bLate

composed == <<library, vars, bridgeVars>>

LEMMA ClientInside == MCSpec => Spec
<1>1. MCInit => Init
  BY DEF MCInit
<1>2. [MCNext]_composed => [Next]_vars
  BY DEF MCNext, composed
<1> QED BY <1>1, <1>2, PTL DEF MCSpec, Spec, composed

LEMMA BridgeInside == MCSpec => BridgeProofs!Spec
<1>1. MCInit => BridgeProofs!Init
  BY DEF MCInit, Bridge!Init, BridgeProofs!Init
<1>2. Bridge!Connect => BridgeProofs!Connect
  BY Zenon
     DEF Bridge!Connect, Bridge!Dial, Bridge!SendRegistration,
         Bridge!ReadConfirmation, Bridge!StartLoop, Bridge!SubscribeDefaults,
         Bridge!WriteWorks, Bridge!WriteFails, Bridge!Readable, Bridge!ReadFails,
         Bridge!network, Bridge!reading, Bridge!ending,
         BridgeProofs!Connect, BridgeProofs!Dial, BridgeProofs!SendRegistration,
         BridgeProofs!ReadConfirmation, BridgeProofs!StartLoop,
         BridgeProofs!SubscribeDefaults, BridgeProofs!WriteWorks,
         BridgeProofs!WriteFails, BridgeProofs!Readable, BridgeProofs!ReadFails,
         BridgeProofs!network, BridgeProofs!reading, BridgeProofs!ending
<1>3. Bridge!ReadLoop => BridgeProofs!ReadLoop
  BY Zenon
     DEF Bridge!ReadLoop, Bridge!LoopCheck, Bridge!LoopRead, Bridge!LoopReadFails,
         Bridge!LoopPush, Bridge!Stopped, Bridge!AfterError, Bridge!Pushed,
         Bridge!Readable, Bridge!ReadFails, Bridge!network, Bridge!ending,
         BridgeProofs!ReadLoop, BridgeProofs!LoopCheck, BridgeProofs!LoopRead,
         BridgeProofs!LoopReadFails, BridgeProofs!LoopPush,
         BridgeProofs!Stopped, BridgeProofs!AfterError, BridgeProofs!Pushed,
         BridgeProofs!Readable, BridgeProofs!ReadFails, BridgeProofs!network,
         BridgeProofs!ending
<1>4. Bridge!Next => BridgeProofs!Next
  BY <1>2, <1>3, Zenon
     DEF Bridge!Next, Bridge!TakeMessage, Bridge!Call, Bridge!Cancel,
         Bridge!DisconnectClose, Bridge!ServerReads, Bridge!ServerWrites,
         Bridge!PeerLost, Bridge!WriteWorks, Bridge!WriteFails,
         Bridge!network, Bridge!reading, Bridge!ending,
         BridgeProofs!Next, BridgeProofs!TakeMessage, BridgeProofs!Call,
         BridgeProofs!Cancel, BridgeProofs!DisconnectClose,
         BridgeProofs!ServerReads, BridgeProofs!ServerWrites,
         BridgeProofs!PeerLost, BridgeProofs!WriteWorks,
         BridgeProofs!WriteFails, BridgeProofs!network, BridgeProofs!reading,
         BridgeProofs!ending
<1>5. [MCNext]_composed => [BridgeProofs!Next]_BridgeProofs!vars
  BY <1>4
     DEF MCNext, composed, bridgeVars, BridgeProofs!vars, BridgeProofs!network,
         BridgeProofs!reading, BridgeProofs!ending
<1> QED BY <1>1, <1>5, PTL DEF MCSpec, BridgeProofs!Spec, composed

(* The state of both libraries keeps its types, the buffers their          *)
(* capacities, in the composition that is model-checked.                   *)
THEOREM ClientsAreTyped ==
  ASSUME BridgeProofs!Bounds
  PROVE  MCSpec => []TypesOK
<1>1. BridgeProofs!Spec => []BridgeProofs!TypeOK
  BY BridgeProofs!TypeCorrect
<1>2. TypeOK /\ BridgeProofs!TypeOK => TypesOK
  BY DEF TypesOK, Bridge!TypeOK, BridgeProofs!TypeOK, Bridge!Frames,
         BridgeProofs!Frames
<1> QED BY <1>1, <1>2, TypeCorrect, ClientInside, BridgeInside, PTL

(* FramesAreContiguous, of the bridge in the composition.                  *)
THEOREM BridgeKeepsFrames ==
  ASSUME BridgeProofs!Bounds
  PROVE  MCSpec => []BridgeDropsNothing
<1>1. BridgeProofs!Spec => []BridgeProofs!NothingIsDropped
  BY BridgeProofs!FramesAreContiguous
<1>2. BridgeProofs!NothingIsDropped => BridgeDropsNothing
  BY DEF BridgeDropsNothing, Bridge!NothingIsDropped, BridgeProofs!NothingIsDropped
<1> QED BY <1>1, <1>2, BridgeInside, PTL

(* OneAfterCancel, of the bridge in the composition.                       *)
THEOREM BridgeIsQuietAfterCancel ==
  ASSUME BridgeProofs!Bounds
  PROVE  MCSpec => []BridgeStopsSending
<1>1. BridgeProofs!Spec => []BridgeProofs!OneFrameAfterCancel
  BY BridgeProofs!OneAfterCancel
<1>2. BridgeProofs!OneFrameAfterCancel => BridgeStopsSending
  BY DEF BridgeStopsSending, Bridge!OneFrameAfterCancel,
         BridgeProofs!OneFrameAfterCancel
<1> QED BY <1>1, <1>2, BridgeInside, PTL
=============================================================================
