---------------------------- MODULE ClaudeBridge ----------------------------
(***************************************************************************)
(* pkg/claudebridge/client.go: the client that connects Claude Code to a   *)
(* server.  It uses the websocket library directly: no writer goroutine,   *)
(* no deadlines, and one goroutine, readLoop, that puts every frame into   *)
(* the channel `messages' for the application to take.                     *)
(*                                                                         *)
(* A frame is its number in the order the server wrote it; answers and     *)
(* messages of other agents are frames alike, as readLoop parses both.     *)
(* Calls that write a request are one step each, under c.mu.               *)
(***************************************************************************)
EXTENDS Naturals, Sequences

CONSTANTS MaxFrames,   \* bound: frames the server writes
          MaxCalls,    \* bound: requests the application makes
          Cap          \* capacity of `messages', 100 in the code

VARIABLES
  connectPc,   \* Connect: dial, register, confirm, start, subscribe,
               \* connected or failed
  socket,      \* none, open, or closed at this end
  lost,        \* TRUE when the peer is gone
  requests,    \* requests written and not read by the server
  calls,       \* counts the application's requests, for the bound
  served,      \* TRUE when the server has read the registration
  wire,        \* frames the server has written and nobody has read
  sent,        \* how many frames it has written
  readPc,      \* readLoop: none, check, read, push or ended
  inHand,      \* the frame readLoop waits to put into `messages', or 0
  messages,    \* the channel, oldest first
  taken,       \* history: what the application has taken, in that order
  cancelled,   \* the context
  discPc,      \* Disconnect: idle, close or returned
  late         \* history: frames put into `messages' since the cancel

network == <<lost, requests, served, wire, sent>>
reading == <<readPc, inHand, messages, late>>
ending == <<cancelled, discPc>>
vars == <<connectPc, socket, network, calls, reading, taken, ending>>

Frames == 1 .. MaxFrames

TypeOK == /\ connectPc \in {"dial", "register", "confirm", "start", "subscribe",
                            "connected", "failed"}
          /\ socket \in {"none", "open", "closed"}
          /\ lost \in BOOLEAN /\ served \in BOOLEAN /\ cancelled \in BOOLEAN
          /\ requests \in Nat /\ calls \in 0 .. MaxCalls
          /\ wire \in Seq(Frames) /\ sent \in 0 .. MaxFrames
          /\ readPc \in {"none", "check", "read", "push", "ended"}
          /\ inHand \in Frames \cup {0}
          /\ messages \in Seq(Frames) /\ Len(messages) <= Cap
          /\ taken \in Seq(Frames)
          /\ discPc \in {"idle", "close", "returned"}
          /\ late \in Nat

Init == /\ connectPc = "dial" /\ socket = "none" /\ lost = FALSE
        /\ requests = 0 /\ calls = 0
        /\ served = FALSE /\ wire = << >> /\ sent = 0
        /\ readPc = "none" /\ inHand = 0 /\ messages = << >> /\ taken = << >>
        /\ cancelled = FALSE /\ discPc = "idle" /\ late = 0

-----------------------------------------------------------------------------
(* The library.  A read takes the next frame, also of a peer that has gone *)
(* and, as long as it lies in the reader's buffer, of a socket closed      *)
(* here; it fails on a closed socket and when a lost peer has nothing      *)
(* left.  A frame on the way may be lost with the peer.                    *)

Readable == wire # << >>
ReadFails == socket = "closed" \/ (lost /\ wire = << >>)

\* A write to a lost peer may go unnoticed.
WriteWorks == socket = "open" /\ requests' = requests + 1
WriteFails == (socket = "closed" \/ lost) /\ UNCHANGED requests

-----------------------------------------------------------------------------
(* Connect.                                                                *)

Dial == /\ connectPc = "dial"
        /\ \/ connectPc' = "register" /\ socket' = "open"
           \/ connectPc' = "failed" /\ UNCHANGED socket
        /\ UNCHANGED <<network, calls, reading, taken, ending>>

SendRegistration ==
  /\ connectPc = "register"
  /\ \/ WriteWorks /\ connectPc' = "confirm" /\ UNCHANGED socket
     \/ WriteFails /\ connectPc' = "failed" /\ socket' = "closed"
  /\ UNCHANGED <<lost, served, wire, sent, calls, reading, taken, ending>>

\* Any frame will do: only the error is looked at.
ReadConfirmation ==
  /\ connectPc = "confirm"
  /\ \/ /\ Readable
        /\ wire' = Tail(wire)
        /\ connectPc' = "start" /\ UNCHANGED socket
     \/ /\ ReadFails
        /\ connectPc' = "failed" /\ socket' = "closed"
        /\ UNCHANGED wire
  /\ UNCHANGED <<lost, requests, served, sent, calls, reading, taken, ending>>

StartLoop == /\ connectPc = "start"
             /\ connectPc' = "subscribe" /\ readPc' = "check"
             /\ UNCHANGED <<socket, network, calls, inHand, messages, late,
                            taken, ending>>

\* The error of the subscription is ignored.
SubscribeDefaults ==
  /\ connectPc = "subscribe"
  /\ WriteWorks \/ WriteFails
  /\ connectPc' = "connected"
  /\ UNCHANGED <<socket, lost, served, wire, sent, calls, reading, taken, ending>>

Connect == Dial \/ SendRegistration \/ ReadConfirmation \/ StartLoop
           \/ SubscribeDefaults

-----------------------------------------------------------------------------
(* readLoop.                                                               *)

\* Mutant: the context is not looked at.
Stopped_Never == FALSE
Stopped == cancelled

LoopCheck == /\ readPc = "check"
             /\ readPc' = IF Stopped THEN "ended" ELSE "read"
             /\ UNCHANGED <<connectPc, socket, network, calls, inHand,
                            messages, late, taken, ending>>

LoopRead == /\ readPc = "read" /\ Readable
            /\ inHand' = Head(wire) /\ wire' = Tail(wire)
            /\ readPc' = "push"
            /\ UNCHANGED <<connectPc, socket, lost, requests, served, sent,
                           calls, messages, late, taken, ending>>

\* Mutant: after an error the loop goes on.
AfterError_Again == "check"
AfterError == "ended"

LoopReadFails == /\ readPc = "read" /\ ReadFails
                 /\ readPc' = AfterError
                 /\ UNCHANGED <<connectPc, socket, network, calls, inHand,
                                messages, late, taken, ending>>

\* c.messages <- msg waits while the channel is full.
\* Mutant: a select with a default drops the frame instead.
Pushed_OrDropped(frame) ==
  messages' = IF Len(messages) < Cap THEN Append(messages, frame) ELSE messages
\* Mutant: the capacity of the channel is not looked at.
Pushed_Unbounded(frame) == messages' = Append(messages, frame)
Pushed(frame) == Len(messages) < Cap /\ messages' = Append(messages, frame)

LoopPush == /\ readPc = "push"
            /\ Pushed(inHand)
            /\ inHand' = 0 /\ readPc' = "check"
            /\ late' = IF cancelled THEN late + 1 ELSE late
            /\ UNCHANGED <<connectPc, socket, network, calls, taken, ending>>

ReadLoop == LoopCheck \/ LoopRead \/ LoopReadFails \/ LoopPush

-----------------------------------------------------------------------------
(* The application: it takes messages, makes requests once Connect has     *)
(* returned with a connection, and disconnects at any time, once.          *)

TakeMessage == /\ messages # << >>
               /\ taken' = Append(taken, Head(messages))
               /\ messages' = Tail(messages)
               /\ UNCHANGED <<connectPc, socket, network, calls, readPc, inHand,
                              late, ending>>

Call == /\ connectPc \in {"connected", "failed"} /\ socket # "none"
        /\ calls < MaxCalls /\ calls' = calls + 1
        /\ WriteWorks \/ WriteFails
        /\ UNCHANGED <<connectPc, socket, lost, served, wire, sent, reading,
                       taken, ending>>

Cancel == /\ discPc = "idle"
          /\ cancelled' = TRUE /\ discPc' = "close"
          /\ UNCHANGED <<connectPc, socket, network, calls, reading, taken>>

\* c.conn is read without a lock: while Connect runs it may be seen as nil.
DisconnectClose ==
  /\ discPc = "close"
  /\ discPc' = "returned"
  /\ \/ socket' = IF socket = "open" THEN "closed" ELSE socket
     \/ connectPc \notin {"connected", "failed"} /\ UNCHANGED socket
  /\ UNCHANGED <<connectPc, network, calls, reading, taken, cancelled>>

-----------------------------------------------------------------------------
(* The server end: it reads requests and writes frames, the queue of the   *)
(* agent before the confirmation (StandardServer, RouterRegister to Greet).*)

ServerReads == /\ requests > 0 /\ ~lost
               /\ requests' = requests - 1 /\ served' = TRUE
               /\ UNCHANGED <<connectPc, socket, lost, wire, sent, calls,
                              reading, taken, ending>>

\* What it writes after the socket was closed here is never read.
ServerWrites == /\ served /\ ~lost /\ socket = "open" /\ sent < MaxFrames
                /\ sent' = sent + 1 /\ wire' = Append(wire, sent + 1)
                /\ UNCHANGED <<connectPc, socket, lost, requests, served, calls,
                               reading, taken, ending>>

PeerLost == /\ socket # "none" /\ ~lost
            /\ lost' = TRUE
            /\ \E n \in 0 .. Len(wire) : wire' = SubSeq(wire, 1, n)
            /\ UNCHANGED <<connectPc, socket, requests, served, sent, calls,
                           reading, taken, ending>>

-----------------------------------------------------------------------------
Next == Connect \/ ReadLoop \/ TakeMessage \/ Call \/ Cancel \/ DisconnectClose
        \/ ServerReads \/ ServerWrites \/ PeerLost

Spec == Init /\ [][Next]_vars

(* The goroutines of the bridge run when they can.  The server need not    *)
(* write and the application need not take messages.                       *)
Fairness == WF_vars(Connect) /\ WF_vars(ReadLoop) /\ WF_vars(DisconnectClose)

FairSpec == Spec /\ Fairness

-----------------------------------------------------------------------------
(* What the bridge must get right.                                         *)

(* The application gets every frame readLoop has read, in the order the    *)
(* server wrote them and from the second on; the first went to Connect as  *)
(* the confirmation, whatever it was (client.go:75).  A slow application   *)
(* holds readLoop up (210) and loses nothing.                              *)
NothingIsDropped ==
  LET pending == IF inHand = 0 THEN << >> ELSE <<inHand>>
      arrived == taken \o messages \o pending
  IN \A i \in 1 .. Len(arrived) : arrived[i] = i + 1

(* After the cancel of Disconnect at most one more frame reaches the       *)
(* application, although Disconnect does not wait for readLoop (client.go: *)
(* 93-98), the socket may still hold frames, and it is not closed at all   *)
(* when Disconnect overtakes Connect.                                      *)
OneFrameAfterCancel == late <= 1

\* readLoop waits for an application that does not take messages.
Parked == readPc = "push" /\ Len(messages) = Cap

(* readLoop ends when the socket is closed or the peer lost, unless it is  *)
(* parked on a full channel: then not even Disconnect ends it (210).       *)
LoopEnds == (readPc # "none" /\ (socket = "closed" \/ lost))
              ~> (readPc = "ended" \/ Parked)
=============================================================================
