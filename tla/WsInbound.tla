------------------------------ MODULE WsInbound ------------------------------
(***************************************************************************)
(* The incoming half of pkg/transport/websocket/transport.go, Connection:  *)
(* the readLoop goroutine, the buffered readChan and Read.                 *)
(*                                                                         *)
(* readLoop returns when ReadMessage fails, because the peer is gone, has  *)
(* sent nothing for 60 s or the socket was closed, and closes readChan on  *)
(* the way out; it does not close stopChan.  From then on Read returns the *)
(* frames still in readChan and after those nil, without an error.         *)
(***************************************************************************)
EXTENDS WsOutbound

CONSTANT ReadCap      \* capacity of readChan (100 in the code)

ASSUME ReadCapAssumption == ReadCap \in Nat \ {0}

VARIABLES inbox,      \* how many frames are in readChan
          readLoop    \* "running" or "ended", the readLoop goroutine

inVars == <<inbox, readLoop>>

InTypeOK == /\ inbox \in [Conns -> 0 .. ReadCap]
            /\ readLoop \in [Conns -> {"running", "ended"}]

InInit == /\ inbox = [c \in Conns |-> 0]
          /\ readLoop = [c \in Conns |-> "running"]

\* A full readChan blocks readLoop until Read or Close.
Receive(c) == /\ readLoop[c] = "running" /\ ~closed[c] /\ inbox[c] < ReadCap
              /\ inbox' = [inbox EXCEPT ![c] = @ + 1]
              /\ UNCHANGED <<outVars, readLoop>>

ReadLoopEnds(c) == /\ readLoop[c] = "running" /\ inbox[c] < ReadCap
                   /\ readLoop' = [readLoop EXCEPT ![c] = "ended"]
                   /\ UNCHANGED <<outVars, inbox>>

\* Close of a connection that is read: readLoop ends on stopChan.  Read does
\* not wait for that, as stopChan is ready, so it happens here.
CloseEnds(cs) == /\ CloseAll(cs)
                 /\ readLoop' = [c \in Conns |->
                                   IF c \in cs THEN "ended" ELSE readLoop[c]]

\* The three outcomes of Read; when several are possible select takes any.
ReadFrame(c) == /\ inbox[c] > 0
                /\ inbox' = [inbox EXCEPT ![c] = @ - 1]
                /\ UNCHANGED readLoop
NilReady(c) == inbox[c] = 0 /\ readLoop[c] = "ended"
ReadNil(c) == NilReady(c) /\ UNCHANGED inVars
ReadStopped(c) == /\ closed[c]
                  /\ UNCHANGED inVars
=============================================================================
