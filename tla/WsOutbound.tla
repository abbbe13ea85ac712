----------------------------- MODULE WsOutbound -----------------------------
(***************************************************************************)
(* The outgoing half of pkg/transport/websocket/transport.go, Connection:  *)
(* Write, Close and the writeLoop goroutine around the buffered writeChan. *)
(* Every component that writes to a connection EXTENDS this module.        *)
(*                                                                         *)
(* Only the number of frames in writeChan is kept; a module that needs    *)
(* their order records what it writes.  Write looks at `closed' under the  *)
(* mutex and selects on the channels after releasing it.                   *)
(***************************************************************************)
EXTENDS Naturals

CONSTANTS Conns,      \* the *Connection values ever created
          WriteCap    \* capacity of writeChan (100 in the code)

ASSUME WriteCapAssumption == WriteCap \in Nat \ {0}

VARIABLES closed,     \* closed[c]: the flag of Close, with stopChan closed
          buffered,   \* how many frames are in writeChan
          writeLoop   \* "running" or "ended", the writeLoop goroutine

outVars == <<closed, buffered, writeLoop>>

OutTypeOK == /\ closed \in [Conns -> BOOLEAN]
             /\ buffered \in [Conns -> 0 .. WriteCap]
             /\ writeLoop \in [Conns -> {"running", "ended"}]

OutInit == /\ closed = [c \in Conns |-> FALSE]
           /\ buffered = [c \in Conns |-> 0]
           /\ writeLoop = [c \in Conns |-> "running"]

-----------------------------------------------------------------------------
(* The two channel cases of Write's select.  A full writeChan blocks the   *)
(* caller: only Close, not the end of writeLoop, lets it go again.         *)

\* Mutant: the send does not wait for room.
Room_Unbounded(c) == TRUE
Room(c) == buffered[c] < WriteCap

Put(c) == /\ Room(c)
          /\ buffered' = [buffered EXCEPT ![c] = @ + 1]
          /\ UNCHANGED <<closed, writeLoop>>

\* Mutant: Write selects on writeChan alone.
StopSeen_Ignored(c) == FALSE
StopSeen(c) == closed[c]

\* Close: the flag, close(stopChan) and ws.Close(); a second call returns.
\* writeLoop then ends on stopChan or on its next write, and what is left in
\* writeChan goes nowhere; that nobody can observe when, so it happens here.
CloseAll(cs) ==
  /\ closed' = [c \in Conns |-> closed[c] \/ c \in cs]
  /\ buffered' = [c \in Conns |-> IF c \in cs THEN 0 ELSE buffered[c]]
  /\ writeLoop' = [c \in Conns |-> IF c \in cs THEN "ended" ELSE writeLoop[c]]
Close(c) == ~closed[c] /\ CloseAll({c})

(* writeLoop: a frame goes to the socket, or the write fails (peer gone,   *)
(* 10 s deadline) and the goroutine returns with the frame lost; it also   *)
(* returns when a ping fails.  Nothing closes stopChan on the way out.     *)

Flush(c) == /\ writeLoop[c] = "running" /\ buffered[c] > 0
            /\ buffered' = [buffered EXCEPT ![c] = @ - 1]
            /\ UNCHANGED <<closed, writeLoop>>

WriteFails(c) == /\ writeLoop[c] = "running" /\ buffered[c] > 0
                 /\ buffered' = [buffered EXCEPT ![c] = @ - 1]
                 /\ writeLoop' = [writeLoop EXCEPT ![c] = "ended"]
                 /\ UNCHANGED closed

PingFails(c) == /\ writeLoop[c] = "running"
                /\ writeLoop' = [writeLoop EXCEPT ![c] = "ended"]
                /\ UNCHANGED <<closed, buffered>>

WriteLoop(c) == Flush(c) \/ WriteFails(c) \/ PingFails(c)

\* A writer of c is parked until somebody calls Close.
Stalled(c) == writeLoop[c] = "ended" /\ ~closed[c] /\ buffered[c] = WriteCap
=============================================================================
