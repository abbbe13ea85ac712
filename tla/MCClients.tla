----------------------------- MODULE MCClients ------------------------------
(***************************************************************************)
(* The two client libraries for TLC.  A behaviour is one of AgentClient or *)
(* one of ClaudeBridge, as `library' says from the start; the other one    *)
(* stays as it is.  The two share nothing, so there is no more to see of   *)
(* them together.                                                          *)
(***************************************************************************)
EXTENDS AgentClient

CONSTANTS BridgeFrames, BridgeCalls, BridgeCap

VARIABLES library,
          bConnectPc, bSocket, bLost, bRequests, bCalls, bServed, bWire, bSent,
          bReadPc, bInHand, bMessages, bTaken, bCancelled, bDiscPc, bLate

Bridge == INSTANCE ClaudeBridge WITH
  MaxFrames <- BridgeFrames, MaxCalls <- BridgeCalls, Cap <- BridgeCap,
  connectPc <- bConnectPc, socket <- bSocket, lost <- bLost,
  requests <- bRequests, calls <- bCalls, served <- bServed, wire <- bWire,
  sent <- bSent, readPc <- bReadPc, inHand <- bInHand, messages <- bMessages,
  taken <- bTaken, cancelled <- bCancelled, discPc <- bDiscPc, late <- bLate

bridgeVars == <<bConnectPc, bSocket, bLost, bRequests, bCalls, bServed, bWire,
                bSent, bReadPc, bInHand, bMessages, bTaken, bCancelled, bDiscPc,
                bLate>>

OfClient == library = "client"
OfBridge == library = "bridge"

MCInit == Init /\ Bridge!Init /\ library \in {"client", "bridge"}

MCNext == \/ OfClient /\ Next /\ UNCHANGED <<library, bridgeVars>>
          \/ OfBridge /\ Bridge!Next /\ UNCHANGED <<library, vars>>

\* The fairness of both, each where its library is the one that runs.
MCSpec == /\ MCInit /\ [][MCNext]_<<library, vars, bridgeVars>>
          /\ WF_vars(OfClient /\ Connect) /\ WF_vars(OfClient /\ ClientReadLoop)
          /\ WF_vars(OfClient /\ BeatStops) /\ WF_vars(OfClient /\ Beat)
          /\ WF_vars(OfClient /\ Disconnect) /\ WF_vars(OfClient /\ Incoming)
          /\ WF_vars(OfClient /\ (ServerReads \/ RequestLost))
          /\ \A t \in Callers : WF_vars(OfClient /\ Caller(t))
          /\ WF_bridgeVars(OfBridge /\ Bridge!Connect)
          /\ WF_bridgeVars(OfBridge /\ Bridge!ReadLoop)
          /\ WF_bridgeVars(OfBridge /\ Bridge!DisconnectClose)

-----------------------------------------------------------------------------
\* The types of both.
TypesOK == TypeOK /\ Bridge!TypeOK

(* What the bridge takes from the socket reaches the application whole and *)
(* in order (client.go:195-212 of claudebridge).                           *)
BridgeDropsNothing == Bridge!NothingIsDropped

(* After Disconnect at most one more frame gets through (93-98, 197-201).  *)
BridgeStopsSending == Bridge!OneFrameAfterCancel

(* The goroutine of the bridge ends with its connection, unless it is      *)
(* parked on an application that takes no messages (203-210).              *)
BridgeLoopEnds == Bridge!LoopEnds
=============================================================================
