--------------------------- MODULE DurableMailbox ---------------------------
(***************************************************************************)
(* What the enhanced server promises of direct messages, without handlers, *)
(* maps, tables, mutex or processes.  A message is handed over at once, to *)
(* one connection of its recipient, or waits, or is dropped.  What waits   *)
(* survives a crash and leaves the mailbox only while a connection of its  *)
(* recipient is there; it may be handed to several such connections, also  *)
(* after it has left the mailbox, but to none of them twice.               *)
(***************************************************************************)
EXTENDS Naturals

CONSTANTS Agents, Conns, Msgs, NoAgent

VARIABLES phase,   \* unsent, travelling, waiting, released or settled
          dest,    \* the recipient, NoAgent before the message is sent
          owner,   \* whose connection it is, NoAgent before it registers
          copies,  \* copies[c][m]: how often m was handed to c
          left     \* the connections that are no more

vars == <<phase, dest, owner, copies, left>>

Init == /\ phase = [m \in Msgs |-> "unsent"]
        /\ dest = [m \in Msgs |-> NoAgent]
        /\ owner = [c \in Conns |-> NoAgent]
        /\ copies = [c \in Conns |-> [m \in Msgs |-> 0]]
        /\ left = {}

Attach(c, a) == /\ owner[c] = NoAgent /\ c \notin left
                /\ owner' = [owner EXCEPT ![c] = a]
                /\ UNCHANGED <<phase, dest, copies, left>>

Part(c) == /\ c \notin left /\ left' = left \cup {c}
           /\ UNCHANGED <<phase, dest, owner, copies>>

Become(m, to) == phase' = [phase EXCEPT ![m] = to]

Send(m, a) == /\ dest' = [dest EXCEPT ![m] = a]
              /\ phase[m] = "unsent" /\ Become(m, "travelling")
              /\ UNCHANGED <<owner, copies, left>>

GiveTo(c, m) == /\ owner[c] = dest[m] /\ c \notin left /\ copies[c][m] = 0
                /\ copies' = [copies EXCEPT ![c][m] = 1]
                /\ UNCHANGED <<dest, owner, left>>

Hand(m, c) == /\ GiveTo(c, m)
              /\ phase[m] = "travelling" /\ Become(m, "settled")

Forward(m, c) == /\ GiveTo(c, m)
                 /\ phase[m] \in {"waiting", "released"} /\ UNCHANGED phase

\* It is put into the mailbox or dropped.
Settle(m) == /\ phase[m] = "travelling"
             /\ Become(m, "waiting") \/ Become(m, "settled")
             /\ UNCHANGED <<dest, owner, copies, left>>

AllBecome(from, to) == phase' = [m \in Msgs |-> IF m \in from THEN to ELSE phase[m]]

\* A connection of a that is there has been through the mailbox.
Release(a) == LET waiting == {m \in Msgs : dest[m] = a /\ phase[m] = "waiting"}
              IN /\ \E c \in Conns \ left : owner[c] = a
                 /\ waiting # {} /\ AllBecome(waiting, "released")
                 /\ UNCHANGED <<dest, owner, copies, left>>

\* What was on its way is lost, and connections are.
Crash == /\ AllBecome({m \in Msgs : phase[m] = "travelling"}, "settled")
         /\ \E gone \in SUBSET Conns : left' = left \cup gone
         /\ UNCHANGED <<dest, owner, copies>>

Next == \/ \E c \in Conns, a \in Agents : Attach(c, a)
        \/ \E c \in Conns : Part(c)
        \/ \E m \in Msgs, a \in Agents : Send(m, a)
        \/ \E m \in Msgs, c \in Conns : Hand(m, c) \/ Forward(m, c)
        \/ \E m \in Msgs : Settle(m)
        \/ \E a \in Agents : Release(a)
        \/ Crash

Spec == Init /\ [][Next]_vars
=============================================================================
