------------------------------ MODULE Mailbox ------------------------------
(***************************************************************************)
(* What the message router promises, without locks, channels or program    *)
(* counters.  A direct message is handed over at most once, to a           *)
(* connection of its addressee, either at once or after it has waited in   *)
(* the addressee's mailbox; it may be dropped (mailbox full, connection    *)
(* closed) but never handed over after that, and never duplicated.  A      *)
(* broadcast never waits and reaches a connection at most once.            *)
(***************************************************************************)
EXTENDS Naturals, Sequences

CONSTANTS Agents, Conns, Msgs, NoAgent, Everyone

VARIABLES phase,   \* phase[m]: unsent, travelling, waiting or settled
          dest,    \* dest[m]: the addressee, Everyone for a broadcast
          owner,   \* owner[c]: whose connection c is
          stream   \* stream[c]: what was handed over on c, in order

vars == <<phase, dest, owner, stream>>

Carries(c, m) == \E i \in DOMAIN stream[c] : stream[c][i] = m

Init == /\ phase = [m \in Msgs |-> "unsent"]
        /\ dest = [m \in Msgs |-> NoAgent]
        /\ owner = [c \in Conns |-> NoAgent]
        /\ stream = [c \in Conns |-> <<>>]

Send(m, to) == /\ phase[m] = "unsent"
               /\ phase' = [phase EXCEPT ![m] = "travelling"]
               /\ dest' = [dest EXCEPT ![m] = to]
               /\ UNCHANGED <<owner, stream>>

Attach(c, a) == /\ owner[c] = NoAgent
                /\ owner' = [owner EXCEPT ![c] = a]
                /\ UNCHANGED <<phase, dest, stream>>

Hold(m) == /\ phase[m] = "travelling" /\ dest[m] # Everyone
           /\ phase' = [phase EXCEPT ![m] = "waiting"]
           /\ UNCHANGED <<dest, owner, stream>>

Hand(m, c) == /\ phase[m] \in {"travelling", "waiting"}
              /\ dest[m] = owner[c]
              /\ phase' = [phase EXCEPT ![m] = "settled"]
              /\ stream' = [stream EXCEPT ![c] = Append(@, m)]
              /\ UNCHANGED <<dest, owner>>

HandBroadcast(m, c) == /\ phase[m] = "travelling" /\ dest[m] = Everyone
                       /\ owner[c] # NoAgent /\ ~Carries(c, m)
                       /\ stream' = [stream EXCEPT ![c] = Append(@, m)]
                       /\ UNCHANGED <<phase, dest, owner>>

\* A message is dropped, or the last copy of a broadcast has been handed over.
Settle(m) == /\ phase[m] \in {"travelling", "waiting"}
             /\ phase' = [phase EXCEPT ![m] = "settled"]
             /\ UNCHANGED <<dest, owner, stream>>

Next == \/ \E m \in Msgs : Hold(m) \/ Settle(m)
        \/ \E m \in Msgs, to \in Agents \cup {Everyone} : Send(m, to)
        \/ \E c \in Conns, a \in Agents : Attach(c, a)
        \/ \E m \in Msgs, c \in Conns : Hand(m, c) \/ HandBroadcast(m, c)

Spec == Init /\ [][Next]_vars
=============================================================================
