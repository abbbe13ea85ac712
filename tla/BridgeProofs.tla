---------------------------- MODULE BridgeProofs ----------------------------
(***************************************************************************)
(* Theorems about ClaudeBridge, for any number of frames and calls and any *)
(* capacity of the channel.                                                *)
(***************************************************************************)
EXTENDS ClaudeBridge, TLAPS

Bounds == MaxFrames \in Nat /\ MaxCalls \in Nat /\ Cap \in Nat

\* readLoop is started by Connect and has a frame in the hand exactly when it
\* is about to push it.
Handed == /\ readPc = "push" <=> inHand # 0
          /\ connectPc \notin {"subscribe", "connected"} => readPc = "none"

TypeInv == TypeOK /\ Handed

-----------------------------------------------------------------------------
LEMMA InitType == ASSUME Bounds, Init PROVE TypeInv
<1>1. << >> \in Seq(Frames) /\ Len(<< >>) = 0
  OBVIOUS
<1>2. /\ wire \in Seq(Frames) /\ messages \in Seq(Frames) /\ taken \in Seq(Frames)
      /\ Len(messages) = 0
  BY <1>1, Zenon DEF Init
<1>3. Len(messages) <= Cap /\ 0 \in 0 .. MaxFrames /\ 0 \in 0 .. MaxCalls
  BY <1>2 DEF Bounds
<1> QED BY <1>2, <1>3 DEF Init, TypeInv, TypeOK, Handed

LEMMA ConnectType ==
  ASSUME Bounds, TypeInv, Connect
  PROVE  TypeInv'
<1> USE DEF TypeInv, TypeOK, Handed, network, reading, ending
<1>1. CASE Dial
  BY <1>1 DEF Dial
<1>2. CASE SendRegistration
  BY <1>2 DEF SendRegistration, WriteWorks, WriteFails
<1>3. CASE ReadConfirmation
  <2>1. wire # << >> => Tail(wire) \in Seq(Frames)
    OBVIOUS
  <2> QED BY <1>3, <2>1 DEF ReadConfirmation, Readable
<1>4. CASE StartLoop
  BY <1>4 DEF StartLoop
<1>5. CASE SubscribeDefaults
  BY <1>5 DEF SubscribeDefaults, WriteWorks, WriteFails
<1> QED BY <1>1, <1>2, <1>3, <1>4, <1>5 DEF Connect

LEMMA ReadLoopType ==
  ASSUME Bounds, TypeInv, ReadLoop
  PROVE  TypeInv'
<1> USE DEF TypeInv, TypeOK, Handed, network, reading, ending
<1>1. CASE LoopCheck
  BY <1>1 DEF LoopCheck
<1>2. CASE LoopRead
  <2>1. Head(wire) \in Frames /\ Tail(wire) \in Seq(Frames)
    BY <1>2 DEF LoopRead, Readable
  <2>2. Head(wire) # 0
    BY <2>1 DEF Frames
  <2> QED BY <1>2, <2>1, <2>2 DEF LoopRead
<1>3. CASE LoopReadFails
  BY <1>3 DEF LoopReadFails, AfterError
<1>4. CASE LoopPush
  <2>1. inHand \in Frames
    BY <1>4 DEF LoopPush
  <2>2. /\ Append(messages, inHand) \in Seq(Frames)
        /\ Len(Append(messages, inHand)) = Len(messages) + 1
    BY <2>1
  <2> QED BY <1>4, <2>2 DEF LoopPush, Pushed, Bounds
<1> QED BY <1>1, <1>2, <1>3, <1>4 DEF ReadLoop

LEMMA ApplicationType ==
  ASSUME Bounds, TypeInv, TakeMessage \/ Call \/ Cancel \/ DisconnectClose
  PROVE  TypeInv'
<1> USE DEF TypeInv, TypeOK, Handed, network, reading, ending
<1>1. CASE TakeMessage
  <2>1. /\ Head(messages) \in Frames /\ Tail(messages) \in Seq(Frames)
        /\ Len(Tail(messages)) = Len(messages) - 1
    BY <1>1 DEF TakeMessage
  <2>2. Len(Tail(messages)) <= Cap
    BY <2>1 DEF Bounds
  <2>3. Append(taken, Head(messages)) \in Seq(Frames)
    BY <2>1
  <2> QED BY <1>1, <2>1, <2>2, <2>3 DEF TakeMessage
<1>2. CASE Call
  BY <1>2 DEF Call, WriteWorks, WriteFails, Bounds
<1>3. CASE Cancel
  BY <1>3 DEF Cancel
<1>4. CASE DisconnectClose
  BY <1>4 DEF DisconnectClose
<1> QED BY <1>1, <1>2, <1>3, <1>4

LEMMA ServerType ==
  ASSUME Bounds, TypeInv, ServerReads \/ ServerWrites \/ PeerLost
  PROVE  TypeInv'
<1> USE DEF TypeInv, TypeOK, Handed, network, reading, ending
<1>1. CASE ServerReads
  BY <1>1 DEF ServerReads
<1>2. CASE ServerWrites
  <2>1. sent + 1 \in Frames /\ sent + 1 \in 0 .. MaxFrames
    BY <1>2 DEF ServerWrites, Frames, Bounds
  <2>2. Append(wire, sent + 1) \in Seq(Frames)
    BY <2>1
  <2> QED BY <1>2, <2>1, <2>2 DEF ServerWrites
<1>3. CASE PeerLost
  <2>1. PICK n \in 0 .. Len(wire) : wire' = SubSeq(wire, 1, n)
    BY <1>3 DEF PeerLost
  <2>2. SubSeq(wire, 1, n) \in Seq(Frames)
    BY <2>1
  <2> QED BY <1>3, <2>1, <2>2 DEF PeerLost
<1> QED BY <1>1, <1>2, <1>3

LEMMA StepType ==
  ASSUME Bounds, TypeInv, [Next]_vars
  PROVE  TypeInv'
<1>1. CASE Next
  BY <1>1, ConnectType, ReadLoopType, ApplicationType, ServerType DEF Next
<1>2. CASE UNCHANGED vars
  BY <1>2 DEF TypeInv, TypeOK, Handed, vars, network, reading, ending
<1> QED BY <1>1, <1>2

LEMMA TypeInvHolds ==
  ASSUME Bounds
  PROVE  Spec => []TypeInv
<1>1. Init => TypeInv
  BY InitType
<1>2. TypeInv /\ [Next]_vars => TypeInv'
  BY StepType
<1> QED BY <1>1, <1>2, PTL DEF Spec

(* The types, in particular that the channel never holds more than its     *)
(* capacity, whatever that is.                                             *)
THEOREM TypeCorrect ==
  ASSUME Bounds
  PROVE  Spec => []TypeOK
<1> QED BY TypeInvHolds, PTL DEF TypeInv

-----------------------------------------------------------------------------
(* After the cancel readLoop may still be past its look at the context:    *)
(* the frame it has then is the only one.                                  *)
Credit == /\ late \in {0, 1}
          /\ ~cancelled => late = 0
          /\ readPc \in {"none", "read", "push"} => late = 0

LEMMA CreditStep ==
  ASSUME TypeInv, Credit, [Next]_vars
  PROVE  Credit'
<1> USE DEF Credit, TypeInv, TypeOK, network, reading, ending
<1>1. CASE Connect
  BY <1>1 DEF Connect, Dial, SendRegistration, ReadConfirmation, StartLoop,
              SubscribeDefaults
<1>2. CASE ReadLoop
  BY <1>2 DEF ReadLoop, LoopCheck, Stopped, LoopRead, LoopReadFails, AfterError,
              LoopPush
<1>3. CASE TakeMessage \/ Call \/ Cancel \/ DisconnectClose
  BY <1>3 DEF TakeMessage, Call, Cancel, DisconnectClose
<1>4. CASE ServerReads \/ ServerWrites \/ PeerLost
  BY <1>4 DEF ServerReads, ServerWrites, PeerLost
<1>5. CASE UNCHANGED vars
  BY <1>5 DEF vars
<1> QED BY <1>1, <1>2, <1>3, <1>4, <1>5 DEF Next

(* At most one frame reaches the application after Disconnect, for any     *)
(* number of frames on the way.                                            *)
THEOREM OneAfterCancel ==
  ASSUME Bounds
  PROVE  Spec => []OneFrameAfterCancel
<1>1. Init => Credit
  BY DEF Init, Credit
<1>2. TypeInv /\ Credit /\ [Next]_vars => Credit'
  BY CreditStep
<1>3. Credit => OneFrameAfterCancel
  BY DEF Credit, OneFrameAfterCancel
<1> QED BY <1>1, <1>2, <1>3, TypeInvHolds, PTL DEF Spec

-----------------------------------------------------------------------------
(* Where each frame is: taken, in the channel, in the hand of readLoop or  *)
(* on the wire, one after the other without a gap.  Connect keeps the      *)
(* first.                                                                  *)
Kept == IF connectPc \in {"start", "subscribe", "connected"} THEN 1 ELSE 0
Held == IF inHand = 0 THEN 0 ELSE 1
Before == Len(taken) + Len(messages)

\* The frames of s are the ones after c.
From(s, c) == \A i \in 1 .. Len(s) : s[i] = c + i

Unread == Kept = 0 => messages = << >> /\ taken = << >>
TakenInOrder == From(taken, 1)
ChannelInOrder == From(messages, Len(taken) + 1)
HandInOrder == inHand # 0 => inHand = Before + 2
WireInOrder == From(wire, Before + Held + Kept)
AllSent == ~lost => sent = Before + Held + Kept + Len(wire)

Contiguous == /\ Unread /\ TakenInOrder /\ ChannelInOrder /\ HandInOrder
              /\ WireInOrder /\ AllSent

(* A frame leaves the front, a frame is appended, the rest is cut off.     *)
LEMMA FromTail ==
  ASSUME NEW s \in Seq(Frames), s # << >>, NEW c \in Nat, From(s, c)
  PROVE  /\ Head(s) = c + 1 /\ Head(s) \in Frames
         /\ Len(Tail(s)) = Len(s) - 1 /\ From(Tail(s), c + 1)
<1>1. /\ Head(s) = s[1] /\ Len(s) \in Nat /\ Len(s) >= 1 /\ Head(s) \in Frames
      /\ Len(Tail(s)) = Len(s) - 1
      /\ \A i \in 1 .. Len(s) - 1 : Tail(s)[i] = s[i + 1]
  OBVIOUS
<1>2. ASSUME NEW i \in 1 .. Len(s) - 1
      PROVE  Tail(s)[i] = (c + 1) + i
  <2>1. i + 1 \in 1 .. Len(s) /\ s[i + 1] = c + (i + 1)
    BY <1>1 DEF From
  <2>2. Tail(s)[i] = c + (i + 1)
    BY <1>1, <2>1
  <2>3. c + (i + 1) = (c + 1) + i
    OBVIOUS
  <2> QED BY <2>2, <2>3
<1>3. s[1] = c + 1
  BY <1>1 DEF From
<1> QED BY <1>1, <1>2, <1>3 DEF From

LEMMA FromAppend ==
  ASSUME NEW s \in Seq(Frames), NEW c \in Nat, From(s, c),
         NEW e \in Frames, e = c + Len(s) + 1
  PROVE  Len(Append(s, e)) = Len(s) + 1 /\ From(Append(s, e), c)
<1>1. /\ Len(s) \in Nat /\ Len(Append(s, e)) = Len(s) + 1
      /\ Append(s, e)[Len(s) + 1] = e
      /\ \A i \in 1 .. Len(s) : Append(s, e)[i] = s[i]
  OBVIOUS
<1>2. ASSUME NEW i \in 1 .. Len(s) + 1
      PROVE  Append(s, e)[i] = c + i
  <2>1. CASE i = Len(s) + 1
    <3>1. e = c + i
      BY <1>1, <2>1
    <3> QED BY <1>1, <2>1, <3>1
  <2>2. CASE i # Len(s) + 1
    <3>1. i \in 1 .. Len(s)
      BY <1>1, <2>2
    <3> QED BY <1>1, <3>1 DEF From
  <2> QED BY <2>1, <2>2
<1> QED BY <1>1, <1>2 DEF From

LEMMA FromPrefix ==
  ASSUME NEW s \in Seq(Frames), NEW c, From(s, c), NEW n \in 0 .. Len(s)
  PROVE  From(SubSeq(s, 1, n), c)
<1>1. Len(SubSeq(s, 1, n)) = n /\ \A i \in 1 .. n : SubSeq(s, 1, n)[i] = s[i]
  OBVIOUS
<1>2. \A i \in 1 .. n : i \in 1 .. Len(s)
  OBVIOUS
<1> QED BY <1>1, <1>2 DEF From

LEMMA Numbers ==
  ASSUME TypeInv
  PROVE  /\ Len(taken) \in Nat /\ Len(messages) \in Nat /\ Len(wire) \in Nat
         /\ Before \in Nat /\ Kept \in {0, 1} /\ Held \in {0, 1}
  BY DEF TypeInv, TypeOK, Before, Kept, Held

(* Most steps leave the frames where they are.                             *)
LEMMA ContiguousElsewhere ==
  ASSUME Contiguous, UNCHANGED <<inHand, messages, taken, wire>>,
         Kept' = Kept, Unread',
         ~lost' => ~lost /\ sent' = sent
  PROVE  Contiguous'
  BY DEF Contiguous, TakenInOrder, ChannelInOrder, HandInOrder, WireInOrder,
         AllSent, Before, Held

LEMMA ContiguousConnect ==
  ASSUME TypeInv, Contiguous, Connect
  PROVE  Contiguous'
<1> USE DEF network, reading, ending
<1>1. CASE Dial \/ SendRegistration \/ StartLoop \/ SubscribeDefaults
  <2>1. /\ UNCHANGED <<inHand, messages, taken, wire, lost, sent>>
        /\ Kept' = Kept
    BY <1>1 DEF Dial, SendRegistration, StartLoop, SubscribeDefaults, Kept
  <2>2. Unread'
    BY <2>1 DEF Contiguous, Unread
  <2> QED BY <2>1, <2>2, ContiguousElsewhere
<1>2. CASE ReadConfirmation /\ connectPc' = "failed"
  <2>1. /\ UNCHANGED <<inHand, messages, taken, wire, lost, sent>>
        /\ Kept' = Kept
    BY <1>2 DEF ReadConfirmation, Kept
  <2>2. Unread'
    BY <2>1 DEF Contiguous, Unread
  <2> QED BY <2>1, <2>2, ContiguousElsewhere
<1>3. CASE ReadConfirmation /\ connectPc' = "start"
  <2>1. /\ wire # << >> /\ wire' = Tail(wire)
        /\ UNCHANGED <<inHand, messages, taken, lost, sent>>
        /\ Kept = 0 /\ Kept' = 1
    BY <1>3 DEF ReadConfirmation, Readable, Kept
  <2>2. Before' = Before /\ Held' = Held
    BY <2>1 DEF Before, Held
  <2> DEFINE c == Before + Held + Kept
  <2>3. c \in Nat /\ (Before + Held + Kept)' = c + 1
    BY <2>1, <2>2, Numbers
  <2>4. From(wire, c)
    BY DEF Contiguous, WireInOrder
  <2> HIDE DEF c
  <2>5. Len(wire') = Len(wire) - 1 /\ From(wire', c + 1)
    BY <2>1, <2>3, <2>4, FromTail DEF TypeInv, TypeOK
  <2>6. WireInOrder'
    BY <2>3, <2>5 DEF WireInOrder
  <2>7. AllSent'
    BY <2>1, <2>2, <2>5, Numbers DEF Contiguous, AllSent
  <2>8. Unread' /\ TakenInOrder' /\ ChannelInOrder' /\ HandInOrder'
    BY <2>1, <2>2 DEF Contiguous, Unread, TakenInOrder, ChannelInOrder, HandInOrder
  <2> QED BY <2>6, <2>7, <2>8 DEF Contiguous
<1> QED BY <1>1, <1>2, <1>3 DEF Connect, ReadConfirmation

LEMMA ContiguousReadLoop ==
  ASSUME TypeInv, Contiguous, ReadLoop
  PROVE  Contiguous'
<1> USE DEF network, reading, ending
<1>1. CASE LoopCheck \/ LoopReadFails
  <2>1. /\ UNCHANGED <<inHand, messages, taken, wire, lost, sent>>
        /\ Kept' = Kept
    BY <1>1 DEF LoopCheck, LoopReadFails, Kept
  <2>2. Unread'
    BY <2>1 DEF Contiguous, Unread
  <2> QED BY <2>1, <2>2, ContiguousElsewhere
<1>2. CASE LoopRead
  <2>1. /\ wire # << >> /\ wire' = Tail(wire) /\ inHand' = Head(wire)
        /\ UNCHANGED <<messages, taken, lost, sent>>
        /\ Kept = 1 /\ Kept' = 1 /\ Before' = Before
    BY <1>2 DEF LoopRead, Readable, Kept, Before, TypeInv, Handed
  <2>2. Held = 0
    BY <1>2 DEF LoopRead, TypeInv, Handed, Held
  <2>3. From(wire, Before + 1) /\ Before + 1 \in Nat
    BY <2>1, <2>2, Numbers DEF Contiguous, WireInOrder
  <2>4. /\ inHand' = Before + 2 /\ Len(wire') = Len(wire) - 1
        /\ From(wire', Before + 2)
    <3>1. /\ Head(wire) = (Before + 1) + 1 /\ Len(Tail(wire)) = Len(wire) - 1
          /\ From(Tail(wire), (Before + 1) + 1)
      BY <2>1, <2>3, FromTail DEF TypeInv, TypeOK
    <3>2. (Before + 1) + 1 = Before + 2
      BY Numbers
    <3> QED BY <2>1, <3>1, <3>2
  <2>5. Held' = 1
    BY <2>4, Numbers DEF Held
  <2>6. WireInOrder'
    <3>1. (Before + Held + Kept)' = Before + 2
      BY <2>1, <2>5, Numbers
    <3> QED BY <2>4, <3>1 DEF WireInOrder
  <2>7. AllSent'
    BY <2>1, <2>2, <2>4, <2>5, Numbers DEF Contiguous, AllSent
  <2>8. Unread' /\ TakenInOrder' /\ ChannelInOrder' /\ HandInOrder'
    BY <2>1, <2>4 DEF Contiguous, Unread, TakenInOrder, ChannelInOrder, HandInOrder
  <2> QED BY <2>6, <2>7, <2>8 DEF Contiguous
<1>3. CASE LoopPush
  <2>1. /\ messages' = Append(messages, inHand) /\ inHand' = 0
        /\ UNCHANGED <<wire, taken, lost, sent>>
        /\ Kept = 1 /\ Kept' = 1 /\ inHand # 0 /\ inHand \in Frames
    BY <1>3 DEF LoopPush, Pushed, Kept, TypeInv, TypeOK, Handed
  <2>2. inHand = Before + 2 /\ Held = 1 /\ Held' = 0
    BY <2>1 DEF Contiguous, HandInOrder, Held
  <2>3. Len(messages') = Len(messages) + 1 /\ ChannelInOrder'
    <3>1. inHand = (Len(taken) + 1) + Len(messages) + 1 /\ Len(taken) + 1 \in Nat
      BY <2>2, Numbers DEF Before
    <3> QED BY <2>1, <3>1, FromAppend
            DEF Contiguous, ChannelInOrder, TypeInv, TypeOK
  <2>4. Before' = Before + 1
    BY <2>1, <2>3, Numbers DEF Before
  <2>5. WireInOrder' /\ AllSent'
    <3>1. (Before + Held + Kept)' = Before + Held + Kept
      BY <2>1, <2>2, <2>4, Numbers
    <3> QED BY <2>1, <3>1 DEF Contiguous, WireInOrder, AllSent
  <2>6. Unread' /\ TakenInOrder' /\ HandInOrder'
    BY <2>1 DEF Contiguous, Unread, TakenInOrder, HandInOrder
  <2> QED BY <2>3, <2>5, <2>6 DEF Contiguous
<1> QED BY <1>1, <1>2, <1>3 DEF ReadLoop

LEMMA ContiguousTaken ==
  ASSUME TypeInv, Contiguous, TakeMessage
  PROVE  Contiguous'
<1>1. /\ messages # << >> /\ messages' = Tail(messages)
      /\ taken' = Append(taken, Head(messages))
      /\ UNCHANGED <<inHand, wire, lost, sent>>
      /\ Kept = 1 /\ Kept' = 1 /\ Held' = Held
  BY DEF TakeMessage, network, Kept, Held, Contiguous, Unread
<1>2. /\ Head(messages) = (Len(taken) + 1) + 1 /\ Head(messages) \in Frames
      /\ Len(messages') = Len(messages) - 1
      /\ From(messages', (Len(taken) + 1) + 1)
  BY <1>1, FromTail, Numbers DEF Contiguous, ChannelInOrder, TypeInv, TypeOK
<1>3. Len(taken') = Len(taken) + 1 /\ From(taken', 1)
  <2>1. Head(messages) = 1 + Len(taken) + 1
    BY <1>2, Numbers
  <2> QED BY <1>1, <1>2, <2>1, FromAppend DEF Contiguous, TakenInOrder, TypeInv, TypeOK
<1>4. Before' = Before
  BY <1>2, <1>3, Numbers DEF Before
<1>5. TakenInOrder'
  BY <1>3 DEF TakenInOrder
<1>6. ChannelInOrder'
  BY <1>2, <1>3 DEF ChannelInOrder
<1>7. Unread' /\ HandInOrder' /\ WireInOrder' /\ AllSent'
  BY <1>1, <1>4 DEF Contiguous, Unread, HandInOrder, WireInOrder, AllSent
<1> QED BY <1>5, <1>6, <1>7 DEF Contiguous

LEMMA ContiguousNetwork ==
  ASSUME Bounds, TypeInv, Contiguous, ServerReads \/ ServerWrites \/ PeerLost
  PROVE  Contiguous'
<1> USE DEF network, reading, ending
<1>1. /\ UNCHANGED <<inHand, messages, taken>>
      /\ Kept' = Kept /\ Before' = Before /\ Held' = Held
  BY DEF ServerReads, ServerWrites, PeerLost, Kept, Before, Held
<1>2. Unread' /\ TakenInOrder' /\ ChannelInOrder' /\ HandInOrder'
  BY <1>1 DEF Contiguous, Unread, TakenInOrder, ChannelInOrder, HandInOrder
<1>3. CASE ServerReads
  BY <1>1, <1>2, <1>3, ContiguousElsewhere DEF ServerReads
<1>4. CASE ServerWrites
  <2>1. /\ ~lost /\ lost' = lost /\ sent' = sent + 1
        /\ wire' = Append(wire, sent + 1)
    BY <1>4 DEF ServerWrites
  <2>2. sent = Before + Held + Kept + Len(wire) /\ Before + Held + Kept \in Nat
    BY <2>1, Numbers DEF Contiguous, AllSent
  <2>3. sent + 1 \in Frames
    BY <1>4 DEF ServerWrites, TypeInv, TypeOK, Frames, Bounds
  <2> DEFINE c == Before + Held + Kept
  <2>4. From(wire, c) /\ c \in Nat /\ sent + 1 = c + Len(wire) + 1
    BY <2>2, Numbers DEF Contiguous, WireInOrder
  <2> HIDE DEF c
  <2>5. Len(wire') = Len(wire) + 1 /\ From(wire', c)
    BY <2>1, <2>3, <2>4, FromAppend DEF TypeInv, TypeOK
  <2>6. (Before + Held + Kept)' = c
    BY <1>1 DEF c
  <2>7. WireInOrder'
    BY <2>5, <2>6 DEF WireInOrder
  <2>8. AllSent'
    <3>1. sent + 1 = c + Len(wire')
      BY <2>4, <2>5, Numbers
    <3> QED BY <2>1, <2>6, <3>1 DEF AllSent
  <2> QED BY <1>2, <2>7, <2>8 DEF Contiguous
<1>5. CASE PeerLost
  <2>1. lost' /\ \E n \in 0 .. Len(wire) : wire' = SubSeq(wire, 1, n)
    BY <1>5 DEF PeerLost
  <2>2. PICK n \in 0 .. Len(wire) : wire' = SubSeq(wire, 1, n)
    BY <2>1
  <2>3. From(wire', Before + Held + Kept)
    BY <2>2, FromPrefix DEF TypeInv, TypeOK, Contiguous, WireInOrder
  <2>4. WireInOrder'
    BY <1>1, <2>3 DEF WireInOrder
  <2>5. AllSent'
    BY <2>1 DEF AllSent
  <2> QED BY <1>2, <2>4, <2>5 DEF Contiguous
<1> QED BY <1>3, <1>4, <1>5

LEMMA ContiguousStep ==
  ASSUME Bounds, TypeInv, Contiguous, [Next]_vars
  PROVE  Contiguous'
<1>1. CASE Call \/ Cancel \/ DisconnectClose \/ UNCHANGED vars
  <2>1. /\ UNCHANGED <<inHand, messages, taken, wire, lost, sent>>
        /\ Kept' = Kept
    BY <1>1 DEF Call, Cancel, DisconnectClose, vars, network, reading, Kept
  <2>2. Unread'
    BY <2>1 DEF Contiguous, Unread
  <2> QED BY <2>1, <2>2, ContiguousElsewhere
<1> QED
  BY <1>1, ContiguousConnect, ContiguousReadLoop, ContiguousTaken,
     ContiguousNetwork DEF Next

LEMMA ContiguousArrived ==
  ASSUME TypeInv, Contiguous
  PROVE  NothingIsDropped
<1> DEFINE pending == IF inHand = 0 THEN << >> ELSE <<inHand>>
           arrived == taken \o messages \o pending
<1>1. ASSUME NEW i \in 1 .. Len(arrived)
      PROVE  arrived[i] = i + 1
  <2>1. /\ taken \in Seq(Frames) /\ messages \in Seq(Frames)
        /\ pending \in Seq(Frames)
    <3>1. /\ taken \in Seq(Frames) /\ messages \in Seq(Frames)
          /\ inHand # 0 => inHand \in Frames
      BY DEF TypeInv, TypeOK
    <3>2. << >> \in Seq(Frames) /\ (inHand # 0 => <<inHand>> \in Seq(Frames))
      BY <3>1
    <3> QED BY <3>1, <3>2
  <2> HIDE DEF pending
  <2>2. /\ Len(arrived) = Before + Len(pending) /\ i \in Nat /\ i >= 1
        /\ i <= Before + Len(pending)
        /\ i <= Len(taken) => arrived[i] = taken[i]
        /\ i > Len(taken) /\ i <= Before => arrived[i] = messages[i - Len(taken)]
        /\ i > Before => arrived[i] = pending[i - Before]
    BY <2>1 DEF Before
  <2>3. CASE i <= Before
    <3>1. CASE i <= Len(taken)
      BY <2>2, <3>1, Numbers DEF Contiguous, TakenInOrder, From
    <3>2. CASE i > Len(taken)
      <4>1. /\ i - Len(taken) \in 1 .. Len(messages)
            /\ arrived[i] = messages[i - Len(taken)]
        BY <2>2, <2>3, <3>2, Numbers DEF Before
      <4>2. messages[i - Len(taken)] = (Len(taken) + 1) + (i - Len(taken))
        BY <4>1 DEF Contiguous, ChannelInOrder, From
      <4> QED BY <2>2, <4>1, <4>2, Numbers
    <3> QED BY <2>2, <3>1, <3>2, Numbers
  <2>4. CASE i > Before
    <3>1. inHand # 0 => pending[1] = inHand /\ Len(pending) = 1
      BY DEF pending
    <3>2. inHand = 0 => Len(pending) = 0
      BY DEF pending
    <3>3. inHand # 0 /\ i = Before + 1
      BY <2>2, <2>4, <3>1, <3>2, Numbers
    <3> QED BY <2>2, <2>4, <3>1, <3>3, Numbers DEF Contiguous, HandInOrder
  <2> QED BY <2>2, <2>3, <2>4, Numbers
<1> QED BY <1>1 DEF NothingIsDropped

(* The application gets every frame after the first, in order, for any     *)
(* capacity of the channel and wherever the peer is lost.                  *)
THEOREM FramesAreContiguous ==
  ASSUME Bounds
  PROVE  Spec => []NothingIsDropped
<1>1. Init => Contiguous
  BY DEF Init, Contiguous, Unread, TakenInOrder, ChannelInOrder, HandInOrder,
         WireInOrder, AllSent, Before, Kept, Held, From
<1>2. TypeInv /\ Contiguous /\ [Next]_vars => Contiguous'
  BY ContiguousStep
<1>3. TypeInv /\ Contiguous => NothingIsDropped
  BY ContiguousArrived
<1> QED BY <1>1, <1>2, <1>3, TypeInvHolds, PTL DEF Spec
=============================================================================
