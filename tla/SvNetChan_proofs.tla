-------------------------- MODULE SvNetChan_proofs --------------------------
(***************************************************************************)
(* Proofs about NetChan, and about SvNetChan on top of it, for every        *)
(* fragment size, message length limit and number of messages.              *)
(*                                                                          *)
(* Of the netchan: its types, and that whatever the network loses, repeats  *)
(* or reorders, what is handed over is a transmitted message, byte for      *)
(* byte, in order and at most once.                                         *)
(*                                                                          *)
(* Of the server's queue behind a fragmented message: it loses and repeats  *)
(* nothing, every message is encoded with the sequence number it travels    *)
(* under, and what is proved of the netchan holds with the queue in front   *)
(* of it, although the last fragment of one message and the first of the    *)
(* next then leave in one step.                                             *)
(***************************************************************************)
EXTENDS SvNetChan, TLAPS

-----------------------------------------------------------------------------
(* NetChan *)

Sender == [outgoingSequence : Nat \ {0}, unsentFragments : BOOLEAN,
           unsentFragmentStart : 0 .. MAX_MSGLEN, unsent : Message]

Receiver == [incomingSequence : Nat, fragmentSequence : Nat,
             fragmentLength : 0 .. MAX_MSGLEN,
             fragmentBuffer : [0 .. MAX_MSGLEN - 1 -> Message \X Nat]]

\* The sender is never past the end of the message it is cutting up.
SenderInRange ==
    chan.unsentFragments => chan.unsentFragmentStart <= chan.unsent.length

TypeInv == TypeOK /\ SenderInRange

\* sent[s] is the message with sequence number s, the one being cut up included.
SenderSequence ==
    /\ Len(sent) = IF chan.unsentFragments THEN chan.outgoingSequence
                                           ELSE chan.outgoingSequence - 1
    /\ chan.unsentFragments => chan.unsent = sent[chan.outgoingSequence]

\* Every packet on the wire is a piece of the message of its sequence number,
\* and only a full fragment may leave something of it to come.
GoodPacket(p) ==
    /\ p.sequence \in 1 .. Len(sent)
    /\ p.data = sent[p.sequence]
    /\ p.start + p.length <= p.data.length
    /\ ~ p.fragmented \/ p.length # FRAGMENT_SIZE => p.start + p.length = p.data.length
    /\ ~ p.fragmented => p.start = 0

WireInv == \A p \in net : GoodPacket(p)

\* incomingSequence is the sequence number of the last message handed over.
LastIsIncoming ==
    /\ delivered = << >> => peer.incomingSequence = 0
    /\ delivered # << >> => delivered[Len(delivered)].sequence = peer.incomingSequence

\* What makes the safety of the channel inductive.
ChannelInv ==
    /\ TypeInv
    /\ SenderSequence
    /\ WireInv
    /\ BufferIsPrefix
    /\ LastIsIncoming
    /\ Intact
    /\ InOrder

\* The first piece of every message, and the piece after every full fragment,
\* are on the wire, but for the one the sender is about to send.
FirstPieceSent ==
    \A s \in 1 .. Len(sent) : \E p \in net : p.sequence = s /\ p.start = 0

ContinuationSent ==
    \A p \in net : p.fragmented /\ p.length = FRAGMENT_SIZE =>
        \/ \E q \in net : /\ q.sequence = p.sequence
                          /\ q.fragmented
                          /\ q.start = p.start + FRAGMENT_SIZE
        \/ /\ chan.unsentFragments
           /\ p.sequence = chan.outgoingSequence
           /\ chan.unsentFragmentStart = p.start + FRAGMENT_SIZE

\* A partly assembled message ends where a full fragment of it ended.
EndsWithFragment ==
    peer.fragmentLength > 0 =>
        \E p \in net : /\ p.sequence = peer.fragmentSequence
                       /\ p.fragmented
                       /\ p.length = FRAGMENT_SIZE
                       /\ p.start + FRAGMENT_SIZE = peer.fragmentLength

StrandedInv ==
    /\ FirstPieceSent
    /\ ContinuationSent
    /\ EndsWithFragment

-----------------------------------------------------------------------------
(* The pieces of the sender and the receiver *)

\* A fragment never reaches beyond its message.
LEMMA FragmentLengthBounds ==
    ASSUME NEW c \in Sender, c.unsentFragmentStart <= c.unsent.length
    PROVE  /\ FragmentLength(c) \in 0 .. FRAGMENT_SIZE
           /\ c.unsentFragmentStart + FragmentLength(c) \in 0 .. c.unsent.length
           /\ FragmentLength(c) # FRAGMENT_SIZE =>
                 c.unsentFragmentStart + FragmentLength(c) = c.unsent.length
           /\ FragmentLength(c) \in 0 .. MAX_MSGLEN
  BY FragmentAssumption DEF FragmentLength, Sender, Message

\* A fragment is a packet.
LEMMA NextFragmentType ==
    ASSUME NEW c \in Sender, c.unsentFragmentStart <= c.unsent.length
    PROVE  NextFragment(c) \in Packet
<1>1. FragmentLength(c) \in 0 .. MAX_MSGLEN
  BY FragmentLengthBounds
<1>2. /\ c.outgoingSequence \in Nat
      /\ c.unsentFragmentStart \in 0 .. MAX_MSGLEN
      /\ c.unsent \in Message
  BY DEF Sender
<1>3. QED
  BY <1>1, <1>2 DEF NextFragment, Packet

\* Changes of a sender that leave a sender.
LEMMA SenderUpdate ==
    ASSUME NEW c \in Sender, NEW n \in Nat \ {0}, NEW start \in 0 .. MAX_MSGLEN,
           NEW unsent \in BOOLEAN
    PROVE  [c EXCEPT !.unsentFragmentStart = start, !.outgoingSequence = n,
                     !.unsentFragments = unsent] \in Sender
  BY DEF Sender

\* The same, with the message left as it was.
LEMMA SenderAdvance ==
    ASSUME NEW c \in Sender, NEW n \in Nat \ {0}, NEW start \in 0 .. MAX_MSGLEN
    PROVE  [c EXCEPT !.unsentFragmentStart = start, !.outgoingSequence = n] \in Sender
  BY DEF Sender

\* What Netchan_TransmitNextFragment changes.
LEMMA AfterFragmentFields ==
    ASSUME NEW c \in Sender
    PROVE  /\ AfterFragment(c).outgoingSequence =
                IF IsLastFragment(c) THEN c.outgoingSequence + 1 ELSE c.outgoingSequence
           /\ AfterFragment(c).unsentFragmentStart = c.unsentFragmentStart + FragmentLength(c)
           /\ AfterFragment(c).unsent = c.unsent
           /\ AfterFragment(c).unsentFragments <=> ~ IsLastFragment(c)
  BY DEF AfterFragment, Sender

\* After it the sender is a sender.
LEMMA AfterFragmentType ==
    ASSUME NEW c \in Sender, c.unsentFragmentStart <= c.unsent.length
    PROVE  /\ AfterFragment(c) \in Sender
           /\ AfterFragment(c).unsentFragmentStart <= AfterFragment(c).unsent.length
<1>1. c.unsentFragmentStart + FragmentLength(c) \in 0 .. c.unsent.length
  BY FragmentLengthBounds
<1>2. c.unsent.length \in 0 .. MAX_MSGLEN /\ c.outgoingSequence \in Nat \ {0}
  BY DEF Sender, Message
<1>3. c.unsentFragmentStart + FragmentLength(c) \in 0 .. MAX_MSGLEN
  BY <1>1, <1>2, FragmentAssumption
<1>4. (~ IsLastFragment(c)) \in BOOLEAN
  BY Zenon
<1>5. (IF IsLastFragment(c) THEN c.outgoingSequence + 1 ELSE c.outgoingSequence) \in Nat \ {0}
  BY <1>2
<1>6. AfterFragment(c) \in Sender
  BY <1>3, <1>4, <1>5, SenderUpdate DEF AfterFragment
<1>7. QED
  BY <1>1, <1>2, <1>6, AfterFragmentFields

\* What Netchan_Transmit sets for a message that is to be cut.
LEMMA FragmentingFields ==
    ASSUME NEW c \in Sender, NEW m \in Message
    PROVE  /\ Fragmenting(c, m).unsentFragmentStart = 0
           /\ Fragmenting(c, m).unsentFragments
           /\ Fragmenting(c, m).unsent = m
           /\ Fragmenting(c, m).outgoingSequence = c.outgoingSequence
  BY DEF Fragmenting, Sender

\* After that the sender is a sender.
LEMMA FragmentingType ==
    ASSUME NEW c \in Sender, NEW m \in Message
    PROVE  /\ Fragmenting(c, m) \in Sender
           /\ Fragmenting(c, m).unsentFragmentStart <= Fragmenting(c, m).unsent.length
<1>1. TRUE \in BOOLEAN /\ 0 \in 0 .. MAX_MSGLEN
  BY FragmentAssumption
<1>2. Fragmenting(c, m) \in Sender
  BY <1>1 DEF Fragmenting, Sender
<1>3. m.length \in Nat
  BY FragmentAssumption DEF Message
<1>4. QED
  BY <1>2, <1>3, FragmentingFields

\* After Netchan_Transmit, whatever the message's length.
LEMMA TransmitType ==
    ASSUME NEW c \in Sender, NEW m \in Message
    PROVE  /\ TransmitPacket(c, m) \in Packet
           /\ AfterTransmit(c, m) \in Sender
           /\ AfterTransmit(c, m).unsentFragments =>
                AfterTransmit(c, m).unsentFragmentStart <= AfterTransmit(c, m).unsent.length
<1>1. CASE m.length >= FRAGMENT_SIZE
  BY <1>1, FragmentingType, NextFragmentType, AfterFragmentType DEF TransmitPacket, AfterTransmit
<1>2. CASE ~ (m.length >= FRAGMENT_SIZE)
  <2>1. TransmitPacket(c, m) \in Packet
    BY <1>2, FragmentAssumption DEF TransmitPacket, WholePacket, Packet, Sender, Message
  <2>2. AfterTransmit(c, m) = [c EXCEPT !.unsentFragmentStart = 0, !.outgoingSequence = @ + 1]
    BY <1>2 DEF AfterTransmit
  <2>3. AfterTransmit(c, m) \in Sender /\ AfterTransmit(c, m).unsentFragmentStart = 0
    <3>1. c.outgoingSequence + 1 \in Nat \ {0} /\ 0 \in 0 .. MAX_MSGLEN
      BY FragmentAssumption DEF Sender
    <3>2. AfterTransmit(c, m) \in Sender
      BY <2>2, <3>1, SenderAdvance
    <3>3. QED
      BY <2>2, <3>2 DEF Sender
  <2>4. AfterTransmit(c, m).unsent.length \in Nat
    BY <2>3, FragmentAssumption DEF Sender, Message
  <2>5. QED
    BY <2>1, <2>3, <2>4
<1>3. QED
  BY <1>1, <1>2

\* Changes of a receiver that leave a receiver.
LEMMA ReceiverUpdate ==
    ASSUME NEW r \in Receiver, NEW n \in 0 .. MAX_MSGLEN, NEW s \in Nat
    PROVE  /\ [r EXCEPT !.fragmentSequence = s, !.fragmentLength = n] \in Receiver
           /\ [r EXCEPT !.incomingSequence = s, !.fragmentLength = n] \in Receiver
           /\ [r EXCEPT !.incomingSequence = s] \in Receiver
  BY DEF Receiver

\* A receiver that begins to assemble a message.
LEMMA AssemblingType ==
    ASSUME NEW r \in Receiver, NEW p \in Packet
    PROVE  /\ Assembling(r, p) \in Receiver
           /\ Assembling(r, p).fragmentSequence = p.sequence
           /\ Assembling(r, p).incomingSequence = r.incomingSequence
           /\ Assembling(r, p).fragmentBuffer = r.fragmentBuffer
           /\ Assembling(r, p).fragmentLength =
                IF p.sequence # r.fragmentSequence THEN 0 ELSE r.fragmentLength
<1>1. 0 \in 0 .. MAX_MSGLEN /\ p.sequence \in Nat
  BY FragmentAssumption DEF Packet
<1>2. Assembling(r, p) \in Receiver
  BY <1>1, ReceiverUpdate DEF Assembling, Receiver
<1>3. CASE p.sequence # r.fragmentSequence
  BY <1>2, <1>3 DEF Assembling, Receiver
<1>4. CASE p.sequence = r.fragmentSequence
  BY <1>2, <1>4 DEF Assembling
<1>5. QED
  BY <1>3, <1>4

\* A receiver that has taken one more fragment.
LEMMA WithFragmentType ==
    ASSUME NEW r \in Receiver, NEW p \in Packet, Continues(r, p)
    PROVE  /\ WithFragment(r, p) \in Receiver
           /\ WithFragment(r, p).fragmentSequence = r.fragmentSequence
           /\ WithFragment(r, p).incomingSequence = r.incomingSequence
           /\ WithFragment(r, p).fragmentLength = p.start + p.length
           /\ \A i \in 0 .. MAX_MSGLEN - 1 :
                 WithFragment(r, p).fragmentBuffer[i] =
                    IF i >= r.fragmentLength /\ i < r.fragmentLength + p.length
                    THEN Byte(p.data, i) ELSE r.fragmentBuffer[i]
<1> DEFINE B == [i \in 0 .. MAX_MSGLEN - 1 |->
                    IF i >= r.fragmentLength /\ i < r.fragmentLength + p.length
                    THEN Byte(p.data, p.start + (i - r.fragmentLength))
                    ELSE r.fragmentBuffer[i]]
<1>1. /\ r.fragmentBuffer \in [0 .. MAX_MSGLEN - 1 -> Message \X Nat]
      /\ DOMAIN r.fragmentBuffer = 0 .. MAX_MSGLEN - 1
      /\ r.fragmentLength \in 0 .. MAX_MSGLEN
      /\ r.incomingSequence \in Nat /\ r.fragmentSequence \in Nat
  BY DEF Receiver
<1>2. /\ p.start \in 0 .. MAX_MSGLEN /\ p.length \in 0 .. MAX_MSGLEN /\ p.data \in Message
      /\ p.start = r.fragmentLength /\ r.fragmentLength + p.length <= MAX_MSGLEN
  BY DEF Packet, Continues
<1>3. ASSUME NEW i \in 0 .. MAX_MSGLEN - 1, i >= r.fragmentLength
      PROVE  /\ p.start + (i - r.fragmentLength) = i
             /\ Byte(p.data, p.start + (i - r.fragmentLength)) \in Message \X Nat
  <2>1. p.start + (i - r.fragmentLength) = i /\ i \in Nat
    BY <1>1, <1>2, <1>3, FragmentAssumption
  <2>2. QED
    BY <2>1, <1>2 DEF Byte
<1>4. B \in [0 .. MAX_MSGLEN - 1 -> Message \X Nat]
  BY <1>1, <1>3
<1>5. WithFragment(r, p) =
        [r EXCEPT !.fragmentLength = r.fragmentLength + p.length, !.fragmentBuffer = B]
  BY <1>1 DEF WithFragment
<1>6. r.fragmentLength + p.length \in 0 .. MAX_MSGLEN
  BY <1>1, <1>2, FragmentAssumption
<1> HIDE DEF B
<1>7. WithFragment(r, p) \in Receiver
  BY <1>4, <1>5, <1>6 DEF Receiver
<1>8. /\ WithFragment(r, p).fragmentSequence = r.fragmentSequence
      /\ WithFragment(r, p).incomingSequence = r.incomingSequence
      /\ WithFragment(r, p).fragmentLength = r.fragmentLength + p.length
      /\ WithFragment(r, p).fragmentBuffer = B
  BY <1>5 DEF Receiver
<1>9. ASSUME NEW i \in 0 .. MAX_MSGLEN - 1
      PROVE  B[i] = IF i >= r.fragmentLength /\ i < r.fragmentLength + p.length
                    THEN Byte(p.data, i) ELSE r.fragmentBuffer[i]
  BY <1>3 DEF B
<1>10. QED
  BY <1>2, <1>7, <1>8, <1>9

-----------------------------------------------------------------------------
(* Types *)

\* The type invariant, with its parts named.
LEMMA TypeOKDef ==
    TypeOK <=> /\ chan \in Sender /\ peer \in Receiver /\ net \subseteq Packet
               /\ sent \in Seq(Message) /\ delivered \in Seq(Delivery)
  BY DEF TypeOK, Sender, Receiver

\* Types hold at first.
LEMMA InitType == Init => TypeInv
<1> SUFFICES ASSUME Init PROVE TypeInv
  OBVIOUS
<1>1. NoMessage \in Message
  BY FragmentAssumption DEF NoMessage, Message
<1>2. NoByte \in Message \X Nat
  BY <1>1 DEF NoByte, Byte
<1>3. chan \in Sender /\ SenderInRange
  BY <1>1, FragmentAssumption DEF Init, SetupSender, Sender, SenderInRange
<1>4. peer \in Receiver
  BY <1>2, FragmentAssumption DEF Init, SetupReceiver, Receiver
<1>5. QED
  BY <1>3, <1>4, TypeOKDef DEF Init, TypeInv

\* Sending keeps types.
LEMMA SendType ==
    ASSUME TypeInv, NEW m \in Message, Transmit(m)
    PROVE  TypeInv'
<1>1. /\ chan \in Sender /\ net \subseteq Packet /\ sent \in Seq(Message)
      /\ peer \in Receiver /\ delivered \in Seq(Delivery)
  BY TypeOKDef DEF TypeInv
<1>2. chan' \in Sender /\ SenderInRange' /\ net' \subseteq Packet
  BY <1>1, TransmitType DEF Transmit, SenderInRange
<1>3. sent' \in Seq(Message)
  BY <1>1 DEF Transmit
<1>4. peer' \in Receiver /\ delivered' \in Seq(Delivery)
  BY <1>1 DEF Transmit
<1>5. QED
  BY <1>2, <1>3, <1>4 DEF TypeInv, TypeOK, Sender, Receiver

\* So does sending the next fragment.
LEMMA NextFragmentStepType ==
    ASSUME TypeInv, TransmitNextFragment
    PROVE  TypeInv'
<1>1. /\ chan \in Sender /\ net \subseteq Packet /\ sent \in Seq(Message)
      /\ peer \in Receiver /\ delivered \in Seq(Delivery)
  BY TypeOKDef DEF TypeInv
<1>2. chan.unsentFragmentStart <= chan.unsent.length
  BY DEF TypeInv, SenderInRange, TransmitNextFragment
<1>3. chan' \in Sender /\ SenderInRange' /\ net' \subseteq Packet
  BY <1>1, <1>2, NextFragmentType, AfterFragmentType DEF TransmitNextFragment, SenderInRange
<1>4. peer' \in Receiver /\ delivered' \in Seq(Delivery) /\ sent' \in Seq(Message)
  BY <1>1 DEF TransmitNextFragment
<1>5. QED
  BY <1>3, <1>4 DEF TypeInv, TypeOK, Sender, Receiver

\* What a buffer holds is the data of some message.
LEMMA ContentType ==
    ASSUME NEW p \in Packet
    PROVE  WholeContent(p) \in Seq(Message \X Nat)
<1>1. p.length \in Nat /\ p.data \in Message
  BY FragmentAssumption DEF Packet
<1>2. \A i \in 1 .. p.length : Byte(p.data, i - 1) \in Message \X Nat
  BY <1>1 DEF Byte
<1>3. QED
  BY <1>1, <1>2 DEF WholeContent

\* So is an assembled message.
LEMMA AssembledType ==
    ASSUME NEW r \in Receiver
    PROVE  Assembled(r) \in Seq(Message \X Nat)
<1>1. /\ r.fragmentLength \in 0 .. MAX_MSGLEN
      /\ r.fragmentBuffer \in [0 .. MAX_MSGLEN - 1 -> Message \X Nat]
  BY DEF Receiver
<1>2. \A i \in 1 .. r.fragmentLength : i - 1 \in 0 .. MAX_MSGLEN - 1
  BY <1>1, FragmentAssumption
<1>3. \A i \in 1 .. r.fragmentLength : r.fragmentBuffer[i - 1] \in Message \X Nat
  BY <1>1, <1>2
<1>4. r.fragmentLength \in Nat
  BY <1>1, FragmentAssumption
<1>5. QED
  BY <1>3, <1>4 DEF Assembled

\* What is handed over has its type.
LEMMA HandOverType ==
    ASSUME delivered \in Seq(Delivery), NEW p \in Packet,
           NEW bytes \in Seq(Message \X Nat), HandOver(p, bytes)
    PROVE  delivered' \in Seq(Delivery)
<1>1. p.sequence \in Nat
  BY DEF Packet
<1>2. [sequence |-> p.sequence, bytes |-> bytes] \in Delivery
  BY <1>1 DEF Delivery
<1>3. QED
  BY <1>2 DEF HandOver

\* Every outcome of Netchan_Process keeps types.
LEMMA ProcessType ==
    ASSUME TypeInv, NEW p \in net, Process(p)
    PROVE  TypeInv'
<1>1. /\ chan \in Sender /\ net \subseteq Packet /\ sent \in Seq(Message)
      /\ peer \in Receiver /\ delivered \in Seq(Delivery) /\ SenderInRange /\ p \in Packet
  BY TypeOKDef DEF TypeInv
<1>2. /\ chan' \in Sender /\ net' \subseteq Packet /\ sent' \in Seq(Message) /\ SenderInRange'
  BY <1>1 DEF Process, SenderInRange
<1>3. p.sequence \in Nat /\ 0 \in 0 .. MAX_MSGLEN
  BY <1>1, FragmentAssumption DEF Packet
<1>4. peer' \in Receiver /\ delivered' \in Seq(Delivery)
  <2>1. CASE ProcessStale(p)
    BY <1>1, <2>1 DEF ProcessStale
  <2>2. CASE ProcessWhole(p)
    BY <1>1, <1>3, <2>2, ReceiverUpdate, ContentType, HandOverType DEF ProcessWhole, AfterMessage
  <2>3. CASE ProcessMissed(p)
    BY <1>1, <2>3, AssemblingType DEF ProcessMissed
  <2>4. CASE ProcessPartial(p)
    BY <1>1, <2>4, AssemblingType, WithFragmentType DEF ProcessPartial
  <2>5. CASE ProcessLast(p)
    <3> DEFINE r == WithFragment(Assembling(peer, p), p)
    <3>1. r \in Receiver
      BY <1>1, <2>5, AssemblingType, WithFragmentType DEF ProcessLast
    <3>2. peer' = AfterLastFragment(r, p) /\ HandOver(p, Assembled(r))
      BY <2>5 DEF ProcessLast
    <3> HIDE DEF r
    <3>3. peer' \in Receiver
      BY <1>3, <3>1, <3>2, ReceiverUpdate DEF AfterLastFragment
    <3>4. QED
      BY <1>1, <3>1, <3>2, <3>3, AssembledType, HandOverType
  <2>6. QED
    BY <2>1, <2>2, <2>3, <2>4, <2>5 DEF Process
<1>5. QED
  BY <1>2, <1>4 DEF TypeInv, TypeOK, Sender, Receiver

\* A message that is submitted is a message.
LEMMA NewMessageType ==
    ASSUME sent \in Seq(Message), Len(sent) < MaxSent, NEW length \in 0 .. MAX_MSGLEN
    PROVE  [id |-> Len(sent) + 1, length |-> length] \in Message
<1>1. Len(sent) + 1 \in 0 .. MaxSent
  BY FragmentAssumption
<1>2. QED
  BY <1>1 DEF Message

\* Every step keeps types.
LEMMA NextType == TypeInv /\ [Next]_chanVars => TypeInv'
<1> SUFFICES ASSUME TypeInv, [Next]_chanVars PROVE TypeInv'
  OBVIOUS
<1>1. CASE Send
  <2>1. sent \in Seq(Message)
    BY DEF TypeInv, TypeOK
  <2>2. PICK length \in 0 .. MAX_MSGLEN : Transmit([id |-> Len(sent) + 1, length |-> length])
    BY <1>1 DEF Send
  <2>3. QED
    BY <1>1, <2>1, <2>2, NewMessageType, SendType DEF Send
<1>2. CASE TransmitNextFragment
  BY <1>2, NextFragmentStepType
<1>3. CASE Receive
  BY <1>3, ProcessType DEF Receive
<1>4. CASE UNCHANGED chanVars
  BY <1>4 DEF TypeInv, TypeOK, SenderInRange, chanVars
<1>5. QED
  BY <1>1, <1>2, <1>3, <1>4 DEF Next

\* Every field of both netchans, every packet and both histories keep their
\* types; in particular no fragment is ever cut or copied past MAX_MSGLEN
\* (Netchan_TransmitNextFragment, Netchan_Process).
THEOREM TypeCorrect == Spec => [](TypeOK /\ SenderInRange)
<1>1. Spec => []TypeInv
  BY InitType, NextType, PTL DEF Spec
<1>2. TypeInv => TypeOK /\ SenderInRange
  BY DEF TypeInv
<1>3. QED
  BY <1>1, <1>2, PTL

-----------------------------------------------------------------------------
(* What each step does to the sender's fields and to the wire *)

\* The packet and the sender after Netchan_Transmit.
LEMMA TransmitFields ==
    ASSUME NEW c \in Sender, NEW m \in Message
    PROVE  /\ TransmitPacket(c, m).sequence = c.outgoingSequence
           /\ TransmitPacket(c, m).data = m
           /\ TransmitPacket(c, m).start = 0
           /\ TransmitPacket(c, m).fragmented <=> m.length >= FRAGMENT_SIZE
           /\ TransmitPacket(c, m).length =
                IF m.length >= FRAGMENT_SIZE THEN FRAGMENT_SIZE ELSE m.length
           /\ AfterTransmit(c, m).outgoingSequence =
                IF m.length >= FRAGMENT_SIZE THEN c.outgoingSequence ELSE c.outgoingSequence + 1
           /\ AfterTransmit(c, m).unsentFragments <=>
                m.length >= FRAGMENT_SIZE \/ c.unsentFragments
           /\ m.length >= FRAGMENT_SIZE =>
                /\ AfterTransmit(c, m).unsent = m
                /\ AfterTransmit(c, m).unsentFragmentStart = FRAGMENT_SIZE
<1>1. m.length \in Nat /\ FRAGMENT_SIZE \in Nat \ {0}
  BY FragmentAssumption DEF Message
<1>2. CASE m.length >= FRAGMENT_SIZE
  <2> DEFINE f == Fragmenting(c, m)
  <2>1. /\ f \in Sender /\ f.unsentFragmentStart = 0 /\ f.unsent = m
        /\ f.outgoingSequence = c.outgoingSequence
    BY FragmentingType, FragmentingFields
  <2>2. TransmitPacket(c, m) = NextFragment(f) /\ AfterTransmit(c, m) = AfterFragment(f)
    BY <1>2 DEF TransmitPacket, AfterTransmit
  <2> HIDE DEF f
  <2>3. FragmentLength(f) = FRAGMENT_SIZE
    BY <1>1, <1>2, <2>1 DEF FragmentLength
  <2>4. ~ IsLastFragment(f)
    BY <2>3 DEF IsLastFragment
  <2>5. /\ NextFragment(f).sequence = c.outgoingSequence
        /\ NextFragment(f).fragmented
        /\ NextFragment(f).data = m
        /\ NextFragment(f).start = 0
        /\ NextFragment(f).length = FRAGMENT_SIZE
    BY <2>1, <2>3 DEF NextFragment
  <2>6. /\ AfterFragment(f).outgoingSequence = c.outgoingSequence
        /\ AfterFragment(f).unsentFragments
        /\ AfterFragment(f).unsent = m
        /\ AfterFragment(f).unsentFragmentStart = FRAGMENT_SIZE
    BY <1>1, <2>1, <2>3, <2>4, AfterFragmentFields
  <2>7. QED
    BY <1>2, <2>2, <2>5, <2>6
<1>3. CASE ~ (m.length >= FRAGMENT_SIZE)
  <2>1. TransmitPacket(c, m) = WholePacket(c, m)
    BY <1>3 DEF TransmitPacket
  <2>2. /\ TransmitPacket(c, m).sequence = c.outgoingSequence
        /\ TransmitPacket(c, m).data = m
        /\ TransmitPacket(c, m).start = 0
        /\ ~ TransmitPacket(c, m).fragmented
        /\ TransmitPacket(c, m).length = m.length
    BY <2>1 DEF WholePacket
  <2>3. AfterTransmit(c, m) = [c EXCEPT !.unsentFragmentStart = 0, !.outgoingSequence = @ + 1]
    BY <1>3 DEF AfterTransmit
  <2>4. /\ AfterTransmit(c, m).outgoingSequence = c.outgoingSequence + 1
        /\ AfterTransmit(c, m).unsentFragments <=> c.unsentFragments
    BY <2>3 DEF Sender
  <2>5. QED
    BY <1>3, <2>2, <2>4
<1>4. QED
  BY <1>2, <1>3

\* A message that is given to the netchan disturbs no packet already sent.
LEMMA GoodPacketStable ==
    ASSUME sent \in Seq(Message), NEW m \in Message, sent' = Append(sent, m),
           NEW p, GoodPacket(p)
    PROVE  GoodPacket(p)'
<1>1. /\ Len(sent') = Len(sent) + 1
      /\ \A k \in 1 .. Len(sent) : sent'[k] = sent[k]
      /\ Len(sent) \in Nat
  OBVIOUS
<1>2. p.sequence \in 1 .. Len(sent') /\ sent'[p.sequence] = sent[p.sequence]
  BY <1>1 DEF GoodPacket
<1>3. QED
  BY <1>2 DEF GoodPacket

\* What the buffer holds is a prefix of a message that was sent, and stays one.
LEMMA PrefixStable ==
    ASSUME sent \in Seq(Message), NEW m \in Message, sent' = Append(sent, m),
           UNCHANGED peer, BufferIsPrefix
    PROVE  BufferIsPrefix'
<1>1. /\ Len(sent') = Len(sent) + 1
      /\ \A k \in 1 .. Len(sent) : sent'[k] = sent[k]
      /\ Len(sent) \in Nat
  OBVIOUS
<1>2. QED
  BY <1>1 DEF BufferIsPrefix

\* What was delivered stays what was sent.
LEMMA IntactStable ==
    ASSUME sent \in Seq(Message), NEW m \in Message, sent' = Append(sent, m),
           UNCHANGED delivered, Intact
    PROVE  Intact'
<1>1. /\ Len(sent') = Len(sent) + 1
      /\ \A k \in 1 .. Len(sent) : sent'[k] = sent[k]
      /\ Len(sent) \in Nat
  OBVIOUS
<1>2. QED
  BY <1>1 DEF Intact

\* Sending keeps the invariant.
LEMMA SendSafe ==
    ASSUME ChannelInv, NEW m \in Message, Transmit(m)
    PROVE  ChannelInv'
<1>1. /\ chan \in Sender /\ sent \in Seq(Message) /\ ~ chan.unsentFragments
      /\ sent' = Append(sent, m) /\ UNCHANGED <<peer, delivered>>
      /\ net' = net \cup {TransmitPacket(chan, m)} /\ chan' = AfterTransmit(chan, m)
  BY TypeOKDef DEF ChannelInv, TypeInv, Transmit
<1>2. TypeInv'
  BY SendType DEF ChannelInv
<1>3. /\ m.length \in Nat /\ FRAGMENT_SIZE \in Nat \ {0}
      /\ chan.outgoingSequence \in Nat \ {0}
      /\ Len(sent) = chan.outgoingSequence - 1
      /\ Len(sent') = Len(sent) + 1
      /\ sent'[chan.outgoingSequence] = m
  BY <1>1, FragmentAssumption DEF ChannelInv, SenderSequence, Sender, Message
<1>4. SenderSequence'
  BY <1>1, <1>3, TransmitFields DEF SenderSequence
<1>5. WireInv'
  <2>1. ASSUME NEW p, p = TransmitPacket(chan, m) PROVE GoodPacket(p)'
    <3>1. /\ p.sequence = chan.outgoingSequence /\ p.data = m /\ p.start = 0
          /\ p.fragmented <=> m.length >= FRAGMENT_SIZE
          /\ p.length = IF m.length >= FRAGMENT_SIZE THEN FRAGMENT_SIZE ELSE m.length
      BY <1>1, <2>1, TransmitFields
    <3>2. QED
      BY <1>3, <3>1 DEF GoodPacket
  <2>2. \A p \in net : GoodPacket(p)'
    BY <1>1, GoodPacketStable DEF ChannelInv, WireInv
  <2>3. QED
    BY <1>1, <2>1, <2>2 DEF WireInv
<1>6. BufferIsPrefix' /\ Intact'
  BY <1>1, PrefixStable, IntactStable DEF ChannelInv
<1>7. LastIsIncoming' /\ InOrder'
  BY <1>1 DEF ChannelInv, LastIsIncoming, InOrder
<1>8. QED
  BY <1>2, <1>4, <1>5, <1>6, <1>7 DEF ChannelInv

\* So does sending the next fragment.
LEMMA NextFragmentSafe ==
    ASSUME ChannelInv, TransmitNextFragment
    PROVE  ChannelInv'
<1>1. /\ chan \in Sender /\ sent \in Seq(Message) /\ chan.unsentFragments
      /\ UNCHANGED <<peer, sent, delivered>>
      /\ net' = net \cup {NextFragment(chan)} /\ chan' = AfterFragment(chan)
      /\ chan.unsentFragmentStart <= chan.unsent.length
  BY TypeOKDef DEF ChannelInv, TypeInv, SenderInRange, TransmitNextFragment
<1>2. TypeInv'
  BY NextFragmentStepType DEF ChannelInv
<1>3. /\ chan.outgoingSequence \in Nat \ {0}
      /\ Len(sent) = chan.outgoingSequence
      /\ chan.unsent = sent[chan.outgoingSequence]
  BY <1>1 DEF ChannelInv, SenderSequence, Sender
<1>4. SenderSequence'
  BY <1>1, <1>3, AfterFragmentFields DEF SenderSequence
<1>5. WireInv'
  <2>1. ASSUME NEW p, p = NextFragment(chan) PROVE GoodPacket(p)'
    <3>1. /\ p.sequence = chan.outgoingSequence /\ p.data = chan.unsent
          /\ p.start = chan.unsentFragmentStart
          /\ p.fragmented
          /\ p.length = FragmentLength(chan)
      BY <2>1 DEF NextFragment
    <3>2. /\ chan.unsentFragmentStart + FragmentLength(chan) <= chan.unsent.length
          /\ FragmentLength(chan) # FRAGMENT_SIZE =>
                chan.unsentFragmentStart + FragmentLength(chan) = chan.unsent.length
      BY <1>1, FragmentLengthBounds
    <3>3. QED
      BY <1>1, <1>3, <3>1, <3>2 DEF GoodPacket
  <2>2. \A p \in net : GoodPacket(p)'
    BY <1>1 DEF ChannelInv, WireInv, GoodPacket
  <2>3. QED
    BY <1>1, <2>1, <2>2 DEF WireInv
<1>6. BufferIsPrefix' /\ Intact' /\ LastIsIncoming' /\ InOrder'
  BY <1>1 DEF ChannelInv, BufferIsPrefix, Intact, LastIsIncoming, InOrder
<1>7. QED
  BY <1>2, <1>4, <1>5, <1>6 DEF ChannelInv

-----------------------------------------------------------------------------
(* Receiving *)

\* Handing over the message with sequence number s, complete, keeps the
\* history intact and in order when s is newer than what was handed over.
LEMMA HandOverSafe ==
    ASSUME ChannelInv, NEW p \in Packet, NEW bytes, HandOver(p, bytes), UNCHANGED sent,
           p.sequence \in 1 .. Len(sent), p.sequence > peer.incomingSequence,
           bytes = Content(sent[p.sequence]), peer'.incomingSequence = p.sequence
    PROVE  Intact' /\ InOrder' /\ LastIsIncoming'
<1>1. /\ delivered \in Seq(Delivery) /\ peer.incomingSequence \in Nat /\ p.sequence \in Nat
      /\ delivered' = Append(delivered, [sequence |-> p.sequence, bytes |-> bytes])
  BY TypeOKDef DEF ChannelInv, TypeInv, Receiver, HandOver, Packet
<1>2. /\ Len(delivered') = Len(delivered) + 1
      /\ \A k \in 1 .. Len(delivered) : delivered'[k] = delivered[k]
      /\ delivered'[Len(delivered')] = [sequence |-> p.sequence, bytes |-> bytes]
      /\ Len(delivered) \in Nat
      /\ delivered' # << >>
  BY <1>1
<1>3. Intact'
  BY <1>2 DEF ChannelInv, Intact
<1>4. ASSUME NEW k \in 1 .. Len(delivered) PROVE delivered[k].sequence < p.sequence
  <2>1. /\ delivered # << >>
        /\ delivered[Len(delivered)].sequence = peer.incomingSequence
    BY <1>1, <1>4 DEF ChannelInv, LastIsIncoming
  <2>2. delivered[k].sequence \in Nat
    <3>1. delivered[k] \in Delivery
      BY <1>1, <1>4
    <3>2. QED
      BY <3>1 DEF Delivery
  <2>3. k < Len(delivered) => delivered[k].sequence < delivered[Len(delivered)].sequence
    BY <1>2, <1>4 DEF ChannelInv, InOrder
  <2>4. QED
    BY <1>1, <1>2, <1>4, <2>1, <2>2, <2>3
<1>5. InOrder'
  BY <1>2, <1>4 DEF ChannelInv, InOrder
<1>6. LastIsIncoming'
  BY <1>2 DEF LastIsIncoming
<1>7. QED
  BY <1>3, <1>5, <1>6

\* What assembling makes of a good fragment that continues it: the beginning of
\* the fragment's message, up to the end of the fragment.
LEMMA FragmentExtendsPrefix ==
    ASSUME ChannelInv, NEW p \in net, p.fragmented, Continues(Assembling(peer, p), p)
    PROVE  LET r == WithFragment(Assembling(peer, p), p)
           IN  /\ r.fragmentLength = p.start + p.length
               /\ r.fragmentSequence = p.sequence
               /\ r.incomingSequence = peer.incomingSequence
               /\ \A i \in 0 .. r.fragmentLength - 1 :
                     r.fragmentBuffer[i] = Byte(sent[p.sequence], i)
<1> DEFINE a == Assembling(peer, p)
           r == WithFragment(a, p)
<1>1. /\ p \in Packet /\ peer \in Receiver /\ GoodPacket(p)
      /\ p.start \in Nat /\ p.length \in Nat
  BY TypeOKDef, FragmentAssumption DEF ChannelInv, TypeInv, WireInv, Packet
<1>2. /\ a \in Receiver
      /\ a.fragmentSequence = p.sequence
      /\ a.incomingSequence = peer.incomingSequence
      /\ a.fragmentBuffer = peer.fragmentBuffer
      /\ a.fragmentLength = IF p.sequence # peer.fragmentSequence THEN 0 ELSE peer.fragmentLength
  BY <1>1, AssemblingType
<1>3. /\ p.start = a.fragmentLength
      /\ a.fragmentLength + p.length <= MAX_MSGLEN
  BY DEF Continues
<1>4. /\ r.fragmentSequence = a.fragmentSequence
      /\ r.incomingSequence = a.incomingSequence
      /\ r.fragmentLength = p.start + p.length
      /\ \A i \in 0 .. MAX_MSGLEN - 1 :
            r.fragmentBuffer[i] =
               IF i >= a.fragmentLength /\ i < a.fragmentLength + p.length
               THEN Byte(p.data, i) ELSE a.fragmentBuffer[i]
  BY <1>1, <1>2, WithFragmentType
<1> HIDE DEF a, r
<1>5. ASSUME NEW i \in 0 .. r.fragmentLength - 1
      PROVE  r.fragmentBuffer[i] = Byte(sent[p.sequence], i)
  <2>1. i \in 0 .. MAX_MSGLEN - 1 /\ i < a.fragmentLength + p.length /\ i \in Nat
    BY <1>1, <1>3, <1>4, <1>5, FragmentAssumption
  <2>2. CASE i >= a.fragmentLength
    BY <1>1, <1>4, <2>1, <2>2 DEF GoodPacket
  <2>3. CASE i < a.fragmentLength
    <3>1. /\ p.sequence = peer.fragmentSequence
          /\ a.fragmentLength = peer.fragmentLength
          /\ i \in 0 .. peer.fragmentLength - 1
          /\ peer.fragmentLength > 0
      BY <1>1, <1>2, <1>3, <2>1, <2>3
    <3>2. peer.fragmentBuffer[i] = Byte(sent[peer.fragmentSequence], i)
      BY <3>1 DEF ChannelInv, BufferIsPrefix
    <3>3. ~ (i >= a.fragmentLength)
      BY <1>1, <1>3, <2>1, <2>3
    <3>4. r.fragmentBuffer[i] = a.fragmentBuffer[i]
      BY <1>4, <2>1, <3>3
    <3>5. QED
      BY <1>2, <3>1, <3>2, <3>4
  <2>4. QED
    BY <1>1, <1>3, <2>1, <2>2, <2>3
<1>6. QED
  BY <1>2, <1>4, <1>5 DEF a, r

\* So does Netchan_Process, whichever packet comes.
LEMMA ProcessSafe ==
    ASSUME ChannelInv, NEW p \in net, Process(p)
    PROVE  ChannelInv'
<1>1. /\ p \in Packet /\ peer \in Receiver /\ net \subseteq Packet
      /\ GoodPacket(p) /\ UNCHANGED <<chan, net, sent>>
      /\ p.sequence \in Nat /\ p.start \in Nat /\ p.length \in Nat
      /\ peer.incomingSequence \in Nat
  BY TypeOKDef, FragmentAssumption DEF ChannelInv, TypeInv, WireInv, Packet, Process, Receiver
<1>2. TypeInv'
  BY ProcessType DEF ChannelInv
<1>3. SenderSequence' /\ WireInv'
  BY <1>1 DEF ChannelInv, SenderSequence, WireInv, GoodPacket
<1>4. BufferIsPrefix' /\ Intact' /\ InOrder' /\ LastIsIncoming'
  <2>1. CASE ProcessStale(p)
    BY <1>1, <2>1 DEF ProcessStale, ChannelInv, BufferIsPrefix, Intact, InOrder, LastIsIncoming
  <2>2. CASE ProcessWhole(p)
    <3>1. /\ ~ p.fragmented /\ p.sequence > peer.incomingSequence
          /\ peer' = [peer EXCEPT !.incomingSequence = p.sequence]
          /\ HandOver(p, WholeContent(p))
      BY <1>1, <2>2 DEF ProcessWhole, Stale, AfterMessage
    <3>2. /\ peer'.incomingSequence = p.sequence
          /\ peer'.fragmentLength = peer.fragmentLength
          /\ peer'.fragmentSequence = peer.fragmentSequence
          /\ peer'.fragmentBuffer = peer.fragmentBuffer
      BY <1>1, <3>1 DEF Receiver
    <3>3. BufferIsPrefix'
      BY <1>1, <3>2 DEF ChannelInv, BufferIsPrefix
    <3>4. p.length = sent[p.sequence].length
      BY <1>1, <3>1 DEF GoodPacket
    <3>5. WholeContent(p) = Content(sent[p.sequence])
      BY <1>1, <3>4 DEF WholeContent, Content, GoodPacket
    <3>6. QED
      BY <1>1, <3>1, <3>2, <3>3, <3>5, HandOverSafe DEF GoodPacket
  <2>3. CASE ProcessMissed(p)
    <3>1. peer' = Assembling(peer, p) /\ UNCHANGED delivered
      BY <2>3 DEF ProcessMissed
    <3>2. /\ peer'.incomingSequence = peer.incomingSequence
          /\ peer'.fragmentSequence = p.sequence
          /\ peer'.fragmentBuffer = peer.fragmentBuffer
          /\ peer'.fragmentLength = IF p.sequence # peer.fragmentSequence
                                    THEN 0 ELSE peer.fragmentLength
      BY <1>1, <3>1, AssemblingType
    <3>3. QED
      BY <1>1, <3>1, <3>2 DEF ChannelInv, BufferIsPrefix, Intact, InOrder, LastIsIncoming
  <2>4. CASE ProcessPartial(p)
    <3>1. /\ p.fragmented /\ Continues(Assembling(peer, p), p)
          /\ peer' = WithFragment(Assembling(peer, p), p) /\ UNCHANGED delivered
      BY <2>4 DEF ProcessPartial
    <3>2. /\ peer'.fragmentSequence = p.sequence
          /\ peer'.incomingSequence = peer.incomingSequence
          /\ \A i \in 0 .. peer'.fragmentLength - 1 :
                peer'.fragmentBuffer[i] = Byte(sent[p.sequence], i)
      BY <3>1, FragmentExtendsPrefix
    <3>3. BufferIsPrefix'
      BY <1>1, <3>2 DEF BufferIsPrefix, GoodPacket
    <3>4. QED
      BY <1>1, <3>1, <3>2, <3>3 DEF ChannelInv, Intact, InOrder, LastIsIncoming
  <2>5. CASE ProcessLast(p)
    <3> DEFINE r == WithFragment(Assembling(peer, p), p)
    <3>1. /\ p.fragmented /\ Continues(Assembling(peer, p), p)
          /\ p.length # FRAGMENT_SIZE /\ p.sequence > peer.incomingSequence
          /\ peer' = AfterLastFragment(r, p) /\ HandOver(p, Assembled(r))
      BY <1>1, <2>5 DEF ProcessLast, Stale
    <3>2. /\ r.fragmentLength = p.start + p.length
          /\ \A i \in 0 .. r.fragmentLength - 1 :
                r.fragmentBuffer[i] = Byte(sent[p.sequence], i)
      BY <3>1, FragmentExtendsPrefix
    <3>3. r \in Receiver
      BY <1>1, <3>1, AssemblingType, WithFragmentType
    <3> HIDE DEF r
    <3>4. r.fragmentLength = sent[p.sequence].length /\ r.fragmentLength \in Nat
      BY <1>1, <3>1, <3>2 DEF GoodPacket
    <3>5. \A i \in 1 .. r.fragmentLength : r.fragmentBuffer[i - 1] = Byte(sent[p.sequence], i - 1)
      BY <3>2, <3>4
    <3>6. Assembled(r) = Content(sent[p.sequence])
      BY <3>4, <3>5 DEF Assembled, Content
    <3>7. peer'.incomingSequence = p.sequence /\ peer'.fragmentLength = 0
      BY <3>1, <3>3 DEF AfterLastFragment, Receiver
    <3>8. BufferIsPrefix'
      BY <3>7 DEF BufferIsPrefix
    <3>9. QED
      BY <1>1, <3>1, <3>6, <3>7, <3>8, HandOverSafe DEF GoodPacket
  <2>6. QED
    BY <2>1, <2>2, <2>3, <2>4, <2>5 DEF Process
<1>5. QED
  BY <1>2, <1>3, <1>4 DEF ChannelInv

\* The invariant holds at first.
LEMMA InitSafe == Init => ChannelInv
<1> SUFFICES ASSUME Init PROVE ChannelInv
  OBVIOUS
<1>1. TypeInv
  BY InitType
<1>2. SenderSequence /\ WireInv
  BY DEF Init, SetupSender, SenderSequence, WireInv
<1>3. BufferIsPrefix /\ LastIsIncoming
  BY DEF Init, SetupReceiver, BufferIsPrefix, LastIsIncoming
<1>4. Intact /\ InOrder
  BY DEF Init, Intact, InOrder
<1>5. QED
  BY <1>1, <1>2, <1>3, <1>4 DEF ChannelInv

\* Every step keeps it.
LEMMA NextSafe == ChannelInv /\ [Next]_chanVars => ChannelInv'
<1> SUFFICES ASSUME ChannelInv, [Next]_chanVars PROVE ChannelInv'
  OBVIOUS
<1>1. CASE Send
  <2>1. sent \in Seq(Message)
    BY DEF ChannelInv, TypeInv, TypeOK
  <2>2. PICK length \in 0 .. MAX_MSGLEN : Transmit([id |-> Len(sent) + 1, length |-> length])
    BY <1>1 DEF Send
  <2>3. QED
    BY <1>1, <2>1, <2>2, NewMessageType, SendSafe DEF Send
<1>2. CASE TransmitNextFragment
  BY <1>2, NextFragmentSafe
<1>3. CASE Receive
  BY <1>3, ProcessSafe DEF Receive
<1>4. CASE UNCHANGED chanVars
  <2>1. TypeInv'
    BY <1>4, NextType DEF ChannelInv
  <2>2. SenderSequence' /\ WireInv' /\ BufferIsPrefix'
    BY <1>4 DEF ChannelInv, chanVars, SenderSequence, WireInv, GoodPacket, BufferIsPrefix
  <2>3. LastIsIncoming' /\ Intact' /\ InOrder'
    BY <1>4 DEF ChannelInv, chanVars, LastIsIncoming, Intact, InOrder
  <2>4. QED
    BY <2>1, <2>2, <2>3 DEF ChannelInv
<1>5. QED
  BY <1>1, <1>2, <1>3, <1>4 DEF Next

\* So it always holds.
LEMMA ChannelInvariant == Spec => []ChannelInv
  BY InitSafe, NextSafe, PTL DEF Spec

\* Whatever the network loses, repeats or reorders, Netchan_Process returns
\* qtrue only for a message that was transmitted, and gives it back byte for
\* byte.
THEOREM Integrity == Spec => []Intact
<1>1. ChannelInv => Intact
  BY DEF ChannelInv
<1>2. QED
  BY <1>1, ChannelInvariant, PTL

\* It returns qtrue at most once for a message, and never for a message older
\* than one it returned qtrue for.
THEOREM AtMostOnceInOrder == Spec => []InOrder
<1>1. ChannelInv => InOrder
  BY DEF ChannelInv
<1>2. QED
  BY <1>1, ChannelInvariant, PTL

-----------------------------------------------------------------------------
(* Refinement of the message channel *)

\* Every step is a step of MessageChannel, or none.
LEMMA StepRefines == ChannelInv /\ ChannelInv' /\ [Next]_chanVars
                        => [Channel!Next]_<<sent, delivered>>
<1> SUFFICES ASSUME ChannelInv, ChannelInv', [Next]_chanVars
             PROVE  [Channel!Next]_<<sent, delivered>>
  OBVIOUS
<1>1. CASE Send
  <2>1. sent \in Seq(Message)
    BY DEF ChannelInv, TypeInv, TypeOK
  <2>2. PICK length \in 0 .. MAX_MSGLEN : Transmit([id |-> Len(sent) + 1, length |-> length])
    BY <1>1 DEF Send
  <2>3. [id |-> Len(sent) + 1, length |-> length] \in Message
    BY <1>1, <2>1, NewMessageType DEF Send
  <2>4. Channel!Submit
    BY <2>2, <2>3 DEF Transmit, Channel!Submit
  <2>5. QED
    BY <2>4 DEF Channel!Next
<1>2. CASE TransmitNextFragment
  BY <1>2 DEF TransmitNextFragment
<1>3. CASE Receive
  <2>1. PICK p \in net : Process(p)
    BY <1>3 DEF Receive
  <2>2. UNCHANGED sent
    BY <2>1 DEF Process
  <2>3. ASSUME NEW bytes, HandOver(p, bytes), ~ Stale(peer, p)
        PROVE  Channel!Deliver
    <3>1. /\ delivered \in Seq(Delivery) /\ delivered' \in Seq(Delivery)
          /\ GoodPacket(p) /\ p \in Packet /\ peer \in Receiver
      BY TypeOKDef DEF ChannelInv, TypeInv, TypeOK, WireInv
    <3>2. delivered' = Append(delivered, [sequence |-> p.sequence, bytes |-> bytes])
      BY <2>3 DEF HandOver
    <3>3. /\ Len(delivered') = Len(delivered) + 1
          /\ delivered'[Len(delivered')] = [sequence |-> p.sequence, bytes |-> bytes]
          /\ Len(delivered') \in 1 .. Len(delivered')
      BY <3>1, <3>2
    <3>4. bytes = Content(sent[p.sequence])
      BY <2>2, <3>3 DEF ChannelInv, Intact
    <3>5. p.sequence > peer.incomingSequence /\ p.sequence \in 1 .. Len(sent)
      BY <2>3, <3>1 DEF Stale, GoodPacket, Receiver, Packet
    <3>6. Channel!LastDelivered = peer.incomingSequence
      BY DEF ChannelInv, LastIsIncoming, Channel!LastDelivered
    <3>7. Channel!Content(sent[p.sequence]) = Content(sent[p.sequence])
      BY DEF Channel!Content, Content, Channel!Byte, Byte
    <3>8. QED
      BY <2>2, <3>2, <3>4, <3>5, <3>6, <3>7 DEF Channel!Deliver
  <2>4. CASE ProcessStale(p) \/ ProcessMissed(p) \/ ProcessPartial(p)
    BY <2>2, <2>4 DEF ProcessStale, ProcessMissed, ProcessPartial
  <2>5. CASE ProcessWhole(p)
    BY <2>3, <2>5 DEF ProcessWhole, Channel!Next
  <2>6. CASE ProcessLast(p)
    BY <2>3, <2>6 DEF ProcessLast, Channel!Next
  <2>7. QED
    BY <2>1, <2>4, <2>5, <2>6 DEF Process
<1>4. CASE UNCHANGED chanVars
  BY <1>4 DEF chanVars
<1>5. QED
  BY <1>1, <1>2, <1>3, <1>4 DEF Next

\* The netchan implements MessageChannel: transmitting submits a message,
\* Netchan_Process returning qtrue delivers one, and every other step leaves
\* the channel as it was.
THEOREM ImplementsChannel == Spec => ChannelSpec
<1>1. Init => Channel!Init
  BY DEF Init, Channel!Init
<1>2. QED
  BY <1>1, ChannelInvariant, StepRefines, PTL DEF Spec, ChannelSpec, Channel!Spec

-----------------------------------------------------------------------------
(* No receiver is stranded *)

\* Sending leaves no receiver stranded.
LEMMA SendNotStranded ==
    ASSUME ChannelInv, StrandedInv, NEW m \in Message, Transmit(m)
    PROVE  StrandedInv'
<1> DEFINE P == TransmitPacket(chan, m)
<1>1. /\ chan \in Sender /\ sent \in Seq(Message) /\ ~ chan.unsentFragments
      /\ sent' = Append(sent, m) /\ UNCHANGED <<peer, delivered>>
      /\ net' = net \cup {P} /\ chan' = AfterTransmit(chan, m)
      /\ net \subseteq Packet
  BY TypeOKDef DEF ChannelInv, TypeInv, Transmit
<1>2. /\ Len(sent) = chan.outgoingSequence - 1 /\ Len(sent') = Len(sent) + 1
      /\ Len(sent) \in Nat /\ chan.outgoingSequence \in Nat
  BY <1>1 DEF ChannelInv, SenderSequence, Sender
<1>3. /\ P.sequence = chan.outgoingSequence
      /\ P.start = 0
      /\ P.fragmented <=> m.length >= FRAGMENT_SIZE
      /\ m.length >= FRAGMENT_SIZE =>
            /\ chan'.unsentFragments
            /\ chan'.outgoingSequence = chan.outgoingSequence
            /\ chan'.unsentFragmentStart = FRAGMENT_SIZE
  BY <1>1, TransmitFields
<1> HIDE DEF P
<1>4. FirstPieceSent'
  <2>1. ASSUME NEW s \in 1 .. Len(sent')
        PROVE  \E p \in net' : p.sequence = s /\ p.start = 0
    <3>1. CASE s \in 1 .. Len(sent)
      BY <1>1, <3>1 DEF StrandedInv, FirstPieceSent
    <3>2. CASE s = chan.outgoingSequence
      BY <1>1, <1>3, <3>2
    <3>3. QED
      BY <1>2, <3>1, <3>2
  <2>2. QED
    BY <2>1 DEF FirstPieceSent
<1>5. ContinuationSent'
  <2>1. ASSUME NEW p \in net, p.fragmented, p.length = FRAGMENT_SIZE
        PROVE  \E q \in net' : /\ q.sequence = p.sequence
                               /\ q.fragmented
                               /\ q.start = p.start + FRAGMENT_SIZE
    BY <1>1, <2>1 DEF StrandedInv, ContinuationSent
  <2>2. ASSUME NEW p \in net', p = P, p.fragmented
        PROVE  /\ chan'.unsentFragments
               /\ p.sequence = chan'.outgoingSequence
               /\ chan'.unsentFragmentStart = p.start + FRAGMENT_SIZE
    BY <1>3, <2>2, FragmentAssumption
  <2>3. QED
    BY <1>1, <2>1, <2>2 DEF ContinuationSent
<1>6. EndsWithFragment'
  BY <1>1 DEF StrandedInv, EndsWithFragment
<1>7. QED
  BY <1>4, <1>5, <1>6 DEF StrandedInv

\* Nor does sending the next fragment.
LEMMA NextFragmentNotStranded ==
    ASSUME ChannelInv, StrandedInv, TransmitNextFragment
    PROVE  StrandedInv'
<1> DEFINE P == NextFragment(chan)
<1>1. /\ chan \in Sender /\ chan.unsentFragments
      /\ UNCHANGED <<peer, sent, delivered>>
      /\ net' = net \cup {P} /\ chan' = AfterFragment(chan)
  BY TypeOKDef DEF ChannelInv, TypeInv, TransmitNextFragment
<1>2. /\ P.sequence = chan.outgoingSequence
      /\ P.fragmented
      /\ P.start = chan.unsentFragmentStart
      /\ P.length = FragmentLength(chan)
  BY DEF NextFragment
<1>3. P.length = FRAGMENT_SIZE =>
         /\ chan'.unsentFragments
         /\ chan'.outgoingSequence = chan.outgoingSequence
         /\ chan'.unsentFragmentStart = P.start + FRAGMENT_SIZE
  BY <1>1, <1>2, AfterFragmentFields DEF IsLastFragment
<1> HIDE DEF P
<1>4. FirstPieceSent' /\ EndsWithFragment'
  BY <1>1 DEF StrandedInv, FirstPieceSent, EndsWithFragment
<1>5. ContinuationSent'
  <2>1. ASSUME NEW p \in net, p.fragmented, p.length = FRAGMENT_SIZE
        PROVE  \E q \in net' : /\ q.sequence = p.sequence
                               /\ q.fragmented
                               /\ q.start = p.start + FRAGMENT_SIZE
    BY <1>1, <1>2, <2>1 DEF StrandedInv, ContinuationSent
  <2>2. ASSUME NEW p \in net', p = P, p.length = FRAGMENT_SIZE
        PROVE  /\ chan'.unsentFragments
               /\ p.sequence = chan'.outgoingSequence
               /\ chan'.unsentFragmentStart = p.start + FRAGMENT_SIZE
    BY <1>2, <1>3, <2>2
  <2>3. QED
    BY <1>1, <2>1, <2>2 DEF ContinuationSent
<1>6. QED
  BY <1>4, <1>5 DEF StrandedInv

\* Nor does receiving.
LEMMA ProcessNotStranded ==
    ASSUME ChannelInv, StrandedInv, NEW p \in net, Process(p)
    PROVE  StrandedInv'
<1>1. /\ p \in Packet /\ peer \in Receiver /\ UNCHANGED <<chan, net, sent>>
  BY TypeOKDef DEF ChannelInv, TypeInv, Process
<1>2. FirstPieceSent' /\ ContinuationSent'
  BY <1>1 DEF StrandedInv, FirstPieceSent, ContinuationSent
<1>3. EndsWithFragment'
  <2>1. CASE ProcessStale(p)
    BY <1>1, <2>1 DEF ProcessStale, StrandedInv, EndsWithFragment
  <2>2. CASE ProcessWhole(p)
    <3>1. /\ peer'.fragmentLength = peer.fragmentLength
          /\ peer'.fragmentSequence = peer.fragmentSequence
      BY <1>1, <2>2 DEF ProcessWhole, AfterMessage, Receiver
    <3>2. QED
      BY <1>1, <3>1 DEF StrandedInv, EndsWithFragment
  <2>3. CASE ProcessMissed(p)
    <3>1. /\ peer'.fragmentSequence = p.sequence
          /\ peer'.fragmentLength = IF p.sequence # peer.fragmentSequence
                                    THEN 0 ELSE peer.fragmentLength
      BY <1>1, <2>3, AssemblingType DEF ProcessMissed
    <3>2. QED
      BY <1>1, <3>1 DEF StrandedInv, EndsWithFragment
  <2>4. CASE ProcessPartial(p)
    <3>1. /\ p.fragmented /\ p.length = FRAGMENT_SIZE
          /\ Continues(Assembling(peer, p), p)
          /\ peer' = WithFragment(Assembling(peer, p), p)
      BY <2>4 DEF ProcessPartial
    <3>2. /\ peer'.fragmentSequence = p.sequence
          /\ peer'.fragmentLength = p.start + p.length
      BY <3>1, FragmentExtendsPrefix
    <3>3. QED
      BY <1>1, <3>1, <3>2 DEF EndsWithFragment
  <2>5. CASE ProcessLast(p)
    <3> DEFINE r == WithFragment(Assembling(peer, p), p)
    <3>1. Continues(Assembling(peer, p), p) /\ peer' = AfterLastFragment(r, p)
      BY <2>5 DEF ProcessLast
    <3>2. r \in Receiver
      BY <1>1, <3>1, AssemblingType, WithFragmentType
    <3> HIDE DEF r
    <3>3. peer'.fragmentLength = 0
      BY <3>1, <3>2 DEF AfterLastFragment, Receiver
    <3>4. QED
      BY <3>3 DEF EndsWithFragment
  <2>6. QED
    BY <2>1, <2>2, <2>3, <2>4, <2>5 DEF Process
<1>4. QED
  BY <1>2, <1>3 DEF StrandedInv

\* Nor does any step.
LEMMA NextNotStranded == ChannelInv /\ StrandedInv /\ [Next]_chanVars => StrandedInv'
<1> SUFFICES ASSUME ChannelInv, StrandedInv, [Next]_chanVars PROVE StrandedInv'
  OBVIOUS
<1>1. CASE Send
  <2>1. sent \in Seq(Message)
    BY DEF ChannelInv, TypeInv, TypeOK
  <2>2. PICK length \in 0 .. MAX_MSGLEN : Transmit([id |-> Len(sent) + 1, length |-> length])
    BY <1>1 DEF Send
  <2>3. QED
    BY <1>1, <2>1, <2>2, NewMessageType, SendNotStranded DEF Send
<1>2. CASE TransmitNextFragment
  BY <1>2, NextFragmentNotStranded
<1>3. CASE Receive
  BY <1>3, ProcessNotStranded DEF Receive
<1>4. CASE UNCHANGED chanVars
  BY <1>4 DEF chanVars, StrandedInv, FirstPieceSent, ContinuationSent, EndsWithFragment
<1>5. QED
  BY <1>1, <1>2, <1>3, <1>4 DEF Next

\* That is what NeverStranded asks for.
LEMMA InvImpliesNeverStranded == ChannelInv /\ StrandedInv => NeverStranded
<1> SUFFICES ASSUME ChannelInv, StrandedInv,
                    NEW s \in peer.incomingSequence + 1 .. chan.outgoingSequence - 1
             PROVE  \E p \in net : /\ p.sequence = s
                                   /\ ~ p.fragmented \/ p.start = Assembling(peer, p).fragmentLength
  BY DEF NeverStranded
<1>1. /\ peer \in Receiver /\ chan \in Sender /\ net \subseteq Packet
      /\ peer.incomingSequence \in Nat /\ chan.outgoingSequence \in Nat
      /\ peer.fragmentLength \in Nat
  BY TypeOKDef, FragmentAssumption DEF ChannelInv, TypeInv, Receiver, Sender
<1>2. s \in 1 .. Len(sent) /\ s < chan.outgoingSequence
  BY <1>1 DEF ChannelInv, SenderSequence
<1>3. CASE s = peer.fragmentSequence /\ peer.fragmentLength > 0
  <2>1. PICK p \in net : /\ p.sequence = s
                         /\ p.fragmented
                         /\ p.length = FRAGMENT_SIZE
                         /\ p.start + FRAGMENT_SIZE = peer.fragmentLength
    BY <1>3 DEF StrandedInv, EndsWithFragment
  <2>2. PICK q \in net : /\ q.sequence = s
                         /\ q.start = peer.fragmentLength
    BY <1>2, <2>1 DEF StrandedInv, ContinuationSent
  <2>3. Assembling(peer, q).fragmentLength = peer.fragmentLength
    BY <1>1, <1>3, <2>2, AssemblingType
  <2>4. QED
    BY <2>2, <2>3
<1>4. CASE s # peer.fragmentSequence \/ peer.fragmentLength = 0
  <2>1. PICK p \in net : p.sequence = s /\ p.start = 0
    BY <1>2 DEF StrandedInv, FirstPieceSent
  <2>2. Assembling(peer, p).fragmentLength = 0
    BY <1>1, <1>4, <2>1, AssemblingType
  <2>3. QED
    BY <2>1, <2>2
<1>5. QED
  BY <1>1, <1>3, <1>4

\* A receiver that has part of a message, or none of it, can always be helped
\* on by a packet that was sent: the sender never leaves out the short or
\* empty fragment that ends a message (Netchan_TransmitNextFragment).
THEOREM NoReceiverStranded == Spec => []NeverStranded
<1>1. Init => StrandedInv
  BY DEF Init, SetupReceiver, StrandedInv, FirstPieceSent, ContinuationSent, EndsWithFragment
<1>2. QED
  BY <1>1, ChannelInvariant, NextNotStranded, InvImpliesNeverStranded, PTL DEF Spec

-----------------------------------------------------------------------------
(* SvNetChan *)

Key == [sequence : Nat, command : Nat]
Annotation == [ack : Nat, key : Key]

SvTypes ==
    /\ queue \in Seq(Message) /\ submitted \in Seq(Message)
    /\ lastClientCommand \in Nat
    /\ written \in Seq(Annotation)
    /\ Len(written) = Len(submitted)

\* No message is in two places: what is transmitted is not waiting any more,
\* and was not transmitted before.
EachOnce ==
    /\ \A j, k \in 1 .. Len(sent) : j # k => sent[j].id # sent[k].id
    /\ \A j \in 1 .. Len(sent), k \in 1 .. Len(queue) : sent[j].id # queue[k].id

QueueInv == SvTypes /\ NeitherLostNorRepeated /\ EachOnce /\ KeyHasSequence

SvInv == ChannelInv /\ StrandedInv /\ QueueInv

-----------------------------------------------------------------------------
(* The netchan under the queue *)

\* The last fragment of a message and the first packet of the next.
TransmitNextOfQueue(m) ==
    /\ chan.unsentFragments /\ IsLastFragment(chan)
    /\ chan' = AfterTransmit(AfterFragment(chan), m)
    /\ net' = net \cup {NextFragment(chan), TransmitPacket(AfterFragment(chan), m)}
    /\ sent' = Append(sent, m)
    /\ UNCHANGED <<peer, delivered>>

\* After the last fragment the netchan is ready for the next message.
LEMMA BetweenMessages ==
    ASSUME ChannelInv, chan.unsentFragments, IsLastFragment(chan)
    PROVE  /\ AfterFragment(chan) \in Sender
           /\ ~ AfterFragment(chan).unsentFragments
           /\ AfterFragment(chan).outgoingSequence = Len(sent) + 1
           /\ chan.outgoingSequence = Len(sent)
           /\ NextFragment(chan) \in Packet
           /\ GoodPacket(NextFragment(chan))
<1>1. /\ chan \in Sender /\ chan.unsentFragmentStart <= chan.unsent.length
      /\ chan.outgoingSequence \in Nat \ {0}
      /\ Len(sent) = chan.outgoingSequence /\ chan.unsent = sent[chan.outgoingSequence]
  BY TypeOKDef DEF ChannelInv, TypeInv, SenderInRange, SenderSequence, Sender
<1>2. /\ chan.unsentFragmentStart + FragmentLength(chan) <= chan.unsent.length
      /\ FragmentLength(chan) # FRAGMENT_SIZE =>
            chan.unsentFragmentStart + FragmentLength(chan) = chan.unsent.length
  BY <1>1, FragmentLengthBounds
<1>3. GoodPacket(NextFragment(chan))
  BY <1>1, <1>2 DEF GoodPacket, NextFragment
<1>4. QED
  BY <1>1, <1>3, AfterFragmentType, AfterFragmentFields, NextFragmentType

\* The first of the queue is sent as any message is.
LEMMA NextOfQueueSafe ==
    ASSUME ChannelInv, NEW m \in Message, TransmitNextOfQueue(m)
    PROVE  ChannelInv'
<1> DEFINE c == AfterFragment(chan)
           P == TransmitPacket(c, m)
           F == NextFragment(chan)
<1>1. /\ c \in Sender /\ ~ c.unsentFragments /\ c.outgoingSequence = Len(sent) + 1
      /\ F \in Packet /\ GoodPacket(F)
  BY BetweenMessages DEF TransmitNextOfQueue
<1>2. /\ sent \in Seq(Message) /\ net \subseteq Packet
      /\ peer \in Receiver /\ delivered \in Seq(Delivery)
      /\ sent' = Append(sent, m) /\ UNCHANGED <<peer, delivered>>
      /\ net' = net \cup {F, P} /\ chan' = AfterTransmit(c, m)
  BY TypeOKDef DEF ChannelInv, TypeInv, TransmitNextOfQueue
<1> HIDE DEF c, F
<1>3. /\ Len(sent) \in Nat /\ Len(sent') = Len(sent) + 1
      /\ sent'[Len(sent) + 1] = m /\ sent' \in Seq(Message)
      /\ m.length \in Nat /\ FRAGMENT_SIZE \in Nat \ {0}
  BY <1>2, FragmentAssumption DEF Message
<1>4. TypeInv'
  <2>1. chan' \in Sender /\ SenderInRange' /\ P \in Packet
    BY <1>1, <1>2, TransmitType DEF SenderInRange
  <2> HIDE DEF P
  <2>2. QED
    BY <1>1, <1>2, <1>3, <2>1 DEF TypeInv, TypeOK, Sender, Receiver
<1>5. SenderSequence'
  BY <1>1, <1>2, <1>3, TransmitFields DEF SenderSequence
<1>6. WireInv'
  <2>1. /\ P.sequence = Len(sent) + 1 /\ P.data = m /\ P.start = 0
        /\ P.fragmented <=> m.length >= FRAGMENT_SIZE
        /\ P.length = IF m.length >= FRAGMENT_SIZE THEN FRAGMENT_SIZE ELSE m.length
    BY <1>1, TransmitFields
  <2>2. ASSUME NEW p, p = P PROVE GoodPacket(p)'
    BY <1>3, <2>1, <2>2 DEF GoodPacket
  <2>3. \A p \in net \cup {F} : GoodPacket(p)'
    BY <1>1, <1>2, GoodPacketStable DEF ChannelInv, WireInv
  <2> HIDE DEF P
  <2>4. QED
    BY <1>2, <2>2, <2>3 DEF WireInv
<1>7. BufferIsPrefix' /\ Intact'
  BY <1>2, PrefixStable, IntactStable DEF ChannelInv
<1>8. LastIsIncoming' /\ InOrder'
  BY <1>2 DEF ChannelInv, LastIsIncoming, InOrder
<1>9. QED
  BY <1>4, <1>5, <1>6, <1>7, <1>8 DEF ChannelInv

\* That leaves no receiver stranded either.
LEMMA NextOfQueueNotStranded ==
    ASSUME ChannelInv, StrandedInv, NEW m \in Message, TransmitNextOfQueue(m)
    PROVE  StrandedInv'
<1> DEFINE c == AfterFragment(chan)
           P == TransmitPacket(c, m)
           F == NextFragment(chan)
<1>1. /\ c \in Sender /\ c.outgoingSequence = Len(sent) + 1
      /\ chan.outgoingSequence = Len(sent)
      /\ F \in Packet
  BY BetweenMessages DEF TransmitNextOfQueue
<1>2. /\ sent \in Seq(Message) /\ net \subseteq Packet
      /\ sent' = Append(sent, m) /\ UNCHANGED <<peer, delivered>>
      /\ net' = net \cup {F, P} /\ chan' = AfterTransmit(c, m)
  BY TypeOKDef DEF ChannelInv, TypeInv, TransmitNextOfQueue
<1>3. /\ F.sequence = chan.outgoingSequence /\ F.fragmented
      /\ F.start = chan.unsentFragmentStart
      /\ F.length # FRAGMENT_SIZE
  BY DEF NextFragment, TransmitNextOfQueue, IsLastFragment
<1>4. /\ P.sequence = Len(sent) + 1
      /\ P.start = 0
      /\ P.fragmented <=> m.length >= FRAGMENT_SIZE
      /\ m.length >= FRAGMENT_SIZE =>
            /\ chan'.unsentFragments
            /\ chan'.outgoingSequence = Len(sent) + 1
            /\ chan'.unsentFragmentStart = FRAGMENT_SIZE
  BY <1>1, <1>2, TransmitFields
<1> HIDE DEF c, P, F
<1>5. /\ Len(sent) \in Nat /\ Len(sent') = Len(sent) + 1
  BY <1>2
<1>6. FirstPieceSent'
  <2>1. ASSUME NEW s \in 1 .. Len(sent')
        PROVE  \E p \in net' : p.sequence = s /\ p.start = 0
    <3>1. CASE s \in 1 .. Len(sent)
      BY <1>2, <3>1 DEF StrandedInv, FirstPieceSent
    <3>2. CASE s = Len(sent) + 1
      BY <1>2, <1>4, <3>2
    <3>3. QED
      BY <1>5, <3>1, <3>2
  <2>2. QED
    BY <2>1 DEF FirstPieceSent
<1>7. ContinuationSent'
  <2>1. ASSUME NEW p \in net, p.fragmented, p.length = FRAGMENT_SIZE
        PROVE  \E q \in net' : /\ q.sequence = p.sequence
                               /\ q.fragmented
                               /\ q.start = p.start + FRAGMENT_SIZE
    BY <1>2, <1>3, <2>1 DEF StrandedInv, ContinuationSent
  <2>2. ASSUME NEW p \in net', p = P, p.fragmented
        PROVE  /\ chan'.unsentFragments
               /\ p.sequence = chan'.outgoingSequence
               /\ chan'.unsentFragmentStart = p.start + FRAGMENT_SIZE
    BY <1>4, <2>2, FragmentAssumption
  <2>3. QED
    BY <1>2, <1>3, <2>1, <2>2 DEF ContinuationSent
<1>8. EndsWithFragment'
  BY <1>2 DEF StrandedInv, EndsWithFragment
<1>9. QED
  BY <1>6, <1>7, <1>8 DEF StrandedInv

\* Of the five variables of the netchan every step of the server is a step of
\* NetChan, or the last fragment and what follows it.
LEMMA StepOfNetChan ==
    ASSUME SvInv, [SvNext]_svVars
    PROVE  \/ [TransmitNextFragment \/ Receive]_chanVars
           \/ \E m \in Message : Transmit(m) \/ TransmitNextOfQueue(m)
<1>1. ASSUME NEW length \in 1 .. MAX_MSGLEN, SvTransmit(NewMessage(length))
      PROVE  TransmitNextFragment \/ \E m \in Message : Transmit(m)
  <2> DEFINE m == NewMessage(length)
  <2>1. m \in Message /\ m.length <= MAX_MSGLEN
    BY <1>1, FragmentAssumption
       DEF SvTransmit, NewMessage, Message, SvInv, QueueInv, SvTypes
  <2>2. UNCHANGED <<peer, delivered>> /\ (SvTransmitQueued(m) \/ SvTransmitNow(m))
    BY <1>1 DEF SvTransmit
  <2>3. QED
    BY <2>1, <2>2 DEF SvTransmitQueued, SvTransmitNow, TransmitNextFragment, Transmit
<1>2. CASE SvTransmitNextFragment
  <2>1. CASE IsLastFragment(chan) /\ queue # << >>
    <3>1. Head(queue) \in Message
      BY <2>1 DEF SvInv, QueueInv, SvTypes
    <3>2. TransmitNextOfQueue(Head(queue))
      BY <1>2, <2>1 DEF SvTransmitNextFragment, TransmitNextOfQueue
    <3>3. QED
      BY <3>1, <3>2
  <2>2. CASE ~ (IsLastFragment(chan) /\ queue # << >>)
    BY <1>2, <2>2 DEF SvTransmitNextFragment, TransmitNextFragment
  <2>3. QED
    BY <2>1, <2>2
<1>3. CASE ClientCommand \/ UNCHANGED svVars
  BY <1>3 DEF ClientCommand, svVars, chanVars
<1>4. CASE SvReceive
  BY <1>4 DEF SvReceive
<1>5. QED
  BY <1>1, <1>2, <1>3, <1>4 DEF SvNext, SendSnapshot, SendGameState

\* Every step keeps what is known of the netchan below.
LEMMA ChannelUnderQueue ==
    ASSUME SvInv, [SvNext]_svVars
    PROVE  ChannelInv' /\ StrandedInv'
<1>1. ChannelInv /\ StrandedInv
  BY DEF SvInv
<1>2. CASE [TransmitNextFragment \/ Receive]_chanVars
  BY <1>1, <1>2, NextSafe, NextNotStranded DEF Next
<1>3. ASSUME NEW m \in Message, Transmit(m) \/ TransmitNextOfQueue(m)
      PROVE  ChannelInv' /\ StrandedInv'
  BY <1>1, <1>3, SendSafe, SendNotStranded, NextOfQueueSafe, NextOfQueueNotStranded
<1>4. QED
  BY <1>2, <1>3, StepOfNetChan

-----------------------------------------------------------------------------
(* The queue *)

\* Encoding a message gives its key the sequence number the netchan is at, and
\* changes no other key.
LEMMA EncodeProperties ==
    ASSUME NEW w \in Seq(Annotation), NEW m, m.id \in 1 .. Len(w), NEW c \in Sender,
           lastClientCommand \in Nat
    PROVE  /\ Encode(w, m, c) \in Seq(Annotation)
           /\ Len(Encode(w, m, c)) = Len(w)
           /\ Encode(w, m, c)[m.id].key.sequence = c.outgoingSequence
           /\ \A k \in 1 .. Len(w) : k # m.id => Encode(w, m, c)[k] = w[k]
<1> DEFINE key == [sequence |-> c.outgoingSequence, command |-> lastClientCommand]
           one == [w[m.id] EXCEPT !.key = key]
<1>1. key \in Key /\ w[m.id] \in Annotation
  BY DEF Key, Sender
<1>2. one \in Annotation /\ one.key = key
  BY <1>1 DEF Annotation
<1>3. Encode(w, m, c) = [w EXCEPT ![m.id] = one]
  BY DEF Encode
<1>4. key.sequence = c.outgoingSequence
  OBVIOUS
<1> HIDE DEF key, one
<1>5. QED
  BY <1>2, <1>3, <1>4

\* A message that is encoded as it is transmitted, for the first time.
LEMMA EncodedInTurn ==
    ASSUME KeyHasSequence, sent \in Seq(Message), NEW w \in Seq(Annotation),
           \A s \in 1 .. Len(sent) : /\ sent[s].id \in 1 .. Len(w)
                                    /\ w[sent[s].id] = written[sent[s].id],
           NEW m \in Message, m.id \in 1 .. Len(w),
           \A s \in 1 .. Len(sent) : sent[s].id # m.id,
           NEW c \in Sender, c.outgoingSequence = Len(sent) + 1, lastClientCommand \in Nat,
           sent' = Append(sent, m), written' = Encode(w, m, c)
    PROVE  KeyHasSequence'
<1>1. /\ Len(sent) \in Nat /\ Len(sent') = Len(sent) + 1 /\ sent'[Len(sent) + 1] = m
      /\ \A s \in 1 .. Len(sent) : sent'[s] = sent[s]
  OBVIOUS
<1>2. /\ written'[m.id].key.sequence = Len(sent) + 1
      /\ \A k \in 1 .. Len(w) : k # m.id => written'[k] = w[k]
  BY EncodeProperties
<1>3. \A s \in 1 .. Len(sent) : written'[sent[s].id].key.sequence = s
  BY <1>2 DEF KeyHasSequence
<1>4. QED
  BY <1>1, <1>2, <1>3 DEF KeyHasSequence

\* The numbers of the messages that were transmitted and of those that wait.
LEMMA Numbers ==
    ASSUME SvInv
    PROVE  /\ sent \in Seq(Message) /\ queue \in Seq(Message)
           /\ Len(sent) \in Nat /\ Len(queue) \in Nat /\ Len(submitted) \in Nat
           /\ Len(submitted) = Len(sent) + Len(queue) /\ Len(written) = Len(submitted)
           /\ \A s \in 1 .. Len(sent) : sent[s].id \in 1 .. Len(submitted)
           /\ \A k \in 1 .. Len(queue) : queue[k].id \in 1 .. Len(submitted)
<1>1. /\ sent \in Seq(Message) /\ queue \in Seq(Message) /\ submitted \in Seq(Message)
      /\ Len(submitted) = Len(sent) + Len(queue) /\ Len(written) = Len(submitted)
      /\ IdsOf(sent) \cup IdsOf(queue) = 1 .. Len(submitted)
  BY TypeOKDef DEF SvInv, ChannelInv, TypeInv, QueueInv, SvTypes, NeitherLostNorRepeated
<1>2. QED
  BY <1>1 DEF IdsOf

\* A message is written: its number is the next, and the others keep theirs.
LEMMA WrittenProperties ==
    ASSUME SvInv
    PROVE  /\ Written \in Seq(Annotation) /\ Len(Written) = Len(submitted) + 1
           /\ \A k \in 1 .. Len(submitted) : Written[k] = written[k]
<1> DEFINE note == [ack |-> lastClientCommand, key |-> NotEncoded]
<1>1. /\ note \in Annotation /\ written \in Seq(Annotation)
      /\ Len(written) = Len(submitted)
  BY DEF SvInv, QueueInv, SvTypes, Annotation, Key, NotEncoded
<1>2. Written = Append(written, note)
  BY DEF Written
<1> HIDE DEF note
<1>3. QED
  BY <1>1, <1>2

\* A message that is queued is one of the queue's.
LEMMA IdsOfAppend ==
    ASSUME NEW q \in Seq(Message), NEW m \in Message
    PROVE  IdsOf(Append(q, m)) = IdsOf(q) \cup {m.id}
<1>1. /\ DOMAIN Append(q, m) = 1 .. Len(q) + 1 /\ DOMAIN q = 1 .. Len(q)
      /\ Append(q, m)[Len(q) + 1] = m
      /\ \A k \in 1 .. Len(q) : Append(q, m)[k] = q[k]
      /\ 1 .. Len(q) + 1 = 1 .. Len(q) \cup {Len(q) + 1}
  OBVIOUS
<1>2. QED
  BY <1>1 DEF IdsOf

\* The first of the queue is one of the queue's.
LEMMA IdsOfTail ==
    ASSUME NEW q \in Seq(Message), q # << >>
    PROVE  IdsOf(q) = IdsOf(Tail(q)) \cup {Head(q).id}
<1>1. /\ DOMAIN Tail(q) = 1 .. Len(q) - 1 /\ DOMAIN q = 1 .. Len(q)
      /\ Len(q) \in Nat /\ Len(q) > 0 /\ Head(q) = q[1]
      /\ \A k \in 1 .. Len(q) - 1 : Tail(q)[k] = q[k + 1]
  OBVIOUS
<1>2. \A k \in 1 .. Len(q) : k = 1 \/ (k - 1 \in 1 .. Len(q) - 1 /\ q[k] = Tail(q)[k - 1])
  BY <1>1
<1>3. IdsOf(q) \subseteq IdsOf(Tail(q)) \cup {Head(q).id}
  <2> SUFFICES ASSUME NEW k \in 1 .. Len(q)
               PROVE  q[k].id \in IdsOf(Tail(q)) \cup {Head(q).id}
    BY <1>1 DEF IdsOf
  <2>1. CASE k = 1
    BY <1>1, <2>1
  <2>2. CASE k - 1 \in DOMAIN Tail(q) /\ q[k] = Tail(q)[k - 1]
    BY <2>2 DEF IdsOf
  <2>3. QED
    BY <1>1, <1>2, <2>1, <2>2
<1>4. IdsOf(Tail(q)) \cup {Head(q).id} \subseteq IdsOf(q)
  BY <1>1 DEF IdsOf
<1>5. QED
  BY <1>3, <1>4

\* SV_Netchan_Transmit keeps the queue's invariant.
LEMMA SubmitKeepsQueue ==
    ASSUME SvInv, NEW length \in 1 .. MAX_MSGLEN, SvTransmit(NewMessage(length))
    PROVE  QueueInv'
<1> DEFINE m == NewMessage(length)
<1>1. /\ m \in Message /\ m.id = Len(submitted) + 1
      /\ submitted \in Seq(Message) /\ lastClientCommand \in Nat
      /\ chan \in Sender
  BY FragmentAssumption, TypeOKDef
     DEF SvTransmit, NewMessage, Message, SvInv, QueueInv, SvTypes, ChannelInv, TypeInv
<1>2. /\ submitted' = Append(submitted, m) /\ lastClientCommand' = lastClientCommand
      /\ SvTransmitQueued(m) \/ SvTransmitNow(m)
  BY DEF SvTransmit
<1> HIDE DEF m
<1>3. submitted' \in Seq(Message) /\ Len(submitted') = Len(submitted) + 1
  BY <1>1, <1>2
<1>4. /\ IdsOf(sent) \cup IdsOf(queue) = 1 .. Len(submitted)
      /\ 1 .. Len(submitted') = (1 .. Len(submitted)) \cup {m.id}
      /\ \A j, k \in 1 .. Len(queue) : j < k => queue[j].id < queue[k].id
      /\ \A j, k \in 1 .. Len(sent) : j # k => sent[j].id # sent[k].id
      /\ \A j \in 1 .. Len(sent), k \in 1 .. Len(queue) : sent[j].id # queue[k].id
      /\ KeyHasSequence
  BY <1>1, <1>3 DEF SvInv, QueueInv, NeitherLostNorRepeated, EachOnce
<1>5. CASE SvTransmitQueued(m)
  <2>1. queue' = Append(queue, m) /\ written' = Written /\ sent' = sent
    BY <1>5 DEF SvTransmitQueued
  <2>2. /\ queue' \in Seq(Message) /\ Len(queue') = Len(queue) + 1
        /\ queue'[Len(queue) + 1] = m
        /\ \A k \in 1 .. Len(queue) : queue'[k] = queue[k]
    BY <1>1, <2>1, Numbers
  <2>3. SvTypes'
    BY <1>1, <1>2, <1>3, <2>1, <2>2, WrittenProperties DEF SvTypes
  <2>4. NeitherLostNorRepeated'
    <3>1. IdsOf(queue') = IdsOf(queue) \cup {m.id}
      BY <1>1, <2>1, IdsOfAppend, Numbers
    <3>2. ASSUME NEW j \in 1 .. Len(queue'), NEW k \in 1 .. Len(queue'), j < k
          PROVE  queue'[j].id < queue'[k].id
      <4>1. j \in 1 .. Len(queue) /\ queue'[j] = queue[j] /\ queue[j].id \in 1 .. Len(submitted)
        BY <2>2, <3>2, Numbers
      <4>2. CASE k = Len(queue) + 1
        BY <1>1, <2>2, <4>1, <4>2, Numbers
      <4>3. CASE k \in 1 .. Len(queue)
        BY <1>4, <2>2, <3>2, <4>1, <4>3
      <4>4. QED
        BY <2>2, <4>2, <4>3, Numbers
    <3>3. QED
      BY <1>3, <1>4, <2>1, <2>2, <3>1, <3>2, Numbers DEF NeitherLostNorRepeated
  <2>5. EachOnce'
    BY <1>1, <1>4, <2>1, <2>2, Numbers DEF EachOnce
  <2>6. KeyHasSequence'
    BY <1>4, <2>1, Numbers, WrittenProperties DEF KeyHasSequence
  <2>7. QED
    BY <2>3, <2>4, <2>5, <2>6 DEF QueueInv
<1>6. CASE SvTransmitNow(m)
  <2>1. /\ queue' = queue /\ written' = Encode(Written, m, chan) /\ sent' = Append(sent, m)
        /\ chan.outgoingSequence = Len(sent) + 1
    BY <1>1, <1>6 DEF SvTransmitNow, SvInv, ChannelInv, SenderSequence, Sender
  <2>2. /\ sent' \in Seq(Message) /\ Len(sent') = Len(sent) + 1
        /\ sent'[Len(sent) + 1] = m
        /\ \A k \in 1 .. Len(sent) : sent'[k] = sent[k]
    BY <1>1, <2>1, Numbers
  <2>3. SvTypes'
    <3>1. m.id \in 1 .. Len(Written)
      BY <1>1, WrittenProperties, Numbers
    <3>2. written' \in Seq(Annotation) /\ Len(written') = Len(submitted')
      BY <1>1, <1>3, <2>1, <3>1, WrittenProperties, EncodeProperties
    <3>3. QED
      BY <1>1, <1>2, <1>3, <2>1, <3>2, Numbers DEF SvTypes
  <2>4. NeitherLostNorRepeated'
    <3>1. IdsOf(sent') = IdsOf(sent) \cup {m.id}
      BY <1>1, <2>1, IdsOfAppend, Numbers
    <3>2. IdsOf(sent') \cup IdsOf(queue') = 1 .. Len(submitted')
      BY <1>4, <2>1, <3>1
    <3>3. Len(sent') + Len(queue') = Len(submitted')
      BY <1>3, <2>1, <2>2, Numbers
    <3>4. QED
      BY <1>4, <2>1, <3>2, <3>3 DEF NeitherLostNorRepeated
  <2>5. EachOnce'
    BY <1>1, <1>4, <2>1, <2>2, Numbers DEF EachOnce
  <2>6. KeyHasSequence'
    <3>1. m.id \in 1 .. Len(Written) /\ \A s \in 1 .. Len(sent) : sent[s].id # m.id
      BY <1>1, WrittenProperties, Numbers
    <3>2. \A s \in 1 .. Len(sent) : /\ sent[s].id \in 1 .. Len(Written)
                                    /\ Written[sent[s].id] = written[sent[s].id]
      BY WrittenProperties, Numbers
    <3>3. Written \in Seq(Annotation)
      BY WrittenProperties
    <3> HIDE DEF Written
    <3>4. QED
      BY <1>1, <1>4, <2>1, <3>1, <3>2, <3>3, Numbers, EncodedInTurn
  <2>7. QED
    BY <2>3, <2>4, <2>5, <2>6 DEF QueueInv
<1>7. QED
  BY <1>2, <1>5, <1>6

\* So does SV_Netchan_TransmitNextFragment.
LEMMA NextFragmentKeepsQueue ==
    ASSUME SvInv, SvTransmitNextFragment
    PROVE  QueueInv'
<1>1. UNCHANGED <<submitted, lastClientCommand>>
  BY DEF SvTransmitNextFragment
<1>2. CASE ~ (IsLastFragment(chan) /\ queue # << >>)
  <2>1. UNCHANGED <<sent, queue, written>>
    BY <1>2 DEF SvTransmitNextFragment
  <2>2. QED
    BY <1>1, <2>1
       DEF SvInv, QueueInv, SvTypes, NeitherLostNorRepeated, EachOnce, KeyHasSequence, IdsOf
<1>3. CASE IsLastFragment(chan) /\ queue # << >>
  <2> DEFINE c == AfterFragment(chan)
             m == Head(queue)
  <2>1. /\ written' = Encode(written, m, c) /\ sent' = Append(sent, m)
        /\ queue' = Tail(queue) /\ chan.unsentFragments
    BY <1>3 DEF SvTransmitNextFragment
  <2>2. c \in Sender /\ c.outgoingSequence = Len(sent) + 1
    BY <1>3, <2>1, BetweenMessages DEF SvInv
  <2>3. /\ m \in Message /\ m = queue[1] /\ 1 \in 1 .. Len(queue)
        /\ m.id \in 1 .. Len(submitted)
    BY <1>3, Numbers
  <2> HIDE DEF c, m
  <2>4. /\ queue' \in Seq(Message) /\ Len(queue') = Len(queue) - 1
        /\ \A k \in 1 .. Len(queue') : k + 1 \in 1 .. Len(queue) /\ queue'[k] = queue[k + 1]
    BY <1>3, <2>1, Numbers
  <2>5. /\ sent' \in Seq(Message) /\ Len(sent') = Len(sent) + 1
        /\ sent'[Len(sent) + 1] = m
        /\ \A k \in 1 .. Len(sent) : sent'[k] = sent[k]
    BY <2>1, <2>3, Numbers
  <2>6. /\ IdsOf(sent) \cup IdsOf(queue) = 1 .. Len(submitted)
        /\ \A j, k \in 1 .. Len(queue) : j < k => queue[j].id < queue[k].id
        /\ \A j, k \in 1 .. Len(sent) : j # k => sent[j].id # sent[k].id
        /\ \A j \in 1 .. Len(sent), k \in 1 .. Len(queue) : sent[j].id # queue[k].id
        /\ KeyHasSequence /\ written \in Seq(Annotation) /\ lastClientCommand \in Nat
    BY DEF SvInv, QueueInv, SvTypes, NeitherLostNorRepeated, EachOnce
  <2>7. SvTypes'
    <3>1. m.id \in 1 .. Len(written)
      BY <2>3, Numbers
    <3>2. written' \in Seq(Annotation) /\ Len(written') = Len(written)
      BY <2>1, <2>2, <2>6, <3>1, EncodeProperties
    <3>3. QED
      BY <1>1, <2>4, <3>2 DEF SvTypes, SvInv, QueueInv
  <2>8. NeitherLostNorRepeated'
    <3>1. IdsOf(sent') = IdsOf(sent) \cup {m.id}
      BY <2>1, <2>3, IdsOfAppend, Numbers
    <3>2. IdsOf(queue) = IdsOf(queue') \cup {m.id}
      BY <1>3, <2>1, IdsOfTail, Numbers DEF m
    <3>3. ASSUME NEW j \in 1 .. Len(queue'), NEW k \in 1 .. Len(queue'), j < k
          PROVE  queue'[j].id < queue'[k].id
      <4>1. /\ j + 1 \in 1 .. Len(queue) /\ k + 1 \in 1 .. Len(queue) /\ j + 1 < k + 1
            /\ queue'[j] = queue[j + 1] /\ queue'[k] = queue[k + 1]
        BY <2>4, <3>3
      <4>2. QED
        BY <2>6, <4>1
    <3>4. IdsOf(sent') \cup IdsOf(queue') = 1 .. Len(submitted')
      BY <1>1, <2>6, <3>1, <3>2
    <3>5. Len(sent') + Len(queue') = Len(submitted')
      <4>1. Len(submitted') = Len(submitted)
        BY <1>1
      <4>2. Len(sent') = Len(sent) + 1 /\ Len(queue') = Len(queue) - 1
        BY <2>4, <2>5
      <4>3. /\ Len(sent) \in Nat /\ Len(queue) \in Nat
            /\ Len(submitted) = Len(sent) + Len(queue)
        BY Numbers
      <4>4. QED
        BY <4>1, <4>2, <4>3
    <3>6. QED
      BY <3>3, <3>4, <3>5 DEF NeitherLostNorRepeated
  <2>9. EachOnce'
    <3>1. \A k \in 1 .. Len(queue') : queue'[k].id # m.id
      <4> SUFFICES ASSUME NEW k \in 1 .. Len(queue') PROVE queue'[k].id # m.id
        OBVIOUS
      <4>1. 1 < k + 1 /\ queue'[k] = queue[k + 1] /\ k + 1 \in 1 .. Len(queue)
        BY <2>4, Numbers
      <4>2. queue[1].id < queue[k + 1].id
        BY <2>3, <2>6, <4>1
      <4>3. queue[1].id \in Nat /\ queue[k + 1].id \in Nat
        BY <2>3, <4>1, Numbers
      <4>4. QED
        BY <2>3, <4>1, <4>2, <4>3
    <3>2. \A s \in 1 .. Len(sent) : sent[s].id # m.id
      BY <2>3, <2>6
    <3>3. \A j, k \in 1 .. Len(sent') : j # k => sent'[j].id # sent'[k].id
      BY <2>5, <2>6, <3>2, Numbers
    <3>4. \A k \in 1 .. Len(queue'), j \in 1 .. Len(sent) : sent[j].id # queue'[k].id
      BY <2>4, <2>6
    <3>5. \A j \in 1 .. Len(sent'), k \in 1 .. Len(queue') : sent'[j].id # queue'[k].id
      BY <2>5, <3>1, <3>4, Numbers
    <3>6. QED
      BY <3>3, <3>5 DEF EachOnce
  <2>10. KeyHasSequence'
    <3>1. m.id \in 1 .. Len(written) /\ \A s \in 1 .. Len(sent) : sent[s].id # m.id
      BY <2>3, <2>6, Numbers
    <3>2. \A s \in 1 .. Len(sent) : sent[s].id \in 1 .. Len(written)
      BY Numbers
    <3>3. QED
      BY <2>1, <2>2, <2>3, <2>6, <3>1, <3>2, Numbers, EncodedInTurn
  <2>11. QED
    BY <2>7, <2>8, <2>9, <2>10 DEF QueueInv
<1>4. QED
  BY <1>2, <1>3

\* So does every step.
LEMMA NextKeepsQueue ==
    ASSUME SvInv, [SvNext]_svVars
    PROVE  QueueInv'
<1>1. CASE ClientCommand \/ SvReceive \/ UNCHANGED svVars
  <2>1. /\ UNCHANGED <<sent, queue, submitted, written>>
        /\ lastClientCommand' \in Nat
    BY <1>1 DEF ClientCommand, SvReceive, svVars, Receive, Process, SvInv, QueueInv, SvTypes
  <2>2. QED
    BY <2>1
       DEF SvInv, QueueInv, SvTypes, NeitherLostNorRepeated, EachOnce, KeyHasSequence, IdsOf
<1>2. QED
  BY <1>1, SubmitKeepsQueue, NextFragmentKeepsQueue DEF SvNext, SendSnapshot, SendGameState

\* The invariant holds at first.
LEMMA SvInitInv == SvInit => SvInv
<1> SUFFICES ASSUME SvInit PROVE SvInv
  OBVIOUS
<1>1. ChannelInv
  BY InitSafe DEF SvInit
<1>2. StrandedInv
  BY DEF SvInit, Init, SetupReceiver, StrandedInv, FirstPieceSent, ContinuationSent,
         EndsWithFragment
<1>3. QueueInv
  BY DEF SvInit, Init, QueueInv, SvTypes, NeitherLostNorRepeated, EachOnce, KeyHasSequence, IdsOf
<1>4. QED
  BY <1>1, <1>2, <1>3 DEF SvInv

\* So it always holds.
LEMMA SvInvariant == SvSpec => []SvInv
<1>1. SvInv /\ [SvNext]_svVars => SvInv'
  BY ChannelUnderQueue, NextKeepsQueue DEF SvInv
<1>2. QED
  BY SvInitInv, <1>1, PTL DEF SvSpec

-----------------------------------------------------------------------------
(* The theorems *)

\* No message given to SV_Netchan_Transmit is lost in the queue, leaves it twice
\* or overtakes another one in it.
THEOREM QueueIsFaithful == SvSpec => []NeitherLostNorRepeated
<1>1. SvInv => NeitherLostNorRepeated
  BY DEF SvInv, QueueInv
<1>2. QED
  BY <1>1, SvInvariant, PTL

\* Each is encoded with the sequence number it is transmitted under, whether it
\* waited or not (SV_Netchan_Encode in SV_Netchan_TransmitNextFragment).
THEOREM EncodedForItsSequence == SvSpec => []KeyHasSequence
<1>1. SvInv => KeyHasSequence
  BY DEF SvInv, QueueInv
<1>2. QED
  BY <1>1, SvInvariant, PTL

\* What Netchan_Process hands over stays intact and in order, and no receiver is
\* stranded, with the queue in front of the netchan.
THEOREM QueueKeepsChannel == SvSpec => [](TypeOK /\ Intact /\ InOrder /\ NeverStranded)
<1>1. SvInv => TypeOK /\ Intact /\ InOrder /\ NeverStranded
  BY InvImpliesNeverStranded DEF SvInv, ChannelInv, TypeInv
<1>2. QED
  BY <1>1, SvInvariant, PTL

\* Every step is a step of MessageChannel, or none.
LEMMA SvStepRefines == SvInv /\ SvInv' /\ [SvNext]_svVars
                          => [Channel!Next]_<<sent, delivered>>
<1> SUFFICES ASSUME SvInv, SvInv', [SvNext]_svVars
             PROVE  [Channel!Next]_<<sent, delivered>>
  OBVIOUS
<1>1. ChannelInv /\ ChannelInv'
  BY DEF SvInv
<1>2. CASE [TransmitNextFragment \/ Receive]_chanVars
  BY <1>1, <1>2, StepRefines DEF Next
<1>3. ASSUME NEW m \in Message, Transmit(m) \/ TransmitNextOfQueue(m)
      PROVE  Channel!Next
  BY <1>3 DEF Transmit, TransmitNextOfQueue, Channel!Next, Channel!Submit
<1>4. QED
  BY <1>2, <1>3, StepOfNetChan

\* With its queue the server still implements MessageChannel; a message is
\* submitted to it when it leaves the queue.
THEOREM QueueImplementsChannel == SvSpec => ChannelSpec
<1>1. SvInit => Channel!Init
  BY DEF SvInit, Init, Channel!Init
<1>2. QED
  BY <1>1, SvInvariant, SvStepRefines, PTL DEF SvSpec, ChannelSpec, Channel!Spec
=============================================================================
