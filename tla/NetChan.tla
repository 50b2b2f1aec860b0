------------------------------ MODULE NetChan ------------------------------
(***************************************************************************)
(* qcommon/net_chan.cpp: one direction of a netchan_t pair. The sender cuts *)
(* a message of FRAGMENT_SIZE or more bytes into fragments that share one   *)
(* sequence number; the receiver drops what is old, puts fragments together *)
(* in order, and hands a message over when a short fragment completes it.   *)
(*                                                                          *)
(* The network is UDP: a packet may be lost, duplicated, delayed and        *)
(* overtaken. net only grows, and any packet in it may arrive at any time   *)
(* or never.                                                                *)
(***************************************************************************)
EXTENDS Integers, Sequences

CONSTANTS FRAGMENT_SIZE,    \* bytes of message in a full fragment (1300)
          MAX_MSGLEN,       \* longest message (16384)
          MaxSent           \* bound: messages transmitted in a behaviour

ASSUME FragmentAssumption ==
    /\ FRAGMENT_SIZE \in Nat \ {0}
    /\ MAX_MSGLEN \in Nat
    /\ MaxSent \in Nat

VARIABLES chan,         \* the sender's netchan_t, the sending half
          peer,         \* the receiver's netchan_t, the receiving half
          net,          \* packets put on the wire so far
          sent,         \* history: messages given to Netchan_Transmit
          delivered     \* history: messages Netchan_Process returned qtrue for

chanVars == <<chan, peer, net, sent, delivered>>

\* A message is the order in which it was submitted and its length.
Message == [id : 0 .. MaxSent, length : 0 .. MAX_MSGLEN]

\* The bytes a message is made of: the channel never looks at them.
Byte(m, i) == <<m, i>>

NoMessage == [id |-> 0, length |-> 0]
NoByte == Byte(NoMessage, 0)

Packet == [sequence : Nat, fragmented : BOOLEAN,
           start : 0 .. MAX_MSGLEN, length : 0 .. MAX_MSGLEN, data : Message]

-----------------------------------------------------------------------------
(* The sender *)

SetupSender ==
    [outgoingSequence |-> 1, unsentFragments |-> FALSE,
     unsentFragmentStart |-> 0, unsent |-> NoMessage]

\* Bug: the last fragment is not cut to what is left.
FragmentLengthNotCut(c) == FRAGMENT_SIZE

FragmentLength(c) ==
    IF c.unsentFragmentStart + FRAGMENT_SIZE > c.unsent.length
    THEN c.unsent.length - c.unsentFragmentStart
    ELSE FRAGMENT_SIZE

\* The datagram Netchan_TransmitNextFragment sends.
NextFragment(c) ==
    [sequence |-> c.outgoingSequence, fragmented |-> TRUE,
     start |-> c.unsentFragmentStart, length |-> FragmentLength(c), data |-> c.unsent]

\* Bug: a full fragment may be the last.
LastWhenAllIsSent(c) == c.unsentFragmentStart + FragmentLength(c) = c.unsent.length

\* "a packet that is exactly the fragment length still needs to send a second
\* packet of zero length so that the other side can tell there aren't more"
IsLastFragment(c) ==
    /\ c.unsentFragmentStart + FragmentLength(c) = c.unsent.length
    /\ FragmentLength(c) # FRAGMENT_SIZE

AfterFragment(c) ==
    [c EXCEPT !.unsentFragmentStart = @ + FragmentLength(c),
              !.outgoingSequence = IF IsLastFragment(c) THEN @ + 1 ELSE @,
              !.unsentFragments = ~ IsLastFragment(c)]

\* The netchan as Netchan_Transmit leaves it for its own first fragment.
Fragmenting(c, m) ==
    [c EXCEPT !.unsentFragments = TRUE, !.unsentFragmentStart = 0, !.unsent = m]

WholePacket(c, m) ==
    [sequence |-> c.outgoingSequence, fragmented |-> FALSE,
     start |-> 0, length |-> m.length, data |-> m]

\* Netchan_Transmit: the datagram it sends, and the netchan after it.
TransmitPacket(c, m) ==
    IF m.length >= FRAGMENT_SIZE THEN NextFragment(Fragmenting(c, m)) ELSE WholePacket(c, m)

AfterTransmit(c, m) ==
    IF m.length >= FRAGMENT_SIZE
    THEN AfterFragment(Fragmenting(c, m))
    ELSE [c EXCEPT !.unsentFragmentStart = 0, !.outgoingSequence = @ + 1]

-----------------------------------------------------------------------------
(* The receiver *)

SetupReceiver ==
    [incomingSequence |-> 0, fragmentSequence |-> 0, fragmentLength |-> 0,
     fragmentBuffer |-> [i \in 0 .. MAX_MSGLEN - 1 |-> NoByte]]

\* Bug: duplicates of the last packet are let through.
StaleWhenOlder(r, p) == p.sequence < r.incomingSequence

\* "discard out of order or duplicated packets"
Stale(r, p) == p.sequence <= r.incomingSequence

\* Bug: what was assembled of another message is kept.
AssemblingOnTop(r, p) == [r EXCEPT !.fragmentSequence = p.sequence]

\* A fragment of another message than the one being assembled starts over.
Assembling(r, p) ==
    IF p.sequence # r.fragmentSequence
    THEN [r EXCEPT !.fragmentSequence = p.sequence, !.fragmentLength = 0]
    ELSE r

\* The fragment continues what has been assembled, and fits the buffer.
Continues(r, p) ==
    /\ p.start = r.fragmentLength
    /\ r.fragmentLength + p.length <= MAX_MSGLEN

WithFragment(r, p) ==
    [r EXCEPT !.fragmentLength = @ + p.length,
              !.fragmentBuffer = [i \in DOMAIN @ |->
                  IF i >= r.fragmentLength /\ i < r.fragmentLength + p.length
                  THEN Byte(p.data, p.start + (i - r.fragmentLength))
                  ELSE @[i]]]

\* The message handed over, and the netchan afterwards.
Assembled(r) == [i \in 1 .. r.fragmentLength |-> r.fragmentBuffer[i - 1]]
WholeContent(p) == [i \in 1 .. p.length |-> Byte(p.data, i - 1)]
AfterMessage(r, p) == [r EXCEPT !.incomingSequence = p.sequence]

\* Bug: a fragmented message does not count as received.
AfterLastFragmentUncounted(r, p) == [r EXCEPT !.fragmentLength = 0]
AfterLastFragment(r, p) == [r EXCEPT !.incomingSequence = p.sequence, !.fragmentLength = 0]

-----------------------------------------------------------------------------
Init ==
    /\ chan = SetupSender
    /\ peer = SetupReceiver
    /\ net = {}
    /\ sent = << >>
    /\ delivered = << >>

\* Netchan_Transmit. Its callers send a message only when the previous one has
\* left completely (SV_Netchan_Transmit queues, CL_WritePacket empties).
Transmit(m) ==
    /\ ~ chan.unsentFragments
    /\ m.length <= MAX_MSGLEN
    /\ chan' = AfterTransmit(chan, m)
    /\ net' = net \cup {TransmitPacket(chan, m)}
    /\ sent' = Append(sent, m)
    /\ UNCHANGED <<peer, delivered>>

TransmitNextFragment ==
    /\ chan.unsentFragments
    /\ chan' = AfterFragment(chan)
    /\ net' = net \cup {NextFragment(chan)}
    /\ UNCHANGED <<peer, sent, delivered>>

HandOver(p, bytes) ==
    delivered' = Append(delivered, [sequence |-> p.sequence, bytes |-> bytes])

\* Netchan_Process, by outcome.
ProcessStale(p) ==
    /\ Stale(peer, p)
    /\ UNCHANGED <<peer, delivered>>

ProcessWhole(p) ==
    /\ ~ Stale(peer, p)
    /\ ~ p.fragmented
    /\ peer' = AfterMessage(peer, p)
    /\ HandOver(p, WholeContent(p))

ProcessMissed(p) ==
    /\ ~ Stale(peer, p)
    /\ p.fragmented
    /\ ~ Continues(Assembling(peer, p), p)
    /\ peer' = Assembling(peer, p)
    /\ UNCHANGED delivered

ProcessPartial(p) ==
    /\ ~ Stale(peer, p)
    /\ p.fragmented
    /\ Continues(Assembling(peer, p), p)
    /\ p.length = FRAGMENT_SIZE
    /\ peer' = WithFragment(Assembling(peer, p), p)
    /\ UNCHANGED delivered

ProcessLast(p) ==
    /\ ~ Stale(peer, p)
    /\ p.fragmented
    /\ Continues(Assembling(peer, p), p)
    /\ p.length # FRAGMENT_SIZE
    /\ LET r == WithFragment(Assembling(peer, p), p)
       IN  /\ peer' = AfterLastFragment(r, p)
           /\ HandOver(p, Assembled(r))

Process(p) ==
    /\ \/ ProcessStale(p)
       \/ ProcessWhole(p)
       \/ ProcessMissed(p)
       \/ ProcessPartial(p)
       \/ ProcessLast(p)
    /\ UNCHANGED <<chan, net, sent>>

Send ==
    /\ Len(sent) < MaxSent
    /\ \E length \in 0 .. MAX_MSGLEN : Transmit([id |-> Len(sent) + 1, length |-> length])

Receive == \E p \in net : Process(p)

Next == Send \/ TransmitNextFragment \/ Receive

Spec == Init /\ [][Next]_chanVars

-----------------------------------------------------------------------------
Delivery == [sequence : Nat, bytes : Seq(Message \X Nat)]

\* The types of the netchan's fields, of the wire and of the two histories.
TypeOK ==
    /\ chan \in [outgoingSequence : Nat \ {0}, unsentFragments : BOOLEAN,
                 unsentFragmentStart : 0 .. MAX_MSGLEN, unsent : Message]
    /\ peer \in [incomingSequence : Nat, fragmentSequence : Nat,
                 fragmentLength : 0 .. MAX_MSGLEN,
                 fragmentBuffer : [0 .. MAX_MSGLEN - 1 -> Message \X Nat]]
    /\ net \subseteq Packet
    /\ sent \in Seq(Message)
    /\ delivered \in Seq(Delivery)

Content(m) == [i \in 1 .. m.length |-> Byte(m, i - 1)]

\* What the receiver is given is, byte for byte, the message that was
\* transmitted under that sequence number, however its fragments were lost,
\* repeated or mixed with those of other messages (Netchan_Process).
Intact ==
    \A k \in 1 .. Len(delivered) :
        /\ delivered[k].sequence \in 1 .. Len(sent)
        /\ delivered[k].bytes = Content(sent[delivered[k].sequence])

\* No message is handed over twice and none after a later one.
InOrder ==
    \A j, k \in 1 .. Len(delivered) :
        j < k => delivered[j].sequence < delivered[k].sequence

\* A receiver that has part of a message never waits for a fragment that the
\* sender, done with the message, did not send: this is what the empty last
\* fragment of a message of exactly n * FRAGMENT_SIZE bytes is for.
NeverStranded ==
    \A s \in peer.incomingSequence + 1 .. chan.outgoingSequence - 1 :
        \E p \in net :
            /\ p.sequence = s
            /\ ~ p.fragmented \/ p.start = Assembling(peer, p).fragmentLength

\* A fragment buffer holds the beginning of the message it is for, and nothing
\* of a message that was never sent.
BufferIsPrefix ==
    peer.fragmentLength > 0 =>
        /\ peer.fragmentSequence \in 1 .. Len(sent)
        /\ \A i \in 0 .. peer.fragmentLength - 1 :
              peer.fragmentBuffer[i] = Byte(sent[peer.fragmentSequence], i)

\* The netchan implements the channel the rest of the program relies on.
Channel == INSTANCE MessageChannel
              WITH Message <- Message, sent <- sent, delivered <- delivered
ChannelSpec == Channel!Spec
=============================================================================
