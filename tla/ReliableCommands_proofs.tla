---------------------- MODULE ReliableCommands_proofs ----------------------
(***************************************************************************)
(* Proofs about ReliableCommands, for any ring size, any number of commands *)
(* and messages and any losses: each side executes the other side's         *)
(* commands as they were issued, before what was made after them, and the   *)
(* two ends derive the same keys. What is said of the client's commands     *)
(* supposes that it has no more of them unacknowledged than its ring holds: *)
(* CL_AddReliableCommand, one off in its check, does not see to that. What  *)
(* is said of the server's does not.                                        *)
(***************************************************************************)
EXTENDS ReliableCommands, NumberTheorems

Indices == 0 .. MAX_RELIABLE_COMMANDS - 1

SvRecord == [state : {"ACTIVE", "ZOMBIE"}, drops : 0 .. 2, flooding : BOOLEAN,
             reliableSequence : Nat, reliableAcknowledge : Nat, reliableCommands : Ring,
             lastClientCommand : Nat, lastClientCommandString : Texts]
ClRecord == [state : {"CONNECTED", "DISCONNECTED", "FATAL"},
             reliableSequence : Nat, reliableAcknowledge : Nat, reliableCommands : Ring,
             serverCommandSequence : Nat, serverCommands : Ring,
             lastExecutedServerCommand : Nat, snapCommands : Nat, snapStamp : Nat]

CommandLists == UNION {[numbers -> Texts] : numbers \in SUBSET Nat}
ToClientMessage == [ack : Nat, key : Texts, commands : CommandLists, stamp : Nat]
ToServerMessage == [ack : Nat, key : Texts, commands : CommandLists, move : Nat]

Active(s) == s.state = "ACTIVE"
Connected(c) == c.state = "CONNECTED"

\* A ring holds the last commands up to number n, each as it was issued.
RingHolds(ring, n) ==
    \A i \in 0 .. n : n < i + MAX_RELIABLE_COMMANDS => ring[Slot(i)] = i

\* What the server keeps, while it has not dropped the client.
ServerSide(s, c) ==
    /\ s.reliableAcknowledge <= s.reliableSequence
    /\ s.reliableAcknowledge <= c.serverCommandSequence
    /\ Active(s) =>
        /\ s.reliableSequence <= s.reliableAcknowledge + MAX_RELIABLE_COMMANDS
        /\ s.reliableSequence <= MaxServerCommands
        /\ c.serverCommandSequence <= s.reliableSequence
        /\ RingHolds(s.reliableCommands, s.reliableSequence)
        /\ RingHolds(c.serverCommands, c.serverCommandSequence)
        /\ s.drops = 0

\* The client's unacknowledged commands fit its ring.
Fits == ClientAhead <= MAX_RELIABLE_COMMANDS

\* What the client keeps, while it is connected.
ClientSide(s, c) ==
    Fits /\ Connected(c) =>
        /\ c.reliableAcknowledge <= s.lastClientCommand
        /\ s.lastClientCommand <= c.reliableSequence
        /\ c.reliableSequence <= c.reliableAcknowledge + MAX_RELIABLE_COMMANDS
        /\ c.reliableSequence <= MaxClientCommands
        /\ RingHolds(c.reliableCommands, c.reliableSequence)
        /\ s.lastClientCommandString = s.lastClientCommand

Ends(s, c) == s \in SvRecord /\ c \in ClRecord /\ ServerSide(s, c) /\ ClientSide(s, c)

\* The commands of a message are all those to the last, from one that follows the
\* first or an earlier one.
CommandsUpTo(commands, first, last) ==
    \E a \in 0 .. first : a <= last /\ commands \in [a + 1 .. last -> Texts]

\* Messages as they may be in flight.
ToClientGood(s, c) ==
    {p \in ToClientMessage :
        /\ CommandsUpTo(p.commands, c.serverCommandSequence, p.stamp)
        /\ p.ack <= s.lastClientCommand
        /\ p.stamp <= s.reliableSequence
        /\ Fits /\ Connected(c) => c.reliableAcknowledge <= p.ack /\ p.key = p.ack
        /\ Active(s) => \A i \in DOMAIN p.commands : p.commands[i] = i}

ToServerGood(s, c) ==
    {p \in ToServerMessage :
        /\ \E a \in Nat : p.commands \in [a + 1 .. p.move -> Texts]
        /\ p.ack <= c.serverCommandSequence
        /\ Active(s) => s.reliableAcknowledge <= p.ack /\ p.key = p.ack
        /\ Fits =>
            /\ CommandsUpTo(p.commands, s.lastClientCommand, p.move)
            /\ \A i \in DOMAIN p.commands : p.commands[i] \in {i, Disconnect}
            /\ Connected(c) =>
                  p.move <= c.reliableSequence /\ \A i \in DOMAIN p.commands : p.commands[i] = i}

\* A queue of such messages, whose acknowledgements never fall.
Queue(Good) ==
    {q \in Seq(Good) : \A j, k \in 1 .. Len(q) : j <= k => q[j].ack <= q[k].ack}

\* What the server executed, and what cgame took.
ExecutedOK(s, commands, move) ==
    /\ commands \in Seq([text : Texts, passed : BOOLEAN])
    /\ move \in Nat
    /\ Fits =>
        /\ Len(commands) = s.lastClientCommand
        /\ \A k \in 1 .. Len(commands) : commands[k].text \in {k, Disconnect}
        /\ move <= s.lastClientCommand

TakenOK(s, c, commands) ==
    /\ commands \in Seq(Texts)
    /\ Active(s) =>
        /\ Len(commands) = c.lastExecutedServerCommand
        /\ \A k \in 1 .. Len(commands) : commands[k] = k
    /\ c.lastExecutedServerCommand <= c.snapCommands
    /\ c.snapCommands <= c.serverCommandSequence
    /\ c.snapStamp <= c.snapCommands

\* What makes the safety of the two command streams inductive.
ReliableInv ==
    /\ Ends(sv, cl)
    /\ toClient \in Queue(ToClientGood(sv, cl))
    /\ toServer \in Queue(ToServerGood(sv, cl))
    /\ ExecutedOK(sv, executed, lastMove)
    /\ TakenOK(sv, cl, taken)

-----------------------------------------------------------------------------
(* Rings *)

\* The slots of a ring are its indices.
LEMMA SlotType ==
    ASSUME NEW n \in Nat
    PROVE  Slot(n) \in Indices
  BY RemainderType, ReliableAssumption DEF Slot, Indices

\* Commands less than a ring apart have slots of their own.
LEMMA SlotsDiffer ==
    ASSUME NEW i \in Nat, NEW k \in Nat, i < k, k < i + MAX_RELIABLE_COMMANDS
    PROVE  Slot(i) # Slot(k)
  BY RemaindersDiffer, ReliableAssumption DEF Slot

\* The numbers of the commands of both sides are texts, and so are the others.
LEMMA TextFacts ==
    /\ \A n \in Nat : n <= MaxServerCommands \/ n <= MaxClientCommands => n \in Texts
    /\ Disconnect \in Texts /\ Broadcast \in Texts /\ Empty \in Texts
    /\ Texts \subseteq Int /\ Disconnect \notin Nat
  BY ReliableAssumption DEF Texts, Disconnect, Broadcast, Empty

\* A command written to its slot leaves the others of the last ring in place.
LEMMA RingHoldsNext ==
    ASSUME NEW ring \in Ring, NEW n \in Nat, RingHolds(ring, n)
    PROVE  RingHolds([ring EXCEPT ![Slot(n + 1)] = n + 1], n + 1)
<1> DEFINE next == [ring EXCEPT ![Slot(n + 1)] = n + 1]
<1> SUFFICES ASSUME NEW i \in 0 .. n + 1, n + 1 < i + MAX_RELIABLE_COMMANDS
             PROVE  next[Slot(i)] = i
  BY DEF RingHolds
<1>1. DOMAIN ring = Indices /\ Slot(i) \in Indices /\ Slot(n + 1) \in Indices
  BY SlotType DEF Ring, Indices
<1>2. CASE i = n + 1
  BY <1>1, <1>2
<1>3. CASE i # n + 1
  <2>1. i \in 0 .. n /\ n < i + MAX_RELIABLE_COMMANDS /\ i < n + 1
    BY <1>3, ReliableAssumption
  <2>2. Slot(i) # Slot(n + 1)
    BY <2>1, SlotsDiffer
  <2>3. ring[Slot(i)] = i
    BY <2>1 DEF RingHolds
  <2>4. QED
    BY <1>1, <2>2, <2>3
<1>4. QED
  BY <1>2, <1>3

\* What numbering a command, and writing it to the ring, does.
LEMMA StoredFacts ==
    ASSUME NEW c, c \in SvRecord \/ c \in ClRecord, NEW text \in Texts
    PROVE  LET d == Stored(c, text)
           IN  /\ c \in SvRecord => d \in SvRecord /\ Skipped(c) \in SvRecord
               /\ c \in ClRecord => d \in ClRecord /\ Skipped(c) \in ClRecord
               /\ d = [c EXCEPT !.reliableSequence = c.reliableSequence + 1,
                                !.reliableCommands =
                                    [c.reliableCommands EXCEPT ![Slot(c.reliableSequence + 1)] = text]]
<1> DEFINE ring == [c.reliableCommands EXCEPT ![Slot(c.reliableSequence + 1)] = text]
<1>1. c.reliableSequence + 1 \in Nat /\ c.reliableCommands \in Ring
  BY DEF SvRecord, ClRecord
<1>2. Slot(c.reliableSequence + 1) \in Indices
  BY <1>1, SlotType
<1>3. ring \in Ring
  BY <1>1, <1>2 DEF Ring, Indices
<1>4. Stored(c, text) = [c EXCEPT !.reliableSequence = c.reliableSequence + 1,
                                  !.reliableCommands = ring]
  <2>1. CASE c \in SvRecord
    BY <2>1 DEF Stored, Skipped, SvRecord
  <2>2. CASE c \in ClRecord
    BY <2>2 DEF Stored, Skipped, ClRecord
  <2>3. QED
    BY <2>1, <2>2
<1>5. CASE c \in SvRecord
  <2>1. Skipped(c) \in SvRecord
    BY <1>1, <1>5 DEF Skipped, SvRecord
  <2>2. Stored(c, text) \in SvRecord
    BY <1>1, <1>3, <1>4, <1>5 DEF SvRecord
  <2>3. QED
    BY <1>4, <2>1, <2>2 DEF SvRecord, ClRecord
<1>6. CASE c \in ClRecord
  <2>1. Skipped(c) \in ClRecord
    BY <1>1, <1>6 DEF Skipped, ClRecord
  <2>2. Stored(c, text) \in ClRecord
    BY <1>1, <1>3, <1>4, <1>6 DEF ClRecord
  <2>3. QED
    BY <1>4, <2>1, <2>2 DEF SvRecord, ClRecord
<1>7. QED
  BY <1>5, <1>6

\* The server's record is otherwise as it was.
Numbered(s, d) ==
    /\ d \in SvRecord
    /\ d.reliableSequence = s.reliableSequence + 1
    /\ d.state = s.state
    /\ d.drops = s.drops
    /\ d.reliableAcknowledge = s.reliableAcknowledge
    /\ d.lastClientCommand = s.lastClientCommand
    /\ d.lastClientCommandString = s.lastClientCommandString

\* A command that is stored, or not stored, keeps the numbers together.
LEMMA StoredIsNumbered ==
    ASSUME NEW s \in SvRecord, NEW text \in Texts
    PROVE  Numbered(s, Stored(s, text)) /\ Numbered(s, Skipped(s))
<1>1. Stored(s, text) \in SvRecord /\ Skipped(s) \in SvRecord
  BY StoredFacts
<1>2. Numbered(s, Skipped(s))
  BY <1>1 DEF Skipped, SvRecord, Numbered
<1>3. Numbered(s, Stored(s, text))
  BY <1>1 DEF Stored, Skipped, SvRecord, Numbered
<1>4. QED
  BY <1>2, <1>3

-----------------------------------------------------------------------------
(* Queues of messages *)

\* The first message of a queue, and those behind it.
LEMMA QueueTail ==
    ASSUME NEW Good, \A p \in Good : p.ack \in Nat, NEW q \in Queue(Good), q # << >>
    PROVE  /\ Head(q) \in Good
           /\ Tail(q) \in Queue({p \in Good : Head(q).ack <= p.ack})
<1> DEFINE later == {p \in Good : Head(q).ack <= p.ack}
<1>1. q \in Seq(Good) /\ Len(q) \in Nat \ {0} /\ Head(q) = q[1] /\ Head(q) \in Good
  BY DEF Queue
<1>2. /\ Tail(q) \in Seq(Good) /\ Len(Tail(q)) = Len(q) - 1
      /\ \A k \in 1 .. Len(Tail(q)) : Tail(q)[k] = q[k + 1]
  BY <1>1
<1>3. \A k \in 1 .. Len(Tail(q)) : Tail(q)[k] \in later
  BY <1>1, <1>2 DEF Queue
<1>4. Tail(q) \in Seq(later)
  BY <1>2, <1>3
<1>5. \A j, k \in 1 .. Len(Tail(q)) : j <= k => Tail(q)[j].ack <= Tail(q)[k].ack
  BY <1>1, <1>2 DEF Queue
<1>6. QED
  BY <1>1, <1>4, <1>5 DEF Queue

\* A message that acknowledges as much as any before it goes to the end.
LEMMA QueueAppend ==
    ASSUME NEW Good, NEW q \in Queue(Good), NEW p \in Good,
           \A m \in Good : m.ack \in Nat /\ m.ack <= p.ack
    PROVE  Append(q, p) \in Queue(Good)
<1>1. q \in Seq(Good) /\ Len(q) \in Nat
  BY DEF Queue
<1>2. /\ Append(q, p) \in Seq(Good) /\ Len(Append(q, p)) = Len(q) + 1
      /\ \A k \in 1 .. Len(q) : Append(q, p)[k] = q[k]
      /\ Append(q, p)[Len(q) + 1] = p
  BY <1>1
<1>3. ASSUME NEW j \in 1 .. Len(Append(q, p)), NEW k \in 1 .. Len(Append(q, p)), j <= k
      PROVE  Append(q, p)[j].ack <= Append(q, p)[k].ack
  <2>1. CASE k = Len(q) + 1
    <3>1. Append(q, p)[j] \in Good /\ Append(q, p)[k] = p
      BY <1>1, <1>2, <2>1
    <3>2. QED
      BY <3>1
  <2>2. CASE k # Len(q) + 1
    <3>1. j \in 1 .. Len(q) /\ k \in 1 .. Len(q)
      BY <1>1, <1>2, <1>3, <2>2
    <3>2. QED
      BY <1>2, <1>3, <3>1 DEF Queue
  <2>3. QED
    BY <2>1, <2>2
<1>4. QED
  BY <1>2, <1>3 DEF Queue

\* So do the three that take leave.
LEMMA QueueThree ==
    ASSUME NEW Good, NEW q \in Queue(Good), NEW p \in Good,
           \A m \in Good : m.ack \in Nat /\ m.ack <= p.ack
    PROVE  q \o [k \in 1 .. 3 |-> p] \in Queue(Good)
<1>1. q \in Seq(Good)
  BY DEF Queue
<1>2. q \o [k \in 1 .. 3 |-> p] = Append(Append(Append(q, p), p), p)
  <2> DEFINE three == [k \in 1 .. 3 |-> p]
             all == Append(Append(Append(q, p), p), p)
  <2>1. three \in Seq(Good) /\ Len(three) = 3
    <3>1. three \in [1 .. 3 -> Good]
      OBVIOUS
    <3>2. QED
      BY <3>1
  <2>2. all \in Seq(Good) /\ Len(all) = Len(q) + 3
    BY <1>1
  <2>3. q \o three \in Seq(Good) /\ Len(q \o three) = Len(q) + 3
    BY <1>1, <2>1
  <2>4. ASSUME NEW k \in 1 .. Len(q) + 3 PROVE (q \o three)[k] = all[k]
    BY <1>1, <2>1
  <2>5. QED
    BY <2>2, <2>3, <2>4
<1>3. Append(Append(q, p), p) \in Queue(Good)
  BY QueueAppend
<1>4. QED
  BY <1>2, <1>3, QueueAppend

\* A queue stays one as more messages count as good.
LEMMA QueueGrows ==
    ASSUME NEW Good, NEW Better, NEW q \in Queue(Good), Good \subseteq Better
    PROVE  q \in Queue(Better)
<1>1. q \in Seq(Good)
  BY DEF Queue
<1>2. q \in Seq(Better)
  BY <1>1
<1>3. QED
  BY <1>2 DEF Queue

-----------------------------------------------------------------------------
(* Messages in flight *)

\* What is known of a message's commands is known still as the other end goes on.
LEMMA CommandsUpToGrows ==
    ASSUME NEW commands, NEW first \in Nat, NEW next \in Nat, first <= next, NEW last,
           CommandsUpTo(commands, first, last)
    PROVE  CommandsUpTo(commands, next, last)
<1>1. 0 .. first \subseteq 0 .. next
  OBVIOUS
<1>2. QED
  BY <1>1 DEF CommandsUpTo

\* The ends only go forward.
Forward(s, c, s2, c2) ==
    /\ s.reliableSequence <= s2.reliableSequence
    /\ s.lastClientCommand <= s2.lastClientCommand
    /\ c.serverCommandSequence <= c2.serverCommandSequence
    /\ Active(s2) => Active(s)
    /\ Connected(c2) => Connected(c) /\ c.reliableSequence <= c2.reliableSequence

\* A message in flight stays good as the ends go forward, if no later
\* acknowledgement has overtaken it.
LEMMA MessagesStayGood ==
    ASSUME NEW s \in SvRecord, NEW c \in ClRecord, NEW s2 \in SvRecord, NEW c2 \in ClRecord,
           Forward(s, c, s2, c2)
    PROVE  /\ \A p \in ToClientGood(s, c) :
                 (Fits /\ Connected(c2) => c2.reliableAcknowledge <= p.ack) => p \in ToClientGood(s2, c2)
           /\ \A p \in ToServerGood(s, c) :
                 (Active(s2) => s2.reliableAcknowledge <= p.ack) => p \in ToServerGood(s2, c2)
<1>1. ASSUME NEW p \in ToClientGood(s, c), Fits /\ Connected(c2) => c2.reliableAcknowledge <= p.ack
      PROVE  p \in ToClientGood(s2, c2)
  <2>1. CommandsUpTo(p.commands, c2.serverCommandSequence, p.stamp)
    BY CommandsUpToGrows DEF ToClientGood, Forward, ClRecord
  <2>2. p \in ToClientMessage /\ p.ack \in Nat /\ p.stamp \in Nat
    BY DEF ToClientGood, ToClientMessage
  <2>3. p.ack <= s2.lastClientCommand /\ p.stamp <= s2.reliableSequence
    BY <2>2 DEF ToClientGood, Forward, SvRecord
  <2>4. QED
    BY <1>1, <2>1, <2>2, <2>3 DEF ToClientGood, Forward
<1>2. ASSUME NEW p \in ToServerGood(s, c), Active(s2) => s2.reliableAcknowledge <= p.ack
      PROVE  p \in ToServerGood(s2, c2)
  <2>1. Fits => CommandsUpTo(p.commands, s2.lastClientCommand, p.move)
    BY CommandsUpToGrows DEF ToServerGood, Forward, SvRecord
  <2>2. p \in ToServerMessage /\ p.ack \in Nat /\ p.move \in Nat
    BY DEF ToServerGood, ToServerMessage
  <2>3. p.ack <= c2.serverCommandSequence
    BY <2>2 DEF ToServerGood, Forward, ClRecord
  <2>4. Fits /\ Connected(c2) => p.move <= c2.reliableSequence
    BY <2>2 DEF ToServerGood, Forward, ClRecord
  <2>5. QED
    BY <1>2, <2>1, <2>2, <2>3, <2>4 DEF ToServerGood, Forward
<1>3. QED
  BY <1>1, <1>2

\* The commands that are sent again are those not acknowledged.
LEMMA UnacknowledgedCommands ==
    ASSUME NEW c, c \in SvRecord \/ c \in ClRecord,
           NEW first \in Nat
    PROVE  /\ \E a \in Nat : Unacknowledged(c) \in [a + 1 .. c.reliableSequence -> Texts]
           /\ Unacknowledged(c) \in CommandLists
           /\ c.reliableAcknowledge <= first /\ c.reliableAcknowledge <= c.reliableSequence
                  => CommandsUpTo(Unacknowledged(c), first, c.reliableSequence)
<1> DEFINE a == c.reliableAcknowledge
           b == c.reliableSequence
<1>1. a \in Nat /\ b \in Nat /\ c.reliableCommands \in Ring
  BY DEF SvRecord, ClRecord
<1>2. ASSUME NEW i \in a + 1 .. b PROVE c.reliableCommands[Slot(i)] \in Texts
  <2>1. Slot(i) \in Indices
    BY <1>1, SlotType
  <2>2. QED
    BY <1>1, <2>1 DEF Ring, Indices
<1>3. Unacknowledged(c) \in [a + 1 .. b -> Texts]
  BY <1>2 DEF Unacknowledged
<1>4. Unacknowledged(c) \in CommandLists
  <2>1. a + 1 .. b \in SUBSET Nat
    BY <1>1
  <2>2. QED
    BY <1>3, <2>1 DEF CommandLists
<1>5. QED
  BY <1>1, <1>3, <1>4 DEF CommandsUpTo

\* They are as they were issued, if the ring still holds them all.
LEMMA UnacknowledgedAsIssued ==
    ASSUME NEW c, c \in SvRecord \/ c \in ClRecord,
           c.reliableSequence <= c.reliableAcknowledge + MAX_RELIABLE_COMMANDS,
           RingHolds(c.reliableCommands, c.reliableSequence)
    PROVE  \A i \in DOMAIN Unacknowledged(c) : Unacknowledged(c)[i] = i
<1>1. c.reliableAcknowledge \in Nat /\ c.reliableSequence \in Nat
  BY DEF SvRecord, ClRecord
<1>2. ASSUME NEW i \in c.reliableAcknowledge + 1 .. c.reliableSequence
      PROVE  c.reliableCommands[Slot(i)] = i
  <2>1. i \in 0 .. c.reliableSequence /\ c.reliableSequence < i + MAX_RELIABLE_COMMANDS
    BY <1>1, ReliableAssumption
  <2>2. QED
    BY <2>1 DEF RingHolds
<1>3. QED
  BY <1>2 DEF Unacknowledged

\* The message that the server sends is good, and acknowledges as much as any.
LEMMA ServerMessageGood ==
    ASSUME Ends(sv, cl)
    PROVE  /\ ServerMessage \in ToClientGood(sv, cl)
           /\ \A m \in ToClientGood(sv, cl) : m.ack \in Nat /\ m.ack <= ServerMessage.ack
<1>1. sv \in SvRecord /\ cl \in ClRecord /\ ServerSide(sv, cl) /\ ClientSide(sv, cl)
  BY DEF Ends
<1>2. /\ CommandsUpTo(Unacknowledged(sv), cl.serverCommandSequence, sv.reliableSequence)
      /\ Unacknowledged(sv) \in CommandLists
  <2>1. cl.serverCommandSequence \in Nat
    BY <1>1 DEF ClRecord
  <2>2. QED
    BY <1>1, <2>1, UnacknowledgedCommands DEF ServerSide
<1>3. Active(sv) => \A i \in DOMAIN Unacknowledged(sv) : Unacknowledged(sv)[i] = i
  BY <1>1, UnacknowledgedAsIssued DEF ServerSide
<1>4. ServerMessage \in ToClientMessage
  BY <1>1, <1>2 DEF ServerMessage, ToClientMessage, SvRecord
<1>5. ServerMessage \in ToClientGood(sv, cl)
  BY <1>1, <1>2, <1>3, <1>4 DEF ServerMessage, ToClientGood, ClientSide, SvRecord
<1>6. QED
  BY <1>5 DEF ToClientGood, ToClientMessage, ServerMessage

\* So is the client's.
LEMMA ClientMessageGood ==
    ASSUME NEW s, NEW c, Ends(s, c), Connected(c)
    PROVE  /\ ClientMessage(c) \in ToServerGood(s, c)
           /\ \A m \in ToServerGood(s, c) : m.ack \in Nat /\ m.ack <= ClientMessage(c).ack
<1>1. s \in SvRecord /\ c \in ClRecord /\ ServerSide(s, c) /\ ClientSide(s, c)
  BY DEF Ends
<1>2. /\ Fits => CommandsUpTo(Unacknowledged(c), s.lastClientCommand, c.reliableSequence)
      /\ Unacknowledged(c) \in CommandLists
      /\ \E a \in Nat : Unacknowledged(c) \in [a + 1 .. c.reliableSequence -> Texts]
  <2>1. /\ s.lastClientCommand \in Nat
        /\ Fits => c.reliableAcknowledge <= c.reliableSequence
    BY <1>1 DEF SvRecord, ClRecord, ClientSide
  <2>2. QED
    BY <1>1, <2>1, UnacknowledgedCommands DEF ClientSide
<1>3. Fits => \A i \in DOMAIN Unacknowledged(c) : Unacknowledged(c)[i] = i
  BY <1>1, UnacknowledgedAsIssued DEF ClientSide
<1>4. c.serverCommands[Slot(c.serverCommandSequence)] \in Texts
  BY <1>1, SlotType DEF ClRecord, Ring, Indices
<1>5. Active(s) => c.serverCommands[Slot(c.serverCommandSequence)] = c.serverCommandSequence
  BY <1>1, ReliableAssumption DEF ServerSide, RingHolds, ClRecord
<1>6. ClientMessage(c) \in ToServerMessage
  BY <1>1, <1>2, <1>4 DEF ClientMessage, ToServerMessage, ClRecord
<1>7. ClientMessage(c) \in ToServerGood(s, c)
  BY <1>1, <1>2, <1>3, <1>5, <1>6 DEF ClientMessage, ToServerGood, ServerSide, ClRecord
<1>8. QED
  BY <1>7 DEF ToServerGood, ToServerMessage, ClientMessage

\* A queue of good messages stays one as the ends go forward.
LEMMA QueuesStayGood ==
    ASSUME NEW s \in SvRecord, NEW c \in ClRecord, NEW s2 \in SvRecord, NEW c2 \in ClRecord,
           Forward(s, c, s2, c2)
    PROVE  /\ \A q \in Queue(ToClientGood(s, c)) :
                 (Fits /\ Connected(c2) => c2.reliableAcknowledge <= c.reliableAcknowledge)
                     => q \in Queue(ToClientGood(s2, c2))
           /\ \A q \in Queue(ToServerGood(s, c)) :
                 (Active(s2) => s2.reliableAcknowledge <= s.reliableAcknowledge)
                     => q \in Queue(ToServerGood(s2, c2))
<1>1. ASSUME NEW q \in Queue(ToClientGood(s, c)),
             Fits /\ Connected(c2) => c2.reliableAcknowledge <= c.reliableAcknowledge
      PROVE  q \in Queue(ToClientGood(s2, c2))
  <2>1. ASSUME NEW p \in ToClientGood(s, c), Fits, Connected(c2) PROVE c2.reliableAcknowledge <= p.ack
    BY <1>1, <2>1 DEF ToClientGood, ToClientMessage, Forward, ClRecord
  <2>2. ToClientGood(s, c) \subseteq ToClientGood(s2, c2)
    BY <2>1, MessagesStayGood
  <2>3. QED
    BY <2>2, QueueGrows
<1>2. ASSUME NEW q \in Queue(ToServerGood(s, c)),
             Active(s2) => s2.reliableAcknowledge <= s.reliableAcknowledge
      PROVE  q \in Queue(ToServerGood(s2, c2))
  <2>1. ASSUME NEW p \in ToServerGood(s, c), Active(s2) PROVE s2.reliableAcknowledge <= p.ack
    BY <1>2, <2>1 DEF ToServerGood, ToServerMessage, Forward, SvRecord
  <2>2. ToServerGood(s, c) \subseteq ToServerGood(s2, c2)
    BY <2>1, MessagesStayGood
  <2>3. QED
    BY <2>2, QueueGrows
<1>3. QED
  BY <1>1, <1>2

\* So does what is behind the first message, whose acknowledgement counts now.
LEMMA TailsStayGood ==
    ASSUME NEW s \in SvRecord, NEW c \in ClRecord, NEW s2 \in SvRecord, NEW c2 \in ClRecord,
           Forward(s, c, s2, c2)
    PROVE  /\ \A q \in Queue(ToClientGood(s, c)) :
                 q # << >> /\ (Fits /\ Connected(c2) => c2.reliableAcknowledge <= Head(q).ack)
                     => Tail(q) \in Queue(ToClientGood(s2, c2))
           /\ \A q \in Queue(ToServerGood(s, c)) :
                 q # << >> /\ (Active(s2) => s2.reliableAcknowledge <= Head(q).ack)
                     => Tail(q) \in Queue(ToServerGood(s2, c2))
<1>1. ASSUME NEW q \in Queue(ToClientGood(s, c)), q # << >>,
             Fits /\ Connected(c2) => c2.reliableAcknowledge <= Head(q).ack
      PROVE  Tail(q) \in Queue(ToClientGood(s2, c2))
  <2> DEFINE later == {p \in ToClientGood(s, c) : Head(q).ack <= p.ack}
  <2>1. \A p \in ToClientGood(s, c) : p.ack \in Nat
    BY DEF ToClientGood, ToClientMessage
  <2>2. Head(q) \in ToClientGood(s, c) /\ Tail(q) \in Queue(later)
    BY <1>1, <2>1, QueueTail
  <2>3. ASSUME NEW p \in later, Fits, Connected(c2) PROVE c2.reliableAcknowledge <= p.ack
    BY <1>1, <2>1, <2>2, <2>3 DEF ClRecord
  <2>4. later \subseteq ToClientGood(s2, c2)
    BY <2>3, MessagesStayGood
  <2>5. QED
    BY <2>2, <2>4, QueueGrows
<1>2. ASSUME NEW q \in Queue(ToServerGood(s, c)), q # << >>,
             Active(s2) => s2.reliableAcknowledge <= Head(q).ack
      PROVE  Tail(q) \in Queue(ToServerGood(s2, c2))
  <2> DEFINE later == {p \in ToServerGood(s, c) : Head(q).ack <= p.ack}
  <2>1. \A p \in ToServerGood(s, c) : p.ack \in Nat
    BY DEF ToServerGood, ToServerMessage
  <2>2. Head(q) \in ToServerGood(s, c) /\ Tail(q) \in Queue(later)
    BY <1>2, <2>1, QueueTail
  <2>3. ASSUME NEW p \in later, Active(s2) PROVE s2.reliableAcknowledge <= p.ack
    BY <1>2, <2>1, <2>2, <2>3 DEF SvRecord
  <2>4. later \subseteq ToServerGood(s2, c2)
    BY <2>3, MessagesStayGood
  <2>5. QED
    BY <2>2, <2>4, QueueGrows
<1>3. QED
  BY <1>1, <1>2

-----------------------------------------------------------------------------
(* The server drops the client *)

Dropped(s, d) ==
    /\ d \in SvRecord
    /\ ~ Active(d)
    /\ d.reliableAcknowledge = s.reliableAcknowledge
    /\ d.lastClientCommand = s.lastClientCommand
    /\ d.lastClientCommandString = s.lastClientCommandString
    /\ s.reliableSequence <= d.reliableSequence

\* The end of SV_DropClient leaves a zombie.
LEMMA BecomeZombieDrops ==
    ASSUME NEW s \in SvRecord, s.drops <= 1
    PROVE  Dropped(s, BecomeZombie(s)) /\ BecomeZombie(s).drops = s.drops + 1
<1> DEFINE z == [s EXCEPT !.state = "ZOMBIE", !.drops = s.drops + 1]
<1>1. s.drops + 1 \in 0 .. 2 /\ s.reliableSequence \in Nat
  BY DEF SvRecord
<1>2. z \in SvRecord
  BY <1>1 DEF SvRecord
<1>3. Numbered(z, Skipped(z)) /\ Numbered(z, Stored(z, Disconnect))
  BY <1>2, StoredIsNumbered, TextFacts
<1>4. Numbered(z, BecomeZombie(s))
  BY <1>3 DEF BecomeZombie
<1>5. /\ z.state = "ZOMBIE" /\ z.drops = s.drops + 1
      /\ z.reliableSequence = s.reliableSequence
      /\ z.reliableAcknowledge = s.reliableAcknowledge
      /\ z.lastClientCommand = s.lastClientCommand
      /\ z.lastClientCommandString = s.lastClientCommandString
  BY DEF SvRecord
<1> HIDE DEF z
<1>6. QED
  BY <1>1, <1>4, <1>5 DEF Dropped, Numbered, Active

\* SV_DropClient leaves a zombie, overflow or no overflow.
LEMMA DropClientDrops ==
    ASSUME NEW s \in SvRecord, Active(s), s.drops = 0
    PROVE  Dropped(s, DropClient(s))
<1> DEFINE over == Stored(Skipped(s), Broadcast)
           told == Stored(s, Broadcast)
<1>1. s.state # "ZOMBIE" /\ s.reliableSequence \in Nat
  BY DEF Active, SvRecord
<1>2. /\ Numbered(s, Skipped(s)) /\ Numbered(Skipped(s), over)
      /\ Numbered(s, told)
  BY StoredIsNumbered, TextFacts DEF Numbered
<1>3. CASE Overflows(s)
  <2>1. DropClient(s) = BecomeZombie(BecomeZombie(over))
    BY <1>1, <1>3 DEF DropClient
  <2> HIDE DEF over
  <2>2. Dropped(over, BecomeZombie(over)) /\ BecomeZombie(over).drops = 1
    BY <1>2, BecomeZombieDrops DEF Numbered
  <2>3. Dropped(BecomeZombie(over), BecomeZombie(BecomeZombie(over)))
    BY <2>2, BecomeZombieDrops DEF Dropped
  <2>4. QED
    BY <1>1, <1>2, <2>1, <2>2, <2>3 DEF Dropped, Numbered, SvRecord
<1>4. CASE ~ Overflows(s)
  <2>1. DropClient(s) = BecomeZombie(told)
    BY <1>1, <1>4 DEF DropClient
  <2> HIDE DEF told
  <2>2. Dropped(told, BecomeZombie(told))
    BY <1>2, BecomeZombieDrops DEF Numbered
  <2>3. QED
    BY <1>1, <1>2, <2>1, <2>2 DEF Dropped, Numbered, SvRecord
<1>5. QED
  BY <1>3, <1>4

\* The ends of a dropped connection.
LEMMA DroppedEnds ==
    ASSUME NEW s, NEW c, Ends(s, c), Active(s), NEW d, Dropped(s, d)
    PROVE  Ends(d, c) /\ Forward(s, c, d, c)
<1>1. s \in SvRecord /\ c \in ClRecord /\ d \in SvRecord
  BY DEF Ends, Dropped
<1>2. ServerSide(d, c)
  BY <1>1 DEF Ends, ServerSide, Dropped, SvRecord
<1>3. ClientSide(d, c)
  BY <1>1 DEF Ends, ClientSide, Dropped
<1>4. Forward(s, c, d, c)
  BY <1>1 DEF Forward, Dropped, SvRecord, ClRecord
<1>5. QED
  BY <1>1, <1>2, <1>3, <1>4 DEF Ends

-----------------------------------------------------------------------------
(* Steps of the server *)

\* A step of the server that neither acknowledges nor executes a command.
LEMMA ServerGoesOn ==
    ASSUME ReliableInv, sv' \in SvRecord, Ends(sv', cl), Forward(sv, cl, sv', cl),
           sv'.reliableAcknowledge = sv.reliableAcknowledge,
           sv'.lastClientCommand = sv.lastClientCommand,
           UNCHANGED <<cl, toClient, toServer, executed, taken, lastMove>>
    PROVE  ReliableInv'
<1>1. sv \in SvRecord /\ cl \in ClRecord
  BY DEF ReliableInv, Ends
<1>2. toClient \in Queue(ToClientGood(sv', cl))
  BY <1>1, QueuesStayGood DEF ReliableInv, ClRecord
<1>3. toServer \in Queue(ToServerGood(sv', cl))
  BY <1>1, QueuesStayGood DEF ReliableInv, SvRecord
<1>4. ExecutedOK(sv', executed, lastMove)
  BY DEF ReliableInv, ExecutedOK
<1>5. TakenOK(sv', cl, taken)
  BY DEF ReliableInv, TakenOK, Forward
<1>6. QED
  BY <1>2, <1>3, <1>4, <1>5 DEF ReliableInv

\* The game's commands: stored, or the client is dropped.
LEMMA GameCommandKeeps ==
    ASSUME ReliableInv, GameCommand
    PROVE  ReliableInv'
<1> DEFINE text == sv.reliableSequence + 1
<1>1. Ends(sv, cl) /\ sv \in SvRecord /\ cl \in ClRecord /\ Active(sv)
  BY DEF ReliableInv, Ends, GameCommand, Active
<1>2. /\ sv.reliableSequence \in Nat /\ sv.reliableAcknowledge \in Nat /\ sv.drops = 0
      /\ sv.reliableSequence <= sv.reliableAcknowledge + MAX_RELIABLE_COMMANDS
      /\ RingHolds(sv.reliableCommands, sv.reliableSequence) /\ sv.reliableCommands \in Ring
      /\ text \in Texts /\ text <= MaxServerCommands
  BY <1>1, TextFacts, ReliableAssumption DEF Ends, ServerSide, SvRecord, GameCommand
<1>3. CASE Overflows(sv)
  <2>1. sv' = DropClient(Skipped(sv))
    BY <1>3 DEF GameCommand, AddServerCommand
  <2>2. /\ Skipped(sv) \in SvRecord /\ Active(Skipped(sv)) /\ Skipped(sv).drops = 0
        /\ Skipped(sv) = [sv EXCEPT !.reliableSequence = sv.reliableSequence + 1]
    BY <1>1, <1>2, StoredFacts DEF Skipped, SvRecord, Active
  <2>3. Dropped(Skipped(sv), sv')
    BY <2>1, <2>2, DropClientDrops
  <2>4. Dropped(sv, sv')
    BY <1>1, <2>2, <2>3 DEF Dropped, SvRecord
  <2>5. Ends(sv', cl) /\ Forward(sv, cl, sv', cl)
    BY <1>1, <2>4, DroppedEnds
  <2>6. QED
    BY <2>4, <2>5, ServerGoesOn DEF GameCommand, Dropped
<1>4. CASE ~ Overflows(sv)
  <2>1. /\ sv' \in SvRecord
        /\ sv' = [sv EXCEPT !.reliableSequence = text,
                            !.reliableCommands = [sv.reliableCommands EXCEPT ![Slot(text)] = text]]
    BY <1>1, <1>2, <1>4, StoredFacts DEF GameCommand, AddServerCommand
  <2>2. sv.reliableSequence + 1 # sv.reliableAcknowledge + MAX_RELIABLE_COMMANDS + 1
    BY <1>1, <1>2, <1>4, ReliableAssumption DEF Overflows, Outstanding, Skipped, SvRecord
  <2>3. RingHolds(sv'.reliableCommands, sv'.reliableSequence)
    BY <1>1, <1>2, <2>1, RingHoldsNext DEF SvRecord
  <2>4. /\ sv'.reliableSequence = text /\ sv'.reliableAcknowledge = sv.reliableAcknowledge
        /\ sv'.lastClientCommand = sv.lastClientCommand
        /\ sv'.lastClientCommandString = sv.lastClientCommandString
        /\ sv'.drops = 0 /\ Active(sv')
    BY <1>1, <1>2, <2>1 DEF SvRecord, Active
  <2>5. ServerSide(sv', cl)
    BY <1>1, <1>2, <2>2, <2>3, <2>4, ReliableAssumption
    DEF Ends, ServerSide, ClRecord
  <2>6. ClientSide(sv', cl)
    BY <1>1, <2>4 DEF Ends, ClientSide
  <2>7. Forward(sv, cl, sv', cl)
    BY <1>1, <1>2, <2>4 DEF Forward, SvRecord, ClRecord
  <2>8. QED
    BY <1>1, <2>1, <2>4, <2>5, <2>6, <2>7, ServerGoesOn DEF Ends, GameCommand
<1>5. QED
  BY <1>3, <1>4

\* A client that is kicked is told so in a last command.
LEMMA KickKeeps ==
    ASSUME ReliableInv, Kick
    PROVE  ReliableInv'
<1>1. Ends(sv, cl) /\ sv \in SvRecord /\ Active(sv) /\ sv.drops = 0
  BY DEF ReliableInv, Ends, ServerSide, Kick, Active
<1>2. Dropped(sv, sv')
  BY <1>1, DropClientDrops DEF Kick
<1>3. Ends(sv', cl) /\ Forward(sv, cl, sv', cl)
  BY <1>1, <1>2, DroppedEnds
<1>4. QED
  BY <1>2, <1>3, ServerGoesOn DEF Kick, Dropped

\* Time passes for flood protection.
LEMMA FloodTimePassesKeeps ==
    ASSUME ReliableInv, FloodTimePasses
    PROVE  ReliableInv'
<1>1. Ends(sv, cl) /\ sv \in SvRecord /\ cl \in ClRecord
  BY DEF ReliableInv, Ends
<1>2. sv' \in SvRecord
  BY <1>1 DEF FloodTimePasses, SvRecord
<1>3. Ends(sv', cl)
  BY <1>1, <1>2 DEF Ends, ServerSide, ClientSide, FloodTimePasses, SvRecord, Active
<1>4. Forward(sv, cl, sv', cl)
  BY <1>1 DEF Forward, FloodTimePasses, SvRecord, ClRecord, Active
<1>5. QED
  BY <1>1, <1>2, <1>3, <1>4, ServerGoesOn DEF FloodTimePasses, SvRecord

-----------------------------------------------------------------------------
(* The server executes the commands of a message *)

\* They are those up to a number, and the last may be the one that disconnects.
LEMMA ExecutableInterval ==
    ASSUME sv \in SvRecord, NEW move \in Nat, NEW commands,
           CommandsUpTo(commands, sv.lastClientCommand, move)
    PROVE  \E last \in Nat :
              /\ sv.lastClientCommand <= last
              /\ Executable(commands) = sv.lastClientCommand + 1 .. last
              /\ sv.lastClientCommand < last =>
                    last \in DOMAIN commands /\ commands[last] \in Texts
              /\ last = sv.lastClientCommand => move <= last
              /\ commands[last] = Disconnect \/ move <= last
              /\ sv.lastClientCommand < last => last <= move
<1> DEFINE known == sv.lastClientCommand
           new == New(commands, known)
           leaving == {i \in new : commands[i] = Disconnect}
<1>1. known \in Nat
  BY DEF SvRecord
<1>2. PICK a \in 0 .. known : a <= move /\ commands \in [a + 1 .. move -> Texts]
  BY DEF CommandsUpTo
<1>3. new = known + 1 .. move /\ \A i \in new : i \in DOMAIN commands /\ commands[i] \in Texts
  BY <1>1, <1>2 DEF New
<1>4. Executable(commands) = {i \in new : \A j \in new : j < i => commands[j] # Disconnect}
  BY DEF Executable
<1> HIDE DEF new
<1>5. CASE leaving = {} /\ known <= move
  <2>1. Executable(commands) = known + 1 .. move
    BY <1>3, <1>4, <1>5
  <2>2. QED
    BY <1>1, <1>3, <1>5, <2>1
<1>6. CASE move < known
  <2>1. new = {} /\ known + 1 .. known = {}
    BY <1>1, <1>3, <1>6
  <2>2. Executable(commands) = known + 1 .. known
    BY <1>4, <2>1
  <2>3. QED
    BY <1>1, <1>6, <2>2
<1>7. CASE leaving # {}
  <2>1. leaving \in SUBSET Nat
    BY <1>1, <1>3
  <2>2. PICK last \in leaving : \A i \in leaving : last <= i
    BY <1>7, <2>1, HasMinimum
  <2>3. last \in known + 1 .. move /\ last \in Nat /\ commands[last] = Disconnect
    BY <1>1, <1>3, <2>2
  <2>4. Executable(commands) = known + 1 .. last
    <3>1. ASSUME NEW i \in known + 1 .. last
          PROVE  i \in new /\ \A j \in new : j < i => commands[j] # Disconnect
      BY <1>1, <1>3, <2>2, <2>3
    <3>2. ASSUME NEW i \in new, \A j \in new : j < i => commands[j] # Disconnect
          PROVE  i \in known + 1 .. last
      BY <1>1, <1>3, <2>2, <2>3, <3>2
    <3>3. QED
      BY <1>4, <3>1, <3>2
  <2>5. QED
    BY <1>1, <1>3, <2>2, <2>3, <2>4
<1>8. QED
  BY <1>1, <1>5, <1>6, <1>7

\* Whether the game sees a command is a Boolean.
LEMMA PassedIsBoolean ==
    ASSUME NEW i
    PROVE  PassedToGame(i) \in BOOLEAN
  BY Zenon DEF PassedToGame

\* The history grows by the commands executed.
LEMMA ExecutionsAdd ==
    ASSUME ExecutedOK(sv, executed, lastMove), sv \in SvRecord,
           NEW last \in Nat, sv.lastClientCommand <= last, NEW commands,
           Executable(commands) = sv.lastClientCommand + 1 .. last,
           \A i \in sv.lastClientCommand + 1 .. last :
               commands[i] \in Texts /\ (Fits => commands[i] \in {i, Disconnect}),
           NEW s, s.lastClientCommand = last,
           NEW move \in Nat, Fits => move <= last
    PROVE  ExecutedOK(s, executed \o Executions(commands), move)
<1> DEFINE known == sv.lastClientCommand
           Item == [text : Texts, passed : BOOLEAN]
           more == Executions(commands)
           item(k) == [text |-> commands[known + k], passed |-> PassedToGame(known + k)]
<1>1. known \in Nat /\ (Fits => Len(executed) = known) /\ executed \in Seq(Item)
  BY DEF SvRecord, ExecutedOK
<1>2. Cardinality(Executable(commands)) = last - known
  BY <1>1, CardinalityOfInterval
<1>3. more = [k \in 1 .. last - known |-> item(k)]
  BY <1>2, Zenon DEF Executions
<1>4. ASSUME NEW k \in 1 .. last - known PROVE item(k) \in Item
  <2>1. commands[known + k] \in Texts
    BY <1>1
  <2>2. PassedToGame(known + k) \in BOOLEAN
    BY PassedIsBoolean
  <2>3. QED
    BY <2>1, <2>2, Zenon
<1>5. /\ \A k \in 1 .. last - known : more[k] = item(k)
      /\ more \in [1 .. last - known -> Item]
  <2> HIDE DEF item, Item, more
  <2>1. QED
    BY <1>3, <1>4
<1>6. more \in Seq(Item) /\ Len(more) = last - known
  <2> HIDE DEF more, Item
  <2>1. last - known \in Nat
    BY <1>1
  <2>2. QED
    BY <1>5, <2>1
<1>7. ASSUME NEW k \in 1 .. last - known PROVE more[k].text = commands[known + k]
  <2>1. more[k] = item(k)
    BY <1>5, Zenon
  <2>2. item(k).text = commands[known + k]
    BY Zenon
  <2>3. QED
    BY <2>1, <2>2, Zenon
<1> HIDE DEF more, Item
<1>8. executed \o more \in Seq(Item)
  BY <1>1, <1>6
<1>9. ASSUME Fits
      PROVE  /\ Len(executed \o more) = last
             /\ \A k \in 1 .. last : (executed \o more)[k].text \in {k, Disconnect}
  <2>1. /\ Len(executed \o more) = last
        /\ \A k \in 1 .. known : (executed \o more)[k] = executed[k]
        /\ \A k \in known + 1 .. last : (executed \o more)[k] = more[k - known]
    BY <1>1, <1>6, <1>9
  <2>2. ASSUME NEW k \in 1 .. last PROVE (executed \o more)[k].text \in {k, Disconnect}
    <3>1. CASE k <= known
      BY <1>1, <1>9, <2>1, <3>1 DEF ExecutedOK
    <3>2. CASE k > known
      <4>1. k - known \in 1 .. last - known /\ known + (k - known) = k /\ k \in known + 1 .. last
        BY <1>1, <3>2
      <4>2. (executed \o more)[k] = more[k - known] /\ more[k - known].text = commands[k]
        BY <1>7, <2>1, <4>1
      <4>3. QED
        BY <1>9, <4>1, <4>2
    <3>3. k <= known \/ k > known
      BY <1>1
    <3>4. QED
      BY <3>1, <3>2, <3>3, Zenon
  <2>3. QED
    BY <2>1, <2>2
<1>10. QED
  BY <1>8, <1>9 DEF ExecutedOK, Item, more

\* What reading a message comes to, whatever is made of it.
LEMMA ServerReceives ==
    ASSUME ReliableInv, toServer # << >>, toServer' = Tail(toServer),
           Ends(sv', cl), Forward(sv, cl, sv', cl),
           Active(sv') => sv'.reliableAcknowledge <= Head(toServer).ack,
           ExecutedOK(sv', executed', lastMove'),
           UNCHANGED <<cl, toClient, taken>>
    PROVE  ReliableInv'
<1>1. sv \in SvRecord /\ cl \in ClRecord /\ sv' \in SvRecord
  BY DEF ReliableInv, Ends
<1>2. toClient \in Queue(ToClientGood(sv', cl))
  BY <1>1, QueuesStayGood DEF ReliableInv, ClRecord
<1>3. toServer' \in Queue(ToServerGood(sv', cl))
  BY <1>1, TailsStayGood DEF ReliableInv
<1>4. TakenOK(sv', cl, taken)
  BY DEF ReliableInv, TakenOK, Forward
<1>5. QED
  BY <1>2, <1>3, <1>4 DEF ReliableInv

\* A message of the client: its acknowledgement, its new commands, its move.
LEMMA ReceiveClientMessageKeeps ==
    ASSUME ReliableInv, ReceiveClientMessage
    PROVE  ReliableInv'
<1> DEFINE p == Head(toServer)
           known == sv.lastClientCommand
           c == [sv EXCEPT !.reliableAcknowledge = p.ack]
<1>1. /\ sv \in SvRecord /\ cl \in ClRecord /\ Ends(sv, cl)
      /\ toServer # << >> /\ toServer' = Tail(toServer)
      /\ ExecutedOK(sv, executed, lastMove)
      /\ known \in Nat /\ UNCHANGED <<cl, toClient, taken>>
  BY DEF ReliableInv, Ends, ReceiveClientMessage, SvRecord
<1>2. CASE sv.state = "ZOMBIE"
  <2>1. sv' = sv /\ executed' = executed /\ lastMove' = lastMove /\ ~ Active(sv)
    BY <1>2 DEF ReceiveClientMessage, Active
  <2>2. Forward(sv, cl, sv', cl)
    BY <1>1, <2>1 DEF Forward, SvRecord, ClRecord
  <2>3. QED
    BY <1>1, <2>1, <2>2, ServerReceives
<1>3. CASE sv.state # "ZOMBIE"
  <2>1. p \in ToServerGood(sv, cl)
    <3>1. \A m \in ToServerGood(sv, cl) : m.ack \in Nat
      BY DEF ToServerGood, ToServerMessage
    <3>2. QED
      BY <1>1, <3>1, QueueTail DEF ReliableInv
  <2>2. /\ Active(sv) /\ p.ack \in Nat /\ p.move \in Nat
        /\ sv.reliableAcknowledge <= p.ack /\ p.ack <= cl.serverCommandSequence
        /\ \E a \in Nat : p.commands \in [a + 1 .. p.move -> Texts]
        /\ Fits =>
            /\ CommandsUpTo(p.commands, known, p.move)
            /\ \A i \in DOMAIN p.commands : p.commands[i] \in {i, Disconnect}
            /\ Connected(cl) =>
                  p.move <= cl.reliableSequence /\ \A i \in DOMAIN p.commands : p.commands[i] = i
    BY <1>1, <1>3, <2>1 DEF ToServerGood, ToServerMessage, Active, SvRecord
  <2>3. Acknowledge(sv, p.ack) = c /\ ~ OutOfRange(sv, p.ack)
    <3>1. ~ (p.ack < sv.reliableSequence - MAX_RELIABLE_COMMANDS)
      BY <1>1, <2>2, ReliableAssumption DEF Ends, ServerSide, SvRecord
    <3>2. ~ OutOfRange(sv, p.ack)
      BY <3>1 DEF OutOfRange
    <3>3. QED
      BY <3>2 DEF Acknowledge
  <2>4. c \in SvRecord /\ Active(c) /\ c.drops = 0
    BY <1>1, <2>2 DEF SvRecord, Active, Ends, ServerSide
  <2>5. /\ c.reliableAcknowledge = p.ack /\ c.lastClientCommand = known
        /\ c.lastClientCommandString = sv.lastClientCommandString
        /\ c.reliableSequence = sv.reliableSequence
        /\ c.reliableCommands = sv.reliableCommands
    BY <1>1 DEF SvRecord
  <2> HIDE DEF c
  <2>6. Ends(c, cl)
    <3>1. ServerSide(sv, cl) /\ ClientSide(sv, cl)
      BY <1>1 DEF Ends
    <3>2. ServerSide(c, cl)
      <4>1. /\ sv.reliableSequence \in Nat /\ sv.reliableAcknowledge \in Nat
            /\ cl.serverCommandSequence \in Nat
            /\ p.ack \in Nat /\ sv.reliableAcknowledge <= p.ack
            /\ p.ack <= cl.serverCommandSequence /\ Active(sv)
        BY <1>1, <2>2 DEF SvRecord, ClRecord
      <4> HIDE DEF p
      <4>2. QED
        BY <2>4, <2>5, <3>1, <4>1, ReliableAssumption DEF ServerSide
    <3>3. ClientSide(c, cl)
      BY <2>5, <3>1 DEF ClientSide
    <3>4. QED
      BY <1>1, <2>4, <3>2, <3>3 DEF Ends
  <2>7. Forward(sv, cl, c, cl)
    BY <1>1, <2>2, <2>5 DEF Forward, SvRecord, ClRecord
  <2>8. CASE sv' = DropClient(c) /\ executed' = executed /\ lastMove' = lastMove
    <3>1. Dropped(c, sv')
      BY <2>4, <2>8, DropClientDrops
    <3>2. Ends(sv', cl) /\ Forward(c, cl, sv', cl)
      BY <2>4, <2>6, <3>1, DroppedEnds
    <3>3. Forward(sv, cl, sv', cl)
      BY <1>1, <2>4, <2>7, <3>1, <3>2 DEF Forward, SvRecord, Dropped
    <3>4. ExecutedOK(sv', executed', lastMove')
      BY <1>1, <2>5, <2>8, <3>1 DEF ExecutedOK, Dropped
    <3>5. QED
      BY <1>1, <3>1, <3>2, <3>3, <3>4, ServerReceives DEF Dropped
  <2>9. CASE sv' = c /\ executed' = executed /\ lastMove' = lastMove
    <3>1. ExecutedOK(sv', executed', lastMove')
      BY <1>1, <2>5, <2>9 DEF ExecutedOK
    <3>2. sv'.reliableAcknowledge <= p.ack
      BY <2>2, <2>5, <2>9
    <3>3. QED
      BY <1>1, <2>6, <2>7, <2>9, <3>1, <3>2, ServerReceives
  <2>10. CASE /\ ~ LostCommands(p.commands)
              /\ sv' = ClientCommands(c, p.commands)
              /\ executed' = executed \o Executions(p.commands)
              /\ lastMove' = IF sv'.state = "ZOMBIE" THEN lastMove ELSE p.move
    <3>1. PICK a \in Nat : p.commands \in [a + 1 .. p.move -> Texts]
      BY <2>2
    <3>2. PICK last \in Nat :
              /\ known <= last
              /\ Executable(p.commands) = known + 1 .. last
              /\ known < last => a <= known /\ last <= p.move
              /\ Fits /\ last = known => p.move <= last
              /\ Fits => p.commands[last] = Disconnect \/ p.move <= last
      <4>1. CASE CommandsUpTo(p.commands, known, p.move)
        <5>1. PICK last \in Nat :
              /\ known <= last
              /\ Executable(p.commands) = known + 1 .. last
              /\ known < last => last \in DOMAIN p.commands /\ p.commands[last] \in Texts
              /\ last = known => p.move <= last
              /\ p.commands[last] = Disconnect \/ p.move <= last
              /\ known < last => last <= p.move
          BY <1>1, <2>2, <4>1, ExecutableInterval
        <5>2. ASSUME known < last PROVE a <= known
          <6>1. PICK b \in 0 .. known : p.commands \in [b + 1 .. p.move -> Texts]
            BY <4>1 DEF CommandsUpTo
          <6>2. known + 1 \in b + 1 .. p.move
            BY <1>1, <2>2, <5>1, <5>2
          <6>3. known + 1 \in a + 1 .. p.move
            BY <3>1, <6>1, <6>2
          <6>4. QED
            BY <1>1, <6>3
        <5>3. QED
          BY <5>1, <5>2
      <4>2. CASE ~ CommandsUpTo(p.commands, known, p.move)
        <5>1. ~ Fits /\ ~ (a \in 0 .. known /\ a <= p.move)
          BY <2>2, <3>1, <4>2 DEF CommandsUpTo
        <5>2. DOMAIN p.commands = {}
          <6>1. SUFFICES ASSUME a + 1 <= p.move, known < a PROVE FALSE
            BY <1>1, <2>2, <3>1, <5>1
          <6>2. DOMAIN p.commands = a + 1 .. p.move
            BY <3>1
          <6>3. a + 1 .. p.move \in SUBSET Nat /\ a + 1 .. p.move # {}
            BY <2>2, <6>1
          <6>4. Min(a + 1 .. p.move) \in a + 1 .. p.move
            BY <6>3, MinProperties
          <6>5. Min(a + 1 .. p.move) > known + 1
            BY <1>1, <2>2, <6>1, <6>4
          <6>6. QED
            BY <2>10, <6>2, <6>3, <6>5 DEF LostCommands
        <5>3. Executable(p.commands) = {}
          BY <5>2 DEF Executable, New
        <5>4. known + 1 .. known = {}
          BY <1>1
        <5>5. /\ known \in Nat /\ known <= known /\ ~ known < known
              /\ Executable(p.commands) = known + 1 .. known
          <6>1. known <= known /\ ~ known < known
            BY <1>1
          <6>2. QED
            BY <1>1, <5>3, <5>4, <6>1, Zenon
        <5> HIDE DEF known
        <5>6. QED
          BY <5>1, <5>5
      <4>3. QED
        BY <4>1, <4>2
    <3> DEFINE AsIssued(i) == p.commands[i] \in Texts /\ (Fits => p.commands[i] \in {i, Disconnect})
    <3>3. ASSUME NEW i \in known + 1 .. last PROVE AsIssued(i)
      <4>1. i \in a + 1 .. p.move
        BY <1>1, <2>2, <3>2
      <4>2. QED
        BY <2>2, <3>1, <4>1
    <3>4. CASE last = known
      <4>1. Executable(p.commands) = {}
        BY <1>1, <3>2, <3>4
      <4>2. sv' = c /\ lastMove' = p.move
        BY <2>4, <2>10, <4>1 DEF ClientCommands, Active
      <4>3. ExecutedOK(sv', executed', lastMove')
        BY <1>1, <2>2, <2>5, <2>10, <3>2, <3>3, <3>4, <4>2, ExecutionsAdd
      <4>4. sv'.reliableAcknowledge <= p.ack
        BY <2>2, <2>5, <4>2
      <4>5. QED
        BY <1>1, <2>6, <2>7, <4>2, <4>3, <4>4, ServerReceives
    <3>5. CASE last # known
      <4> DEFINE text == p.commands[last]
                 done == [c EXCEPT !.lastClientCommand = last,
                                   !.lastClientCommandString = text,
                                   !.flooding = FloodProtect]
      <4>1. /\ known < last /\ text \in Texts /\ (Fits => text \in {last, Disconnect})
            /\ last \in DOMAIN p.commands /\ last <= p.move
        BY <1>1, <2>2, <3>1, <3>2, <3>3, <3>5
      <4>2. Executable(p.commands) # {} /\ Max(Executable(p.commands)) = last
        <5>1. known + 1 <= last /\ known + 1 \in Nat
          BY <1>1, <4>1
        <5>2. Max(known + 1 .. last) = last /\ last \in known + 1 .. last
          BY <5>1, MaxOfInterval
        <5>3. QED
          BY <3>2, <5>2
      <4>3. ClientCommands(c, p.commands) = IF text = Disconnect THEN DropClient(done) ELSE done
        BY <4>2 DEF ClientCommands
      <4>4. done \in SvRecord /\ Active(done) /\ done.drops = 0
        BY <2>4, <4>1, ReliableAssumption DEF SvRecord, Active
      <4>5. /\ done.lastClientCommand = last /\ done.lastClientCommandString = text
            /\ done.reliableAcknowledge = p.ack
            /\ done.reliableSequence = c.reliableSequence
            /\ done.reliableCommands = c.reliableCommands
        BY <2>4, <2>5 DEF SvRecord
      <4> HIDE DEF done
      <4>6. Ends(done, cl)
        <5>1. ServerSide(done, cl)
          BY <2>4, <2>5, <2>6, <4>4, <4>5 DEF Ends, ServerSide
        <5>2. ASSUME Fits, Connected(cl) PROVE last <= cl.reliableSequence /\ text = last
          BY <1>1, <2>2, <4>1, <5>2 DEF ClRecord
        <5>3. ClientSide(done, cl)
          BY <1>1, <4>1, <4>5, <5>2 DEF Ends, ClientSide, ClRecord
        <5>4. QED
          BY <1>1, <4>4, <5>1, <5>3 DEF Ends
      <4>7. Forward(sv, cl, done, cl)
        BY <1>1, <2>2, <2>5, <4>1, <4>5 DEF Forward, SvRecord, ClRecord
      <4>8. CASE text = Disconnect
        <5>1. sv' = DropClient(done) /\ Dropped(done, sv')
          BY <2>10, <4>3, <4>4, <4>8, DropClientDrops
        <5>2. Ends(sv', cl) /\ Forward(done, cl, sv', cl)
          BY <4>4, <4>6, <5>1, DroppedEnds
        <5>3. Forward(sv, cl, sv', cl)
          BY <1>1, <4>4, <4>7, <5>1, <5>2 DEF Forward, SvRecord, Dropped
        <5>4. sv'.state = "ZOMBIE"
          BY <5>1 DEF Dropped, Active, SvRecord
        <5>5. lastMove \in Nat /\ (Fits => lastMove <= last)
          BY <1>1, <4>1 DEF ExecutedOK
        <5>6. ExecutedOK(sv', executed', lastMove')
          <6>1. sv'.lastClientCommand = last
            BY <4>5, <5>1 DEF Dropped
          <6>2. QED
            BY <1>1, <2>10, <3>2, <3>3, <5>4, <5>5, <6>1, ExecutionsAdd
        <5>7. QED
          BY <1>1, <5>1, <5>2, <5>3, <5>6, ServerReceives DEF Dropped
      <4>9. CASE text # Disconnect
        <5>1. sv' = done /\ lastMove' = p.move /\ (Fits => p.move <= last)
          BY <2>10, <3>2, <4>3, <4>4, <4>9 DEF Active
        <5>2. ExecutedOK(sv', executed', lastMove')
          BY <1>1, <2>2, <2>10, <3>2, <3>3, <4>5, <5>1, ExecutionsAdd
        <5>3. sv'.reliableAcknowledge <= p.ack
          BY <2>2, <4>5, <5>1
        <5>4. QED
          BY <1>1, <4>6, <4>7, <5>1, <5>2, <5>3, ServerReceives
      <4>10. QED
        BY <4>8, <4>9
    <3>6. QED
      BY <3>4, <3>5
  <2>11. QED
    BY <1>3, <2>3, <2>8, <2>9, <2>10 DEF ReceiveClientMessage
<1>4. QED
  BY <1>2, <1>3

-----------------------------------------------------------------------------
(* Steps of the client *)

\* The ends once the client has left, and the messages it takes leave with.
LEMMA ClientLeaves ==
    ASSUME NEW s, NEW c, Ends(s, c), Connected(c),
           NEW q \in Queue(ToServerGood(s, c))
    PROVE  /\ Ends(s, Disconnected(c)) /\ Forward(s, c, s, Disconnected(c))
           /\ ~ Connected(Disconnected(c))
           /\ q \o Last3(c) \in Queue(ToServerGood(s, Disconnected(c)))
<1> DEFINE d == Disconnected(c)
           last == Stored(c, Disconnect)
           m == ClientMessage(last)
           rs == c.reliableSequence
           ra == c.reliableAcknowledge
<1>1. /\ s \in SvRecord /\ c \in ClRecord /\ rs \in Nat /\ ra \in Nat
      /\ ServerSide(s, c) /\ ClientSide(s, c)
  BY DEF Ends, ClRecord
<1>2. /\ d \in ClRecord /\ ~ Connected(d)
      /\ d.serverCommandSequence = c.serverCommandSequence
      /\ d.serverCommands = c.serverCommands
  BY <1>1 DEF Disconnected, ClRecord, Connected
<1> HIDE DEF d
<1>3. Ends(s, d)
  BY <1>1, <1>2 DEF Ends, ServerSide, ClientSide
<1>4. Forward(s, c, s, d)
  BY <1>1, <1>2 DEF Forward, SvRecord, ClRecord
<1>5. q \in Queue(ToServerGood(s, d))
  BY <1>1, <1>2, <1>4, QueuesStayGood DEF SvRecord
<1>6. CASE ClientOverflows(c)
  <2>1. Last3(c) = << >>
    BY <1>6 DEF Last3
  <2>2. q \in Seq(ToServerGood(s, d))
    BY <1>5 DEF Queue
  <2>3. q \o << >> = q
    BY <2>2
  <2>4. QED
    BY <1>2, <1>3, <1>4, <1>5, <2>1, <2>3 DEF d
<1>7. CASE ~ ClientOverflows(c)
  <2>1. /\ last \in ClRecord
        /\ last = [c EXCEPT !.reliableSequence = rs + 1,
                            !.reliableCommands =
                                [c.reliableCommands EXCEPT ![Slot(rs + 1)] = Disconnect]]
    BY <1>1, StoredFacts, TextFacts
  <2>2. /\ last.reliableSequence = rs + 1 /\ last.reliableAcknowledge = ra
        /\ last.reliableCommands = [c.reliableCommands EXCEPT ![Slot(rs + 1)] = Disconnect]
        /\ last.serverCommandSequence = c.serverCommandSequence
        /\ last.serverCommands = c.serverCommands
    BY <1>1, <2>1 DEF ClRecord
  <2> HIDE DEF last
  <2>3. /\ Fits => CommandsUpTo(Unacknowledged(last), s.lastClientCommand, rs + 1)
        /\ Unacknowledged(last) \in CommandLists
        /\ \E a \in Nat : Unacknowledged(last) \in [a + 1 .. rs + 1 -> Texts]
    <3>1. /\ s.lastClientCommand \in Nat
          /\ Fits => ra <= s.lastClientCommand /\ ra <= rs + 1
      BY <1>1 DEF ClientSide, SvRecord
    <3>2. QED
      BY <2>1, <2>2, <3>1, UnacknowledgedCommands
  <2>4. ASSUME Fits, NEW i \in ra + 1 .. rs + 1
        PROVE  last.reliableCommands[Slot(i)] \in {i, Disconnect}
    <3>1. Slot(i) \in Indices /\ DOMAIN c.reliableCommands = Indices
      BY <1>1, SlotType DEF ClRecord, Ring, Indices
    <3>2. CASE Slot(i) = Slot(rs + 1)
      BY <2>2, <3>1, <3>2
    <3>3. CASE Slot(i) # Slot(rs + 1)
      <4>1. i \in 0 .. rs /\ rs < i + MAX_RELIABLE_COMMANDS
        BY <1>1, <2>4, <3>3, ReliableAssumption DEF ClientSide
      <4>2. c.reliableCommands[Slot(i)] = i
        BY <1>1, <2>4, <4>1 DEF ClientSide, RingHolds
      <4>3. QED
        BY <2>2, <3>1, <3>3, <4>2
    <3>4. QED
      BY <3>2, <3>3
  <2>5. Fits => \A i \in DOMAIN Unacknowledged(last) : Unacknowledged(last)[i] \in {i, Disconnect}
    BY <2>2, <2>4 DEF Unacknowledged
  <2>6. c.serverCommands[Slot(c.serverCommandSequence)] \in Texts
    BY <1>1, SlotType DEF ClRecord, Ring, Indices
  <2>7. Active(s) => c.serverCommands[Slot(c.serverCommandSequence)] = c.serverCommandSequence
    BY <1>1, ReliableAssumption DEF ServerSide, RingHolds, ClRecord
  <2>8. m \in ToServerMessage /\ m.ack = c.serverCommandSequence
    BY <1>1, <2>2, <2>3, <2>6 DEF ClientMessage, ToServerMessage, ClRecord
  <2>9. m \in ToServerGood(s, d)
    BY <1>1, <1>2, <2>2, <2>3, <2>5, <2>7, <2>8
    DEF ClientMessage, ToServerGood, ServerSide, ClRecord
  <2>10. \A n \in ToServerGood(s, d) : n.ack \in Nat /\ n.ack <= m.ack
    BY <1>2, <2>8 DEF ToServerGood, ToServerMessage
  <2>11. Last3(c) = [k \in 1 .. 3 |-> m]
    BY <1>7 DEF Last3, last
  <2>12. q \o [k \in 1 .. 3 |-> m] \in Queue(ToServerGood(s, d))
    <3> HIDE DEF m
    <3>1. QED
      BY <1>5, <2>9, <2>10, QueueThree
  <2>13. QED
    BY <1>2, <1>3, <1>4, <2>11, <2>12 DEF d
<1>8. QED
  BY <1>6, <1>7

\* A step of the client that leaves the server's messages alone.
LEMMA ClientGoesOn ==
    ASSUME ReliableInv, Ends(sv, cl'), Forward(sv, cl, sv, cl'),
           Fits /\ Connected(cl') => cl'.reliableAcknowledge <= cl.reliableAcknowledge,
           toServer' \in Queue(ToServerGood(sv, cl')),
           TakenOK(sv, cl', taken'),
           UNCHANGED <<sv, toClient, executed, lastMove>>
    PROVE  ReliableInv'
<1>1. sv \in SvRecord /\ cl \in ClRecord /\ cl' \in ClRecord
  BY DEF ReliableInv, Ends
<1>2. toClient \in Queue(ToClientGood(sv, cl'))
  BY <1>1, QueuesStayGood DEF ReliableInv
<1>3. QED
  BY <1>2 DEF ReliableInv

\* The client leaves, or an error makes it leave.
LEMMA ClientErrorKeeps ==
    ASSUME ReliableInv, Connected(cl), ClientError(cl),
           UNCHANGED <<sv, toClient, executed, taken, lastMove>>
    PROVE  ReliableInv'
<1>1. Ends(sv, cl) /\ toServer \in Queue(ToServerGood(sv, cl)) /\ cl \in ClRecord
  BY DEF ReliableInv, Ends
<1>2. cl' = Disconnected(cl) /\ toServer' = toServer \o Last3(cl)
  BY DEF ClientError
<1>3. TakenOK(sv, cl', taken)
  BY <1>1, <1>2 DEF ReliableInv, TakenOK, Disconnected, ClRecord
<1>4. QED
  BY <1>1, <1>2, <1>3, ClientLeaves, ClientGoesOn

\* A client that leaves adds a last command.
LEMMA LeaveServerKeeps ==
    ASSUME ReliableInv, LeaveServer
    PROVE  ReliableInv'
  BY ClientErrorKeeps DEF LeaveServer, Connected

\* A command is added, if there is room for it.
LEMMA AddReliableCommandKeeps ==
    ASSUME ReliableInv, AddReliableCommand
    PROVE  ReliableInv'
<1> DEFINE text == cl.reliableSequence + 1
<1>1. /\ sv \in SvRecord /\ cl \in ClRecord /\ Ends(sv, cl) /\ Connected(cl)
      /\ ServerSide(sv, cl) /\ ClientSide(sv, cl)
      /\ cl.reliableSequence \in Nat /\ cl.reliableAcknowledge \in Nat
      /\ cl.reliableCommands \in Ring
  BY DEF ReliableInv, Ends, AddReliableCommand, Connected, ClRecord
<1>2. /\ text <= MaxClientCommands
      /\ Fits => text <= cl.reliableAcknowledge + MAX_RELIABLE_COMMANDS
  BY <1>1, ReliableAssumption DEF AddReliableCommand, Outstanding, Fits
<1> SUFFICES ASSUME /\ cl' = Stored(cl, text)
                    /\ UNCHANGED <<sv, toClient, toServer, executed, taken, lastMove>>
             PROVE  ReliableInv'
  BY <1>1, ClientErrorKeeps DEF AddReliableCommand
<1>3. text \in Texts
  BY <1>1, <1>2, TextFacts
<1>4. /\ cl' \in ClRecord
      /\ cl' = [cl EXCEPT !.reliableSequence = text,
                          !.reliableCommands = [cl.reliableCommands EXCEPT ![Slot(text)] = text]]
  BY <1>1, <1>3, StoredFacts
<1>5. Fits => RingHolds(cl'.reliableCommands, cl'.reliableSequence)
  BY <1>1, <1>4, RingHoldsNext DEF ClientSide, ClRecord
<1>6. /\ cl'.reliableSequence = text /\ cl'.reliableAcknowledge = cl.reliableAcknowledge
      /\ Connected(cl')
      /\ cl'.serverCommandSequence = cl.serverCommandSequence
      /\ cl'.serverCommands = cl.serverCommands
      /\ cl'.lastExecutedServerCommand = cl.lastExecutedServerCommand
      /\ cl'.snapCommands = cl.snapCommands /\ cl'.snapStamp = cl.snapStamp
  BY <1>1, <1>4 DEF ClRecord, Connected
<1>7. ServerSide(sv, cl')
  BY <1>1, <1>6 DEF ServerSide
<1>8. ClientSide(sv, cl')
  BY <1>1, <1>2, <1>5, <1>6 DEF ClientSide, SvRecord
<1>9. Forward(sv, cl, sv, cl')
  BY <1>1, <1>6 DEF Forward, SvRecord, ClRecord
<1>10. toServer \in Queue(ToServerGood(sv, cl'))
  BY <1>1, <1>4, <1>9, QueuesStayGood DEF ReliableInv, SvRecord
<1>11. TakenOK(sv, cl', taken)
  BY <1>6 DEF ReliableInv, TakenOK
<1>12. QED
  BY <1>1, <1>4, <1>6, <1>7, <1>8, <1>9, <1>10, <1>11, ClientGoesOn DEF Ends, ClRecord

-----------------------------------------------------------------------------
(* The client reads a message *)

\* The commands it has not seen go to the ring, and become the latest.
LEMMA ParseCommandsFacts ==
    ASSUME NEW c \in ClRecord, NEW stamp \in Nat, NEW commands,
           CommandsUpTo(commands, c.serverCommandSequence, stamp)
    PROVE  LET d == ParseCommands(c, commands)
               last == IF stamp <= c.serverCommandSequence THEN c.serverCommandSequence ELSE stamp
           IN  /\ d \in ClRecord
               /\ d.serverCommandSequence = last
               /\ d = [c EXCEPT !.serverCommandSequence = last,
                                !.serverCommands = d.serverCommands]
               /\ (\A i \in DOMAIN commands : commands[i] = i)
                  /\ RingHolds(c.serverCommands, c.serverCommandSequence)
                      => RingHolds(d.serverCommands, last)
<1> DEFINE known == c.serverCommandSequence
           new == New(commands, known)
           InSlot(j) == {i \in new : Slot(i) = j}
           ring == [j \in DOMAIN c.serverCommands |->
                       IF InSlot(j) = {} THEN c.serverCommands[j] ELSE commands[Max(InSlot(j))]]
           d == ParseCommands(c, commands)
<1>1. known \in Nat /\ c.serverCommands \in [Indices -> Texts]
  BY DEF ClRecord, Ring, Indices
<1>2. PICK a \in 0 .. known : a <= stamp /\ commands \in [a + 1 .. stamp -> Texts]
  BY DEF CommandsUpTo
<1>3. /\ new = known + 1 .. stamp
      /\ \A i \in new : i \in DOMAIN commands /\ commands[i] \in Texts
  BY <1>1, <1>2 DEF New
<1>4. d = IF new = {} THEN c
          ELSE [c EXCEPT !.serverCommandSequence = Max(new), !.serverCommands = ring]
  BY DEF ParseCommands
<1> HIDE DEF new, d
<1>5. CASE stamp <= known
  <2>1. new = {}
    BY <1>1, <1>3, <1>5
  <2>2. d = c
    BY <1>4, <2>1
  <2>3. d = [c EXCEPT !.serverCommandSequence = known, !.serverCommands = d.serverCommands]
    BY <2>2 DEF ClRecord
  <2>4. QED
    BY <1>5, <2>2, <2>3 DEF d
<1>6. CASE ~ stamp <= known
  <2>1. new # {} /\ Max(new) = stamp
    <3>1. known + 1 <= stamp /\ known + 1 \in Nat /\ stamp \in known + 1 .. stamp
      BY <1>1, <1>6
    <3>2. QED
      BY <1>3, <3>1, MaxOfInterval
  <2>2. d = [c EXCEPT !.serverCommandSequence = stamp, !.serverCommands = ring]
    BY <1>4, <2>1
  <2>3. ASSUME NEW j \in Indices, InSlot(j) # {}
        PROVE  Max(InSlot(j)) \in InSlot(j) /\ \A i \in InSlot(j) : i <= Max(InSlot(j))
    <3>1. InSlot(j) \in SUBSET (0 .. stamp)
      BY <1>1, <1>3
    <3>2. QED
      BY <2>3, <3>1, MaxProperties
  <2>4. ring \in [Indices -> Texts]
    <3>1. ASSUME NEW j \in Indices
          PROVE  (IF InSlot(j) = {} THEN c.serverCommands[j] ELSE commands[Max(InSlot(j))])
                     \in Texts
      BY <1>1, <1>3, <2>3
    <3>2. QED
      BY <1>1, <3>1
  <2>5. d \in ClRecord
    <3> HIDE DEF ring
    <3>1. QED
      BY <2>2, <2>4 DEF ClRecord, Ring, Indices
  <2>6. d.serverCommandSequence = stamp /\ d.serverCommands = ring
    <3> HIDE DEF ring
    <3>1. QED
      BY <2>2 DEF ClRecord
  <2>7. ASSUME \A i \in DOMAIN commands : commands[i] = i, RingHolds(c.serverCommands, known)
        PROVE  RingHolds(ring, stamp)
    <3> SUFFICES ASSUME NEW i \in 0 .. stamp, stamp < i + MAX_RELIABLE_COMMANDS
                 PROVE  ring[Slot(i)] = i
      BY DEF RingHolds
    <3>1. i \in Nat /\ Slot(i) \in Indices
      BY SlotType
    <3>2. ring[Slot(i)] = IF InSlot(Slot(i)) = {} THEN c.serverCommands[Slot(i)]
                          ELSE commands[Max(InSlot(Slot(i)))]
      BY <1>1, <3>1
    <3>3. ASSUME NEW k \in new, i < k PROVE Slot(k) # Slot(i)
      <4>1. k \in Nat /\ k < i + MAX_RELIABLE_COMMANDS
        BY <1>1, <1>3, <3>1, ReliableAssumption
      <4>2. QED
        BY <3>1, <3>3, <4>1, SlotsDiffer
    <3>4. CASE i > known
      <4>1. i \in InSlot(Slot(i))
        BY <1>1, <1>3, <3>1, <3>4
      <4>2. /\ Max(InSlot(Slot(i))) \in new /\ Slot(Max(InSlot(Slot(i)))) = Slot(i)
            /\ i <= Max(InSlot(Slot(i)))
        BY <2>3, <3>1, <4>1
      <4>3. Max(InSlot(Slot(i))) \in Nat /\ commands[Max(InSlot(Slot(i)))] = Max(InSlot(Slot(i)))
        BY <1>1, <1>3, <2>7, <4>2
      <4>4. ~ i < Max(InSlot(Slot(i)))
        BY <3>3, <4>2
      <4>5. Max(InSlot(Slot(i))) = i
        BY <3>1, <4>2, <4>3, <4>4
      <4>6. QED
        BY <3>2, <4>1, <4>3, <4>5
    <3>5. CASE i <= known
      <4>1. InSlot(Slot(i)) = {}
        BY <1>1, <1>3, <3>1, <3>3, <3>5
      <4>2. known < i + MAX_RELIABLE_COMMANDS
        BY <1>1, <1>6, <3>1, ReliableAssumption
      <4>3. c.serverCommands[Slot(i)] = i
        BY <2>7, <3>1, <3>5, <4>2 DEF RingHolds
      <4>4. QED
        BY <3>2, <4>1, <4>3
    <3>6. QED
      BY <1>1, <3>1, <3>4, <3>5
  <2>8. QED
    <3> HIDE DEF ring
    <3>1. d = [c EXCEPT !.serverCommandSequence = stamp, !.serverCommands = d.serverCommands]
      BY <2>2, <2>6
    <3>2. QED
      BY <1>6, <2>5, <2>6, <2>7, <3>1 DEF d
<1>7. QED
  BY <1>5, <1>6

\* What reading a message comes to, whatever is made of it.
LEMMA ClientReceives ==
    ASSUME ReliableInv, toClient # << >>, toClient' = Tail(toClient),
           Ends(sv, cl'), Forward(sv, cl, sv, cl'),
           Fits /\ Connected(cl') => cl'.reliableAcknowledge <= Head(toClient).ack,
           toServer' \in Queue(ToServerGood(sv, cl')),
           TakenOK(sv, cl', taken),
           UNCHANGED <<sv, executed, taken, lastMove>>
    PROVE  ReliableInv'
<1>1. sv \in SvRecord /\ cl \in ClRecord /\ cl' \in ClRecord
  BY DEF ReliableInv, Ends
<1>2. toClient' \in Queue(ToClientGood(sv, cl'))
  BY <1>1, TailsStayGood DEF ReliableInv
<1>3. QED
  BY <1>2 DEF ReliableInv

\* A message of the server: its acknowledgement, its commands, its snapshot.
LEMMA ReceiveServerMessageKeeps ==
    ASSUME ReliableInv, ReceiveServerMessage
    PROVE  ReliableInv'
<1> DEFINE p == Head(toClient)
           c == Acknowledge(cl, p.ack)
<1>1. /\ sv \in SvRecord /\ cl \in ClRecord /\ Ends(sv, cl)
      /\ ServerSide(sv, cl) /\ ClientSide(sv, cl)
      /\ toClient # << >> /\ toClient' = Tail(toClient)
      /\ toServer \in Queue(ToServerGood(sv, cl)) /\ TakenOK(sv, cl, taken)
      /\ UNCHANGED <<sv, executed, taken, lastMove>>
  BY DEF ReliableInv, Ends, ReceiveServerMessage
<1>2. CASE ~ Connected(cl)
  <2>1. cl' = cl /\ toServer' = toServer
    BY <1>2 DEF ReceiveServerMessage, Connected
  <2>2. Forward(sv, cl, sv, cl')
    BY <1>1, <2>1 DEF Forward, SvRecord, ClRecord
  <2>3. QED
    BY <1>1, <1>2, <2>1, <2>2, ClientReceives
<1>3. CASE Connected(cl)
  <2>1. p \in ToClientGood(sv, cl)
    <3>1. \A m \in ToClientGood(sv, cl) : m.ack \in Nat
      BY DEF ToClientGood, ToClientMessage
    <3>2. QED
      BY <1>1, <3>1, QueueTail DEF ReliableInv
  <2>2. /\ p.ack \in Nat /\ p.stamp \in Nat
        /\ p.ack <= sv.lastClientCommand
        /\ Fits => cl.reliableAcknowledge <= p.ack
        /\ CommandsUpTo(p.commands, cl.serverCommandSequence, p.stamp)
        /\ p.stamp <= sv.reliableSequence
        /\ Active(sv) => \A i \in DOMAIN p.commands : p.commands[i] = i
    BY <1>3, <2>1 DEF ToClientGood, ToClientMessage
  <2>3. Fits => ~ OutOfRange(cl, p.ack)
    BY <1>1, <1>3, <2>2, ReliableAssumption DEF ClientSide, ClRecord, OutOfRange
  <2>4. c \in ClRecord /\ Connected(c)
    BY <1>1, <1>3, <2>2 DEF ClRecord, Connected, Acknowledge
  <2>5. /\ Fits => c.reliableAcknowledge = p.ack
        /\ c.reliableSequence = cl.reliableSequence
        /\ c.reliableCommands = cl.reliableCommands
        /\ c.serverCommandSequence = cl.serverCommandSequence
        /\ c.serverCommands = cl.serverCommands
        /\ c.lastExecutedServerCommand = cl.lastExecutedServerCommand
        /\ c.snapCommands = cl.snapCommands /\ c.snapStamp = cl.snapStamp
    BY <1>1, <2>3 DEF ClRecord, Acknowledge
  <2> HIDE DEF c
  <2>6. Ends(sv, c)
    <3>1. ServerSide(sv, c)
      BY <1>1, <2>5 DEF ServerSide
    <3>2. ClientSide(sv, c)
      BY <1>1, <1>3, <2>2, <2>5, ReliableAssumption DEF ClientSide, SvRecord, ClRecord
    <3>3. QED
      BY <1>1, <2>4, <3>1, <3>2 DEF Ends
  <2>7. Forward(sv, cl, sv, c)
    BY <1>1, <1>3, <2>5 DEF Forward, SvRecord, ClRecord
  <2>8. toServer \in Queue(ToServerGood(sv, c))
    BY <1>1, <2>4, <2>7, QueuesStayGood DEF SvRecord
  <2>9. TakenOK(sv, c, taken)
    BY <1>1, <2>5 DEF TakenOK
  <2>10. CASE cl' = c /\ toServer' = toServer
    BY <1>1, <2>2, <2>5, <2>6, <2>7, <2>8, <2>9, <2>10, ClientReceives
  <2>11. CASE cl' = Disconnected(c) /\ toServer' = toServer \o Last3(c)
    <3>1. /\ Ends(sv, cl') /\ Forward(sv, c, sv, cl') /\ ~ Connected(cl')
          /\ toServer' \in Queue(ToServerGood(sv, cl'))
      BY <2>4, <2>6, <2>8, <2>11, ClientLeaves
    <3>2. Forward(sv, cl, sv, cl')
      BY <1>1, <2>4, <2>7, <3>1 DEF Forward, ClRecord, Ends
    <3>3. TakenOK(sv, cl', taken)
      BY <2>4, <2>9, <2>11 DEF TakenOK, Disconnected, ClRecord
    <3>4. QED
      BY <1>1, <3>1, <3>2, <3>3, ClientReceives
  <2>12. CASE cl' = ParseSnapshot(ParseCommands(c, p.commands), p) /\ toServer' = toServer
    <3> DEFINE d == ParseCommands(c, p.commands)
               last == IF p.stamp <= c.serverCommandSequence
                       THEN c.serverCommandSequence ELSE p.stamp
    <3>1. /\ d \in ClRecord
          /\ d.serverCommandSequence = last
          /\ d = [c EXCEPT !.serverCommandSequence = last, !.serverCommands = d.serverCommands]
          /\ (\A i \in DOMAIN p.commands : p.commands[i] = i)
             /\ RingHolds(c.serverCommands, c.serverCommandSequence)
                 => RingHolds(d.serverCommands, last)
      BY <2>2, <2>4, <2>5, ParseCommandsFacts
    <3> HIDE DEF d
    <3>2. /\ cl' = [d EXCEPT !.snapCommands = d.serverCommandSequence, !.snapStamp = p.stamp]
          /\ cl' \in ClRecord
      BY <2>2, <2>12, <3>1 DEF ParseSnapshot, ClRecord, d
    <3>3. /\ cl'.serverCommandSequence = last /\ cl'.serverCommands = d.serverCommands
          /\ Fits => cl'.reliableAcknowledge = p.ack
          /\ cl'.reliableAcknowledge = c.reliableAcknowledge
          /\ cl'.reliableSequence = cl.reliableSequence
          /\ cl'.reliableCommands = cl.reliableCommands
          /\ Connected(cl')
          /\ cl'.lastExecutedServerCommand = cl.lastExecutedServerCommand
          /\ cl'.snapCommands = last /\ cl'.snapStamp = p.stamp
      <4>1. /\ d.reliableAcknowledge = c.reliableAcknowledge
            /\ d.reliableSequence = c.reliableSequence
            /\ d.reliableCommands = c.reliableCommands /\ Connected(d)
            /\ d.lastExecutedServerCommand = c.lastExecutedServerCommand
        BY <2>4, <3>1 DEF ClRecord, Connected
      <4>2. QED
        BY <2>5, <3>1, <3>2, <4>1 DEF ClRecord, Connected
    <3>4. last \in Nat /\ cl.serverCommandSequence <= last /\ p.stamp <= last
      BY <1>1, <2>2, <2>5 DEF ClRecord
    <3>5. Active(sv) => last <= sv.reliableSequence /\ RingHolds(d.serverCommands, last)
      BY <1>1, <2>2, <2>5, <3>1 DEF ServerSide, SvRecord, ClRecord
    <3> HIDE DEF last
    <3>6. ServerSide(sv, cl')
      BY <1>1, <3>3, <3>4, <3>5 DEF ServerSide, SvRecord, ClRecord
    <3>7. ClientSide(sv, cl')
      BY <2>4, <2>5, <2>6, <3>3 DEF Ends, ClientSide
    <3>8. Forward(sv, cl, sv, cl')
      BY <1>1, <1>3, <3>3, <3>4 DEF Forward, SvRecord, ClRecord
    <3>9. toServer \in Queue(ToServerGood(sv, cl'))
      BY <1>1, <3>2, <3>8, QueuesStayGood DEF SvRecord
    <3>10. TakenOK(sv, cl', taken)
      BY <1>1, <3>3, <3>4 DEF TakenOK, ClRecord
    <3>11. QED
      BY <1>1, <2>2, <2>12, <3>2, <3>3, <3>6, <3>7, <3>8, <3>9, <3>10, ClientReceives DEF Ends
  <2>13. QED
    BY <1>3, <2>10, <2>11, <2>12 DEF ReceiveServerMessage, ClientError, Connected, c
<1>4. QED
  BY <1>2, <1>3

\* cgame takes the command that was issued under the number it asks for.
LEMMA GetServerCommandKeeps ==
    ASSUME ReliableInv, GetServerCommand
    PROVE  ReliableInv'
<1> DEFINE n == cl.lastExecutedServerCommand + 1
           text == cl.serverCommands[Slot(n)]
           c == [cl EXCEPT !.lastExecutedServerCommand = n]
<1>1. /\ sv \in SvRecord /\ cl \in ClRecord /\ Ends(sv, cl) /\ Connected(cl)
      /\ ServerSide(sv, cl) /\ ClientSide(sv, cl)
      /\ toServer \in Queue(ToServerGood(sv, cl)) /\ TakenOK(sv, cl, taken)
      /\ UNCHANGED <<sv, toClient, executed, lastMove>>
  BY DEF ReliableInv, Ends, GetServerCommand, Connected
<1>2. CASE cl' = Disconnected(cl) /\ toServer' = toServer \o Last3(cl) /\ taken' = taken
  <2>1. TakenOK(sv, cl', taken')
    BY <1>1, <1>2 DEF TakenOK, Disconnected, ClRecord
  <2>2. QED
    BY <1>1, <1>2, <2>1, ClientLeaves, ClientGoesOn
<1>3. CASE /\ ~ n <= cl.serverCommandSequence - MAX_RELIABLE_COMMANDS
           /\ taken' = Append(taken, text)
           /\ \/ cl' = Disconnected(c) /\ toServer' = toServer \o Last3(c)
              \/ cl' = c /\ toServer' = toServer
  <2>1. /\ n \in Nat /\ n <= cl.snapCommands /\ n <= cl.serverCommandSequence
        /\ cl.serverCommandSequence < n + MAX_RELIABLE_COMMANDS
    BY <1>1, <1>3, ReliableAssumption DEF GetServerCommand, TakenOK, ClRecord
  <2>2. text \in Texts
    BY <1>1, <2>1, SlotType DEF ClRecord, Ring, Indices
  <2>3. Active(sv) => text = n
    BY <1>1, <2>1 DEF ServerSide, RingHolds, ClRecord
  <2>4. c \in ClRecord /\ Connected(c)
    BY <1>1, <2>1 DEF ClRecord, Connected
  <2>5. /\ c.reliableAcknowledge = cl.reliableAcknowledge
        /\ c.reliableSequence = cl.reliableSequence
        /\ c.reliableCommands = cl.reliableCommands
        /\ c.serverCommandSequence = cl.serverCommandSequence
        /\ c.serverCommands = cl.serverCommands
        /\ c.lastExecutedServerCommand = n
        /\ c.snapCommands = cl.snapCommands /\ c.snapStamp = cl.snapStamp
    BY <1>1 DEF ClRecord
  <2> HIDE DEF c
  <2>6. Ends(sv, c)
    BY <1>1, <2>4, <2>5 DEF Ends, ServerSide, ClientSide
  <2>7. Forward(sv, cl, sv, c)
    BY <1>1, <2>5 DEF Forward, SvRecord, ClRecord
  <2>8. toServer \in Queue(ToServerGood(sv, c))
    BY <1>1, <2>4, <2>7, QueuesStayGood DEF SvRecord
  <2>9. TakenOK(sv, c, taken')
    <3>1. taken \in Seq(Texts) /\ taken' \in Seq(Texts)
      BY <1>1, <1>3, <2>2 DEF TakenOK
    <3>2. ASSUME Active(sv)
          PROVE  Len(taken') = n /\ \A k \in 1 .. Len(taken') : taken'[k] = k
      BY <1>1, <1>3, <2>1, <2>3, <3>1, <3>2 DEF TakenOK, ClRecord
    <3>3. QED
      BY <1>1, <2>1, <2>5, <3>1, <3>2 DEF TakenOK, ClRecord
  <2>10. CASE cl' = c /\ toServer' = toServer
    BY <1>1, <2>5, <2>6, <2>7, <2>8, <2>9, <2>10, ClientGoesOn DEF ClRecord
  <2>11. CASE cl' = Disconnected(c) /\ toServer' = toServer \o Last3(c)
    <3>1. /\ Ends(sv, cl') /\ Forward(sv, c, sv, cl') /\ ~ Connected(cl')
          /\ toServer' \in Queue(ToServerGood(sv, cl'))
      BY <2>4, <2>6, <2>8, <2>11, ClientLeaves
    <3>2. Forward(sv, cl, sv, cl')
      BY <1>1, <2>4, <2>7, <3>1 DEF Forward, ClRecord, Ends
    <3>3. TakenOK(sv, cl', taken')
      BY <2>4, <2>9, <2>11 DEF TakenOK, Disconnected, ClRecord
    <3>4. QED
      BY <1>1, <3>1, <3>2, <3>3, ClientGoesOn
  <2>12. QED
    BY <1>3, <2>10, <2>11
<1>4. QED
  BY <1>2, <1>3 DEF GetServerCommand, ClientError

-----------------------------------------------------------------------------
(* The network *)

\* Sending adds a good message.
LEMMA SendKeeps ==
    ASSUME ReliableInv, SendSnapshot \/ WritePacket
    PROVE  ReliableInv'
<1>1. sv' = sv /\ cl' = cl /\ UNCHANGED <<executed, taken, lastMove>>
  BY DEF SendSnapshot, WritePacket
<1>2. CASE SendSnapshot
  <2>1. Append(toClient, ServerMessage) \in Queue(ToClientGood(sv, cl))
    BY ServerMessageGood, QueueAppend DEF ReliableInv
  <2>2. QED
    BY <1>1, <1>2, <2>1 DEF SendSnapshot, ReliableInv
<1>3. CASE WritePacket
  <2>1. Append(toServer, ClientMessage(cl)) \in Queue(ToServerGood(sv, cl))
    BY <1>3, ClientMessageGood, QueueAppend DEF ReliableInv, WritePacket, Connected
  <2>2. QED
    BY <1>1, <1>3, <2>1 DEF WritePacket, ReliableInv
<1>4. QED
  BY <1>2, <1>3

\* Losing the first message leaves the others.
LEMMA LoseKeeps ==
    ASSUME ReliableInv, LoseToClient \/ LoseToServer
    PROVE  ReliableInv'
<1>1. sv' = sv /\ cl' = cl /\ UNCHANGED <<executed, taken, lastMove>>
  BY DEF LoseToClient, LoseToServer
<1>2. CASE LoseToClient
  <2> DEFINE Good == ToClientGood(sv, cl)
             later == {p \in Good : Head(toClient).ack <= p.ack}
  <2>1. \A m \in Good : m.ack \in Nat
    BY DEF ToClientGood, ToClientMessage
  <2> HIDE DEF Good
  <2>2. Tail(toClient) \in Queue(later)
    BY <1>2, <2>1, QueueTail DEF ReliableInv, LoseToClient, Good
  <2>3. later \subseteq Good
    OBVIOUS
  <2>4. Tail(toClient) \in Queue(Good)
    BY <2>2, <2>3, QueueGrows
  <2>5. QED
    BY <1>1, <1>2, <2>4 DEF LoseToClient, ReliableInv, Good
<1>3. CASE LoseToServer
  <2> DEFINE Good == ToServerGood(sv, cl)
             later == {p \in Good : Head(toServer).ack <= p.ack}
  <2>1. \A m \in Good : m.ack \in Nat
    BY DEF ToServerGood, ToServerMessage
  <2> HIDE DEF Good
  <2>2. Tail(toServer) \in Queue(later)
    BY <1>3, <2>1, QueueTail DEF ReliableInv, LoseToServer, Good
  <2>3. later \subseteq Good
    OBVIOUS
  <2>4. Tail(toServer) \in Queue(Good)
    BY <2>2, <2>3, QueueGrows
  <2>5. QED
    BY <1>1, <1>3, <2>4 DEF LoseToServer, ReliableInv, Good
<1>4. QED
  BY <1>2, <1>3

-----------------------------------------------------------------------------
(* The theorems *)

\* The invariant holds at first.
LEMMA ReliableStarts ==
    ASSUME Init
    PROVE  ReliableInv
<1>1. NoCommands \in Ring
  BY TextFacts DEF NoCommands, Ring
<1>2. sv \in SvRecord /\ cl \in ClRecord
  BY <1>1, TextFacts DEF Init, SvRecord, ClRecord
<1>3. RingHolds(NoCommands, 0)
  BY SlotType DEF RingHolds, NoCommands, Indices, Empty
<1>4. ServerSide(sv, cl) /\ ClientSide(sv, cl)
  BY <1>3, ReliableAssumption DEF Init, ServerSide, ClientSide, Active, Connected, Empty
<1>5. toClient \in Queue(ToClientGood(sv, cl)) /\ toServer \in Queue(ToServerGood(sv, cl))
  BY DEF Init, Queue
<1>6. ExecutedOK(sv, executed, lastMove) /\ TakenOK(sv, cl, taken)
  BY DEF Init, ExecutedOK, TakenOK, Active
<1>7. QED
  BY <1>2, <1>4, <1>5, <1>6 DEF ReliableInv, Ends

\* Every step keeps it.
LEMMA ReliableStep ==
    ASSUME ReliableInv, [Next]_vars
    PROVE  ReliableInv'
<1>1. CASE GameCommand
  BY <1>1, GameCommandKeeps
<1>2. CASE Kick
  BY <1>2, KickKeeps
<1>3. CASE SendSnapshot \/ WritePacket
  BY <1>3, SendKeeps
<1>4. CASE ReceiveClientMessage
  BY <1>4, ReceiveClientMessageKeeps
<1>5. CASE FloodTimePasses
  BY <1>5, FloodTimePassesKeeps
<1>6. CASE AddReliableCommand
  BY <1>6, AddReliableCommandKeeps
<1>7. CASE LeaveServer
  BY <1>7, LeaveServerKeeps
<1>8. CASE ReceiveServerMessage
  BY <1>8, ReceiveServerMessageKeeps
<1>9. CASE GetServerCommand
  BY <1>9, GetServerCommandKeeps
<1>10. CASE LoseToClient \/ LoseToServer
  BY <1>10, LoseKeeps
<1>11. CASE UNCHANGED vars
  BY <1>11 DEF vars, ReliableInv
<1>12. QED
  BY <1>1, <1>2, <1>3, <1>4, <1>5, <1>6, <1>7, <1>8, <1>9, <1>10, <1>11 DEF Next

\* So it always holds.
LEMMA ReliableInvariant == Spec => []ReliableInv
<1>1. ReliableInv /\ [Next]_vars => ReliableInv'
  BY ReliableStep
<1>2. Init => ReliableInv
  BY ReliableStarts
<1>3. QED
  BY <1>1, <1>2, PTL DEF Spec

\* The keys a message and its reader's ring give are the same: the ring still
\* holds what the message acknowledges.
LEMMA InvKeysAgree ==
    ASSUME ReliableInv, Fits
    PROVE  KeysAgree
<1>1. /\ sv \in SvRecord /\ cl \in ClRecord
      /\ ServerSide(sv, cl) /\ ClientSide(sv, cl)
  BY DEF ReliableInv, Ends
<1>2. ASSUME Fits, Connected(cl), NEW k \in 1 .. Len(toClient), ~ Replaced(cl, toClient[k].ack)
      PROVE  ClientDecodes(toClient[k])
  <2> DEFINE p == toClient[k]
  <2>1. p \in ToClientGood(sv, cl)
    BY DEF ReliableInv, Queue
  <2> HIDE DEF p
  <2>2. p.ack \in Nat /\ p.ack <= cl.reliableSequence /\ p.key = p.ack
    BY <1>1, <1>2, <2>1 DEF ToClientGood, ToClientMessage, ClientSide, SvRecord, ClRecord
  <2>3. cl.reliableSequence < p.ack + MAX_RELIABLE_COMMANDS
    BY <1>1, <1>2, <2>2, ReliableAssumption DEF Replaced, ClRecord, p
  <2>4. cl.reliableCommands[Slot(p.ack)] = p.ack
    BY <1>1, <1>2, <2>2, <2>3 DEF ClientSide, RingHolds, ClRecord
  <2>5. QED
    BY <2>2, <2>4 DEF ClientDecodes, p
<1>3. ASSUME Active(sv), NEW k \in 1 .. Len(toServer), ~ Replaced(sv, toServer[k].ack)
      PROVE  ServerDecodes(toServer[k])
  <2> DEFINE p == toServer[k]
  <2>1. p \in ToServerGood(sv, cl)
    BY DEF ReliableInv, Queue
  <2> HIDE DEF p
  <2>2. p.ack \in Nat /\ p.ack <= sv.reliableSequence /\ p.key = p.ack
    BY <1>1, <1>3, <2>1 DEF ToServerGood, ToServerMessage, ServerSide, SvRecord, ClRecord
  <2>3. sv.reliableSequence < p.ack + MAX_RELIABLE_COMMANDS
    BY <1>1, <1>3, <2>2, ReliableAssumption DEF Replaced, SvRecord, p
  <2>4. sv.reliableCommands[Slot(p.ack)] = p.ack
    BY <1>1, <1>3, <2>2, <2>3 DEF ServerSide, RingHolds, SvRecord
  <2>5. QED
    BY <2>2, <2>4 DEF ServerDecodes, p
<1>4. QED
  BY <1>2, <1>3 DEF KeysAgree, Connected, Active

\* It includes the types.
LEMMA InvTypeOK ==
    ASSUME ReliableInv
    PROVE  TypeOK
<1>1. \A k \in DOMAIN toClient : toClient[k].ack \in Nat /\ toClient[k].key \in Texts
  BY DEF ReliableInv, Queue, ToClientGood, ToClientMessage
<1>2. \A k \in DOMAIN toServer : toServer[k].ack \in Nat /\ toServer[k].key \in Texts
  BY DEF ReliableInv, Queue, ToServerGood, ToServerMessage
<1>3. QED
  BY <1>1, <1>2 DEF ReliableInv, Ends, SvRecord, ClRecord, ExecutedOK, TakenOK, TypeOK

\* The sequence numbers, rings, messages and histories keep their types.
THEOREM CommandTypes == Spec => []TypeOK
  BY ReliableInvariant, InvTypeOK, PTL

\* Whatever is lost, the server executes the client's commands as they were
\* issued, each once and none skipped (SV_ClientCommand).
THEOREM ClientCommandsInOrder ==
    ASSUME ClientAhead <= MAX_RELIABLE_COMMANDS
    PROVE  Spec => []ClientCommandsAsIssued
<1>1. ReliableInv => ClientCommandsAsIssued
  BY DEF Fits, ReliableInv, ExecutedOK, ClientCommandsAsIssued
<1>2. QED
  BY <1>1, ReliableInvariant, PTL

\* It runs no user move before the commands that were issued before it
\* (SV_ExecuteClientMessage).
THEOREM MovesAfterCommands ==
    ASSUME ClientAhead <= MAX_RELIABLE_COMMANDS
    PROVE  Spec => []MoveAfterCommands
<1>1. ReliableInv => MoveAfterCommands
  BY DEF Fits, ReliableInv, ExecutedOK, MoveAfterCommands
<1>2. QED
  BY <1>1, ReliableInvariant, PTL

\* Whatever is lost, cgame takes the server's commands as they were issued until
\* the server drops the client (CL_GetServerCommand).
THEOREM ServerCommandsInOrder == Spec => []ServerCommandsAsIssued
<1>1. ReliableInv => ServerCommandsAsIssued
  BY DEF ReliableInv, TakenOK, ServerCommandsAsIssued, Active
<1>2. QED
  BY <1>1, ReliableInvariant, PTL

\* The client has the commands issued before a snapshot before the snapshot
\* (SV_UpdateServerCommandsToClient, CL_ParseServerMessage).
THEOREM SnapshotsAfterCommands == Spec => []SnapshotAfterCommands
<1>1. ReliableInv => SnapshotAfterCommands
  BY DEF ReliableInv, TakenOK, SnapshotAfterCommands, Active
<1>2. QED
  BY <1>1, ReliableInvariant, PTL

\* Every message in flight is decoded with the key it was encoded with, unless
\* the command that is the key was replaced in its ring.
THEOREM BothEndsDeriveTheKey ==
    ASSUME ClientAhead <= MAX_RELIABLE_COMMANDS
    PROVE  Spec => []KeysAgree
<1>1. ReliableInv => KeysAgree
  BY InvKeysAgree DEF Fits
<1>2. QED
  BY <1>1, ReliableInvariant, PTL
=============================================================================
