------------------------- MODULE Snapshots_proofs -------------------------
(***************************************************************************)
(* Proofs about Snapshots, for rings of any size, any number of messages    *)
(* and any frames. The invariant says of each message in flight how it      *)
(* relates to what the two ends keep: the frame a delta was made from is in *)
(* the client's ring and will be until the delta arrives, and a message the *)
(* client has acknowledged is one both ends have, for as long as the server *)
(* may make a delta from it.                                                *)
(***************************************************************************)
EXTENDS Snapshots, NumberTheorems

Slots == 0 .. PACKET_BACKUP - 1

\* What the server may have built for a client.
Seen == Frames \cup {Nothing}

FrameRecord == [first_entity : Nat, entities : Seen]
ClientRecord == [outgoingSequence : Nat, deltaMessage : Int, frames : [Slots -> FrameRecord]]

\* The difference that brings a client from frame f to frame g.
Difference(f, g) ==
    [changed |-> [e \in {n \in DOMAIN g : ~ (n \in DOMAIN f /\ f[n] = g[n])} |-> g[e]],
     removed |-> DOMAIN f \ DOMAIN g]
Differences == {Difference(f, g) : f \in Seen, g \in Seen}

ToClientMessage == [messageNum : Nat, lastframe : Nat, entities : Differences, built : Seen]
ToServerMessage == [ack : Nat, delta : BOOLEAN]

\* No more than PARSE_MARGIN entities come into view before one that stays.
MarginSuffices ==
    \A f, g \in Frames : \A e \in DOMAIN f \cap DOMAIN g :
        Index(DOMAIN f, e) <= Index(DOMAIN g, e) + PARSE_MARGIN

\* A slot of the client's ring. A valid one is of the last PACKET_BACKUP messages.
SnapshotOK(r, s, c) ==
    /\ r \in [valid : BOOLEAN, messageNum : Nat, parseEntitiesNum : Nat,
              entities : {r.entities}, built : Seen]
    /\ r.messageNum <= c.snapMessageNum
    /\ r.parseEntitiesNum <= c.parseEntitiesNum
    /\ DOMAIN r.entities = DOMAIN r.built
    /\ r.valid =>
          /\ Slot(r.messageNum) = s
          /\ c.snapMessageNum < r.messageNum + PACKET_BACKUP
          /\ MarginSuffices => r.entities = r.built

ClOK(c) ==
    /\ c \in [serverMessageSequence : Nat, snapMessageNum : Nat, parseEntitiesNum : Nat,
              snapshots : {[s \in Slots |-> c.snapshots[s]]}]
    /\ c.snapMessageNum <= c.serverMessageSequence
    /\ \A s \in Slots : SnapshotOK(c.snapshots[s], s, c)

\* The client has the snapshot of message n.
Holds(c, n) == c.snapshots[Slot(n)].valid /\ c.snapshots[Slot(n)].messageNum = n

\* The server may still make a delta from message n.
Recent(sv, n) == sv.outgoingSequence - n < PACKET_BACKUP - DELTA_MARGIN

\* Message n is one that the client has had. While the server may make deltas from
\* it, both have the frame.
Base(sv, c, n) ==
    /\ n \in 1 .. c.snapMessageNum
    /\ Recent(sv, n) =>
          /\ Holds(c, n)
          /\ sv.frames[Slot(n)].entities = c.snapshots[Slot(n)].built

\* Messages as they may be in flight.
ToClientGood(sv, c) ==
    {p \in ToClientMessage :
        /\ c.serverMessageSequence < p.messageNum
        /\ p.messageNum < sv.outgoingSequence
        /\ Recent(sv, p.messageNum) => sv.frames[Slot(p.messageNum)].entities = p.built
        /\ p.lastframe = 0 => p.entities = Difference(Nothing, p.built)
        /\ p.lastframe # 0 =>
              /\ p.lastframe < PACKET_BACKUP - DELTA_MARGIN
              /\ DeltaNum(p) \in 1 .. c.snapMessageNum
              /\ Holds(c, DeltaNum(p))
              /\ p.entities = Difference(Old(c, p).built, p.built)}

ToServerGood(sv, c) == {p \in ToServerMessage : p.delta => Base(sv, c, p.ack)}

\* A queue of them: snapshots are numbered in the order they are sent.
Queue(Good) ==
    {q \in Seq(Good) : \A j, k \in 1 .. Len(q) : j < k => q[j].messageNum < q[k].messageNum}

EndsOK(sv, c, next) ==
    /\ sv \in ClientRecord
    /\ ClOK(c)
    /\ sv.outgoingSequence \in 1 .. MaxMessages + 1
    /\ c.serverMessageSequence < sv.outgoingSequence
    /\ sv.deltaMessage = -1 \/ Base(sv, c, sv.deltaMessage)
    /\ c.snapMessageNum = 0 \/ Base(sv, c, c.snapMessageNum)
    /\ \A s \in Slots : sv.frames[s].first_entity <= next
    /\ next \in Nat

\* What makes the safety of the snapshots inductive.
SnapshotsInv ==
    /\ EndsOK(client, cl, nextSnapshotEntities)
    /\ toClient \in Queue(ToClientGood(client, cl))
    /\ toServer \in Seq(ToServerGood(client, cl))

-----------------------------------------------------------------------------
(* Rings and frames *)

\* The constants as the proofs use them.
LEMMA Sizes ==
    /\ PACKET_BACKUP \in Nat \ {0}
    /\ DELTA_MARGIN \in Nat /\ PACKET_BACKUP > DELTA_MARGIN
    /\ numSnapshotEntities \in Nat /\ MAX_PARSE_ENTITIES \in Nat /\ PARSE_MARGIN \in Nat
    /\ MaxMessages \in Nat
<1>1. {PACKET_BACKUP, DELTA_MARGIN, numSnapshotEntities, MAX_PARSE_ENTITIES, PARSE_MARGIN,
       MaxMessages} \subseteq Nat
  BY SnapshotAssumption
<1>2. QED
  BY <1>1, SnapshotAssumption

\* A message has a slot of the ring.
LEMMA SlotType ==
    ASSUME NEW n \in Nat
    PROVE  Slot(n) \in Slots
  BY Sizes, RemainderType DEF Slot, Slots

\* Fewer than PACKET_BACKUP messages apart, two messages have different slots.
LEMMA SlotsDiffer ==
    ASSUME NEW i \in Nat, NEW k \in Nat, i < k, k < i + PACKET_BACKUP
    PROVE  Slot(i) # Slot(k)
  BY Sizes, RemaindersDiffer DEF Slot

\* PACKET_BACKUP messages later the slot is the same.
LEMMA SlotNext ==
    ASSUME NEW n \in Nat
    PROVE  Slot(n + PACKET_BACKUP) = Slot(n)
  BY Sizes, RemainderRepeats DEF Slot

\* A frame is a function on finitely many entities.
LEMMA FrameFacts ==
    ASSUME NEW f \in Seen
    PROVE  IsFiniteSet(DOMAIN f) /\ f = [e \in DOMAIN f |-> f[e]]
<1>1. CASE f \in Frames
  BY <1>1, SnapshotAssumption
<1>2. CASE f = Nothing
  <2>1. DOMAIN f = {} /\ f = [e \in {} |-> f[e]]
    BY <1>2 DEF Nothing
  <2>2. QED
    BY <2>1, FS_EmptySet
<1>3. QED
  BY <1>1, <1>2 DEF Seen

\* A frame without entities has none.
LEMMA NothingHasNone == DOMAIN Nothing = {}
  BY DEF Nothing

\* Where an entity stands in a frame is a natural number.
LEMMA IndexType ==
    ASSUME NEW S, IsFiniteSet(S), NEW e
    PROVE  Index(S, e) \in Nat
<1>1. IsFiniteSet({n \in S : n < e})
  BY FS_Subset
<1>2. QED
  BY <1>1, FS_CardinalityType DEF Index

-----------------------------------------------------------------------------
(* Deltas *)

\* What the server writes for a frame it still has is the difference: while the
\* frame's first entity is in the entity ring, all of it is.
LEMMA EmitsDifference ==
    ASSUME NEW from \in FrameRecord, NEW seen \in Seen, NEW next \in Nat,
           ~ OutOfDateEntities(from, next)
    PROVE  EmitPacketEntities(from, seen, next) = Difference(from.entities, seen)
<1>1. ASSUME NEW e PROVE ~ RolledOff(from, e, next)
  <2>1. Index(DOMAIN from.entities, e) \in Nat
    BY FrameFacts, IndexType DEF FrameRecord
  <2>2. QED
    BY <2>1, Sizes DEF RolledOff, OutOfDateEntities, FrameRecord
<1>2. QED
  BY <1>1 DEF EmitPacketEntities, LooksUnchanged, Difference

\* Without a frame to start from it is all of the new one.
LEMMA EmitsAll ==
    ASSUME NEW from, from.entities = Nothing, NEW seen, NEW next
    PROVE  EmitPacketEntities(from, seen, next) = Difference(Nothing, seen)
  BY NothingHasNone DEF EmitPacketEntities, LooksUnchanged, Difference

\* A client that applies the difference from frame f to frame g, to a snapshot with
\* the entities of f, gets the entities of g. Where it copies an entity state it
\* has still got it, if only so many entities come into view before that one.
LEMMA ParsesDifference ==
    ASSUME NEW c, NEW old, NEW p, NEW f \in Seen, NEW g \in Seen,
           p.entities = Difference(f, g), DOMAIN old.entities = DOMAIN f
    PROVE  /\ DOMAIN ParsePacketEntities(c, old, p) = DOMAIN g
           /\ /\ old.entities = f
              /\ \A e \in DOMAIN f \cap DOMAIN g : ~ Overwritten(c, old, DOMAIN g, e)
              => ParsePacketEntities(c, old, p) = g
<1>1. DOMAIN p.entities.changed = {n \in DOMAIN g : ~ (n \in DOMAIN f /\ f[n] = g[n])}
  BY DEF Difference
<1>2. \A e \in DOMAIN p.entities.changed : p.entities.changed[e] = g[e]
  BY DEF Difference
<1>3. p.entities.removed = DOMAIN f \ DOMAIN g
  BY DEF Difference
<1>4. ParsedNumbers(old, p) = DOMAIN g
  BY <1>1, <1>3 DEF ParsedNumbers
<1>5. DOMAIN ParsePacketEntities(c, old, p) = DOMAIN g
  BY <1>4 DEF ParsePacketEntities
<1>6. ASSUME old.entities = f,
             \A e \in DOMAIN f \cap DOMAIN g : ~ Overwritten(c, old, DOMAIN g, e)
      PROVE  ParsePacketEntities(c, old, p) = g
  <2>1. ASSUME NEW e \in DOMAIN g PROVE ParsePacketEntities(c, old, p)[e] = g[e]
    BY <1>1, <1>2, <1>4, <1>6, <2>1 DEF ParsePacketEntities
  <2>2. g = [e \in DOMAIN g |-> g[e]]
    BY FrameFacts
  <2>3. ParsePacketEntities(c, old, p) = [e \in DOMAIN g |-> ParsePacketEntities(c, old, p)[e]]
    BY <1>4 DEF ParsePacketEntities
  <2>4. QED
    BY <2>1, <2>2, <2>3
<1>7. QED
  BY <1>5, <1>6

\* The check on how far the client's entity ring has moved is enough for that.
LEMMA NotOverwritten ==
    ASSUME MarginSuffices, NEW c, NEW p, NEW f \in Seen, NEW g \in Seen,
           StillHave(c, p), c.parseEntitiesNum \in Nat, Old(c, p).parseEntitiesNum \in Nat,
           DOMAIN Old(c, p).entities = DOMAIN f
    PROVE  \A e \in DOMAIN f \cap DOMAIN g : ~ Overwritten(c, Old(c, p), DOMAIN g, e)
<1> SUFFICES ASSUME NEW e \in DOMAIN f \cap DOMAIN g
             PROVE  ~ Overwritten(c, Old(c, p), DOMAIN g, e)
  OBVIOUS
<1>1. f \in Frames /\ g \in Frames
  BY NothingHasNone DEF Seen
<1>2. Index(DOMAIN g, e) <= Index(DOMAIN f, e) + PARSE_MARGIN
  BY <1>1 DEF MarginSuffices
<1>3. Index(DOMAIN f, e) \in Nat /\ Index(DOMAIN g, e) \in Nat
  BY FrameFacts, IndexType
<1>4. QED
  BY <1>2, <1>3, Sizes DEF Overwritten, StillHave

-----------------------------------------------------------------------------
(* Queues *)

\* The next message of a queue is as good as the others.
LEMMA QueueHead ==
    ASSUME NEW Good, NEW q \in Queue(Good), q # << >>
    PROVE  Head(q) \in Good
<1>1. q \in Seq(Good)
  BY DEF Queue
<1>2. QED
  BY <1>1

\* What follows the first message is numbered higher.
LEMMA QueueTail ==
    ASSUME NEW Good, NEW q \in Queue(Good), q # << >>
    PROVE  Tail(q) \in Queue({p \in Good : Head(q).messageNum < p.messageNum})
<1> DEFINE later == {p \in Good : Head(q).messageNum < p.messageNum}
<1>1. q \in Seq(Good) /\ Len(q) \in Nat \ {0} /\ Head(q) = q[1] /\ Head(q) \in Good
  BY DEF Queue
<1>2. /\ Tail(q) \in Seq(Good) /\ Len(Tail(q)) = Len(q) - 1
      /\ \A k \in 1 .. Len(Tail(q)) : Tail(q)[k] = q[k + 1]
  BY <1>1
<1>3. \A k \in 1 .. Len(Tail(q)) : Tail(q)[k] \in later
  BY <1>1, <1>2 DEF Queue
<1>4. Tail(q) \in Seq(later)
  <2> DEFINE t == Tail(q)
  <2> HIDE DEF later, t
  <2>1. t \in Seq(Good) /\ \A k \in 1 .. Len(t) : t[k] \in later
    BY <1>2, <1>3 DEF t
  <2>2. t \in Seq(later)
    BY <2>1
  <2>3. QED
    BY <2>2 DEF t
<1>5. \A j, k \in 1 .. Len(Tail(q)) : j < k => Tail(q)[j].messageNum < Tail(q)[k].messageNum
  BY <1>1, <1>2 DEF Queue
<1>6. QED
  BY <1>4, <1>5 DEF Queue

\* A message numbered higher than any before goes to the end.
LEMMA QueueAppend ==
    ASSUME NEW Good, NEW q \in Queue(Good), NEW Better, Good \subseteq Better, NEW p \in Better,
           \A m \in Good : m.messageNum < p.messageNum
    PROVE  Append(q, p) \in Queue(Better)
<1>1. q \in Seq(Good) /\ Len(q) \in Nat /\ q \in Seq(Better)
  BY DEF Queue
<1>2. /\ Append(q, p) \in Seq(Better) /\ Len(Append(q, p)) = Len(q) + 1
      /\ \A k \in 1 .. Len(q) : Append(q, p)[k] = q[k] /\ q[k] \in Good
      /\ Append(q, p)[Len(q) + 1] = p
  BY <1>1
<1>3. ASSUME NEW j \in 1 .. Len(Append(q, p)), NEW k \in 1 .. Len(Append(q, p)), j < k
      PROVE  Append(q, p)[j].messageNum < Append(q, p)[k].messageNum
  <2>1. j \in 1 .. Len(q)
    BY <1>1, <1>2, <1>3
  <2>2. CASE k = Len(q) + 1
    BY <1>2, <2>1, <2>2
  <2>3. CASE k # Len(q) + 1
    <3>1. k \in 1 .. Len(q)
      BY <1>1, <1>2, <2>3
    <3>2. QED
      BY <1>2, <1>3, <2>1, <3>1 DEF Queue
  <2>4. QED
    BY <2>2, <2>3
<1>4. QED
  BY <1>2, <1>3 DEF Queue

\* A queue stays one as more messages count as good.
LEMMA QueueGrows ==
    ASSUME NEW Good, NEW q \in Queue(Good), NEW Better, Good \subseteq Better
    PROVE  q \in Queue(Better)
<1>1. q \in Seq(Good)
  BY DEF Queue
<1>2. q \in Seq(Better)
  BY <1>1
<1>3. QED
  BY <1>2 DEF Queue

-----------------------------------------------------------------------------
(* The server sends *)

\* What the ends know of each other.
LEMMA EndsFacts ==
    ASSUME NEW sv, NEW c, NEW next, EndsOK(sv, c, next)
    PROVE  /\ sv.outgoingSequence \in Nat /\ sv.deltaMessage \in Int
           /\ sv.frames \in [Slots -> FrameRecord]
           /\ c.serverMessageSequence \in Nat /\ c.snapMessageNum \in Nat
           /\ c.parseEntitiesNum \in Nat
           /\ c.snapMessageNum <= c.serverMessageSequence
           /\ c.serverMessageSequence < sv.outgoingSequence
  BY DEF EndsOK, ClOK, ClientRecord

\* The next frame goes to a slot from which no delta may be made.
LEMMA SendKeepsFrame ==
    ASSUME NEW sv \in ClientRecord, NEW n \in Nat, n < sv.outgoingSequence, NEW frame, NEW sv1,
           sv1.frames = [sv.frames EXCEPT ![Slot(sv.outgoingSequence)] = frame],
           Recent(sv, n)
    PROVE  sv1.frames[Slot(n)] = sv.frames[Slot(n)]
<1>1. sv.outgoingSequence \in Nat /\ sv.outgoingSequence < n + PACKET_BACKUP
  BY Sizes DEF ClientRecord, Recent
<1>2. Slot(sv.outgoingSequence) # Slot(n) /\ Slot(n) \in Slots
  BY <1>1, SlotsDiffer, SlotType
<1>3. sv.frames \in [Slots -> FrameRecord]
  BY DEF ClientRecord
<1>4. QED
  BY <1>2, <1>3

\* The state after the server has sent the frame.
Sent(sv, frame) ==
    [sv EXCEPT !.frames[Slot(sv.outgoingSequence)] = frame, !.outgoingSequence = @ + 1]

\* What a snapshot's number and frame change of client_t.
LEMMA SentFacts ==
    ASSUME NEW sv \in ClientRecord, NEW frame \in FrameRecord
    PROVE  /\ Sent(sv, frame) \in ClientRecord
           /\ Sent(sv, frame).outgoingSequence = sv.outgoingSequence + 1
           /\ Sent(sv, frame).deltaMessage = sv.deltaMessage
           /\ Sent(sv, frame).frames = [sv.frames EXCEPT ![Slot(sv.outgoingSequence)] = frame]
           /\ \A n \in Nat : Recent(Sent(sv, frame), n) => Recent(sv, n)
<1>1. /\ Sent(sv, frame) \in ClientRecord
      /\ Sent(sv, frame).outgoingSequence = sv.outgoingSequence + 1
      /\ Sent(sv, frame).deltaMessage = sv.deltaMessage
      /\ Sent(sv, frame).frames = [sv.frames EXCEPT ![Slot(sv.outgoingSequence)] = frame]
  <2> DEFINE o == sv.outgoingSequence
             Rings == [Slots -> FrameRecord]
             frames == [sv.frames EXCEPT ![Slot(o)] = frame]
             sent == [sv EXCEPT !.frames = frames, !.outgoingSequence = o + 1]
  <2>1. o \in Nat /\ o + 1 \in Nat /\ sv.frames \in Rings
    BY DEF ClientRecord
  <2>2. frames \in Rings
    BY <2>1
  <2>3. sv \in [outgoingSequence : Nat, deltaMessage : Int, frames : Rings]
    BY DEF ClientRecord
  <2>4. Sent(sv, frame) = sent
    BY DEF Sent
  <2> HIDE DEF frames, o, Rings
  <2>5. sent \in [outgoingSequence : Nat, deltaMessage : Int, frames : Rings]
    BY <2>1, <2>2, <2>3
  <2>6. sent.frames = frames /\ sent.outgoingSequence = o + 1 /\ sent.deltaMessage = sv.deltaMessage
    BY <2>1, <2>2, <2>3
  <2> HIDE DEF sent
  <2>7. QED
    BY <2>4, <2>5, <2>6 DEF ClientRecord, frames, o, Rings
<1>2. ASSUME NEW n \in Nat, Recent(Sent(sv, frame), n) PROVE Recent(sv, n)
  <2>1. sv.outgoingSequence \in Nat
    BY DEF ClientRecord
  <2>2. QED
    BY <1>1, <1>2, <2>1, Sizes DEF Recent
<1>3. QED
  BY <1>1, <1>2

\* A snapshot sent keeps what the invariant says of each side alone.
LEMMA SendKeepsBase ==
    ASSUME NEW sv, NEW c, NEW next, EndsOK(sv, c, next), NEW frame \in FrameRecord,
           NEW n, Base(sv, c, n)
    PROVE  Base(Sent(sv, frame), c, n)
<1>1. sv \in ClientRecord /\ n \in 1 .. c.snapMessageNum
  BY DEF EndsOK, Base
<1>2. n \in Nat /\ n < sv.outgoingSequence
  BY <1>1, EndsFacts
<1>3. ASSUME Recent(Sent(sv, frame), n)
      PROVE  Recent(sv, n) /\ Sent(sv, frame).frames[Slot(n)] = sv.frames[Slot(n)]
  <2>1. Recent(sv, n)
    BY <1>1, <1>2, <1>3, SentFacts
  <2>2. Sent(sv, frame).frames = [sv.frames EXCEPT ![Slot(sv.outgoingSequence)] = frame]
    BY <1>1, SentFacts
  <2> DEFINE sv1 == Sent(sv, frame)
  <2> HIDE DEF sv1
  <2>3. sv1.frames[Slot(n)] = sv.frames[Slot(n)]
    BY <1>1, <1>2, <2>1, <2>2, SendKeepsFrame DEF sv1
  <2>4. QED
    BY <2>1, <2>3 DEF sv1
<1>4. QED
  BY <1>1, <1>3 DEF Base

\* It keeps what it says of the messages under way, itself included.
LEMMA SendKeepsMessages ==
    ASSUME NEW sv, NEW c, NEW next, EndsOK(sv, c, next), NEW frame \in FrameRecord
    PROVE  /\ ToClientGood(sv, c) \subseteq ToClientGood(Sent(sv, frame), c)
           /\ ToServerGood(sv, c) \subseteq ToServerGood(Sent(sv, frame), c)
<1>1. sv \in ClientRecord
  BY DEF EndsOK
<1>2. ASSUME NEW p \in ToClientGood(sv, c) PROVE p \in ToClientGood(Sent(sv, frame), c)
  <2>1. p.messageNum \in Nat /\ p.messageNum < sv.outgoingSequence
    BY DEF ToClientGood, ToClientMessage
  <2>2. p.messageNum < Sent(sv, frame).outgoingSequence
    <3>1. sv.outgoingSequence \in Nat
      BY <1>1 DEF ClientRecord
    <3>2. Sent(sv, frame).outgoingSequence = sv.outgoingSequence + 1
      BY <1>1, SentFacts
    <3>3. QED
      BY <2>1, <3>1, <3>2
  <2>3. ASSUME Recent(Sent(sv, frame), p.messageNum)
        PROVE  Sent(sv, frame).frames[Slot(p.messageNum)].entities = p.built
    <3>1. Recent(sv, p.messageNum)
      BY <1>1, <2>1, <2>3, SentFacts
    <3>2. Sent(sv, frame).frames = [sv.frames EXCEPT ![Slot(sv.outgoingSequence)] = frame]
      BY <1>1, SentFacts
    <3>3. Sent(sv, frame).frames[Slot(p.messageNum)] = sv.frames[Slot(p.messageNum)]
      BY <1>1, <2>1, <3>1, <3>2, SendKeepsFrame
    <3>4. QED
      BY <3>1, <3>3 DEF ToClientGood
  <2>4. QED
    BY <2>2, <2>3 DEF ToClientGood
<1>3. ASSUME NEW p \in ToServerGood(sv, c) PROVE p \in ToServerGood(Sent(sv, frame), c)
  BY SendKeepsBase DEF ToServerGood
<1>4. QED
  BY <1>2, <1>3

\* The state in which the snapshot is written: the frame is stored, the message not
\* yet sent.
Built(sv, frame) == [sv EXCEPT !.frames[Slot(sv.outgoingSequence)] = frame]

\* What SV_BuildClientSnapshot changes of client_t.
LEMMA BuiltFacts ==
    ASSUME NEW sv \in ClientRecord, NEW frame \in FrameRecord
    PROVE  /\ Built(sv, frame).outgoingSequence = sv.outgoingSequence
           /\ Built(sv, frame).deltaMessage = sv.deltaMessage
           /\ Built(sv, frame).frames = [sv.frames EXCEPT ![Slot(sv.outgoingSequence)] = frame]
           /\ Built(sv, frame).frames \in [Slots -> FrameRecord]
           /\ [Built(sv, frame) EXCEPT !.outgoingSequence = @ + 1] = Sent(sv, frame)
<1> DEFINE o == sv.outgoingSequence
           frames == [sv.frames EXCEPT ![Slot(o)] = frame]
<1>1. sv.frames \in [Slots -> FrameRecord] /\ frames \in [Slots -> FrameRecord]
  BY DEF ClientRecord
<1>2. Built(sv, frame) = [sv EXCEPT !.frames = frames]
  BY DEF Built
<1> HIDE DEF frames, o
<1>3. /\ [sv EXCEPT !.frames = frames].outgoingSequence = sv.outgoingSequence
      /\ [sv EXCEPT !.frames = frames].deltaMessage = sv.deltaMessage
      /\ [sv EXCEPT !.frames = frames].frames = frames
  BY DEF ClientRecord
<1>4. [[sv EXCEPT !.frames = frames] EXCEPT !.outgoingSequence = @ + 1]
          = [sv EXCEPT !.frames = frames, !.outgoingSequence = @ + 1]
  BY DEF ClientRecord
<1>5. Sent(sv, frame) = [sv EXCEPT !.frames = frames, !.outgoingSequence = @ + 1]
  BY DEF Sent, frames, o
<1>6. QED
  BY <1>1, <1>2, <1>3, <1>4, <1>5 DEF frames, o

\* The snapshot the server writes: a delta is made from a frame that the client
\* holds and that has not been stored over, neither the frame nor its entities.
LEMMA WrittenGood ==
    ASSUME NEW sv, NEW c, NEW now, EndsOK(sv, c, now), NEW frame \in FrameRecord, NEW next \in Nat
    PROVE  /\ WriteSnapshot(Built(sv, frame), frame, next) \in ToClientGood(Sent(sv, frame), c)
           /\ WriteSnapshot(Built(sv, frame), frame, next).messageNum = sv.outgoingSequence
<1> DEFINE b == Built(sv, frame)
           s == Sent(sv, frame)
           o == sv.outgoingSequence
           p == WriteSnapshot(b, frame, next)
           d == sv.deltaMessage
<1>1. sv \in ClientRecord /\ frame.entities \in Seen
  BY DEF EndsOK, FrameRecord
<1>2. /\ o \in Nat /\ d \in Int /\ c.serverMessageSequence \in Nat /\ c.serverMessageSequence < o
      /\ c.snapMessageNum \in Nat /\ c.snapMessageNum <= c.serverMessageSequence
  BY EndsFacts
<1>3. /\ b.outgoingSequence = o /\ b.deltaMessage = d /\ b.frames \in [Slots -> FrameRecord]
      /\ b.frames = [sv.frames EXCEPT ![Slot(o)] = frame]
  BY <1>1, BuiltFacts
<1>4. s.outgoingSequence = o + 1 /\ s.frames = b.frames
  BY <1>1, <1>3, SentFacts
<1> HIDE DEF b, s, o, d
<1>5. s.frames[Slot(o)].entities = frame.entities
  <2>1. Slot(o) \in Slots /\ sv.frames \in [Slots -> FrameRecord]
    BY <1>1, <1>2, SlotType DEF ClientRecord
  <2>2. QED
    BY <1>3, <1>4, <2>1
<1>6. p.messageNum = o /\ p.built = frame.entities
  BY <1>3 DEF WriteSnapshot
<1>7. CASE ~ UsesDelta(b, next)
  <2>1. p.lastframe = 0
    BY <1>7 DEF WriteSnapshot
  <2>2. p.entities = Difference(Nothing, frame.entities)
    BY <1>7, EmitsAll DEF WriteSnapshot
  <2>3. p.entities \in Differences
    BY <1>1, <2>2 DEF Differences, Seen
  <2>4. p \in ToClientMessage
    BY <1>1, <1>2, <1>6, <2>1, <2>3 DEF ToClientMessage, WriteSnapshot
  <2> HIDE DEF p
  <2>5. c.serverMessageSequence < p.messageNum /\ p.messageNum < s.outgoingSequence
    BY <1>2, <1>4, <1>6
  <2>6. p \in ToClientGood(s, c)
    BY <1>5, <1>6, <2>1, <2>2, <2>4, <2>5 DEF ToClientGood
  <2>7. QED
    BY <1>6, <2>6 DEF b, s, o, p
<1>8. CASE UsesDelta(b, next)
  <2>1. d > 0 /\ o - d < PACKET_BACKUP - DELTA_MARGIN
        /\ ~ OutOfDateEntities(b.frames[Slot(d)], next)
    BY <1>2, <1>3, <1>8, Sizes DEF UsesDelta, OutOfDatePacket
  <2>2. Base(sv, c, d) /\ Recent(sv, d) /\ d \in Nat
    BY <1>2, <2>1 DEF EndsOK, Recent, d, o
  <2>3. /\ d \in 1 .. c.snapMessageNum /\ Holds(c, d)
        /\ sv.frames[Slot(d)].entities = c.snapshots[Slot(d)].built
    BY <2>2 DEF Base
  <2>4. d < o
    BY <1>2, <2>3
  <2>5. b.frames[Slot(d)] = sv.frames[Slot(d)] /\ b.frames[Slot(d)] \in FrameRecord
    <3>1. b.frames[Slot(d)] = sv.frames[Slot(d)]
      BY <1>1, <1>3, <2>2, <2>4, SendKeepsFrame DEF o
    <3>2. QED
      BY <1>3, <2>2, <3>1, SlotType
  <2>6. p.lastframe = o - d
    BY <1>3, <1>8 DEF WriteSnapshot
  <2>7. DeltaNum(p) = d /\ p.lastframe \in Nat /\ p.lastframe # 0
    BY <1>2, <1>6, <2>2, <2>4, <2>6 DEF DeltaNum
  <2>8. p.entities = EmitPacketEntities(b.frames[Slot(d)], frame.entities, next)
    BY <1>3, <1>8 DEF WriteSnapshot
  <2>9. p.entities = Difference(b.frames[Slot(d)].entities, frame.entities)
    BY <1>1, <2>1, <2>5, <2>8, EmitsDifference
  <2>10. p.entities \in Differences
    BY <1>1, <2>5, <2>9 DEF Differences, FrameRecord
  <2>11. p.entities = Difference(Old(c, p).built, p.built)
    BY <1>6, <2>3, <2>5, <2>7, <2>9 DEF Old
  <2>12. p \in ToClientMessage
    <3>1. p = [messageNum |-> p.messageNum, lastframe |-> p.lastframe,
               entities |-> p.entities, built |-> p.built]
      BY DEF WriteSnapshot
    <3> HIDE DEF p
    <3>2. QED
      BY <1>1, <1>2, <1>6, <2>7, <2>10, <3>1 DEF ToClientMessage
  <2> HIDE DEF p
  <2>13. p.lastframe < PACKET_BACKUP - DELTA_MARGIN
    BY <2>1, <2>6
  <2>14. c.serverMessageSequence < p.messageNum /\ p.messageNum < s.outgoingSequence
    BY <1>2, <1>4, <1>6
  <2>15. p \in ToClientGood(s, c)
    BY <1>5, <1>6, <2>3, <2>7, <2>11, <2>12, <2>13, <2>14 DEF ToClientGood
  <2>16. QED
    BY <1>6, <2>15 DEF b, s, o, p
<1>9. QED
  BY <1>7, <1>8

\* The actions that send: what is in flight, and what is known of it, goes on.
LEMMA SendClientSnapshotKeeps ==
    ASSUME SnapshotsInv, SendClientSnapshot
    PROVE  SnapshotsInv'
<1>1. PICK seen \in Frames :
        LET frame == BuildClientSnapshot(seen)
            next  == nextSnapshotEntities + Cardinality(DOMAIN seen)
            c     == [client EXCEPT !.frames[Slot(client.outgoingSequence)] = frame]
        IN  /\ next <= MaxEntities
            /\ nextSnapshotEntities' = next
            /\ toClient' = Append(toClient, WriteSnapshot(c, frame, next))
            /\ client' = [c EXCEPT !.outgoingSequence = @ + 1]
  BY DEF SendClientSnapshot
<1> DEFINE frame == BuildClientSnapshot(seen)
           next == nextSnapshotEntities + Cardinality(DOMAIN seen)
           p == WriteSnapshot(Built(client, frame), frame, next)
<1>2. EndsOK(client, cl, nextSnapshotEntities) /\ client \in ClientRecord /\ nextSnapshotEntities \in Nat
  BY DEF SnapshotsInv, EndsOK
<1>3. seen \in Seen /\ frame \in FrameRecord
  BY <1>2 DEF Seen, BuildClientSnapshot, FrameRecord
<1>4. next \in Nat /\ nextSnapshotEntities <= next
  <2>1. Cardinality(DOMAIN seen) \in Nat
    BY <1>3, FrameFacts, FS_CardinalityType
  <2>2. QED
    BY <1>2, <2>1
<1>5. /\ client' = Sent(client, frame) /\ nextSnapshotEntities' = next
      /\ toClient' = Append(toClient, p)
  <2>1. [Built(client, frame) EXCEPT !.outgoingSequence = @ + 1] = Sent(client, frame)
    BY <1>2, <1>3, BuiltFacts
  <2>2. QED
    BY <1>1, <2>1 DEF Built
<1>6. /\ Sent(client, frame) \in ClientRecord
      /\ Sent(client, frame).outgoingSequence = client.outgoingSequence + 1
      /\ Sent(client, frame).deltaMessage = client.deltaMessage
      /\ Sent(client, frame).frames = [client.frames EXCEPT ![Slot(client.outgoingSequence)] = frame]
  BY <1>2, <1>3, SentFacts
<1>7. UNCHANGED <<cl, toServer>> /\ client.outgoingSequence <= MaxMessages
  BY DEF SendClientSnapshot
<1>8. \A n : Base(client, cl, n) => Base(Sent(client, frame), cl, n)
  BY <1>2, <1>3, SendKeepsBase
<1>9. EndsOK(Sent(client, frame), cl, next)
  <2>1. Sent(client, frame).outgoingSequence \in 1 .. MaxMessages + 1
    BY <1>2, <1>6, <1>7, Sizes DEF ClientRecord
  <2>2. cl.serverMessageSequence < Sent(client, frame).outgoingSequence
    BY <1>2, <1>6, EndsFacts
  <2>3. ASSUME NEW s \in Slots PROVE Sent(client, frame).frames[s].first_entity <= next
    <3>1. client.frames \in [Slots -> FrameRecord] /\ client.frames[s].first_entity \in Nat
      BY <1>2 DEF ClientRecord, FrameRecord
    <3>2. client.frames[s].first_entity <= nextSnapshotEntities
      BY <1>2 DEF EndsOK
    <3>3. frame.first_entity = nextSnapshotEntities
      BY DEF BuildClientSnapshot
    <3>4. Sent(client, frame).frames[s] = IF s = Slot(client.outgoingSequence) THEN frame ELSE client.frames[s]
      BY <1>6, <3>1
    <3> HIDE DEF frame, next
    <3>5. QED
      BY <1>2, <1>4, <3>1, <3>2, <3>3, <3>4
  <2> HIDE DEF frame, next
  <2>4. QED
    BY <1>2, <1>4, <1>6, <1>8, <2>1, <2>2, <2>3 DEF EndsOK
<1>10. Append(toClient, p) \in Queue(ToClientGood(Sent(client, frame), cl))
  <2>1. p \in ToClientGood(Sent(client, frame), cl) /\ p.messageNum = client.outgoingSequence
    BY <1>2, <1>3, <1>4, WrittenGood
  <2>2. ToClientGood(client, cl) \subseteq ToClientGood(Sent(client, frame), cl)
    BY <1>2, <1>3, SendKeepsMessages
  <2>3. \A m \in ToClientGood(client, cl) : m.messageNum < p.messageNum
    BY <2>1 DEF ToClientGood
  <2>4. toClient \in Queue(ToClientGood(client, cl))
    BY DEF SnapshotsInv
  <2> HIDE DEF p
  <2>5. QED
    BY <2>1, <2>2, <2>3, <2>4, QueueAppend
<1>11. toServer \in Seq(ToServerGood(Sent(client, frame), cl))
  <2>1. ToServerGood(client, cl) \subseteq ToServerGood(Sent(client, frame), cl)
    BY <1>2, <1>3, SendKeepsMessages
  <2>2. toServer \in Seq(ToServerGood(client, cl))
    BY DEF SnapshotsInv
  <2>3. QED
    BY <2>1, <2>2
<1> HIDE DEF frame, next, p
<1>12. QED
  BY <1>5, <1>7, <1>9, <1>10, <1>11 DEF SnapshotsInv

\* The frames of others push the client's out of the ring, nothing else.
LEMMA SendToOthersKeeps ==
    ASSUME SnapshotsInv, SendToOthers
    PROVE  SnapshotsInv'
<1>1. PICK n \in OtherSizes : nextSnapshotEntities' = nextSnapshotEntities + n
  BY DEF SendToOthers
<1>2. n \in Nat /\ nextSnapshotEntities \in Nat
  BY SnapshotAssumption DEF SnapshotsInv, EndsOK
<1>3. \A s \in Slots : client.frames[s].first_entity \in Nat
  BY DEF SnapshotsInv, EndsOK, ClientRecord, FrameRecord
<1>4. EndsOK(client, cl, nextSnapshotEntities')
  BY <1>1, <1>2, <1>3 DEF SnapshotsInv, EndsOK
<1>5. QED
  BY <1>4 DEF SnapshotsInv, SendToOthers

\* The frame a move names, when it asks for a delta, is one that both ends have.
LEMMA UserMoveKeeps ==
    ASSUME SnapshotsInv, UserMove
    PROVE  SnapshotsInv'
<1> DEFINE p == Head(toServer)
           ack == IF p.delta THEN p.ack ELSE -1
<1>1. p \in ToServerGood(client, cl) /\ Tail(toServer) \in Seq(ToServerGood(client, cl))
  BY DEF SnapshotsInv, UserMove
<1>2. p.ack \in Nat /\ p.delta \in BOOLEAN /\ (p.delta => Base(client, cl, p.ack))
  BY <1>1 DEF ToServerGood, ToServerMessage
<1>3. client' = [client EXCEPT !.deltaMessage = ack] /\ client \in ClientRecord /\ ack \in Int
  BY <1>2 DEF UserMove, SnapshotsInv, EndsOK
<1>4. ack = -1 \/ Base(client, cl, ack)
  BY <1>2
<1> HIDE DEF p, ack
<1>5. /\ client' \in ClientRecord /\ client'.outgoingSequence = client.outgoingSequence
      /\ client'.frames = client.frames /\ client'.deltaMessage = ack
  BY <1>3 DEF ClientRecord
<1>6. \A n : Base(client', cl, n) <=> Base(client, cl, n)
  BY <1>5 DEF Base, Recent
<1>7. EndsOK(client', cl, nextSnapshotEntities)
  BY <1>4, <1>5, <1>6 DEF SnapshotsInv, EndsOK
<1>8. ToClientGood(client', cl) = ToClientGood(client, cl)
  BY <1>5 DEF ToClientGood, Recent
<1>9. ToServerGood(client', cl) = ToServerGood(client, cl)
  BY <1>6 DEF ToServerGood
<1>10. UNCHANGED <<nextSnapshotEntities, cl, toClient>> /\ toServer' = Tail(toServer)
  BY DEF UserMove
<1>11. QED
  BY <1>1, <1>7, <1>8, <1>9, <1>10 DEF SnapshotsInv

-----------------------------------------------------------------------------
(* The client receives *)

\* The state after the client has read the message.
Received(c, p) == [ParseSnapshot(c, p) EXCEPT !.serverMessageSequence = p.messageNum]

\* The snapshot that ParseSnapshot reads.
OldOf(c, p) == IF IsDelta(p) THEN Old(c, p) ELSE [parseEntitiesNum |-> 0, entities |-> Nothing]

Snap(c, p) == [valid |-> TRUE, messageNum |-> p.messageNum,
               parseEntitiesNum |-> c.parseEntitiesNum,
               entities |-> ParsePacketEntities(c, OldOf(c, p), p), built |-> p.built]

Dropped(c, p) == IsDelta(p) /\ ~ StillHave(c, p)

\* A message in flight is read as what it was made from.
LEMMA GoodMessage ==
    ASSUME NEW sv, NEW c, NEW next, EndsOK(sv, c, next), NEW p \in ToClientGood(sv, c)
    PROVE  /\ p.messageNum \in Nat /\ p.built \in Seen
           /\ c.snapMessageNum \in Nat /\ c.snapMessageNum < p.messageNum
           /\ c.serverMessageSequence < p.messageNum /\ p.messageNum < sv.outgoingSequence
           /\ IsDelta(p) <=> p.lastframe # 0
           /\ IsDelta(p) =>
                 /\ DeltaNum(p) \in 1 .. c.snapMessageNum
                 /\ p.messageNum < DeltaNum(p) + PACKET_BACKUP
                 /\ Holds(c, DeltaNum(p))
                 /\ p.entities = Difference(Old(c, p).built, p.built)
           /\ ~ IsDelta(p) => p.entities = Difference(Nothing, p.built)
<1>1. /\ p.messageNum \in Nat /\ p.lastframe \in Nat /\ p.built \in Seen
      /\ c.serverMessageSequence < p.messageNum /\ p.messageNum < sv.outgoingSequence
      /\ p.lastframe = 0 => p.entities = Difference(Nothing, p.built)
      /\ p.lastframe # 0 =>
            /\ p.lastframe < PACKET_BACKUP - DELTA_MARGIN
            /\ DeltaNum(p) \in 1 .. c.snapMessageNum
            /\ Holds(c, DeltaNum(p))
            /\ p.entities = Difference(Old(c, p).built, p.built)
  BY DEF ToClientGood, ToClientMessage
<1>2. c.snapMessageNum \in Nat /\ c.snapMessageNum <= c.serverMessageSequence
      /\ c.serverMessageSequence \in Nat
  BY EndsFacts
<1>3. IsDelta(p) <=> p.lastframe # 0
  BY <1>1, <1>2 DEF IsDelta
<1>4. p.lastframe # 0 => p.messageNum < DeltaNum(p) + PACKET_BACKUP
  BY <1>1, Sizes DEF DeltaNum
<1>5. QED
  BY <1>1, <1>2, <1>3, <1>4

\* The slot of a snapshot that the client has.
LEMMA HeldSlot ==
    ASSUME NEW sv, NEW c, NEW next, EndsOK(sv, c, next), NEW n \in Nat
    PROVE  SnapshotOK(c.snapshots[Slot(n)], Slot(n), c) /\ Slot(n) \in Slots
  BY SlotType DEF EndsOK, ClOK

\* What the client puts together from it.
LEMMA SnapIsBuilt ==
    ASSUME NEW sv, NEW c, NEW next, EndsOK(sv, c, next), NEW p \in ToClientGood(sv, c)
    PROVE  /\ DOMAIN Snap(c, p).entities = DOMAIN p.built
           /\ MarginSuffices /\ ~ Dropped(c, p) => Snap(c, p).entities = p.built
<1>1. p.built \in Seen /\ Snap(c, p).entities = ParsePacketEntities(c, OldOf(c, p), p)
  BY GoodMessage DEF Snap
<1>2. CASE ~ IsDelta(p)
  <2>1. p.entities = Difference(Nothing, p.built)
    BY <1>2, GoodMessage
  <2>2. OldOf(c, p).entities = Nothing
    BY <1>2 DEF OldOf
  <2>3. Nothing \in Seen
    BY DEF Seen
  <2>4. /\ DOMAIN ParsePacketEntities(c, OldOf(c, p), p) = DOMAIN p.built
        /\ ParsePacketEntities(c, OldOf(c, p), p) = p.built
    BY <1>1, <2>1, <2>2, <2>3, ParsesDifference, NothingHasNone
  <2>5. QED
    BY <1>1, <2>4
<1>3. CASE IsDelta(p)
  <2>1. /\ DeltaNum(p) \in 1 .. c.snapMessageNum /\ c.snapMessageNum \in Nat
        /\ Holds(c, DeltaNum(p))
        /\ p.entities = Difference(Old(c, p).built, p.built)
    BY <1>3, GoodMessage
  <2>2. SnapshotOK(Old(c, p), Slot(DeltaNum(p)), c)
    <3>1. DeltaNum(p) \in Nat
      BY <2>1
    <3>2. QED
      BY <3>1, HeldSlot DEF Old
  <2>3. /\ Old(c, p).built \in Seen /\ Old(c, p).parseEntitiesNum \in Nat
        /\ DOMAIN Old(c, p).entities = DOMAIN Old(c, p).built
    BY <2>2 DEF SnapshotOK
  <2>4. Old(c, p).valid
    BY <2>1 DEF Holds, Old
  <2>5. MarginSuffices => Old(c, p).entities = Old(c, p).built
    BY <2>2, <2>4 DEF SnapshotOK
  <2>6. OldOf(c, p) = Old(c, p)
    BY <1>3 DEF OldOf
  <2>7. DOMAIN ParsePacketEntities(c, Old(c, p), p) = DOMAIN p.built
    BY <1>1, <2>1, <2>3, ParsesDifference
  <2>8. ASSUME MarginSuffices, ~ Dropped(c, p)
        PROVE  ParsePacketEntities(c, Old(c, p), p) = p.built
    <3>1. StillHave(c, p)
      BY <1>3, <2>8 DEF Dropped
    <3>2. c.parseEntitiesNum \in Nat
      BY EndsFacts
    <3>3. \A e \in DOMAIN Old(c, p).built \cap DOMAIN p.built :
              ~ Overwritten(c, Old(c, p), DOMAIN p.built, e)
      BY <1>1, <2>3, <2>8, <3>1, <3>2, NotOverwritten
    <3>4. QED
      BY <1>1, <2>1, <2>3, <2>5, <2>8, <3>3, ParsesDifference
  <2>9. QED
    BY <1>1, <2>6, <2>7, <2>8
<1>4. QED
  BY <1>2, <1>3

\* A slot that is not cleared is one of no message since the last snapshot.
LEMMA NotSkipped ==
    ASSUME NEW sv, NEW c, NEW next, EndsOK(sv, c, next), NEW p \in ToClientGood(sv, c),
           NEW n \in Nat, n <= c.snapMessageNum, p.messageNum < n + PACKET_BACKUP
    PROVE  Slot(n) \notin Skipped(c, p) /\ Slot(n) # Slot(p.messageNum)
<1> DEFINE m == p.messageNum
           P == PACKET_BACKUP
           first == IF m - (c.snapMessageNum + 1) >= P THEN m - (P - 1) ELSE c.snapMessageNum + 1
<1>1. m \in Nat /\ c.snapMessageNum \in Nat /\ c.snapMessageNum < m /\ P \in Nat
  BY GoodMessage, Sizes
<1>2. first \in Nat /\ n < first
  BY <1>1
<1>3. ASSUME NEW k \in first .. m - 1 PROVE Slot(k) # Slot(n)
  <2>1. k \in Nat /\ n < k /\ k < n + P
    BY <1>1, <1>2
  <2>2. QED
    BY <2>1, SlotsDiffer
<1>4. Slot(m) # Slot(n)
  BY <1>1, SlotsDiffer
<1>5. Skipped(c, p) = {Slot(k) : k \in first .. m - 1}
  BY DEF Skipped
<1> HIDE DEF first, m, P
<1>6. QED
  BY <1>3, <1>4, <1>5 DEF m

\* A valid slot that is neither cleared nor stored to is of the last PACKET_BACKUP
\* messages still.
LEMMA SkippedCoversWindow ==
    ASSUME NEW sv, NEW c, NEW next, EndsOK(sv, c, next), NEW p \in ToClientGood(sv, c),
           NEW n \in Nat, n <= c.snapMessageNum, c.snapMessageNum < n + PACKET_BACKUP,
           Slot(n) \notin Skipped(c, p), Slot(n) # Slot(p.messageNum)
    PROVE  p.messageNum < n + PACKET_BACKUP
<1> DEFINE m == p.messageNum
           P == PACKET_BACKUP
           first == IF m - (c.snapMessageNum + 1) >= P THEN m - (P - 1) ELSE c.snapMessageNum + 1
<1>1. m \in Nat /\ c.snapMessageNum \in Nat /\ c.snapMessageNum < m /\ P \in Nat \ {0}
  BY GoodMessage, Sizes
<1>2. Skipped(c, p) = {Slot(k) : k \in first .. m - 1}
  BY DEF Skipped
<1> SUFFICES ASSUME m >= n + P PROVE FALSE
  BY <1>1
<1>3. CASE m - (c.snapMessageNum + 1) >= P
  <2>1. first = m - (P - 1) /\ m >= P
    BY <1>1, <1>3
  <2>2. Slot(n) \in 0 .. P - 1
    BY SlotType DEF Slots
  <2>3. PICK k \in m - (P - 1) .. m : k % P = Slot(n)
    BY <1>1, <2>1, <2>2, RemainderInWindow
  <2>4. Slot(k) = Slot(n)
    BY <2>3 DEF Slot
  <2>5. k # m
    BY <2>4
  <2>6. k \in first .. m - 1
    BY <1>1, <2>1, <2>3, <2>5
  <2> HIDE DEF first, m, P
  <2>7. QED
    BY <1>2, <2>4, <2>6
<1>4. CASE ~ (m - (c.snapMessageNum + 1) >= P)
  <2>1. Slot(n + P) = Slot(n)
    BY SlotNext
  <2>2. n + P # m
    BY <2>1
  <2>3. n + P \in first .. m - 1
    BY <1>1, <1>4, <2>2
  <2> HIDE DEF first, m, P
  <2>4. QED
    BY <1>2, <2>1, <2>3
<1>5. QED
  BY <1>3, <1>4

\* The client's record after the message.
LEMMA ReceivedFacts ==
    ASSUME NEW sv, NEW c, NEW next, EndsOK(sv, c, next), NEW p \in ToClientGood(sv, c)
    PROVE  LET d == Received(c, p)
           IN  /\ d \in [serverMessageSequence : Nat, snapMessageNum : Nat, parseEntitiesNum : Nat,
                         snapshots : {[s \in Slots |-> d.snapshots[s]]}]
               /\ d.serverMessageSequence = p.messageNum
               /\ c.parseEntitiesNum <= d.parseEntitiesNum
               /\ Dropped(c, p) => d.snapMessageNum = c.snapMessageNum /\ d.snapshots = c.snapshots
               /\ ~ Dropped(c, p) =>
                     /\ d.snapMessageNum = p.messageNum
                     /\ \A s \in Slots :
                           d.snapshots[s] = IF s = Slot(p.messageNum) THEN Snap(c, p)
                                            ELSE IF s \in Skipped(c, p)
                                            THEN [c.snapshots[s] EXCEPT !.valid = FALSE]
                                            ELSE c.snapshots[s]
<1> DEFINE d == Received(c, p)
           n == Cardinality(DOMAIN Snap(c, p).entities)
           stored == [ClearSkipped(c, p) EXCEPT ![Slot(p.messageNum)] = Snap(c, p)]
           total == c.parseEntitiesNum + n
           R(snapshots) == [serverMessageSequence : Nat, snapMessageNum : Nat,
                            parseEntitiesNum : Nat, snapshots : {snapshots}]
<1>1. c \in R(c.snapshots) /\ c.snapshots = [s \in Slots |-> c.snapshots[s]]
  BY DEF EndsOK, ClOK
<1>2. p.messageNum \in Nat /\ p.built \in Seen
  BY GoodMessage
<1>3. n \in Nat
  <2>1. DOMAIN Snap(c, p).entities = DOMAIN p.built
    BY SnapIsBuilt
  <2>2. QED
    BY <1>2, <2>1, FrameFacts, FS_CardinalityType
<1>4. d = [IF Dropped(c, p) THEN [c EXCEPT !.parseEntitiesNum = total]
           ELSE [c EXCEPT !.parseEntitiesNum = total,
                          !.snapMessageNum = p.messageNum, !.snapshots = stored]
             EXCEPT !.serverMessageSequence = p.messageNum]
  <2> DEFINE read == [c EXCEPT !.parseEntitiesNum = @ + n]
  <2>1. ParseSnapshot(c, p) = IF Dropped(c, p) THEN read
                              ELSE [read EXCEPT !.snapMessageNum = p.messageNum, !.snapshots = stored]
    BY DEF ParseSnapshot, Snap, OldOf, Dropped
  <2> HIDE DEF n, stored
  <2>2. [read EXCEPT !.snapMessageNum = p.messageNum, !.snapshots = stored]
            = [c EXCEPT !.parseEntitiesNum = total,
                        !.snapMessageNum = p.messageNum, !.snapshots = stored]
    BY <1>1
  <2>3. QED
    BY <2>1, <2>2 DEF Received
<1>5. DOMAIN ClearSkipped(c, p) = Slots
  BY <1>1 DEF ClearSkipped
<1>6. /\ stored = [s \in Slots |-> stored[s]]
      /\ \A s \in Slots : stored[s] = IF s = Slot(p.messageNum) THEN Snap(c, p)
                                      ELSE IF s \in Skipped(c, p)
                                      THEN [c.snapshots[s] EXCEPT !.valid = FALSE]
                                      ELSE c.snapshots[s]
  BY <1>5 DEF ClearSkipped
<1>7. total \in Nat /\ c.parseEntitiesNum <= total
  BY <1>1, <1>3
<1> HIDE DEF n, stored, d, total
<1>8. CASE Dropped(c, p)
  <2> DEFINE r == [[c EXCEPT !.parseEntitiesNum = total] EXCEPT !.serverMessageSequence = p.messageNum]
  <2>1. d = r
    BY <1>4, <1>8
  <2>2. r \in R(c.snapshots)
    BY <1>1, <1>2, <1>7
  <2>3. /\ r.serverMessageSequence = p.messageNum /\ r.parseEntitiesNum = total
        /\ r.snapMessageNum = c.snapMessageNum /\ r.snapshots = c.snapshots
    BY <1>1
  <2> HIDE DEF r
  <2>4. r \in R([s \in Slots |-> r.snapshots[s]])
    BY <1>1, <2>2, <2>3
  <2>5. QED
    BY <1>7, <1>8, <2>1, <2>3, <2>4 DEF d
<1>9. CASE ~ Dropped(c, p)
  <2> DEFINE r == [[c EXCEPT !.parseEntitiesNum = total,
                             !.snapMessageNum = p.messageNum, !.snapshots = stored]
                      EXCEPT !.serverMessageSequence = p.messageNum]
  <2>1. d = r
    BY <1>4, <1>9
  <2>2. r \in R(stored)
    BY <1>1, <1>2, <1>7
  <2>3. /\ r.serverMessageSequence = p.messageNum /\ r.parseEntitiesNum = total
        /\ r.snapMessageNum = p.messageNum /\ r.snapshots = stored
    BY <1>1
  <2> HIDE DEF r
  <2>4. r \in R([s \in Slots |-> r.snapshots[s]])
    BY <1>6, <2>2, <2>3
  <2>5. QED
    BY <1>6, <1>7, <1>9, <2>1, <2>3, <2>4 DEF d
<1>10. QED
  BY <1>8, <1>9

\* The ends are then as they should be.
LEMMA ReceivedClOK ==
    ASSUME NEW sv, NEW c, NEW next, EndsOK(sv, c, next), NEW p \in ToClientGood(sv, c)
    PROVE  ClOK(Received(c, p))
<1> DEFINE d == Received(c, p)
<1>1. /\ d \in [serverMessageSequence : Nat, snapMessageNum : Nat, parseEntitiesNum : Nat,
                snapshots : {[s \in Slots |-> d.snapshots[s]]}]
      /\ d.serverMessageSequence = p.messageNum
      /\ c.parseEntitiesNum <= d.parseEntitiesNum
      /\ Dropped(c, p) => d.snapMessageNum = c.snapMessageNum /\ d.snapshots = c.snapshots
      /\ ~ Dropped(c, p) =>
            /\ d.snapMessageNum = p.messageNum
            /\ \A s \in Slots :
                  d.snapshots[s] = IF s = Slot(p.messageNum) THEN Snap(c, p)
                                   ELSE IF s \in Skipped(c, p)
                                   THEN [c.snapshots[s] EXCEPT !.valid = FALSE]
                                   ELSE c.snapshots[s]
  BY ReceivedFacts
<1> HIDE DEF d
<1>2. /\ p.messageNum \in Nat /\ p.built \in Seen
      /\ c.snapMessageNum \in Nat /\ c.snapMessageNum < p.messageNum
  BY GoodMessage
<1>3. c.parseEntitiesNum \in Nat /\ d.parseEntitiesNum \in Nat /\ d.snapMessageNum \in Nat
  BY <1>1, EndsFacts
<1>4. d.snapMessageNum <= d.serverMessageSequence /\ c.snapMessageNum <= d.snapMessageNum
  BY <1>1, <1>2
<1>5. ASSUME NEW s \in Slots PROVE SnapshotOK(d.snapshots[s], s, d)
  <2> DEFINE r == c.snapshots[s]
  <2>1. SnapshotOK(r, s, c)
    BY DEF EndsOK, ClOK
  <2> HIDE DEF r
  <2>2. r \in [valid : BOOLEAN, messageNum : Nat, parseEntitiesNum : Nat,
               entities : {r.entities}, built : Seen]
    BY <2>1 DEF SnapshotOK
  <2>3. CASE Dropped(c, p)
    <3>1. d.snapshots[s] = r /\ d.snapMessageNum = c.snapMessageNum
      BY <1>1, <2>3 DEF r
    <3>2. QED
      BY <1>1, <1>3, <2>1, <2>2, <3>1 DEF SnapshotOK
  <2>4. CASE ~ Dropped(c, p) /\ s = Slot(p.messageNum)
    <3>1. d.snapshots[s] = Snap(c, p) /\ d.snapMessageNum = p.messageNum
      BY <1>1, <2>4
    <3>2. /\ DOMAIN Snap(c, p).entities = DOMAIN p.built
          /\ MarginSuffices => Snap(c, p).entities = p.built
      BY <2>4, SnapIsBuilt
    <3>3. /\ Snap(c, p).valid = TRUE /\ Snap(c, p).messageNum = p.messageNum
          /\ Snap(c, p).parseEntitiesNum = c.parseEntitiesNum /\ Snap(c, p).built = p.built
      BY DEF Snap
    <3>4. Snap(c, p) \in [valid : BOOLEAN, messageNum : Nat, parseEntitiesNum : Nat,
                          entities : {Snap(c, p).entities}, built : Seen]
      BY <1>2, <1>3 DEF Snap
    <3>5. QED
      BY <1>1, <1>2, <1>3, <2>4, <3>1, <3>2, <3>3, <3>4, Sizes DEF SnapshotOK
  <2>5. CASE ~ Dropped(c, p) /\ s # Slot(p.messageNum) /\ s \in Skipped(c, p)
    <3>1. d.snapshots[s] = [r EXCEPT !.valid = FALSE] /\ d.snapMessageNum = p.messageNum
      BY <1>1, <2>5 DEF r
    <3>2. /\ [r EXCEPT !.valid = FALSE] \in [valid : BOOLEAN, messageNum : Nat, parseEntitiesNum : Nat,
                                             entities : {r.entities}, built : Seen]
          /\ [r EXCEPT !.valid = FALSE].valid = FALSE
          /\ [r EXCEPT !.valid = FALSE].messageNum = r.messageNum
          /\ [r EXCEPT !.valid = FALSE].parseEntitiesNum = r.parseEntitiesNum
          /\ [r EXCEPT !.valid = FALSE].entities = r.entities
          /\ [r EXCEPT !.valid = FALSE].built = r.built
      BY <2>2
    <3>3. /\ r.messageNum \in Nat /\ r.messageNum <= c.snapMessageNum
          /\ r.parseEntitiesNum \in Nat /\ r.parseEntitiesNum <= c.parseEntitiesNum
          /\ DOMAIN r.entities = DOMAIN r.built
      BY <2>1 DEF SnapshotOK
    <3>4. QED
      BY <1>1, <1>2, <1>3, <3>1, <3>2, <3>3 DEF SnapshotOK
  <2>6. CASE ~ Dropped(c, p) /\ s # Slot(p.messageNum) /\ s \notin Skipped(c, p)
    <3>1. d.snapshots[s] = r /\ d.snapMessageNum = p.messageNum
      BY <1>1, <2>6 DEF r
    <3>2. ASSUME r.valid PROVE p.messageNum < r.messageNum + PACKET_BACKUP
      <4>1. /\ r.messageNum \in Nat /\ r.messageNum <= c.snapMessageNum /\ Slot(r.messageNum) = s
            /\ c.snapMessageNum < r.messageNum + PACKET_BACKUP
        BY <2>1, <3>2 DEF SnapshotOK
      <4>2. QED
        BY <2>6, <4>1, SkippedCoversWindow
    <3>3. QED
      BY <1>1, <1>2, <1>3, <2>1, <2>2, <3>1, <3>2 DEF SnapshotOK
  <2>7. QED
    BY <2>3, <2>4, <2>5, <2>6
<1>6. QED
  BY <1>1, <1>4, <1>5 DEF ClOK, d

\* What the ring holds after a snapshot that was not dropped.
LEMMA ReceivedSlots ==
    ASSUME NEW sv, NEW c, NEW next, EndsOK(sv, c, next), NEW p \in ToClientGood(sv, c),
           ~ Dropped(c, p), NEW s \in Slots
    PROVE  /\ s = Slot(p.messageNum) => Received(c, p).snapshots[s] = Snap(c, p)
           /\ s # Slot(p.messageNum) /\ s \notin Skipped(c, p)
                 => Received(c, p).snapshots[s] = c.snapshots[s]
<1>1. \A t \in Slots :
        Received(c, p).snapshots[t] = IF t = Slot(p.messageNum) THEN Snap(c, p)
                                      ELSE IF t \in Skipped(c, p)
                                      THEN [c.snapshots[t] EXCEPT !.valid = FALSE]
                                      ELSE c.snapshots[t]
  BY ReceivedFacts
<1>2. Received(c, p).snapshots[s] = IF s = Slot(p.messageNum) THEN Snap(c, p)
                                    ELSE IF s \in Skipped(c, p)
                                    THEN [c.snapshots[s] EXCEPT !.valid = FALSE]
                                    ELSE c.snapshots[s]
  BY <1>1
<1>3. QED
  BY <1>2

\* A snapshot from which a delta may still come is left alone.
LEMMA ReceiveKeepsHeld ==
    ASSUME NEW sv, NEW c, NEW next, EndsOK(sv, c, next), NEW p \in ToClientGood(sv, c),
           NEW n \in Nat, Holds(c, n), p.messageNum < n + PACKET_BACKUP
    PROVE  /\ Received(c, p).snapshots[Slot(n)] = c.snapshots[Slot(n)]
           /\ Holds(Received(c, p), n)
<1>1. SnapshotOK(c.snapshots[Slot(n)], Slot(n), c) /\ Slot(n) \in Slots
  BY HeldSlot
<1>2. n <= c.snapMessageNum
  BY <1>1 DEF Holds, SnapshotOK
<1>3. Slot(n) \notin Skipped(c, p) /\ Slot(n) # Slot(p.messageNum)
  BY <1>2, NotSkipped
<1>4. Received(c, p).snapshots[Slot(n)] = c.snapshots[Slot(n)]
  <2>1. CASE Dropped(c, p)
    <3>1. Received(c, p).snapshots = c.snapshots
      BY <2>1, ReceivedFacts
    <3>2. QED
      BY <3>1
  <2>2. CASE ~ Dropped(c, p)
    BY <1>1, <1>3, <2>2, ReceivedSlots
  <2>3. QED
    BY <2>1, <2>2
<1>5. QED
  BY <1>4 DEF Holds

\* A message received keeps what the invariant says of each side alone.
LEMMA ReceiveKeepsBase ==
    ASSUME NEW sv, NEW c, NEW next, EndsOK(sv, c, next), NEW p \in ToClientGood(sv, c),
           NEW n, Base(sv, c, n)
    PROVE  Base(sv, Received(c, p), n)
<1>1. /\ p.messageNum \in Nat /\ p.messageNum < sv.outgoingSequence
      /\ c.snapMessageNum \in Nat /\ c.snapMessageNum < p.messageNum
  BY GoodMessage
<1>2. n \in 1 .. c.snapMessageNum /\ n \in Nat
  BY <1>1 DEF Base
<1>3. n \in 1 .. Received(c, p).snapMessageNum
  <2>1. Received(c, p).snapMessageNum \in {c.snapMessageNum, p.messageNum}
    BY ReceivedFacts
  <2>2. QED
    BY <1>1, <1>2, <2>1
<1>4. ASSUME Recent(sv, n) PROVE p.messageNum < n + PACKET_BACKUP
  <2>1. sv.outgoingSequence \in Nat
    BY EndsFacts
  <2>2. QED
    BY <1>1, <1>2, <1>4, <2>1, Sizes DEF Recent
<1>5. QED
  BY <1>2, <1>3, <1>4, ReceiveKeepsHeld DEF Base

\* The snapshot just read is one that both ends have.
LEMMA ReceivedIsBase ==
    ASSUME NEW sv, NEW c, NEW next, EndsOK(sv, c, next), NEW p \in ToClientGood(sv, c),
           ~ Dropped(c, p)
    PROVE  Base(sv, Received(c, p), p.messageNum)
<1>1. /\ p.messageNum \in Nat /\ c.snapMessageNum \in Nat /\ c.snapMessageNum < p.messageNum
      /\ Recent(sv, p.messageNum) => sv.frames[Slot(p.messageNum)].entities = p.built
  BY GoodMessage DEF ToClientGood
<1>2. Received(c, p).snapMessageNum = p.messageNum
  BY ReceivedFacts
<1>3. Received(c, p).snapshots[Slot(p.messageNum)] = Snap(c, p)
  BY <1>1, ReceivedSlots, SlotType
<1>4. Snap(c, p).valid /\ Snap(c, p).messageNum = p.messageNum /\ Snap(c, p).built = p.built
  BY DEF Snap
<1>5. QED
  BY <1>1, <1>2, <1>3, <1>4 DEF Base, Holds

\* So are the messages behind it as they should be.
LEMMA ReceiveKeepsMessages ==
    ASSUME NEW sv, NEW c, NEW next, EndsOK(sv, c, next), NEW p \in ToClientGood(sv, c)
    PROVE  /\ {m \in ToClientGood(sv, c) : p.messageNum < m.messageNum}
                  \subseteq ToClientGood(sv, Received(c, p))
           /\ ToServerGood(sv, c) \subseteq ToServerGood(sv, Received(c, p))
<1>1. ASSUME NEW m \in ToClientGood(sv, c), p.messageNum < m.messageNum
      PROVE  m \in ToClientGood(sv, Received(c, p))
  <2>1. Received(c, p).serverMessageSequence < m.messageNum
    BY <1>1, ReceivedFacts
  <2>2. ASSUME m.lastframe # 0
        PROVE  /\ DeltaNum(m) \in 1 .. Received(c, p).snapMessageNum
               /\ Holds(Received(c, p), DeltaNum(m))
               /\ Old(Received(c, p), m) = Old(c, m)
    <3>1. /\ DeltaNum(m) \in 1 .. c.snapMessageNum /\ c.snapMessageNum \in Nat
          /\ m.messageNum < DeltaNum(m) + PACKET_BACKUP /\ m.messageNum \in Nat
          /\ Holds(c, DeltaNum(m))
      BY <2>2, GoodMessage
    <3>2. p.messageNum \in Nat /\ c.snapMessageNum < p.messageNum
      BY GoodMessage
    <3>3. DeltaNum(m) \in Nat /\ p.messageNum < DeltaNum(m) + PACKET_BACKUP
      BY <1>1, <3>1, <3>2, Sizes
    <3>4. Received(c, p).snapMessageNum \in {c.snapMessageNum, p.messageNum}
      BY ReceivedFacts
    <3>5. DeltaNum(m) \in 1 .. Received(c, p).snapMessageNum
      BY <3>1, <3>2, <3>4
    <3>6. QED
      BY <3>1, <3>3, <3>5, ReceiveKeepsHeld DEF Old
  <2>3. QED
    BY <2>1, <2>2 DEF ToClientGood
<1>2. ASSUME NEW m \in ToServerGood(sv, c) PROVE m \in ToServerGood(sv, Received(c, p))
  BY ReceiveKeepsBase DEF ToServerGood
<1>3. QED
  BY <1>1, <1>2

\* CL_ParseSnapshot keeps the invariant.
LEMMA ReceiveSnapshotKeeps ==
    ASSUME SnapshotsInv, ReceiveSnapshot
    PROVE  SnapshotsInv'
<1> DEFINE p == Head(toClient)
<1>1. /\ cl' = Received(cl, p) /\ toClient' = Tail(toClient)
      /\ UNCHANGED <<client, nextSnapshotEntities, toServer>>
  BY DEF ReceiveSnapshot, Received
<1>2. /\ EndsOK(client, cl, nextSnapshotEntities)
      /\ toClient \in Queue(ToClientGood(client, cl))
      /\ toServer \in Seq(ToServerGood(client, cl))
  BY DEF SnapshotsInv
<1>3. p \in ToClientGood(client, cl)
  BY <1>2, QueueHead DEF ReceiveSnapshot
<1>4. Tail(toClient) \in Queue({m \in ToClientGood(client, cl) : p.messageNum < m.messageNum})
  BY <1>2, QueueTail DEF ReceiveSnapshot
<1> HIDE DEF p
<1>5. ClOK(Received(cl, p))
  BY <1>2, <1>3, ReceivedClOK
<1>6. /\ p.messageNum < client.outgoingSequence
      /\ Received(cl, p).serverMessageSequence = p.messageNum
      /\ Dropped(cl, p) => Received(cl, p).snapMessageNum = cl.snapMessageNum
      /\ ~ Dropped(cl, p) => Received(cl, p).snapMessageNum = p.messageNum
  BY <1>2, <1>3, GoodMessage, ReceivedFacts
<1>7. \A n : Base(client, cl, n) => Base(client, Received(cl, p), n)
  BY <1>2, <1>3, ReceiveKeepsBase
<1>8. Received(cl, p).snapMessageNum = 0 \/ Base(client, Received(cl, p), Received(cl, p).snapMessageNum)
  <2>1. CASE Dropped(cl, p)
    BY <1>2, <1>6, <1>7, <2>1 DEF EndsOK
  <2>2. CASE ~ Dropped(cl, p)
    BY <1>2, <1>3, <1>6, <2>2, ReceivedIsBase
  <2>3. QED
    BY <2>1, <2>2
<1>9. EndsOK(client, Received(cl, p), nextSnapshotEntities)
  BY <1>2, <1>5, <1>6, <1>7, <1>8 DEF EndsOK
<1>10. /\ {m \in ToClientGood(client, cl) : p.messageNum < m.messageNum}
             \subseteq ToClientGood(client, Received(cl, p))
       /\ ToServerGood(client, cl) \subseteq ToServerGood(client, Received(cl, p))
  BY <1>2, <1>3, ReceiveKeepsMessages
<1>11. Tail(toClient) \in Queue(ToClientGood(client, Received(cl, p)))
  BY <1>4, <1>10, QueueGrows
<1>12. toServer \in Seq(ToServerGood(client, Received(cl, p)))
  BY <1>2, <1>10
<1>13. QED
  BY <1>1, <1>9, <1>11, <1>12 DEF SnapshotsInv

\* The client asks for a delta from the last message only if that is its snapshot.
LEMMA WritePacketKeeps ==
    ASSUME SnapshotsInv, WritePacket
    PROVE  SnapshotsInv'
<1> DEFINE p == [ack |-> cl.serverMessageSequence, delta |-> AsksForDelta(cl)]
<1>1. /\ EndsOK(client, cl, nextSnapshotEntities)
      /\ toServer \in Seq(ToServerGood(client, cl))
  BY DEF SnapshotsInv
<1>2. cl.serverMessageSequence \in Nat /\ cl.snapMessageNum \in Nat
  BY <1>1, EndsFacts
<1>3. p \in ToServerMessage
  BY <1>2 DEF ToServerMessage, AsksForDelta
<1>4. p.delta => Base(client, cl, p.ack)
  <2>1. cl.snapMessageNum = 0 \/ Base(client, cl, cl.snapMessageNum)
    BY <1>1 DEF EndsOK
  <2>2. ASSUME AsksForDelta(cl) PROVE Base(client, cl, cl.serverMessageSequence)
    BY <1>2, <2>1, <2>2 DEF AsksForDelta
  <2>3. QED
    BY <2>2
<1>5. p \in ToServerGood(client, cl)
  BY <1>3, <1>4 DEF ToServerGood
<1>6. toServer' = Append(toServer, p) /\ UNCHANGED <<client, nextSnapshotEntities, cl, toClient>>
  BY DEF WritePacket
<1> HIDE DEF p
<1>7. toServer' \in Seq(ToServerGood(client, cl))
  BY <1>1, <1>5, <1>6
<1>8. QED
  BY <1>6, <1>7 DEF SnapshotsInv

\* Messages that are lost are missed by nobody.
LEMMA LoseKeeps ==
    ASSUME SnapshotsInv, LoseToClient \/ LoseToServer
    PROVE  SnapshotsInv'
<1>1. CASE LoseToClient
  <2> DEFINE later == {m \in ToClientGood(client, cl) : Head(toClient).messageNum < m.messageNum}
  <2>1. toClient \in Queue(ToClientGood(client, cl)) /\ toClient # << >>
    BY <1>1 DEF SnapshotsInv, LoseToClient
  <2>2. Tail(toClient) \in Queue(later)
    BY <2>1, QueueTail
  <2>3. later \subseteq ToClientGood(client, cl)
    OBVIOUS
  <2> HIDE DEF later
  <2>4. Tail(toClient) \in Queue(ToClientGood(client, cl))
    BY <2>2, <2>3, QueueGrows
  <2>5. QED
    BY <1>1, <2>4 DEF SnapshotsInv, LoseToClient
<1>2. CASE LoseToServer
  <2>1. Tail(toServer) \in Seq(ToServerGood(client, cl))
    BY <1>2 DEF SnapshotsInv, LoseToServer
  <2>2. QED
    BY <1>2, <2>1 DEF SnapshotsInv, LoseToServer
<1>3. QED
  BY <1>1, <1>2

-----------------------------------------------------------------------------
(* The invariant *)

\* The invariant holds at first.
LEMMA SnapshotsStart == Init => SnapshotsInv
<1> SUFFICES ASSUME Init PROVE SnapshotsInv
  OBVIOUS
<1> DEFINE frame == [first_entity |-> 0, entities |-> Nothing]
           none == [valid |-> FALSE, messageNum |-> 0, parseEntitiesNum |-> 0,
                    entities |-> Nothing, built |-> Nothing]
<1>1. frame \in FrameRecord
  BY DEF FrameRecord, Seen
<1>2. client.frames = [s \in Slots |-> frame] /\ client \in ClientRecord
  BY <1>1 DEF Init, Ring, Slots, ClientRecord
<1>3. cl.snapshots = [s \in Slots |-> none] /\ cl.snapMessageNum = 0
      /\ cl.serverMessageSequence = 0 /\ cl.parseEntitiesNum = 0
  BY DEF Init, Ring, Slots
<1>4. ASSUME NEW s \in Slots PROVE SnapshotOK(cl.snapshots[s], s, cl)
  <2>1. cl.snapshots[s] = none
    BY <1>3
  <2>2. none \in [valid : BOOLEAN, messageNum : Nat, parseEntitiesNum : Nat,
                  entities : {none.entities}, built : Seen]
    BY DEF Seen
  <2>3. QED
    BY <1>3, <2>1, <2>2 DEF SnapshotOK
<1>5. ClOK(cl)
  <2>1. cl \in [serverMessageSequence : Nat, snapMessageNum : Nat, parseEntitiesNum : Nat,
                snapshots : {[s \in Slots |-> cl.snapshots[s]]}]
    BY DEF Init, Ring, Slots
  <2>2. cl.snapMessageNum <= cl.serverMessageSequence
    BY <1>3
  <2> HIDE DEF none
  <2>3. QED
    BY <1>4, <2>1, <2>2 DEF ClOK
<1>6. EndsOK(client, cl, nextSnapshotEntities)
  <2>1. client.outgoingSequence = 1 /\ client.deltaMessage = -1 /\ nextSnapshotEntities = 0
    BY DEF Init
  <2>2. \A s \in Slots : client.frames[s].first_entity = 0
    BY <1>2
  <2>3. QED
    BY <1>2, <1>3, <1>5, <2>1, <2>2, Sizes DEF EndsOK
<1>7. toClient \in Queue(ToClientGood(client, cl)) /\ toServer \in Seq(ToServerGood(client, cl))
  BY DEF Init, Queue
<1>8. QED
  BY <1>6, <1>7 DEF SnapshotsInv

\* Every step keeps it.
LEMMA SnapshotsStep == SnapshotsInv /\ [Next]_vars => SnapshotsInv'
<1> SUFFICES ASSUME SnapshotsInv, [Next]_vars PROVE SnapshotsInv'
  OBVIOUS
<1>1. CASE SendClientSnapshot
  BY <1>1, SendClientSnapshotKeeps
<1>2. CASE SendToOthers
  BY <1>2, SendToOthersKeeps
<1>3. CASE UserMove
  BY <1>3, UserMoveKeeps
<1>4. CASE ReceiveSnapshot
  BY <1>4, ReceiveSnapshotKeeps
<1>5. CASE WritePacket
  BY <1>5, WritePacketKeeps
<1>6. CASE LoseToClient \/ LoseToServer
  BY <1>6, LoseKeeps
<1>7. CASE UNCHANGED vars
  BY <1>7 DEF vars, SnapshotsInv
<1>8. QED
  BY <1>1, <1>2, <1>3, <1>4, <1>5, <1>6, <1>7 DEF Next

\* So it always holds.
LEMMA SnapshotsInvariant == Spec => []SnapshotsInv
<1>1. QED
  BY SnapshotsStart, SnapshotsStep, PTL DEF Spec

-----------------------------------------------------------------------------
(* Theorems *)

\* The state of the two ends is well formed: sequence numbers stay within what has
\* been sent, frames and snapshots within what the entity rings have taken.
THEOREM SnapshotTypes == Spec => []TypeOK
<1>1. SnapshotsInv => TypeOK
  <2> SUFFICES ASSUME SnapshotsInv PROVE TypeOK
    OBVIOUS
  <2>1. EndsOK(client, cl, nextSnapshotEntities)
    BY DEF SnapshotsInv
  <2>2. client.deltaMessage \in {-1} \cup 1 .. MaxMessages
    <3>1. client.deltaMessage = -1 \/ client.deltaMessage \in 1 .. cl.snapMessageNum
      BY <2>1 DEF EndsOK, Base
    <3>2. client.outgoingSequence \in 1 .. MaxMessages + 1
      BY <2>1 DEF EndsOK
    <3>3. QED
      BY <2>1, <3>1, <3>2, EndsFacts, Sizes
  <2>3. ASSUME NEW s \in Slots
        PROVE  /\ client.frames[s].first_entity \in 0 .. nextSnapshotEntities
               /\ client.frames[s].entities \in Frames \cup {Nothing}
               /\ cl.snapshots[s].valid \in BOOLEAN
               /\ cl.snapshots[s].messageNum \in 0 .. cl.snapMessageNum
               /\ cl.snapshots[s].parseEntitiesNum \in 0 .. cl.parseEntitiesNum
    <3>1. client.frames[s] \in FrameRecord
      BY <2>1 DEF EndsOK, ClientRecord
    <3>2. SnapshotOK(cl.snapshots[s], s, cl)
      BY <2>1 DEF EndsOK, ClOK
    <3>3. client.frames[s].first_entity <= nextSnapshotEntities /\ nextSnapshotEntities \in Nat
      BY <2>1 DEF EndsOK
    <3>4. client.frames[s].first_entity \in Nat /\ client.frames[s].entities \in Seen
      BY <3>1 DEF FrameRecord
    <3>5. /\ cl.snapshots[s].valid \in BOOLEAN
          /\ cl.snapshots[s].messageNum \in Nat /\ cl.snapshots[s].parseEntitiesNum \in Nat
          /\ cl.snapshots[s].messageNum <= cl.snapMessageNum
          /\ cl.snapshots[s].parseEntitiesNum <= cl.parseEntitiesNum
      BY <3>2 DEF SnapshotOK
    <3>6. cl.snapMessageNum \in Nat /\ cl.parseEntitiesNum \in Nat
      BY <2>1, EndsFacts
    <3>7. QED
      BY <3>3, <3>4, <3>5, <3>6 DEF Seen
  <2>4. /\ client.outgoingSequence \in 1 .. MaxMessages + 1
        /\ cl.snapMessageNum \in 0 .. cl.serverMessageSequence
        /\ cl.serverMessageSequence < client.outgoingSequence
    <3>1. client.outgoingSequence \in 1 .. MaxMessages + 1
      BY <2>1 DEF EndsOK
    <3>2. QED
      BY <2>1, <3>1, EndsFacts
  <2>5. QED
    BY <2>2, <2>3, <2>4 DEF TypeOK, Slots
<1>2. QED
  BY <1>1, SnapshotsInvariant, PTL

\* A snapshot is, entity for entity, the frame the server built, as long as no more
\* than PARSE_MARGIN entities come into view at once before one that stays: that is
\* the part of its entity ring that CL_ParseSnapshot does not count on.
THEOREM SnapshotsAreFrames ==
    ASSUME MarginSuffices
    PROVE  Spec => []SnapshotsIntact
<1>1. SnapshotsInv => SnapshotsIntact
  <2> SUFFICES ASSUME SnapshotsInv PROVE SnapshotsIntact
    OBVIOUS
  <2>1. ClOK(cl)
    BY DEF SnapshotsInv, EndsOK
  <2>2. DOMAIN cl.snapshots = Slots
    BY <2>1 DEF ClOK
  <2>3. ASSUME NEW s \in Slots, cl.snapshots[s].valid
        PROVE  cl.snapshots[s].entities = cl.snapshots[s].built
    BY <2>1, <2>3 DEF ClOK, SnapshotOK
  <2>4. QED
    BY <2>2, <2>3 DEF SnapshotsIntact
<1>2. QED
  BY <1>1, SnapshotsInvariant, PTL

\* A delta that arrives is one whose base the client has: "Delta from invalid frame"
\* and "Delta frame too old" of CL_ParseSnapshot are not reached, whatever is lost.
THEOREM DeltasHaveTheirFrame == Spec => []DeltaFrameIsKept
<1>1. SnapshotsInv => DeltaFrameIsKept
  <2> SUFFICES ASSUME SnapshotsInv, toClient # << >>, IsDelta(Head(toClient))
               PROVE  Old(cl, Head(toClient)).valid
                      /\ Old(cl, Head(toClient)).messageNum = DeltaNum(Head(toClient))
    BY DEF DeltaFrameIsKept
  <2>1. Head(toClient) \in ToClientGood(client, cl)
    BY QueueHead DEF SnapshotsInv
  <2>2. Holds(cl, DeltaNum(Head(toClient)))
    BY <2>1, GoodMessage DEF SnapshotsInv
  <2>3. QED
    BY <2>2 DEF Holds, Old
<1>2. QED
  BY <1>1, SnapshotsInvariant, PTL

\* CL_GetSnapshot gives cgame the snapshot it asks for or none: a valid slot is of one
\* of the last PACKET_BACKUP messages, and those have slots of their own.
THEOREM CGameGetsTheRightSnapshot == Spec => []CGameGetsWhatItAskedFor
<1>1. SnapshotsInv => CGameGetsWhatItAskedFor
  <2> SUFFICES ASSUME SnapshotsInv, NEW number \in 1 .. cl.snapMessageNum,
                      GetsSnapshot(cl, number)
               PROVE  /\ cl.snapshots[Slot(number)].messageNum = number
                      /\ cl.snapshots[Slot(number)].parseEntitiesNum
                             >= cl.parseEntitiesNum - MAX_PARSE_ENTITIES
    BY DEF CGameGetsWhatItAskedFor
  <2> DEFINE r == cl.snapshots[Slot(number)]
  <2>1. EndsOK(client, cl, nextSnapshotEntities)
    BY DEF SnapshotsInv
  <2>2. cl.snapMessageNum \in Nat /\ cl.parseEntitiesNum \in Nat /\ number \in Nat
    BY <2>1, EndsFacts
  <2>3. SnapshotOK(r, Slot(number), cl)
    BY <2>1, <2>2, HeldSlot
  <2>4. /\ number <= cl.snapMessageNum /\ cl.snapMessageNum < number + PACKET_BACKUP
        /\ r.valid /\ cl.parseEntitiesNum - r.parseEntitiesNum < MAX_PARSE_ENTITIES
    BY <2>2, Sizes DEF GetsSnapshot
  <2> HIDE DEF r
  <2>5. /\ r.messageNum \in Nat /\ r.messageNum <= cl.snapMessageNum
        /\ cl.snapMessageNum < r.messageNum + PACKET_BACKUP
        /\ Slot(r.messageNum) = Slot(number)
        /\ r.parseEntitiesNum \in Nat
    BY <2>3, <2>4 DEF SnapshotOK
  <2>6. ~ r.messageNum < number
    <3>1. number < r.messageNum + PACKET_BACKUP
      BY <2>2, <2>4, <2>5, Sizes
    <3>2. QED
      BY <2>2, <2>5, <3>1, SlotsDiffer
  <2>7. ~ number < r.messageNum
    <3>1. r.messageNum < number + PACKET_BACKUP
      BY <2>2, <2>4, <2>5, Sizes
    <3>2. QED
      BY <2>2, <2>5, <3>1, SlotsDiffer
  <2>8. r.messageNum = number /\ r.parseEntitiesNum >= cl.parseEntitiesNum - MAX_PARSE_ENTITIES
    BY <2>2, <2>4, <2>5, <2>6, <2>7, Sizes
  <2>9. QED
    BY <2>8 DEF r
<1>2. QED
  BY <1>1, SnapshotsInvariant, PTL
=============================================================================
