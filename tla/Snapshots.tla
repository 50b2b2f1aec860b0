----------------------------- MODULE Snapshots -----------------------------
(***************************************************************************)
(* Delta-compressed snapshots: server/sv_snapshot.cpp, SV_UserMove of       *)
(* sv_client.cpp, client/cl_parse.cpp, CL_WritePacket of cl_input.cpp and   *)
(* CL_GetSnapshot of cl_cgame.cpp, for a client that stays CS_ACTIVE.       *)
(*                                                                          *)
(* Four rings hold what a delta is made from: the server's and the client's *)
(* last PACKET_BACKUP frames, the entity states of all clients' frames on   *)
(* the server, and those of this client's frames on the client. Nothing     *)
(* marks an overwritten entity state: a frame is used as a base only after  *)
(* checks on how far the rings have moved since.                            *)
(*                                                                          *)
(* An entity ring is modelled by its write position: the state written at   *)
(* position p is there until position p + size is written. Messages travel  *)
(* as MessageChannel promises: intact, once, in order, or not at all.       *)
(***************************************************************************)
EXTENDS Integers, Sequences, FiniteSets

CONSTANTS PACKET_BACKUP,            \* frames kept by each side (32)
          DELTA_MARGIN,             \* frames the server does not delta from (3)
          numSnapshotEntities,      \* size of the server's entity ring
          MAX_PARSE_ENTITIES,       \* size of the client's (2048)
          PARSE_MARGIN,             \* entities of it the client does not use (128)
          Frames,                   \* what a client may see: [entity numbers -> states]
          OtherSizes,               \* entities in a frame of another client
          MaxMessages,              \* bound: messages to the client
          MaxEntities,              \* bound: entity states written by the server
          Window                    \* bound: messages in flight, each way

ASSUME SnapshotAssumption ==
    /\ {PACKET_BACKUP, DELTA_MARGIN, numSnapshotEntities, MAX_PARSE_ENTITIES, PARSE_MARGIN,
        MaxMessages, MaxEntities, Window} \subseteq Nat
    /\ PACKET_BACKUP > DELTA_MARGIN
    /\ MAX_PARSE_ENTITIES >= PARSE_MARGIN
    /\ \A frame \in Frames : IsFiniteSet(DOMAIN frame) /\ frame = [e \in DOMAIN frame |-> frame[e]]
    /\ OtherSizes \subseteq Nat

VARIABLES client,                   \* the server's client_t
          nextSnapshotEntities,     \* svs.nextSnapshotEntities
          cl,                       \* the client's clientActive_t
          toClient, toServer        \* messages in flight

vars == <<client, nextSnapshotEntities, cl, toClient, toServer>>

Slot(messageNum) == messageNum % PACKET_BACKUP
Ring(frame) == [s \in 0 .. PACKET_BACKUP - 1 |-> frame]

Nothing == << >>                    \* the frame without entities
Garbage == -1                       \* a state that is not this entity's

\* Where in a frame an entity stands: frames are sorted by entity number.
Index(numbers, e) == Cardinality({n \in numbers : n < e})

Init ==
    /\ client = [outgoingSequence |-> 1, deltaMessage |-> -1,
                 frames |-> Ring([first_entity |-> 0, entities |-> Nothing])]
    /\ nextSnapshotEntities = 0
    /\ cl = [serverMessageSequence |-> 0, snapMessageNum |-> 0, parseEntitiesNum |-> 0,
             snapshots |-> Ring([valid |-> FALSE, messageNum |-> 0, parseEntitiesNum |-> 0,
                                 entities |-> Nothing, built |-> Nothing])]
    /\ toClient = << >>
    /\ toServer = << >>

-----------------------------------------------------------------------------
(* Server *)

\* SV_BuildClientSnapshot: the frame, its entities copied to the entity ring.
BuildClientSnapshot(seen) == [first_entity |-> nextSnapshotEntities, entities |-> seen]

\* Bug: any frame will do.
OutOfDatePacketNever(c) == FALSE

\* "client hasn't gotten a good message through in a long time"
OutOfDatePacket(c) == c.outgoingSequence - c.deltaMessage >= PACKET_BACKUP - DELTA_MARGIN

\* "the snapshot's entities may still have rolled off the buffer, though":
\* checked when the new frame's have been added.
OutOfDateEntities(oldframe, next) == oldframe.first_entity <= next - numSnapshotEntities

UsesDelta(c, next) ==
    /\ c.deltaMessage > 0
    /\ ~ OutOfDatePacket(c)
    /\ ~ OutOfDateEntities(c.frames[Slot(c.deltaMessage)], next)

\* SV_EmitPacketEntities: what is written for an entity in both frames is the
\* difference. At worst a state that has rolled off looks just like the new.
RolledOff(from, e, next) ==
    from.first_entity + Index(DOMAIN from.entities, e) < next - numSnapshotEntities

LooksUnchanged(from, e, seen, next) ==
    /\ e \in DOMAIN from.entities
    /\ from.entities[e] = seen[e] \/ RolledOff(from, e, next)

EmitPacketEntities(from, seen, next) ==
    [changed |-> [e \in {n \in DOMAIN seen : ~ LooksUnchanged(from, n, seen, next)} |-> seen[e]],
     removed |-> DOMAIN from.entities \ DOMAIN seen]

\* SV_WriteSnapshotToClient; built is not sent, it is what the client should get.
WriteSnapshot(c, frame, next) ==
    LET delta == UsesDelta(c, next)
        none  == [first_entity |-> 0, entities |-> Nothing]
        from  == IF delta THEN c.frames[Slot(c.deltaMessage)] ELSE none
    IN  [messageNum |-> c.outgoingSequence,
         lastframe |-> IF delta THEN c.outgoingSequence - c.deltaMessage ELSE 0,
         entities |-> EmitPacketEntities(from, frame.entities, next),
         built |-> frame.entities]

\* SV_SendClientSnapshot
SendClientSnapshot ==
    /\ client.outgoingSequence <= MaxMessages
    /\ Len(toClient) < Window
    /\ \E seen \in Frames :
          LET frame == BuildClientSnapshot(seen)
              next  == nextSnapshotEntities + Cardinality(DOMAIN seen)
              c     == [client EXCEPT !.frames[Slot(client.outgoingSequence)] = frame]
          IN  /\ next <= MaxEntities
              /\ nextSnapshotEntities' = next
              /\ toClient' = Append(toClient, WriteSnapshot(c, frame, next))
              /\ client' = [c EXCEPT !.outgoingSequence = @ + 1]
    /\ UNCHANGED <<cl, toServer>>

\* Other clients' frames use the same entity ring.
SendToOthers ==
    /\ \E n \in OtherSizes : nextSnapshotEntities' = nextSnapshotEntities + n
    /\ nextSnapshotEntities' <= MaxEntities
    /\ UNCHANGED <<client, cl, toClient, toServer>>

\* SV_ExecuteClientMessage and SV_UserMove
UserMove ==
    /\ toServer # << >>
    /\ LET p == Head(toServer)
       IN  client' = [client EXCEPT !.deltaMessage = IF p.delta THEN p.ack ELSE -1]
    /\ toServer' = Tail(toServer)
    /\ UNCHANGED <<nextSnapshotEntities, cl, toClient>>

-----------------------------------------------------------------------------
(* Client *)

DeltaNum(p) == p.messageNum - p.lastframe
IsDelta(p) == p.lastframe # 0 /\ DeltaNum(p) > 0
Old(c, p) == c.snapshots[Slot(DeltaNum(p))]

\* Bug: how far the entity ring has moved is not checked.
StillHaveFrame(c, p) ==
    /\ Old(c, p).valid
    /\ Old(c, p).messageNum = DeltaNum(p)

\* "If the frame is delta compressed from data that we no longer have
\* available, we must suck up the rest of the frame, but not use it"
StillHave(c, p) ==
    /\ Old(c, p).valid
    /\ Old(c, p).messageNum = DeltaNum(p)
    /\ c.parseEntitiesNum - Old(c, p).parseEntitiesNum <= MAX_PARSE_ENTITIES - PARSE_MARGIN

\* CL_ParsePacketEntities: entities are written to the ring one after the
\* other, each read from the old frame just before, from the same ring.
ParsedNumbers(old, p) == (DOMAIN old.entities \ p.entities.removed) \cup DOMAIN p.entities.changed

Overwritten(c, old, numbers, e) ==
    c.parseEntitiesNum + Index(numbers, e)
        > old.parseEntitiesNum + Index(DOMAIN old.entities, e) + MAX_PARSE_ENTITIES

ParsePacketEntities(c, old, p) ==
    LET numbers == ParsedNumbers(old, p)
    IN  [e \in numbers |->
            IF e \in DOMAIN p.entities.changed THEN p.entities.changed[e]
            ELSE IF Overwritten(c, old, numbers, e) THEN Garbage
            ELSE old.entities[e]]

\* Bug: the flags are left alone.
SkippedNone(c, p) == {}

\* "clear the valid flags of any snapshots between the last received and this
\* one": at most the whole ring but one.
Skipped(c, p) ==
    LET first == IF p.messageNum - (c.snapMessageNum + 1) >= PACKET_BACKUP
                 THEN p.messageNum - (PACKET_BACKUP - 1)
                 ELSE c.snapMessageNum + 1
    IN  {Slot(n) : n \in first .. p.messageNum - 1}

ClearSkipped(c, p) ==
    [s \in DOMAIN c.snapshots |->
        IF s \in Skipped(c, p) THEN [c.snapshots[s] EXCEPT !.valid = FALSE] ELSE c.snapshots[s]]

\* CL_ParseSnapshot
ParseSnapshot(c, p) ==
    LET none == [parseEntitiesNum |-> 0, entities |-> Nothing]
        old  == IF IsDelta(p) THEN Old(c, p) ELSE none
        snap == [valid |-> TRUE, messageNum |-> p.messageNum,
                 parseEntitiesNum |-> c.parseEntitiesNum,
                 entities |-> ParsePacketEntities(c, old, p), built |-> p.built]
        read == [c EXCEPT !.parseEntitiesNum = @ + Cardinality(DOMAIN snap.entities)]
    IN  IF IsDelta(p) /\ ~ StillHave(c, p)
        THEN read
        ELSE [read EXCEPT !.snapMessageNum = p.messageNum,
                          !.snapshots = [ClearSkipped(c, p) EXCEPT ![Slot(p.messageNum)] = snap]]

\* CL_PacketEvent
ReceiveSnapshot ==
    /\ toClient # << >>
    /\ LET p == Head(toClient)
       IN  cl' = [ParseSnapshot(cl, p) EXCEPT !.serverMessageSequence = p.messageNum]
    /\ toClient' = Tail(toClient)
    /\ UNCHANGED <<client, nextSnapshotEntities, toServer>>

\* Bug: a snapshot is asked to be made from one that does not exist.
AsksForDeltaAlways(c) == c.serverMessageSequence = c.snapMessageNum

\* CL_WritePacket: a move asks for a delta only if the last message received
\* was a snapshot that could be used.
AsksForDelta(c) == c.snapMessageNum > 0 /\ c.serverMessageSequence = c.snapMessageNum

WritePacket ==
    /\ Len(toServer) < Window
    /\ toServer' = Append(toServer, [ack |-> cl.serverMessageSequence, delta |-> AsksForDelta(cl)])
    /\ UNCHANGED <<client, nextSnapshotEntities, cl, toClient>>

\* CL_GetSnapshot gives cgame the frame in the slot of the snapshot it asks for.
GetsSnapshot(c, number) ==
    /\ number <= c.snapMessageNum
    /\ c.snapMessageNum - number < PACKET_BACKUP
    /\ c.snapshots[Slot(number)].valid
    /\ c.parseEntitiesNum - c.snapshots[Slot(number)].parseEntitiesNum < MAX_PARSE_ENTITIES

-----------------------------------------------------------------------------
LoseToClient ==
    /\ toClient # << >>
    /\ toClient' = Tail(toClient)
    /\ UNCHANGED <<client, nextSnapshotEntities, cl, toServer>>

LoseToServer ==
    /\ toServer # << >>
    /\ toServer' = Tail(toServer)
    /\ UNCHANGED <<client, nextSnapshotEntities, cl, toClient>>

Next ==
    \/ SendClientSnapshot \/ SendToOthers \/ UserMove
    \/ ReceiveSnapshot \/ WritePacket
    \/ LoseToClient \/ LoseToServer

Spec == Init /\ [][Next]_vars

-----------------------------------------------------------------------------
TypeOK ==
    /\ client.outgoingSequence \in 1 .. MaxMessages + 1
    /\ client.deltaMessage \in {-1} \cup 1 .. MaxMessages
    /\ \A s \in 0 .. PACKET_BACKUP - 1 :
          /\ client.frames[s].first_entity \in 0 .. nextSnapshotEntities
          /\ client.frames[s].entities \in Frames \cup {Nothing}
          /\ cl.snapshots[s].valid \in BOOLEAN
          /\ cl.snapshots[s].messageNum \in 0 .. cl.snapMessageNum
          /\ cl.snapshots[s].parseEntitiesNum \in 0 .. cl.parseEntitiesNum
    /\ cl.snapMessageNum \in 0 .. cl.serverMessageSequence
    /\ cl.serverMessageSequence < client.outgoingSequence

\* Every snapshot the client keeps is, entity for entity, the frame the server
\* built: no delta is put together from another frame than the one it was made
\* from, nor from entity states that have been overwritten on either side.
SnapshotsIntact ==
    \A s \in DOMAIN cl.snapshots :
        cl.snapshots[s].valid => cl.snapshots[s].entities = cl.snapshots[s].built

\* "Delta from invalid frame (not supposed to happen!)" and "Delta frame too
\* old" are indeed not reached: the server makes deltas only from a frame the
\* client still has in its ring (SV_WriteSnapshotToClient, CL_ParseSnapshot).
DeltaFrameIsKept ==
    toClient # << >> /\ IsDelta(Head(toClient)) =>
        LET p == Head(toClient) IN Old(cl, p).valid /\ Old(cl, p).messageNum = DeltaNum(p)

\* When cgame asks for a snapshot by number it gets that one or none, and with
\* all its entities: never one left in the slot since PACKET_BACKUP messages
\* ago (CL_GetSnapshot, and the clearing of valid flags in CL_ParseSnapshot).
CGameGetsWhatItAskedFor ==
    \A number \in 1 .. cl.snapMessageNum :
        GetsSnapshot(cl, number) =>
            LET snap == cl.snapshots[Slot(number)]
            IN  /\ snap.messageNum = number
                /\ snap.parseEntitiesNum >= cl.parseEntitiesNum - MAX_PARSE_ENTITIES

\* "If the snapshot is invalid for any reason, no changes to the state will be
\* made at all" (CL_ParseSnapshot): a message that does not become the current
\* snapshot leaves the snapshots and their entities as they were.
InvalidChangesNothing ==
    [][cl'.snapMessageNum = cl.snapMessageNum =>
          /\ cl'.snapshots = cl.snapshots
          /\ cl'.parseEntitiesNum = cl.parseEntitiesNum]_vars
=============================================================================
