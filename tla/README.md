# Verification of CNQ3's network protocol and memory

CNQ3 is a Quake III Arena engine: a server that simulates the game and clients
that connect to it over UDP. This directory holds TLA+ models of the code under
`src/code/`, the TLC configurations that check them, and TLAPS proofs. File and
line references below are to `src/code/`.

## 1. The system

Everything in the engine runs in one thread: `Com_Frame` reads events, among
them packets, runs `SV_Frame` and `CL_Frame`, and sleeps. What makes it hard is
not threads but two such loops, in two processes, that share nothing but a
network which loses, repeats, delays and reorders packets; and fixed-size rings
on both ends whose entries are overwritten while the other end may still refer
to them.

| component | state | operations | talks to |
|---|---|---|---|
| netchan (`qcommon/net_chan.cpp`) | `netchan_t`: sequence numbers, fragment being assembled, message being sent | `Netchan_Transmit`, `_TransmitNextFragment`, `_Process` | UDP below, encoding and queue above |
| encoding and queue (`server/sv_net_chan.cpp`, `client/cl_net_chan.cpp`) | queue of messages per client | `SV_Netchan_Transmit`, `SV_Netchan_TransmitNextFragment`, encode, decode | netchan; keys from the reliable commands |
| reliable commands (`sv_main.cpp`, `sv_client.cpp`, `sv_snapshot.cpp`, `cl_main.cpp`, `cl_input.cpp`, `cl_parse.cpp`, `cl_cgame.cpp`) | on each side a ring of 64 commands sent and one of commands received, sequence and acknowledgement numbers, `client_t.state` | add, repeat in each message, acknowledge, execute, overflow, drop | carried by every message; cgame takes the server's, the game executes the client's |
| snapshots (`sv_snapshot.cpp`, `cl_parse.cpp`, `cl_cgame.cpp`) | rings of 32 frames on both sides, the server's entity ring shared by all clients, the client's entity ring of 2048 | build, delta-encode, parse, get | `deltaMessage` is set by the acknowledgement in each move |
| downloads (`sv_client.cpp`, `cl_parse.cpp`, `cl_main.cpp`) | window of 8 blocks, block numbers on both sides | write, parse, `nextdl`, `stopdl`, `donedl` | blocks ride on snapshots, acknowledgements on reliable commands |
| connection life cycle (`sv_client.cpp`, `sv_main.cpp`, `cl_main.cpp`) | table of 1024 challenges, client slots and their states, time-outs; the client's own state and challenge | challenge, connect, reconnect, drop, zombie, time-out | out-of-band packets; creates everything above; tells the game who is there |
| gamestate (`sv_client.cpp`, `sv_init.cpp`, `cl_parse.cpp`, `cl_cgame.cpp`) | `serverId`, `gamestateMessageNum`, config strings on both sides, what is known of a client's files | send, send again, parse, map change, map_restart, pure check | travels as a message; resets snapshots and commands |
| memory (`common.cpp`, `files.cpp`) | the zone's ring of blocks and its rover; the hunk's two banks; `fs_loadStack` | allocate, free, exchange the banks, mark, clear, abandon | used by all |
| loopback, delayed packets (`net_chan.cpp`) | ring of 16 packets each way, list of delayed packets | send, get, flush | in place of UDP |
| event queue (`common.cpp`), command buffer (`cmd.cpp`), cvars (`cvar.cpp`) | rings, buffers, lists | push and get; add, insert, execute; set, latch | used by all |

How they interact, from below: the netchan turns UDP into a channel that loses
messages but hands over the others intact and in order. The server's queue sits
on top, because a message may be produced while the fragments of another are
still being sent, one per frame. Every message carries the acknowledgement of
the other side's commands and its own unacknowledged ones, and is XOR-encoded
with a key made from the command acknowledged: sender and receiver must find the
same text in their rings. Snapshots and download blocks follow in the same
message. The client's acknowledgement of a snapshot chooses the base of the next.
All this begins when a client has been given a slot, by packets outside the
netchan that may be lost, late or sent twice, and begins anew with each gamestate,
which says from which command on the client has to follow. The server knows what a
client has by the `serverId` in each of its messages. Memory is beneath
everything: files, maps and errors that drop to the console take it and leave it
in an order nobody wrote down.

What makes each component correct:

- netchan: only whole messages, byte for byte, in order, at most once; a receiver
  is never left waiting for a piece that will not come.
- queue: nothing lost, nothing repeated, nothing overtaken, encoded under the
  sequence number and acknowledgement it travels with.
- commands: executed as issued on both sides, before what was issued after them;
  both sides derive the same key; a client that is dropped is told, and once.
- snapshots: a snapshot that is kept is the frame the server built; cgame gets
  the one it asks for or none.
- downloads: a file that is renamed into place is the server's file; every
  download comes to an end.
- connections: one slot per client; a client number belongs to one player until
  the game is told that he left (both only as long as no two clients come from one
  port); who tries to get in gets in; who was forgotten leaves.
- gamestate: the client's config strings are those of its gamestate and the
  changes since; it enters the world with the map it is for, is never judged by
  another map's checksums, and has what the server has in the end.
- memory: no two users of the same piece; blocks lie end to end and free ones are
  merged; memory is exhausted only when there is none; what files leave behind is
  had back.

## 2. The modules

| module | models | what stands for what |
|---|---|---|
| `MessageChannel` | what the netchan promises | `sent` and `delivered`; `Deliver` hands over any message later than the last |
| `NetChan` | `net_chan.cpp`, one direction | `chan` and `peer` are the sending and the receiving half of the two ends' `netchan_t`; `net` is the set of packets ever sent, any of which may arrive at any time, again, or never; `Process` has one disjunct per outcome of `Netchan_Process` |
| `SvNetChan` | `sv_net_chan.cpp`, on top of `NetChan` | `queue` is the list from `netchan_start_queue` on; `written` remembers for each message the acknowledgement inside and the key it was encoded with |
| `ReliableCommands` | both command streams and the keys | `sv` and `cl` have the fields of `client_t` and `clientConnection_t`; `executed`, `taken`, `lastMove` are histories |
| `Snapshots` | delta compression | `client`, `cl` with their frame rings; an entity ring is its write position, and a state is overwritten once the position is a ring's size further on |
| `Download` | the block window | `sv`, `cl`; a snapshot is the sequence of blocks in it |
| `Roster` | what the server promises the game module | `player`: who plays under which client number; `alike`: players who may be taken for each other; `Enter`, `Leave`, `Restart`, `Mix` |
| `Connections` | how clients come and go | `slot` is `svs.clients`, `challenges` is `svs.challenges`, `client` is `cls` and `clc` of each client, `game` what the game was told, `net` the packets in flight, `nat` the port a router has for each client, `had` all it has had (known to nobody, for the properties) |
| `Replica` | what the server promises cgame of a config string | `original` and `copy`; the copy is a value the original has had, and never an older one than before |
| `GameState` | how one client gets a game's state and keeps up | `sv`, `sc` (the client's `client_t`), `client` (`cls`, `clc`, `cl`, cgame); `down` is the server's netchan, its queue and what is in flight; `commands` and `clientCommands` are all reliable commands there were |
| `Allocator` | what both allocators promise | `piece`: the places that belong to each pointer |
| `Zone` | `Z_TagMalloc`, `Z_Free` | `zone.block` are the blocks by address, `scan` is an allocation under way: one step per turn of its loop |
| `Memory` | the hunk and its users, on top of `Zone` | `hunk.bank` are both ends, `live` the memory handed out, and for what: block, file, scratch or permanent |
| `X_proofs` | theorems about module X | section 4 |
| `NumberTheorems` | no code: facts about natural numbers that several proofs cite | smallest and greatest members of sets, slots of a ring |
| `MC*` | instances for TLC | |

`SvNetChan` extends `NetChan`, and `Memory` extends `Zone`. `ReliableCommands`,
`Snapshots`, `Download` and `GameState` stand on what `MessageChannel` promises:
their messages travel in sequences from which one may be lost at the head, so what
arrives is a subsequence, in order. That the netchan keeps this promise is checked
(`sv_netchan`) and proved (`ImplementsChannel`). `Download` sends its commands over
a queue that loses nothing, and `GameState` keeps all commands in a sequence of
which each message carries the unacknowledged end: that the rings do the same is
what `ReliableCommands` shows. `GameState` models the server's queue again, since a
gamestate is the message that waits in it.

Abstractions made everywhere: the content of a message is what the properties
tell apart. A byte of a message is the pair of message and offset, so that a
message put together from pieces of two is none. The text of command n is n. An
encoded message is its key: decoding succeeds when the other side finds the same
one. An entity state is a small number, and a state read from an overwritten
place is `Garbage` (on the client), or looks like whatever is worst (on the
server). A message decoded with a wrong key is treated as either ignored or an
error. Messages not delivered because the receiving process is gone are not told
apart from lost ones.

`Connections` has all clients behind one router, the case in which only port and
qport tell them apart. The router may give its clients other ports at any time, and
one of them the port that another had, while the server's slots and the packets
under way still have the old ones. A client stands for its qport, which the program
chooses when it starts: a program that is started again is another client, and may
come from the port of the first. A session is known by its challenge, with which its
messages are encoded. The authorization server answers, at any time, or refuses and
has the challenge cleared (`sv_client.cpp:220`–`239`). Left out: private slots, ping
limits, clients of a local address, and bots.

`GameState` has one config string that the game sets and the one with the system's
settings (`cs systeminfo`), which carries the `serverId`; the numbers of messages
are only compared with `gamestateMessageNum`, so a message remembers only whether
it is later. Downloads are a delay, over HTTP or from the server, that ends with
`donedl`. A vid_restart may come in any state of the client but while it loads, when
the event loop in `CL_DownloadsComplete` only queues commands; before there is a
cgame it tells the server that the client is not pure, and cancels an HTTP download
(`cl_cgame.cpp:326`).

`Memory` counts in the units all sizes are rounded to, and sizes include headers.
The list's head (`blocklist`) has the address one past the end. While the zone is
scanned nothing else happens; the steps are kept apart so that the rover is seen at
every block. Scratch memory is freed newest first, by the function that asked for
it. A process with a client clears the hunk in an error that drops to the console,
and a dedicated server, which asks for scratch only in `SV_ChangeMaxClients`, keeps
it (`Com_Error`). Left out: the constants of one character that `CopyString` shares
and never frees, and the words that detect writes past a block's end.

`Download` leaves out one accident: a block that is not read has its number taken
for a command, and 8 is that of `svc_EOF`, which ends the message quietly; the
model disconnects for every number, which is what nearly all of them do.

## 3. The runs

Constants in the runs are small because the code's are sizes of rings: what
matters is that each ring wraps, and that it does so while something refers to
the entry overwritten. Each bound below is chosen so that this happens.

| run | instance | shows |
|---|---|---|
| `sv_netchan` | fragments of 2 bytes, messages up to 5, 3 messages, one client command | the netchan: intact, in order, at most once, nobody stranded, implements `MessageChannel`; the queue on top: nothing lost, repeated or overtaken within it, each message encoded under the sequence number it travels with. Lengths 0 to 5 cover whole messages, exact multiples and several fragments; with 3 messages two fragmented ones interleave and a third waits |
| `reliable` | rings of 2, 4 server and 2 client commands, up to 3 and 1 unacknowledged, flood protection | commands as issued, before moves and snapshots; keys agree; commands arrive; a dropped client leaves. Both rings wrap; the server's is full and overflows |
| `snapshots` | 5 frames kept (margin 2), server ring of 8 entities, client ring of 3 (margin 1), other clients' frames of 5, frames of 1 and 2 entities, 7 messages | all rings on both sides wrap, under loss both ways |
| `download` | window of 3, files of 4, 3 and 1 blocks, 2 blocks per snapshot, a short of 10 values, 4 snapshots in flight; the server may refuse file 2, the client may be unable to write file 3 | intact files, a kept window, no drop, an end. The window wraps; block numbers go up to 4, the largest that fits the short; the empty block meets a full window |
| `connections` | 2 clients behind a router with 3 ports, 2 slots, a table of 1 challenge, 2 challenges, 2 connects, one fault (the router changes the ports, the authorization server refuses, or the server crashes), 2 packets in flight; the game may refuse new clients; clients and ports are interchangeable, so their symmetry is used (2,721,318 states) | one slot for each client, the game knows who is there, implements `Roster`, each with the exception that clients who have had one port are. A second challenge replaces the first; the change of ports comes at any moment of the handshake or the session, and gives a client a new port, or that of the other, or has them swapped |
| `connections_live` | 1 slot, 2 challenges in the table and 4 in all, 2 connects, no faults, 2 packets in flight; one client whose packets get through in the end, and another that comes and goes | who connects gets in. The other client takes the slot, or the challenge's place |
| `gamestate` | pure and not; gamestates may be fragmented; one change of map, one map_restart, one config string, one vid_restart and one download, one message in flight each way (886,202 states) | config strings agree, no false drop, entering with the right map, implements `Replica`, the client catches up. One event of each kind is enough to have any two of them meet at any point of the hand-over, under loss |
| `memory` | 3 pointers, zone of 7 units with blocks of 2 and 3 and a fragment of 1 worth keeping, hunk of 4 with requests of 1 and 2, client and dedicated server, one error that drops | the heap's order, exhaustion only when exhausted, temporary memory on one end, implements `Allocator`. Three blocks are what it takes to free one between two others, on either side of the rover; three files or scratch pieces are freed in any order the code allows. Pointers are interchangeable, so their symmetry is used |

In `gamestate` a map does not restart before the client is in it
(`EarlyRestarts = FALSE`), and snapshots are not fragmented: the next section says
what happens otherwise.

Deadlock is not checked where the model may stop: every bounded counter runs out,
and a connection may be over, or memory exhausted. `sv_netchan` checks it, as a
packet on the wire can always arrive once more; the other runs switch it off.

### Fairness

Of sending, weak fairness: `SV_SendClientMessages` runs in every `SV_Frame` and
sends to every client whose time has come, and `CL_SendCmd` runs in every frame.
Likewise of what a frame does by itself: fragments going out, cgame fetching
commands, loading, a second passing. Of receiving, strong fairness: a network that
loses messages, but not all of those it is given again and again. Nothing is
assumed of users, operators, games, routers or drops.

- `ReliableCommands`: just that.
- `Download`: strong fairness is also asked for the block that is waited for, since
  a network that always loses just that one would satisfy the simpler form.
- `Connections`, `FairSpec`: the client asks again every three seconds
  (`CL_CheckForResend`), and what it asks and is answered over and over again gets
  through; packets that are not repeated do not stay in the network for ever;
  zombies expire and the limit on reconnects passes, as they do with
  `svs.time`. `TrafficSpec`: the same for a client that is connected, which sends
  every frame and sees that nothing comes back.
- `GameState`: messages of each kind that is sent again get through some time. A
  change of `cs systeminfo` is announced by the next `SV_Frame`.

`CatchesUp` is of the form <>[]: since the operator's events are bounded they end,
and from then on the client must reach the server's state and stay there.

### Disagreements with the source

Runs that expect a violation check one statement quoted from the repository that
the code does not keep.

| run | statement | what happens |
|---|---|---|
| `gamestate_overtaken` | "make sure they get sent in correct order" (`sv_net_chan.cpp:171`) | `SV_Netchan_Transmit` sends the next fragment past the queue's own function (`:189`); if it was the last, the queued message stays, and the next snapshot overtakes it. If the message is a gamestate and the snapshot brings a newer config string, that change is lost for good: the gamestate makes the client discard it, and the client has acknowledged it |
| `reliable_client_overflow` | "if we would be losing an old command" (`cl_main.cpp:99`) | 65 commands in a ring of 64 |
| `download_broken` | "it should be the same as cl->downloadClientBlock" (`sv_client.cpp:716`) | block 0 of a short file, sent again, is taken for block 0 of the next |
| `connections_orphan` | "so it doesn't have to wait for the full timeout period" (`cl_main.cpp:1355`) | `CL_PacketEvent` notes the time of each packet (`:1496`) before `CL_DisconnectPacket` asks whether nothing came for three seconds: the disconnect packet itself is what came. After a restart of the server its clients neither leave nor time out |

`download_broken` bites files of fewer blocks than the window: the client's list
must name two files, and an acknowledgement be a second late. `FinishedIntact`
fails in the same instance. In longer files block 0 is acknowledged before the
last block can be sent, so it cannot be sent again after it. A file the client
gives up with `stopdl` is in the same position as a short one; in `download` it
is the last.

Smaller ones have a definition and no run of their own. To see one, make it the
only property of the configuration named here; TLC finds a counterexample within
a minute.

| definition | configuration | statement | what happens |
|---|---|---|---|
| `KeyHasAcknowledged` | `MCSvNetChan.cfg` | "... with this message acknowledged client command" (`sv_net_chan.cpp:65`) | a queued message is encoded with the command executed meanwhile |
| `DroppedOnce` | `Reliable.cfg` | "doesn't cause a recursive drop client" (`sv_main.cpp:142`) | it does, for a client with exactly 64 outstanding dropped for another reason |
| `ZombieIsTold` | `Reliable.cfg` | "kicked clients never get the reliable disconnect command" otherwise (`sv_snapshot.cpp:700`) | with 63 outstanding the disconnect command is the overflowing one, and is not stored |
| `StalledIsNotExecuted` | `Reliable.cfg` | "we will stop processing the rest of the packet" (`sv_client.cpp:1182`) | the command is dropped and the rest processed |
| `DisconnectCausesNoError` | `Reliable.cfg`, `ClientAhead = 3`, `MaxClientCommands = 3` | "so it shouldn't cause any errors" (`cl_main.cpp:722`) | the error for a full ring disconnects, which adds to the ring |
| `SnapshotsIntact` | `MCSnapshots.cfg`, `Frames <- Crowded`, `MAX_PARSE_ENTITIES = 4` | "must be large enough to hold PACKET_BACKUP frames" (`client.h:71`) | the margin is 128 entities (`cl_parse.cpp:244`), a frame may have 1024: the new entities overwrite those the delta is read from |
| `InvalidChangesNothing` | `MCSnapshots.cfg`, as a PROPERTY | "no changes to the state will be made at all" (`cl_parse.cpp:185`) | the entity ring has moved on |
| `UnrequestedIsStopped` | `MCDownload.cfg` | "Server sending download, but no download was requested" (`cl_parse.cpp:512`) and go on | the block is not skipped, and its number is read as a command |
| `DifferentiatedByQport` | `Connections.cfg`, as a PROPERTY | "the IP port can't be used to differentiate them" (`sv_main.cpp:568`) | `SV_DirectConnect` uses it all the same (`sv_client.cpp:368`–`370`). a is in the game; its port goes to b, which has never heard of the server; once the reconnect limit has passed, b's connect takes over a's slot. The game is told of b, and not that a has gone: `GAME_CLIENT_DISCONNECT` is commented out (`:374`–`379`). A program started again after it crashed takes over its own slot in the same way |
| `LoadStackCountsFiles` | `MCMemory.cfg` | "total files in memory" (`files.cpp:221`) | an error that drops while files are loaded, in `FS_ReadFile` itself also (it counts before it allocates), leaves the count too high for ever; with `MaxDrops = 0` it holds |

In those of `Reliable.cfg` the specification is best set to `Spec`. `KeysAgree`
itself makes an exception (`Replaced`): with all 64 outstanding, the 64th command
has replaced the one that was "last sent and acknowledged" (`sv_net_chan.cpp:115`),
and neither side can decode the other.

What the run `gamestate` leaves out, or its properties except:

- A client that has downloaded files asks for the gamestate with `donedl`
  (`cl_main.cpp:1067`). If the answer is lost, nothing sends it again: the client's
  messages carry the right `serverId` since its first gamestate, by which the
  server takes it to be up to date. `CatchesUp` excepts this as `WaitsInVain`.
- A vid_restart while a map is downloaded over HTTP cancels the download
  (`CL_ShutdownCGame`, `cl_cgame.cpp:326`), and does nothing for a client that has
  no cgame yet (`cl_main.cpp:1900`). The download is not taken up again, no `donedl`
  is sent, and the `serverId` is right: the client waits for ever. `CatchesUp` excepts
  this as `DownloadCancelled`. The next change of map gets it out.
- `EarlyRestarts = TRUE`, `CatchesUp`: a client that is loading when the map
  restarts is ignored, as "they just haven't caught the map_restart yet"
  (`sv_client.cpp:1391`). It cannot catch it: commands are executed by a cgame that
  is running (`cl_parse.cpp:613`), it runs from the first snapshot that is not marked
  `SNAPFLAG_NOT_ACTIVE`, and those are sent only once the server has taken a move,
  which it does not while it ignores the client.
- `EarlyRestarts = TRUE`, or snapshots in `Large`, `EntersWithGamestate`: a client
  that has lost the new map's gamestate executes the `cs systeminfo` of a later
  restart, which is a command and so not lost; it then carries the current
  `serverId`, and enters the world with the old map. With a vid_restart on a pure
  server it also sends checksums of the old map's feed under the new `serverId`,
  and is dropped (`PureClientStays`).
- Snapshots in `Large`, `ReplicaSpec`: what `gamestate_overtaken` shows also sets
  the client's copy back.

And of `connections`:

- With "reconnect" in `Denies`, `GameKnowsClients` fails: when the game refuses a
  client that reconnects, its slot is freed without `GAME_CLIENT_DISCONNECT`, and
  the game still has the player. A game that never refuses a reconnect does not
  notice.
- Clients that have come from one port, at whatever time, are taken for each other
  (`Alike`). A connect takes over the lowest slot that has its qport or its port. It
  may be the slot of another client that is in the game, who then loses it without a
  word to him or to the game (`DifferentiatedByQport`). And it may lie below the
  client's own slot, which stays in use: the client has two slots, his messages go
  to the lower one, and the game has a second body of him until the other times out.
  A late message from an old port can leave two slots with one port
  (`sv_main.cpp:570`). `OneSlotEach` and `Roster` except such clients, and nobody
  else; remove `Alike` from either and TLC finds these.
- A client whose challenge was replaced in the table, or used, asks with it for
  ever (`Forgotten`, excepted in `GetsIn`); it is told so only by a "print". So does
  one that the authorization server has refused, which is among the faults of
  `connections`, and does not happen in `connections_live`.
- A connect that arrives late resets the session it has led to; `drop` clears only
  the first challenge of the address (`sv_client.cpp:514`); a repeated
  `getchallenge` makes a second challenge. None of these breaks what is checked.

A refusal is sent in one snapshot: if that is lost, the client waits until it
gives up by itself. `DownloadsEnd` asks nothing more once the server has refused.

## 4. The proofs

The proofs hold for every value of the constants that the named assumption of
the component's module allows (`FragmentAssumption`, `ReliableAssumption`,
`SnapshotAssumption`, ...): rings of any size, any number of messages, clients and
map changes, without the bounds of section 3. Where a theorem needs more it says so
in its own ASSUME, listed below; each is a condition under which the code is right
and without which, unless its section says otherwise, it is not. No invariant that is proved is inductive by itself, so
each module defines one that is, made of named parts; it holds initially, every
action preserves it, and the theorems follow from it.

### SvNetChan_proofs

Of the netchan: `TypeCorrect`, `Integrity` (`Intact`), `AtMostOnceInOrder` (`InOrder`),
`ImplementsChannel` (`ChannelSpec`), `NoReceiverStranded` (`NeverStranded`).

`Intact` needs to know what is in the receiver's buffer, hence `BufferIsPrefix`: it
holds the beginning of the message it is for. That in turn needs to know of every
packet on the wire which message it is a piece of (`WireInv`), and so that a
sequence number belongs to one message only: the sender's number is that of the
message being sent, or one more than the number of messages (`SenderSequence`).
`InOrder` needs that the last message delivered carries the receiver's
`incomingSequence` (`LastIsIncoming`). Together with the types these are
`ChannelInv`.

`NeverStranded` looks the other way, from the sender: for each message that has
left, its first piece was sent (`FirstPieceSent`), every full fragment was
followed by the next piece (`ContinuationSent`), and the last is not full
(`EndsWithFragment`). This is where the empty last fragment of a message of
exactly n * `FRAGMENT_SIZE` bytes is needed: without it (`LastWhenAllIsSent`)
`ContinuationSent` fails.

`ImplementsChannel` follows from `ChannelInv`: transmitting is `Submit`, handing
over is `Deliver`, and every other step leaves `sent` and `delivered` alone.

Of the queue in front of it: `QueueIsFaithful` (`NeitherLostNorRepeated`), `EncodedForItsSequence`
(`KeyHasSequence`), `QueueKeepsChannel` (all of the netchan's invariants, with the
queue in front of it), `QueueImplementsChannel`.

The server's `SV_Netchan_TransmitNextFragment` is not a step of `NetChan`: it sends
the last fragment of one message and starts the next, which is two steps in one.
The state between them satisfies `ChannelInv` too, so the lemmas about a single
step are applied twice. `EachOnce` is what the queue adds: no message is in two
places.

### ReliableCommands_proofs

`CommandTypes`, `ServerCommandsInOrder` (`ServerCommandsAsIssued`),
`SnapshotsAfterCommands` (`SnapshotAfterCommands`), `ClientCommandsInOrder`
(`ClientCommandsAsIssued`), `MovesAfterCommands` (`MoveAfterCommands`),
`BothEndsDeriveTheKey` (`KeysAgree`).

The invariant says of each ring what it holds (`RingHolds`: the last commands up
to a number, each as it was issued), and of every message in flight that its
acknowledgements are between what its sender knew when it left and what it knows
now, that its commands are those after what the receiver had acknowledged
(`CommandsUpTo`), and that messages are in the order of their numbers (`Queue`).
Slots of a ring are told apart by `RemaindersDiffer`.

`ClientCommandsInOrder`, `MovesAfterCommands` and `BothEndsDeriveTheKey` assume
`ClientAhead <= MAX_RELIABLE_COMMANDS`: the client never has more commands unacknowledged than its
ring holds. `CL_AddReliableCommand` lets it have one more, which is the
disagreement that `reliable_client_overflow` shows. What is said of the server's
commands needs no such assumption.

### Snapshots_proofs

`SnapshotTypes`, `SnapshotsAreFrames` (`SnapshotsIntact`), `DeltasHaveTheirFrame`
(`DeltaFrameIsKept`), `CGameGetsTheRightSnapshot` (`CGameGetsWhatItAskedFor`).

What matters is `Base`: a message the client acknowledges as the base of a delta is
one whose frame both ends have, for as long as the server may make a delta from it.
It is said of the last acknowledgement, of each one in flight, and of what the
client would send now; of a delta in flight the invariant says that its base is
held and not overtaken before it arrives. The entity rings enter as positions: a
frame is intact as long as no more than a ring's size has been written since.

`SnapshotsAreFrames` assumes `MarginSuffices`: no more than `PARSE_MARGIN` entities
come into view before one that stays. The code's margin is smaller than a frame
may be (section 3, `SnapshotsIntact` with `Crowded`). The other three need nothing.

### Download_proofs

`DownloadTypes`, `FinishedFilesIntact` (`FinishedIntact`), `WindowIsKept`
(`WindowKept`), `NoBrokenDownload` (`AcknowledgesExpectedBlock`).

The server's window and the client's place in the file are tied together by what is
in flight. Of the commands, the first m acknowledge one block after the other, and
the block the server waits to have acknowledged is m behind the one the client
waits for (`QueueOK`). Of the snapshots in flight the invariant (`FlightOK`) says
which file each was made from, and which block it begins with: what it holds of the
client's file is as in the file, or the client has had it (`BlockOK`), files come
one after the other, and nothing behind a file's last block begins with block 0
again (`After`). So the block that is taken for block 0 of a file is one
(`BlockIsTheNext`), and numbers that are sent as shorts do not come round within a
window (`ShortIs`).

All four assume `FilesKeptApart`: no file but the last is shorter than the window or
one the client may be unable to write. In both cases block 0 could still be in flight
when the client waits for block 0 of the next file, and is then taken for it: this
is what `download_broken` shows. It also says that the window is smaller than a
short's range. The instance of `download` keeps to it, with files of just the
window's size.

`ParseBlocks` reads a snapshot block by block; that there is such a recursive
function is shown with `HasMinimum` (`ParseBlocksIs`), and so is what it keeps
(`ParseAll`).

### Connections_proofs

`TypeCorrect`, `OneSlot` (`OneSlotEach`), `GameKnows` (`GameKnowsClients`),
`ImplementsRoster` (`RosterSpec`).

`OneSlotEach` needs the whole handshake: every challenge a slot, a client, the
table or a packet holds is one the server has made (`Known`), and a packet's port is
one its client has had (`GoodPacket`), also after a crash of the server, which
forgets its challenges but not how many it made. The router is what makes it
interesting: a slot's port may be an old one of its client, and by now another's.
Since ports a client has had stay in `had`, two slots that come to have one port are
one client's or those of two that are `Alike`; and a connect that finds a slot of
another qport, or misses its client's own because a lower one has its port, comes
from a client that is alike with the one in that slot. `ImplementsRoster` says the
same of the game: who takes a number that is not free, or gets a second one, is such
a client, and the steps of the router are `Mix`.

`GameKnows` and `ImplementsRoster` assume `"reconnect" \notin Denies`, for which see
the end of section 3.

### GameState_proofs

`GameStateInvariant` (`GameStateInv`, the inductive one), and from it
`GameStateTypes`, `StringsAgree` (`ConfigStringsAgree`), `PureStays`
(`PureClientStays`), `Enters` (`EntersWithGamestate`) and `ImplementsReplica`
(`ReplicaSpec`).

The invariant relates six things: the level, the server's client, the commands,
the messages in flight each way, and the client with its own commands. Its parts:

- `InOrder`: what arrives is newer than what the client has and leaves no gap of
  commands (`Follows`), so that each message may be lost.
- `Divides`: a gamestate has the values of the commands before it and none of those
  after. With `ClientStrings`, which says that just the commands up to the
  client's gamestate are bad, cgame's strings are the `Latest`, although the cgame
  may be started again from `lastExecuted`, which can lie before the gamestate.
- `OnTheWay`: at most one gamestate is on its way (`Alone`), no message that the
  server or the client has is later than it (`Unknown`), and the client has that of
  an older map, or has just downloaded (`Newer`). This is why the server may send
  another only when it has a message that is `later`, and why the config strings
  are never set back.
- `Ids`, `UpIds`: who has a serverId of the map has the map's gamestate; of the
  client's messages this is so of all behind the first with such a serverId.
- `Checked`: behind the last command the server has executed, the checksums of a
  client in the game are the map's. A `vdr` from the game is followed by checksums
  and leaves with them (`Paired`, `PairedAfter`), so the server never executes one
  without the other. One from before the game stands alone, and is executed before
  the client's first move: a client that has the map's gamestate and has not begun
  to play has sent no moves since, and is not in the game on the server either.
- `Downloading`: while the server is told of files under way it executes every
  message whatever its serverId, which is why a message from before the gamestate
  must not come with the client primed. A client that waits for its gamestate adds
  no commands but those of a vid_restart (`OnlyVids`, also in `Newer`), and the
  message that carries its `donedl` has no moves.

All assume `EarlyRestarts = FALSE` and `"snapshot" \notin Large`, the conditions of
section 3 without which a client can come to carry a serverId it has no gamestate
for (`Ids` fails), or get a gamestate behind commands that are newer (`Follows`
fails, see `gamestate_overtaken`). Of `EarlyRestarts` only `Enters` and `PureStays`
are known to need it: TLC finds the other three true without it on an instance like
that of `gamestate`.

### Memory_proofs

`MemoryInvariant` (`MemoryInv`, the inductive one), and from it `MemoryTypes`,
`HeapIsSound` (`HeapOK`), `ExhaustedWhenItSaysSo` (`FailsOnlyWhenFull`),
`TempMemoryOnOneEnd` (`TempOnOneEnd`), `MemoryImplementsAllocator`
(`AllocatorSpec`).

The zone is a ring of blocks whose links agree (`RingOK`) and of which no two free
ones touch (`Merged`). An allocation under way has passed the blocks behind it and
found each in use or too small (`Passed`, `Unfit`); since the last block it leaves
out is next to a free one, or the first again, giving up is right. A block taken may
be cut in two, one given back is joined with either neighbour: each is a change of
the ring of its own (`IsUse`, `IsCut`, `IsJoin`), of which is shown what it keeps and
by how much the count of used memory changes. `HeapOK` compares that count with the
number of places in used blocks (`UsedMemory`).

In the hunk every piece in use lies where its kind says (`Placed`): permanent
memory within a bank's permanent part, what is kept of it below the mark, files and
scratch in the temporary part of one bank; and no two overlap (`AllApart`). That temporary memory can be taken back when the last file is closed
needs the count of files to be that of the files there are, or higher
(`FilesOK`), and scratch memory to be freed newest first (`ScratchStack`).

### What is only model-checked

Liveness, which needs ENABLED and is out of the prover's reach: `CommandsArrive`,
`DroppedClientLeaves`, `DownloadsEnd`, `GetsIn`, `CatchesUp`.

Every other property of a run that passes is stated by a theorem.

Nothing is proved by induction over data. Where a proof needs that Nat is well
ordered, `HasMinimum` provides it, from the well-foundedness of the subset order
on finite sets.

## 5. Not modelled, and the plan

Not modelled at all: bot library, renderer, sound, user interface, collision,
virtual machines, file system, platform layers, vendored libraries. They are data
transformations or I/O, without a protocol. Message bit layouts and Huffman codes
are below what the models tell apart.

To be modelled, in this order:

1. `Loopback` (`net_chan.cpp:448`–`480`): the 16-packet ring, and the list of
   delayed packets of `cl_packetdelay` and `sv_packetdelay`, as another network
   under the netchan. Hazard: the oldest packets are dropped when more than 16 are
   sent before one is read.
2. `EventQueue` (`common.cpp:1781`–`1815`): the ring of pushed events, which
   overflows by dropping the oldest and freeing its data.
3. `CommandBuffer` (`cmd.cpp:118`–`222`): text added behind and inserted before what
   is being executed, and `wait`.
4. Cvars: latched values and the modified flags.

To be proved: what of `GameState` holds when maps restart early, by an invariant in
which a client may have the serverId of a map without its gamestate.
