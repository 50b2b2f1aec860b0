----------------------------- MODULE GameState -----------------------------
(***************************************************************************)
(* How a client gets the state of a game and keeps up with it: the gamestate *)
(* (SV_SendClientGameState, CL_ParseGamestate), the config strings that      *)
(* change later (SV_SetConfigstring, CL_GetServerCommand), the serverId by   *)
(* which the server knows what a client has (SV_ExecuteClientMessage), and   *)
(* the check of a pure client's files (SV_VerifyPaks_f).                     *)
(*                                                                          *)
(* One client of the server, connected. Each side's packets arrive in order  *)
(* or not at all, as NetChan has it; the rings of commands do not overflow,  *)
(* see ReliableCommands, and every snapshot is valid, see Snapshots.         *)
(*                                                                          *)
(* Message numbers are only ever compared with gamestateMessageNum: "later"  *)
(* of a message, or of the last message that arrived, says that its number   *)
(* is greater. A map is known by the serverId it was spawned with, which     *)
(* also stands for its checksumFeed.                                         *)
(***************************************************************************)
EXTENDS Integers, Sequences, FiniteSetsExt

CONSTANTS Pure,                 \* values sv_pure may have
          Large,                \* kinds of messages that may take several fragments
          Downloads,            \* ways to get missing files: "http", "server"
          EarlyRestarts,        \* whether a map may restart before the client is in it
          MaxSpawns,            \* bound: maps after the first
          MaxRestarts,          \* bound: map_restarts
          MaxChanges,           \* bound: config strings the game sets
          MaxVidRestarts,       \* bound: restarts of the client's video
          MaxDownloads,         \* bound: times the client lacks files
          MaxInFlight           \* bound: messages in flight in each direction

ASSUME GameStateAssumption ==
    /\ Pure \subseteq BOOLEAN /\ Pure # {} /\ EarlyRestarts \in BOOLEAN
    /\ Large \subseteq {"gamestate", "snapshot"}
    /\ Downloads \subseteq {"http", "server"}
    /\ {MaxSpawns, MaxRestarts, MaxChanges, MaxVidRestarts, MaxDownloads} \subseteq Nat
    /\ MaxInFlight \in Nat \ {0}

VARIABLES sv,                   \* the level: serverId and config strings
          sc,                   \* the client's client_t
          commands,             \* reliable commands to the client, all there were
          down,                 \* the server's netchan, and what is in flight
          up,                   \* messages in flight to the server
          client,               \* cls, clc and cl of the client, and its cgame
          clientCommands,       \* reliable commands of the client, all there were
          events                \* how often operators and users did as they liked

vars == <<sv, sc, commands, down, up, client, clientCommands, events>>

NoGamestate == [map |-> 0, serverId |-> 0, cs |-> 0, commands |-> 0]
NoSnapshot == [commands |-> 0, active |-> FALSE]

\* SV_DirectConnect has let the client in; gamestateMessageNum is -1.
Init ==
    /\ \E pure \in Pure :
          sv = [serverId |-> 1, restartedServerId |-> 1, systemInfo |-> 1, cs |-> 1,
                pure |-> pure]
    /\ sc = [state |-> "CONNECTED", reliableAcknowledge |-> 0, lastClientCommand |-> 0,
             pureReceived |-> FALSE, pureAuthentic |-> FALSE, downloading |-> FALSE]
    /\ commands = <<>>
    /\ down = [flight |-> <<>>, fragmented |-> <<>>, queue |-> <<>>]
    /\ up = <<>>
    /\ client = [state |-> "CONNECTED", download |-> "none", later |-> TRUE,
                 gamestate |-> NoGamestate, serverId |-> 0, cs |-> 0,
                 serverCommandSequence |-> 0, lastExecuted |-> 0, cgame |-> 0,
                 bad |-> {}, snap |-> NoSnapshot]
    /\ clientCommands = <<>>
    /\ events = [spawns |-> 0, restarts |-> 0, changes |-> 0, vids |-> 0, downloads |-> 0]

Count(what) == events' = [events EXCEPT ![what] = @ + 1]

\* Messages in flight when one more is sent: a full network loses the one it
\* has had longest.
Sent(flight, m) ==
    IF Len(flight) < MaxInFlight THEN Append(flight, m) ELSE Append(Tail(flight), m)

-----------------------------------------------------------------------------
(* The server sends *)

\* With the commands the client has not acknowledged.
Message(kind, c, gamestate) ==
    [kind |-> kind, gamestate |-> gamestate,
     first |-> c.reliableAcknowledge + 1, last |-> Len(commands),
     active |-> c.state = "ACTIVE", download |-> c.downloading,
     later |-> kind = "snapshot"]

\* Netchan_Transmit: the message is sent whole, or in fragments.
Started(net, m) ==
    {[net EXCEPT !.flight = Sent(@, m)]} \cup
    IF m.kind \in Large THEN {[net EXCEPT !.fragmented = <<m>>]} ELSE {}

\* The last fragment is sent.
Completed(net) == [net EXCEPT !.flight = Sent(@, net.fragmented[1]), !.fragmented = <<>>]

\* SV_Netchan_Transmit: behind unsent fragments the message is queued, and one
\* more fragment is sent.
Transmitted(net, m) ==
    IF net.fragmented = <<>>
    THEN Started(net, m)
    ELSE LET queued == [net EXCEPT !.queue = Append(@, m)]
         IN  {queued, Completed(queued)}

\* SV_Netchan_TransmitNextFragment: after the last one, the first message of
\* the queue is given a number and sent.
TransmitNextFragment ==
    /\ down.fragmented # <<>>
    /\ LET net == Completed(down)
       IN  IF net.queue = <<>>
           THEN down' = net
           ELSE down' \in Started([net EXCEPT !.queue = Tail(@)],
                                  [Head(net.queue) EXCEPT !.later = TRUE])
    /\ UNCHANGED <<sv, sc, commands, up, client, clientCommands, events>>

Gamestate ==
    [map |-> sv.restartedServerId, serverId |-> sv.systemInfo, cs |-> sv.cs,
     commands |-> Len(commands)]

\* SV_SendClientGameState. No message so far has a number greater than
\* gamestateMessageNum any more.
Primed(c) ==
    [c EXCEPT !.state = "PRIMED", !.pureReceived = FALSE, !.pureAuthentic = FALSE]

NotLater(flight) == [i \in DOMAIN flight |-> [flight[i] EXCEPT !.later = FALSE]]

SendClientGameState(c, received) ==
    /\ down' \in Transmitted([flight     |-> NotLater(down.flight),
                              fragmented |-> NotLater(down.fragmented),
                              queue      |-> down.queue],
                             Message("gamestate", Primed(c), Gamestate))
    /\ up' = NotLater(received)
    /\ client' = [client EXCEPT !.later = FALSE]

\* SV_SendClientMessages, after SV_Frame has brought the config strings up to
\* date.
SendSnapshot ==
    /\ down.fragmented = <<>> /\ sc.state # "DROPPED"
    /\ sv.systemInfo = sv.serverId
    /\ down' \in Started(down, Message("snapshot", sc, NoGamestate))
    /\ UNCHANGED <<sv, sc, commands, up, client, clientCommands, events>>

-----------------------------------------------------------------------------
(* The level *)

\* SV_SetConfigstring: to clients that have been sent the gamestate.
Broadcast(kind, value) ==
    commands' = IF sc.state \in {"PRIMED", "ACTIVE"}
                THEN Append(commands, [kind |-> kind, value |-> value])
                ELSE commands

SetConfigstring ==
    /\ events.changes < MaxChanges /\ Count("changes")
    /\ sv' = [sv EXCEPT !.cs = @ + 1]
    /\ Broadcast("cs", sv.cs + 1)
    /\ UNCHANGED <<sc, down, up, client, clientCommands>>

\* SV_Frame: "update infostrings if anything has been changed".
UpdateSystemInfo ==
    /\ sv.systemInfo # sv.serverId
    /\ sv' = [sv EXCEPT !.systemInfo = sv.serverId]
    /\ Broadcast("systemInfo", sv.serverId)
    /\ UNCHANGED <<sc, down, up, client, clientCommands, events>>

\* Bug: a new map is taken for a restart of the last.
SpawnServerAsRestart ==
    /\ events.spawns < MaxSpawns /\ Count("spawns")
    /\ LET id == sv.serverId + 1
       IN  sv' = [sv EXCEPT !.serverId = id, !.systemInfo = id, !.cs = @ + 1]
    /\ sc' = IF sc.state = "DROPPED" THEN sc ELSE [sc EXCEPT !.state = "CONNECTED"]
    /\ UNCHANGED <<commands, down, up, client, clientCommands>>

\* SV_SpawnServer: every config string is new.
SpawnServer ==
    /\ events.spawns < MaxSpawns /\ Count("spawns")
    /\ LET id == sv.serverId + 1
       IN  sv' = [sv EXCEPT !.serverId = id, !.restartedServerId = id, !.systemInfo = id,
                             !.cs = @ + 1]
    /\ sc' = IF sc.state = "DROPPED" THEN sc ELSE [sc EXCEPT !.state = "CONNECTED"]
    /\ UNCHANGED <<commands, down, up, client, clientCommands>>

\* SV_MapRestart_f: a client in the game enters it again.
MapRestart ==
    /\ events.restarts < MaxRestarts /\ Count("restarts")
    /\ EarlyRestarts \/ sc.state = "ACTIVE"
    /\ sv' = [sv EXCEPT !.serverId = @ + 1]
    /\ commands' = Append(commands, [kind |-> "map_restart", value |-> 0])
    /\ UNCHANGED <<sc, down, up, client, clientCommands>>

-----------------------------------------------------------------------------
(* The server receives *)

\* Bug: "it is an outdated cp command" is not asked.
VerifyPaksAnytime(c, cmd) ==
    IF ~ sv.pure
    THEN c
    ELSE IF cmd.map = sv.restartedServerId
         THEN [c EXCEPT !.pureReceived = TRUE, !.pureAuthentic = TRUE]
         ELSE [c EXCEPT !.pureReceived = TRUE, !.state = "DROPPED"]

\* SV_VerifyPaks_f
VerifyPaks(c, cmd) ==
    IF ~ sv.pure \/ cmd.serverId < sv.restartedServerId
    THEN c
    ELSE IF cmd.map = sv.restartedServerId
         THEN [c EXCEPT !.pureReceived = TRUE, !.pureAuthentic = TRUE]
         ELSE [c EXCEPT !.pureReceived = TRUE, !.state = "DROPPED"]

\* SV_ExecuteClientCommand
Executed(c, cmd) ==
    CASE cmd.kind = "cp"       -> VerifyPaks(c, cmd)
      [] cmd.kind = "vdr"      -> [c EXCEPT !.pureReceived = FALSE, !.pureAuthentic = FALSE]
      [] cmd.kind = "download" -> [c EXCEPT !.downloading = TRUE]
      [] cmd.kind = "donedl"   -> Primed([c EXCEPT !.downloading = FALSE])

\* SV_UserMove, as far as it is about the client's state
UserMove(c) ==
    IF sv.pure /\ ~ c.pureReceived
    THEN IF c.state = "ACTIVE" THEN Primed(c) ELSE c
    ELSE IF c.state = "PRIMED" THEN [c EXCEPT !.state = "ACTIVE"] ELSE c

\* Bug: the serverId is not looked at until the client has entered the game.
MismatchInGame(m) == m.serverId # sv.serverId /\ ~ sc.downloading /\ sc.state # "PRIMED"

\* SV_ExecuteClientMessage. Downloading here includes the time from one file
\* to the next, when the last command was "nextdl".
Mismatch(m) == m.serverId # sv.serverId /\ ~ sc.downloading

MissedRestart(m) == m.serverId >= sv.restartedServerId /\ m.serverId < sv.serverId

\* "if we can tell that the client has dropped the last gamestate we sent them"
DroppedGamestate(m) == ~ MissedRestart(m) /\ m.later

Acknowledged(m) == [sc EXCEPT !.reliableAcknowledge = m.acknowledge]

\* The commands of message m that the server has not executed yet
New(m) == SubSeq(clientCommands, sc.lastClientCommand + 1, m.commands)

ExecuteCommands(m) ==
    LET after[i \in 0 .. Len(New(m))] ==
            IF i = 0 THEN Acknowledged(m) ELSE Executed(after[i - 1], New(m)[i])
    IN  [after[Len(New(m))] EXCEPT
            !.lastClientCommand = Max({sc.lastClientCommand, m.commands})]

Received == Tail(up)

ReceiveMismatch(m) ==
    /\ Mismatch(m)
    /\ IF DroppedGamestate(m)
       THEN /\ sc' = Primed(Acknowledged(m))
            /\ SendClientGameState(Acknowledged(m), Received)
       ELSE sc' = Acknowledged(m) /\ up' = Received /\ UNCHANGED <<down, client>>

\* A gamestate is sent by "donedl", or else by the move of a client in the game
\* whose checksums have not come; not by both.
ReceiveMatch(m) ==
    /\ ~ Mismatch(m)
    /\ LET c     == ExecuteCommands(m)
           moved == IF m.moves /\ c.state # "DROPPED" THEN UserMove(c) ELSE c
           asked == \E i \in DOMAIN New(m) : New(m)[i].kind = "donedl"
       IN  /\ sc' = moved
           /\ IF asked \/ (c.state = "ACTIVE" /\ moved.state = "PRIMED")
              THEN SendClientGameState(c, Received)
              ELSE up' = Received /\ UNCHANGED <<down, client>>

ServerReceives ==
    /\ up # <<>> /\ sc.state # "DROPPED"
    /\ ReceiveMismatch(Head(up)) \/ ReceiveMatch(Head(up))
    /\ UNCHANGED <<sv, commands, clientCommands, events>>

-----------------------------------------------------------------------------
(* The client receives *)

IsConfigString(cmd) == cmd.kind \in {"cs", "systemInfo"}

\* Bug: a command is stored again when it comes again.
StoredAgain(c, m) ==
    [c EXCEPT !.bad = @ \ (m.first .. m.last),
              !.serverCommandSequence = Max({c.serverCommandSequence, m.last})]

\* CL_ParseCommandString of all commands in the message. Commands between the
\* client's sequence and the message's first are in the ring from before.
Stored(c, m) ==
    [c EXCEPT !.bad = @ \ (Max({c.serverCommandSequence + 1, m.first}) .. m.last),
              !.serverCommandSequence = Max({c.serverCommandSequence, m.last})]

\* Bug: the gamestate's command sequence is taken for that of the next command.
ParseGamestateNext(c, gs) ==
    [c EXCEPT !.gamestate = gs, !.serverId = gs.serverId, !.cs = gs.cs,
              !.bad = {n \in DOMAIN commands : IsConfigString(commands[n])},
              !.serverCommandSequence = gs.commands + 1,
              !.snap = NoSnapshot]

\* Bug: config string commands from before the gamestate stay valid.
ParseGamestateOnly(c, gs) ==
    [c EXCEPT !.gamestate = gs, !.serverId = gs.serverId, !.cs = gs.cs,
              !.serverCommandSequence = gs.commands,
              !.snap = NoSnapshot]

\* CL_ParseGamestate. "all previous config string commands need to be marked
\* as invalid"
ParseGamestate(c, gs) ==
    [c EXCEPT !.gamestate = gs, !.serverId = gs.serverId, !.cs = gs.cs,
              !.bad = {n \in DOMAIN commands : IsConfigString(commands[n])},
              !.serverCommandSequence = gs.commands,
              !.snap = NoSnapshot]

AddCommands(cmds) == clientCommands' = clientCommands \o cmds

Command(kind) == <<[kind |-> kind, serverId |-> 0, map |-> 0]>>
Checksums(c) == <<[kind |-> "cp", serverId |-> c.serverId, map |-> c.gamestate.map]>>

\* The message that has come
Incoming == Head(down.flight)

Arrives(kind) ==
    /\ down.flight # <<>> /\ Incoming.kind = kind
    /\ down' = [down EXCEPT !.flight = Tail(@)]
    /\ UNCHANGED <<sv, sc, commands, up>>

\* CL_InitDownloads: the client has all files, gets them from a web server, or
\* from this one.
WithGamestate ==
    [ParseGamestate(Stored(client, Incoming), Incoming.gamestate) EXCEPT !.later = Incoming.later]

ReceiveGamestate ==
    /\ Arrives("gamestate")
    /\ \/ /\ client' = [WithGamestate EXCEPT !.state = "LOADING", !.download = "none"]
          /\ UNCHANGED <<clientCommands, events>>
       \/ \E d \in Downloads :
             /\ events.downloads < MaxDownloads /\ Count("downloads")
             /\ client' = [WithGamestate EXCEPT !.state = "CONNECTED", !.download = d]
             /\ AddCommands(IF d = "server" THEN Command("download") ELSE <<>>)

\* CL_ParseSnapshot and CL_FirstSnapshot
ParseSnapshot(c) ==
    [c EXCEPT !.snap = [commands |-> c.serverCommandSequence, active |-> Incoming.active],
              !.state = IF @ = "PRIMED" /\ Incoming.active THEN "ACTIVE" ELSE @]

WithSnapshot == [ParseSnapshot(Stored(client, Incoming)) EXCEPT !.later = Incoming.later]

ReceiveSnapshot ==
    /\ Arrives("snapshot")
    /\ client' = WithSnapshot
    /\ UNCHANGED <<clientCommands, events>>

\* The snapshot comes with the last block of the last file.
ReceiveLastBlock ==
    /\ Arrives("snapshot") /\ Incoming.download /\ client.download = "server"
    /\ client' = [WithSnapshot EXCEPT !.download = "none"]
    /\ AddCommands(Command("donedl"))
    /\ UNCHANGED events

\* The file from the web server is there: CL_MapDownload_Continue.
DownloadDone ==
    /\ client.download = "http"
    /\ client' = [client EXCEPT !.download = "none", !.state = "LOADING"]
    /\ UNCHANGED <<sv, sc, commands, down, up, clientCommands, events>>

-----------------------------------------------------------------------------
(* The client loads, plays and sends *)

\* CL_InitCGame: cgame starts with the last command that was executed.
InitCGame(c) ==
    [c EXCEPT !.cgame = c.lastExecuted,
              !.state = IF c.snap.active /\ c.state = "LOADING" THEN "ACTIVE" ELSE "PRIMED"]

\* The rest of CL_DownloadsComplete. "Pump the loop, this may change gamestate":
\* other messages may have come since the gamestate.
Load ==
    /\ client.state = "LOADING"
    /\ client' = InitCGame(client)
    /\ AddCommands(Checksums(client))
    /\ UNCHANGED <<sv, sc, commands, down, up, events>>

\* CL_ShutdownCGame cancels a download from a web server.
DownloadAfterShutdown == IF client.download = "http" THEN "cancelled" ELSE client.download

\* CL_Vid_Restart_f. Commands are not executed while the client is loading; before
\* that there is no cgame to start again, and nothing takes up a download that
\* was cancelled.
VidRestart ==
    /\ client.state # "LOADING"
    /\ events.vids < MaxVidRestarts /\ Count("vids")
    /\ \/ /\ client.state = "CONNECTED"
          /\ client' = [client EXCEPT !.download = DownloadAfterShutdown]
          /\ AddCommands(Command("vdr"))
       \/ /\ client.state \in {"PRIMED", "ACTIVE"}
          /\ client' = InitCGame(client)
          /\ AddCommands(Command("vdr") \o Checksums(client))
    /\ UNCHANGED <<sv, sc, commands, down, up>>

\* cgame executes the commands up to its snapshot's with CL_GetServerCommand,
\* which refuses it the bad ones.
ToExecute == {n \in client.cgame + 1 .. client.snap.commands : n \notin client.bad}

Newest(kind) ==
    LET ns == {n \in ToExecute : commands[n].kind = kind}
    IN  IF ns = {} THEN 0 ELSE commands[Max(ns)].value

CGameExecutes ==
    /\ client.state = "ACTIVE" /\ client.cgame < client.snap.commands
    /\ client' = [client EXCEPT
          !.cgame        = client.snap.commands,
          !.lastExecuted = IF ToExecute = {} THEN @ ELSE Max(ToExecute),
          !.cs           = IF Newest("cs") = 0 THEN @ ELSE Newest("cs"),
          !.serverId     = IF Newest("systemInfo") = 0 THEN @ ELSE Newest("systemInfo")]
    /\ UNCHANGED <<sv, sc, commands, down, up, clientCommands, events>>

\* CL_WritePacket
WritePacket ==
    /\ client.state # "LOADING"
    /\ up' = Sent(up, [serverId    |-> client.serverId, later |-> client.later,
                       acknowledge |-> client.serverCommandSequence,
                       commands    |-> Len(clientCommands),
                       moves       |-> client.state \in {"PRIMED", "ACTIVE"}])
    /\ UNCHANGED <<sv, sc, commands, down, client, clientCommands, events>>

LoseDown ==
    /\ down.flight # <<>>
    /\ down' = [down EXCEPT !.flight = Tail(@)]
    /\ UNCHANGED <<sv, sc, commands, up, client, clientCommands, events>>

LoseUp ==
    /\ up # <<>>
    /\ up' = Tail(up)
    /\ UNCHANGED <<sv, sc, commands, down, client, clientCommands, events>>

Next ==
    \/ TransmitNextFragment \/ SendSnapshot
    \/ SetConfigstring \/ UpdateSystemInfo \/ SpawnServer \/ MapRestart
    \/ ServerReceives
    \/ ReceiveGamestate \/ ReceiveSnapshot \/ ReceiveLastBlock \/ DownloadDone
    \/ Load \/ VidRestart \/ CGameExecutes \/ WritePacket
    \/ LoseDown \/ LoseUp

Spec == Init /\ [][Next]_vars

\* Both sides run frame after frame, and of messages of a kind that are sent over
\* and over some get through. What users and operators do is up to them.
Fairness ==
    /\ WF_vars(TransmitNextFragment) /\ WF_vars(SendSnapshot) /\ WF_vars(UpdateSystemInfo)
    /\ WF_vars(Load) /\ WF_vars(DownloadDone) /\ WF_vars(CGameExecutes) /\ WF_vars(WritePacket)
    /\ SF_vars(ServerReceives)
    /\ SF_vars(ReceiveGamestate) /\ SF_vars(ReceiveSnapshot) /\ SF_vars(ReceiveLastBlock)

FairSpec == Spec /\ Fairness

-----------------------------------------------------------------------------
TypeOK ==
    /\ sc.state \in {"CONNECTED", "PRIMED", "ACTIVE", "DROPPED"}
    /\ client.state \in {"CONNECTED", "LOADING", "PRIMED", "ACTIVE"}
    /\ {sc.reliableAcknowledge, client.cgame, client.lastExecuted} \subseteq 0 .. Len(commands)
    /\ client.snap.commands <= client.serverCommandSequence
    /\ Len(down.fragmented) <= 1

\* What the client's config strings are in the game: those of its gamestate and
\* every change the server has announced since, as far as cgame has come; none
\* from before the gamestate, none left out (CL_ParseGamestate,
\* CL_ParseCommandString, CL_GetServerCommand).
Since(kind) ==
    LET ns == {n \in client.gamestate.commands + 1 .. client.cgame : commands[n].kind = kind}
    IN  IF ns = {} THEN 0 ELSE commands[Max(ns)].value

ConfigStringsAgree ==
    client.state \in {"PRIMED", "ACTIVE"} =>
        client.cs = IF Since("cs") = 0 THEN client.gamestate.cs ELSE Since("cs")

\* The config string of the client is a Replica of the server's: it is never set
\* back, by a gamestate or a command that comes late.
Strings == INSTANCE Replica WITH original <- sv.cs, copy <- client.cs
ReplicaSpec == Strings!Spec

\* "if this is the first usercmd we have received this gamestate, put the client
\* into the world": it has that gamestate, not only its serverId (SV_UserMove).
EntersWithGamestate ==
    [][sc.state # "ACTIVE" /\ sc'.state = "ACTIVE" =>
          client.gamestate.map = sv.restartedServerId]_vars

\* A client whose files are right is never dropped for them, whatever maps its
\* checksums were made for and whenever they arrive (SV_VerifyPaks_f).
PureClientStays == sc.state # "DROPPED"

\* When users and operators leave it alone for good, the client gets into the
\* game and has what the server has. It is not so if the gamestate it asked for
\* after a download is lost, or if a vid_restart has cancelled the download: it has
\* had a gamestate with that serverId, by which the server takes it to be up to date.
UpToDate ==
    /\ sc.state = "ACTIVE" /\ client.state = "ACTIVE"
    /\ client.gamestate.map = sv.restartedServerId
    /\ client.serverId = sv.serverId /\ client.cs = sv.cs

WaitsInVain ==
    /\ client.state = "CONNECTED" /\ client.download = "none"
    /\ client.serverId = sv.serverId

DownloadCancelled ==
    /\ client.state = "CONNECTED" /\ client.download = "cancelled"
    /\ client.serverId = sv.serverId

CatchesUp == <>[](UpToDate \/ WaitsInVain \/ DownloadCancelled)
=============================================================================
