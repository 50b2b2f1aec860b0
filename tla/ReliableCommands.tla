------------------------- MODULE ReliableCommands -------------------------
(***************************************************************************)
(* The two reliable command streams of a connection and the XOR keys made   *)
(* from them: server/sv_main.cpp, sv_snapshot.cpp, sv_client.cpp and        *)
(* sv_net_chan.cpp against client/cl_main.cpp, cl_input.cpp, cl_parse.cpp,  *)
(* cl_cgame.cpp and cl_net_chan.cpp.                                        *)
(*                                                                          *)
(* Each side numbers its commands, keeps the last MAX_RELIABLE_COMMANDS of  *)
(* them in a ring, repeats in every message those the other side has not    *)
(* acknowledged, and acknowledges the other side's. The body of a message   *)
(* is encoded with the text of the command its header acknowledges; the     *)
(* other side decodes with the text its own ring holds for that number.     *)
(*                                                                          *)
(* Messages travel as MessageChannel promises and NetChan delivers: some    *)
(* are lost, the others arrive intact, once, and in order.                  *)
(***************************************************************************)
EXTENDS Integers, Sequences, FiniteSetsExt

CONSTANTS MAX_RELIABLE_COMMANDS,    \* ring size (64)
          FloodProtect,             \* sv_floodProtect, on a dedicated server
          MaxServerCommands,        \* bound: commands the game sends
          MaxClientCommands,        \* bound: commands the client sends
          ServerAhead,              \* bound: unacknowledged commands of the game
          ClientAhead,              \* bound: unacknowledged commands of the client
          Window                    \* bound: messages in flight, each way

ASSUME ReliableAssumption ==
    /\ MAX_RELIABLE_COMMANDS \in Nat \ {0}
    /\ FloodProtect \in BOOLEAN
    /\ {MaxServerCommands, MaxClientCommands, ServerAhead, ClientAhead, Window} \subseteq Nat

VARIABLES sv,           \* the server's client_t
          cl,           \* the client's clientConnection_t
          toClient,     \* messages in flight
          toServer,
          executed,     \* history: client commands the server executed
          taken,        \* history: server commands cgame took
          lastMove      \* history: the last user move executed, as the number of
                        \* client commands issued before it

vars == <<sv, cl, toClient, toServer, executed, taken, lastMove>>

Slot(n) == n % MAX_RELIABLE_COMMANDS

\* The text of the n-th command of either side is n; 0 is the empty string.
Empty == 0
Disconnect == -1
Broadcast == -2         \* the print that tells everyone of a drop
NoCommands == [i \in 0 .. MAX_RELIABLE_COMMANDS - 1 |-> Empty]

\* Bug: one command per message.
OldestUnacknowledged(c) ==
    [i \in {n \in {c.reliableAcknowledge + 1} : n <= c.reliableSequence} |->
        c.reliableCommands[Slot(i)]]

\* Every command from number first on, as (re)sent in a message.
Unacknowledged(c) ==
    [i \in c.reliableAcknowledge + 1 .. c.reliableSequence |-> c.reliableCommands[Slot(i)]]

Outstanding(c) == c.reliableSequence - c.reliableAcknowledge

\* Number the next command, with and without writing it to the ring.
Skipped(c) == [c EXCEPT !.reliableSequence = @ + 1]
Stored(c, text) ==
    [Skipped(c) EXCEPT !.reliableCommands[Slot(c.reliableSequence + 1)] = text]

Init ==
    /\ sv = [state |-> "ACTIVE", drops |-> 0, flooding |-> FALSE,
             reliableSequence |-> 0, reliableAcknowledge |-> 0,
             reliableCommands |-> NoCommands,
             lastClientCommand |-> 0, lastClientCommandString |-> Empty]
    /\ cl = [state |-> "CONNECTED",
             reliableSequence |-> 0, reliableAcknowledge |-> 0,
             reliableCommands |-> NoCommands,
             serverCommandSequence |-> 0, serverCommands |-> NoCommands,
             lastExecutedServerCommand |-> 0,
             snapCommands |-> 0, snapStamp |-> 0]
    /\ toClient = << >>
    /\ toServer = << >>
    /\ executed = << >>
    /\ taken = << >>
    /\ lastMove = 0

-----------------------------------------------------------------------------
(* Server *)

\* Bug: noticed one command too late.
OverflowsLate(c) == Outstanding(Skipped(c)) = MAX_RELIABLE_COMMANDS + 2

\* "if we would be losing an old command that hasn't been acknowledged, we must
\* drop the connection"; the check is for equality, see SV_AddServerCommand.
Overflows(c) == Outstanding(Skipped(c)) = MAX_RELIABLE_COMMANDS + 1

\* The end of SV_DropClient. Its "disconnect" command goes through
\* SV_AddServerCommand, whose own call of SV_DropClient returns at once for a
\* client that is a zombie already.
BecomeZombie(c) ==
    LET z == [c EXCEPT !.state = "ZOMBIE", !.drops = @ + 1]
    IN  IF Overflows(z) THEN Skipped(z) ELSE Stored(z, Disconnect)

\* SV_DropClient. The client is not a zombie yet when the broadcast print is
\* added, so a print that overflows drops it again from within.
DropClient(c) ==
    IF c.state = "ZOMBIE" THEN c
    ELSE IF Overflows(c) THEN BecomeZombie(BecomeZombie(Stored(Skipped(c), Broadcast)))
    ELSE BecomeZombie(Stored(c, Broadcast))

AddServerCommand(c, text) ==
    IF Overflows(c) THEN DropClient(Skipped(c)) ELSE Stored(c, text)

\* The game sends the client a command.
GameCommand ==
    /\ sv.state = "ACTIVE"
    /\ sv.reliableSequence < MaxServerCommands
    /\ Outstanding(sv) < ServerAhead
    /\ sv' = AddServerCommand(sv, sv.reliableSequence + 1)
    /\ UNCHANGED <<cl, toClient, toServer, executed, taken, lastMove>>

\* The client is kicked.
Kick ==
    /\ sv.state = "ACTIVE"
    /\ sv' = DropClient(sv)
    /\ UNCHANGED <<cl, toClient, toServer, executed, taken, lastMove>>

\* SV_SendClientSnapshot: acknowledgement, commands, snapshot; encoded by
\* SV_Netchan_Encode. Zombies are sent to as well.
ServerMessage ==
    [ack |-> sv.lastClientCommand,
     key |-> sv.lastClientCommandString,
     commands |-> Unacknowledged(sv),
     stamp |-> sv.reliableSequence]

\* Bug: zombies are not sent to.
SendSnapshotToActive ==
    /\ sv.state = "ACTIVE"
    /\ Len(toClient) < Window
    /\ toClient' = Append(toClient, ServerMessage)
    /\ UNCHANGED <<sv, cl, toServer, executed, taken, lastMove>>

SendSnapshot ==
    /\ Len(toClient) < Window
    /\ toClient' = Append(toClient, ServerMessage)
    /\ UNCHANGED <<sv, cl, toServer, executed, taken, lastMove>>

\* SV_Netchan_Decode finds the body the client encoded.
ServerDecodes(p) == p.key = sv.reliableCommands[Slot(p.ack)]

\* Bug: the acknowledgement is taken for the next command expected.
AcknowledgeNext(c, ack) == [c EXCEPT !.reliableAcknowledge = ack - 1]

\* SV_ExecuteClientMessage: the acknowledgement, or what is made of one that is
\* out of range.
OutOfRange(c, ack) == ack < c.reliableSequence - MAX_RELIABLE_COMMANDS
Acknowledge(c, ack) ==
    [c EXCEPT !.reliableAcknowledge = IF OutOfRange(c, ack) THEN c.reliableSequence ELSE ack]

\* Bug: the next command is taken for a known one.
NewButOne(commands, last) == {i \in DOMAIN commands : i > last + 1}

\* The commands of a message that SV_ClientCommand does not know yet, up to the
\* one that disconnects.
New(commands, last) == {i \in DOMAIN commands : i > last}

\* Bug: one command is executed per packet, and the packet goes on.
ExecutableFirst(commands) ==
    {i \in New(commands, sv.lastClientCommand) : i = sv.lastClientCommand + 1}

Executable(commands) ==
    {i \in New(commands, sv.lastClientCommand) :
        \A j \in New(commands, sv.lastClientCommand) : j < i => commands[j] # Disconnect}

\* "don't allow another command for one second": a command that comes too soon
\* is not passed to the game, but is executed as far as its number goes.
PassedToGame(i) ==
    \/ ~ FloodProtect
    \/ ~ sv.flooding /\ i = sv.lastClientCommand + 1

\* "drop the connection if we have somehow lost commands"
LostCommands(commands) ==
    /\ DOMAIN commands # {}
    /\ Min(DOMAIN commands) > sv.lastClientCommand + 1

\* Bug: lastClientCommand is not advanced.
ClientCommandsUncounted(c, commands) ==
    LET new == Executable(commands)
    IN  IF new = {} THEN c
        ELSE [c EXCEPT !.lastClientCommandString = commands[Max(new)], !.flooding = FloodProtect]

\* SV_ClientCommand for the commands of a message, up to the first that closes
\* the connection.
ClientCommands(c, commands) ==
    LET new  == Executable(commands)
        last == Max(new)
        text == commands[last]
        done == [c EXCEPT !.lastClientCommand = last, !.lastClientCommandString = text,
                          !.flooding = FloodProtect]
    IN  IF new = {} THEN c ELSE IF text = Disconnect THEN DropClient(done) ELSE done

Executions(commands) ==
    LET new == Executable(commands)
    IN  [k \in 1 .. Cardinality(new) |->
            LET i == sv.lastClientCommand + k
            IN  [text |-> commands[i], passed |-> PassedToGame(i)]]

\* SV_PacketEvent, for a message the netchan accepts. A zombie's goes no
\* further than the netchan.
ReceiveClientMessage ==
    /\ toServer # << >>
    /\ toServer' = Tail(toServer)
    /\ LET p == Head(toServer)
           c == Acknowledge(sv, p.ack)
       IN  IF sv.state = "ZOMBIE"
           THEN UNCHANGED <<sv, executed, lastMove>>
           ELSE IF OutOfRange(sv, p.ack)
           THEN sv' = c /\ UNCHANGED <<executed, lastMove>>
           ELSE IF LostCommands(p.commands) \/ ~ ServerDecodes(p)
           \* a body that is not decoded is no command, or one with a number
           \* that makes commands seem lost
           THEN /\ \/ sv' = DropClient(c)
                   \/ ~ ServerDecodes(p) /\ sv' = c
                /\ UNCHANGED <<executed, lastMove>>
           ELSE LET d == ClientCommands(c, p.commands)
                IN  /\ sv' = d
                    /\ executed' = executed \o Executions(p.commands)
                    \* SV_UserMove
                    /\ lastMove' = IF d.state = "ZOMBIE" THEN lastMove ELSE p.move
    /\ UNCHANGED <<cl, toClient, taken>>

\* A second without client commands: nextReliableTime is past.
FloodTimePasses ==
    /\ sv.flooding
    /\ sv' = [sv EXCEPT !.flooding = FALSE]
    /\ UNCHANGED <<cl, toClient, toServer, executed, taken, lastMove>>

-----------------------------------------------------------------------------
(* Client *)

\* Bug: the key is that of the last command executed, not received.
ClientMessageKeyedByExecuted(c) ==
    [ack |-> c.serverCommandSequence,
     key |-> c.serverCommands[Slot(c.lastExecutedServerCommand)],
     commands |-> Unacknowledged(c),
     move |-> c.reliableSequence]

\* CL_WritePacket, encoded by CL_Netchan_Encode.
ClientMessage(c) ==
    [ack |-> c.serverCommandSequence,
     key |-> c.serverCommands[Slot(c.serverCommandSequence)],
     commands |-> Unacknowledged(c),
     move |-> c.reliableSequence]

\* CL_AddReliableCommand goes on to Com_Error instead.
ClientOverflows(c) == Outstanding(c) > MAX_RELIABLE_COMMANDS

\* What Com_Error leaves of the connection. CL_Disconnect sends a "disconnect"
\* command three times; an error while it handles an error ends the process.
Disconnected(c) == IF ClientOverflows(c) THEN [c EXCEPT !.state = "FATAL"]
                   ELSE [c EXCEPT !.state = "DISCONNECTED"]

Last3(c) == IF ClientOverflows(c) THEN << >>
            ELSE [k \in 1 .. 3 |-> ClientMessage(Stored(c, Disconnect))]

ClientError(c) ==
    /\ cl' = Disconnected(c)
    /\ toServer' = toServer \o Last3(c)

AddReliableCommand ==
    /\ cl.state = "CONNECTED"
    /\ cl.reliableSequence < MaxClientCommands
    /\ Outstanding(cl) < ClientAhead
    /\ \/ /\ ~ ClientOverflows(cl)
          /\ cl' = Stored(cl, cl.reliableSequence + 1)
          /\ UNCHANGED toServer
       \/ /\ ClientOverflows(cl)
          /\ ClientError(cl)
    /\ UNCHANGED <<sv, toClient, executed, taken, lastMove>>

\* CL_Disconnect on the user's command.
LeaveServer ==
    /\ cl.state = "CONNECTED"
    /\ ClientError(cl)
    /\ UNCHANGED <<sv, toClient, executed, taken, lastMove>>

WritePacket ==
    /\ cl.state = "CONNECTED"
    /\ Len(toServer) < Window
    /\ toServer' = Append(toServer, ClientMessage(cl))
    /\ UNCHANGED <<sv, cl, toClient, executed, taken, lastMove>>

ClientDecodes(p) == p.key = cl.reliableCommands[Slot(p.ack)]

\* CL_ParseCommandString for every command of a message: those not seen yet go
\* to the ring.
ParseCommands(c, commands) ==
    LET new == New(commands, c.serverCommandSequence)
        InSlot(j) == {i \in new : Slot(i) = j}
    IN  IF new = {} THEN c
        ELSE [c EXCEPT !.serverCommandSequence = Max(new),
                       !.serverCommands = [j \in DOMAIN @ |->
                            IF InSlot(j) = {} THEN @[j] ELSE commands[Max(InSlot(j))]]]

\* CL_ParseSnapshot notes the commands to execute before the snapshot.
ParseSnapshot(c, p) ==
    [c EXCEPT !.snapCommands = c.serverCommandSequence, !.snapStamp = p.stamp]

\* CL_PacketEvent and CL_ParseServerMessage. A message that is not decoded is
\* no command the parser knows, most of the time.
ReceiveServerMessage ==
    /\ toClient # << >>
    /\ toClient' = Tail(toClient)
    /\ LET p == Head(toClient)
           c == Acknowledge(cl, p.ack)
       IN  \/ /\ cl.state # "CONNECTED"
              /\ UNCHANGED <<cl, toServer>>
           \/ /\ cl.state = "CONNECTED"
              /\ ClientDecodes(p)
              /\ cl' = ParseSnapshot(ParseCommands(c, p.commands), p)
              /\ UNCHANGED toServer
           \/ /\ cl.state = "CONNECTED"
              /\ ~ ClientDecodes(p)
              /\ \/ cl' = c /\ UNCHANGED toServer
                 \/ ClientError(c)
    /\ UNCHANGED <<sv, executed, taken, lastMove>>

\* cgame executes the next command before it makes the snapshot current:
\* CL_GetServerCommand.
GetServerCommand ==
    /\ cl.state = "CONNECTED"
    /\ cl.lastExecutedServerCommand < cl.snapCommands
    /\ LET n == cl.lastExecutedServerCommand + 1
           text == cl.serverCommands[Slot(n)]
       IN  \* "a reliable command was cycled out"
           IF n <= cl.serverCommandSequence - MAX_RELIABLE_COMMANDS
           THEN ClientError(cl) /\ UNCHANGED taken
           ELSE /\ taken' = Append(taken, text)
                /\ IF text = Disconnect
                   THEN ClientError([cl EXCEPT !.lastExecutedServerCommand = n])
                   ELSE /\ cl' = [cl EXCEPT !.lastExecutedServerCommand = n]
                        /\ UNCHANGED toServer
    /\ UNCHANGED <<sv, toClient, executed, lastMove>>

-----------------------------------------------------------------------------
LoseToClient ==
    /\ toClient # << >>
    /\ toClient' = Tail(toClient)
    /\ UNCHANGED <<sv, cl, toServer, executed, taken, lastMove>>

LoseToServer ==
    /\ toServer # << >>
    /\ toServer' = Tail(toServer)
    /\ UNCHANGED <<sv, cl, toClient, executed, taken, lastMove>>

Next ==
    \/ GameCommand \/ Kick \/ SendSnapshot \/ ReceiveClientMessage \/ FloodTimePasses
    \/ AddReliableCommand \/ LeaveServer \/ WritePacket \/ ReceiveServerMessage
    \/ GetServerCommand
    \/ LoseToClient \/ LoseToServer

Spec == Init /\ [][Next]_vars

\* The server sends to every client when its time comes (SV_SendClientMessages,
\* every SV_Frame), the client every frame it is ready to (CL_SendCmd), and
\* cgame asks for the commands of every snapshot. The network loses messages,
\* but not all of those it is given over and over again.
Fairness ==
    /\ WF_vars(SendSnapshot) /\ WF_vars(WritePacket) /\ WF_vars(GetServerCommand)
    /\ SF_vars(ReceiveClientMessage) /\ SF_vars(ReceiveServerMessage)

FairSpec == Spec /\ Fairness

-----------------------------------------------------------------------------
Texts == Broadcast .. MaxServerCommands + MaxClientCommands
Ring == [0 .. MAX_RELIABLE_COMMANDS - 1 -> Texts]

TypeOK ==
    /\ sv \in [state : {"ACTIVE", "ZOMBIE"}, drops : 0 .. 2, flooding : BOOLEAN,
               reliableSequence : Nat, reliableAcknowledge : Nat, reliableCommands : Ring,
               lastClientCommand : Nat, lastClientCommandString : Texts]
    /\ cl \in [state : {"CONNECTED", "DISCONNECTED", "FATAL"},
               reliableSequence : Nat, reliableAcknowledge : Nat, reliableCommands : Ring,
               serverCommandSequence : Nat, serverCommands : Ring,
               lastExecutedServerCommand : Nat, snapCommands : Nat, snapStamp : Nat]
    /\ \A k \in DOMAIN toClient : toClient[k].ack \in Nat /\ toClient[k].key \in Texts
    /\ \A k \in DOMAIN toServer : toServer[k].ack \in Nat /\ toServer[k].key \in Texts
    /\ executed \in Seq([text : Texts, passed : BOOLEAN])
    /\ taken \in Seq(Texts)
    /\ lastMove \in Nat

\* Both ends derive the same key from the acknowledgement in a message, however
\* far the rings have moved on while it was in flight, unless the command that
\* is the key has since been replaced in its sender's ring by one that is a
\* whole ring newer (SV_Netchan_Encode and CL_Netchan_Decode, CL_Netchan_Encode
\* and SV_Netchan_Decode).
Replaced(c, n) == c.reliableSequence - n >= MAX_RELIABLE_COMMANDS

KeysAgree ==
    /\ cl.state = "CONNECTED" =>
          \A k \in 1 .. Len(toClient) :
              Replaced(cl, toClient[k].ack) \/ ClientDecodes(toClient[k])
    /\ sv.state = "ACTIVE" =>
          \A k \in 1 .. Len(toServer) :
              Replaced(sv, toServer[k].ack) \/ ServerDecodes(toServer[k])

\* The server executes the client's commands as they were issued: the k-th it
\* executes is the client's k-th, no command is skipped, repeated or replaced
\* by one that took its slot in the ring.
ClientCommandsAsIssued ==
    \A k \in 1 .. Len(executed) : executed[k].text \in {k, Disconnect}

\* The same for the commands cgame takes, until the server drops the client.
ServerCommandsAsIssued ==
    sv.state = "ACTIVE" => \A k \in 1 .. Len(taken) : taken[k] = k

\* "guaranteed to not have future usercmd_t executed before it is executed"
\* (CL_AddReliableCommand).
MoveAfterCommands == lastMove <= sv.lastClientCommand

\* "guaranteed to not have future snapshot_t executed before it is executed"
\* (SV_AddServerCommand): the commands cgame executes before a snapshot
\* include every command the server issued before building it.
SnapshotAfterCommands == cl.snapStamp <= cl.snapCommands

\* "a broadcast print added by SV_DropClient() doesn't cause a recursive drop
\* client" (SV_AddServerCommand).
DroppedOnce == sv.drops <= 1

\* A dropped client has the "disconnect" command waiting for it: "if we don't,
\* kicked clients never get the reliable disconnect command"
\* (SV_SendClientMessages).
ZombieIsTold ==
    sv.state = "ZOMBIE" =>
        \E i \in sv.reliableAcknowledge + 1 .. sv.reliableSequence :
            sv.reliableCommands[Slot(i)] = Disconnect

\* "This is also called on Com_Error and Com_Quit, so it shouldn't cause any
\* errors" (CL_Disconnect).
DisconnectCausesNoError == cl.state # "FATAL"

\* "If we decide that we want to stall the command, we will stop processing the
\* rest of the packet": a command that is not passed to the game is not taken
\* for executed, so that it is sent again (SV_ClientCommand).
StalledIsNotExecuted ==
    \A k \in 1 .. Len(executed) : executed[k].text = Disconnect \/ executed[k].passed

\* Both ends stay connected.
Established == cl.state = "CONNECTED" /\ sv.state = "ACTIVE"

\* A command is executed by the server, taken by cgame, once it is issued, if
\* only the connection lasts.
CommandsArrive ==
    /\ \A n \in 1 .. MaxClientCommands :
           cl.reliableSequence >= n ~> Len(executed) >= n \/ ~ Established
    /\ \A n \in 1 .. MaxServerCommands :
           sv.reliableSequence >= n ~> Len(taken) >= n \/ ~ Established

\* A client the server drops leaves, if its ring had room for the command that
\* tells it to.
DroppedClientLeaves == sv.state = "ZOMBIE" /\ ZombieIsTold ~> cl.state # "CONNECTED"
=============================================================================
