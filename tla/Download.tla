----------------------------- MODULE Download -----------------------------
(***************************************************************************)
(* File downloads over the game connection: SV_WriteDownloadToClient and    *)
(* the download commands of server/sv_client.cpp against CL_ParseDownload   *)
(* of client/cl_parse.cpp and CL_NextDownload of client/cl_main.cpp.        *)
(*                                                                          *)
(* The server adds blocks of the file to the snapshots of the client. A     *)
(* snapshot may be lost; the client takes the block it waits for and        *)
(* acknowledges it with a reliable "nextdl" command. The server keeps a     *)
(* window of blocks and sends it again when a second has passed.            *)
(*                                                                          *)
(* Snapshots travel as MessageChannel promises, commands as                 *)
(* ReliableCommands shows: all of them, once, in order.                     *)
(***************************************************************************)
EXTENDS Integers, Sequences

CONSTANTS Blocks,               \* the files the client needs, in order: blocks in each
          Refusable,            \* those of them the server may refuse (sv_allowDownload, pak checks)
          Uncreatable,          \* those of them the client may be unable to write
          MAX_DOWNLOAD_WINDOW,  \* blocks sent and not acknowledged (8)
          BlocksPerSnap,        \* blockspersnap, from the rate of the client
          SHORT_RANGE,          \* a block's number is sent as a short (65536)
          Window,               \* bound: snapshots in flight
          MaxPending            \* bound: commands in flight

ASSUME DownloadAssumption ==
    /\ Blocks \in Seq(Nat \ {0}) \ {<< >>}
    /\ Refusable \cup Uncreatable \subseteq DOMAIN Blocks
    /\ {MAX_DOWNLOAD_WINDOW, BlocksPerSnap, SHORT_RANGE} \subseteq Nat \ {0}
    /\ {Window, MaxPending} \subseteq Nat

VARIABLES sv,           \* the server's client_t
          cl,           \* the client's clientConnection_t
          toClient,     \* blocks of the snapshots in flight
          toServer      \* reliable commands in flight

vars == <<sv, cl, toClient, toServer>>

Files == DOMAIN Blocks
NoFile == 0

\* The data of the n-th block of a file; an empty block ends the file.
Data(f, n) == <<f, n>>
End == << >>

Slot(n) == n % MAX_DOWNLOAD_WINDOW

\* MSG_WriteShort and MSG_ReadShort
Short(n) ==
    LET low == n % SHORT_RANGE
    IN  IF 2 * low >= SHORT_RANGE THEN low - SHORT_RANGE ELSE low

Download(f) == [command |-> "download", argument |-> f]
NextDl(n) == [command |-> "nextdl", argument |-> n]
StopDl == [command |-> "stopdl", argument |-> 0]
DoneDl == [command |-> "donedl", argument |-> 0]

-----------------------------------------------------------------------------
(* Client *)

\* CL_DownloadsComplete: a new gamestate is asked for, once; without downloads the
\* client game is loaded. commands are the reliable commands added on the way.
DownloadsComplete(c) ==
    IF c.downloadRestart
    THEN [c EXCEPT !.downloadRestart = FALSE, !.commands = Append(@, DoneDl)]
    ELSE [c EXCEPT !.loading = TRUE]

\* CL_NextDownload: CL_BeginDownload for the next file of the list, if there is one
NextDownload(c) ==
    IF c.asked < Len(Blocks)
    THEN [c EXCEPT !.asked = @ + 1, !.downloading = TRUE, !.downloadBlock = 0,
                   !.written = << >>, !.downloadRestart = TRUE,
                   !.commands = Append(@, Download(c.asked + 1))]
    ELSE DownloadsComplete(c)

\* Bug: blocks are taken as they come.
OtherBlockNever(c, b) == FALSE

Unexpected(c) == ~ c.downloading
OtherBlock(c, b) == b.block # c.downloadBlock
CannotCreate(c) == c.downloadBlock = 0 /\ c.asked \in c.unwritable

Taken(c, b) ==
    [c EXCEPT !.downloadBlock = @ + 1, !.commands = Append(@, NextDl(c.downloadBlock)),
              !.written = IF b.data = End THEN @ ELSE Append(@, b.data)]

\* The file is closed and renamed: from now on it is one of the client's.
Finished(c) ==
    [c EXCEPT !.downloading = FALSE, !.written = << >>,
              !.finished = @ \cup {[file |-> c.asked, content |-> c.written]}]

\* A block no download was requested for is answered, and not read: its number is
\* taken for the next command of the message, which is an illegible one. (That
\* the number may be that of a command, as 8 is of svc_EOF, is left out.)
Misread(c) == [c EXCEPT !.commands = Append(@, StopDl), !.disconnected = TRUE]

\* CL_ParseDownload
ParseDownload(c, b) ==
    IF c.disconnected THEN c
    ELSE IF Unexpected(c) THEN Misread(c)
    ELSE IF b.refused THEN [c EXCEPT !.disconnected = TRUE]
    ELSE IF OtherBlock(c, b) THEN c
    ELSE IF CannotCreate(c) THEN NextDownload([c EXCEPT !.commands = Append(@, StopDl)])
    ELSE IF b.data # End THEN Taken(c, b)
    ELSE NextDownload(Finished(Taken(c, b)))

\* All blocks of a snapshot, one after the other
ParseBlocks(c, blocks) ==
    LET parsed[i \in 0 .. Len(blocks)] ==
            IF i = 0 THEN c ELSE ParseDownload(parsed[i - 1], blocks[i])
    IN  parsed[Len(blocks)]

\* The commands added are sent.
SendsCommands(c) ==
    /\ cl' = [c EXCEPT !.commands = << >>]
    /\ toServer' = toServer \o c.commands

ReceiveBlocks ==
    /\ toClient # << >>
    /\ Len(toServer) <= MaxPending
    /\ SendsCommands(ParseBlocks(cl, Head(toClient)))
    /\ toClient' = Tail(toClient)
    /\ UNCHANGED sv

-----------------------------------------------------------------------------
(* Server *)

\* SV_CloseDownload
CloseDownload(c) == [c EXCEPT !.downloadName = NoFile, !.open = FALSE]

\* SV_BeginDownload_f
BeginDownload(c, f) == [CloseDownload(c) EXCEPT !.downloadName = f]

\* SV_NextDownload_f: the last block, another block, or "the acknowledge was for
\* the wrong block: drop the client".
AcknowledgesEnd(c) == c.blocks[Slot(c.downloadClientBlock)] = End

NextDownloadBlock(c, n) ==
    IF n # c.downloadClientBlock THEN [CloseDownload(c) EXCEPT !.dropped = TRUE]
    ELSE IF AcknowledgesEnd(c) THEN CloseDownload(c)
    ELSE [c EXCEPT !.downloadClientBlock = @ + 1, !.late = FALSE]

\* The client commands; a client that is dropped sends none that count.
ExecuteCommand ==
    /\ toServer # << >>
    /\ LET c == Head(toServer)
       IN  sv' = IF sv.dropped THEN sv
                 ELSE IF c.command = "download" THEN BeginDownload(sv, c.argument)
                 ELSE IF c.command = "nextdl" THEN NextDownloadBlock(sv, c.argument)
                 ELSE IF c.command = "stopdl" THEN CloseDownload(sv)
                 ELSE [sv EXCEPT !.gamestateSent = TRUE]
    /\ toServer' = Tail(toServer)
    /\ UNCHANGED <<cl, toClient>>

\* SV_WriteDownloadToClient opens the file ...
Opened(c) ==
    [c EXCEPT !.open = TRUE, !.downloadCurrentBlock = 0, !.downloadClientBlock = 0,
              !.downloadXmitBlock = 0, !.downloadCount = 0, !.downloadEOF = FALSE]

\* Bug: one block more than there is room for.
RoomForOneMore(c) == MAX_DOWNLOAD_WINDOW - (c.downloadCurrentBlock - c.downloadClientBlock) + 1

\* ... performs any reads that it needs to ...
Room(c) == MAX_DOWNLOAD_WINDOW - (c.downloadCurrentBlock - c.downloadClientBlock)

Reads(c) ==
    LET left == Blocks[c.downloadName] - c.downloadCount
    IN  IF left < Room(c) THEN left ELSE Room(c)

\* The blocks of data are put behind those in the window.
WithBlocks(c, data) ==
    LET In(s) == {i \in DOMAIN data : Slot(c.downloadCurrentBlock + i - 1) = s}
    IN  [c EXCEPT !.downloadCurrentBlock = @ + Len(data),
                  !.blocks = [s \in DOMAIN @ |->
                        IF In(s) = {} THEN @[s] ELSE data[CHOOSE i \in In(s) : TRUE]]]

WithReads(c) ==
    LET data == [i \in 1 .. Reads(c) |-> Data(c.downloadName, c.downloadCurrentBlock + i - 1)]
    IN  [WithBlocks(c, data) EXCEPT !.downloadCount = @ + Reads(c)]

\* ... "if we have eof condition", adds the empty block ...
WithEnd(c) ==
    IF c.downloadCount = Blocks[c.downloadName] /\ ~ c.downloadEOF /\ Room(c) > 0
    THEN [WithBlocks(c, <<End>>) EXCEPT !.downloadEOF = TRUE]
    ELSE c

\* Bug: what was sent is not sent again.
CanTransmitOnce(c) ==
    /\ c.downloadClientBlock # c.downloadCurrentBlock
    /\ c.downloadXmitBlock # c.downloadCurrentBlock

\* ... and writes the next section of the file, or from the first block that is
\* not acknowledged when "we have transmitted the complete window".
CanTransmit(c) ==
    /\ c.downloadClientBlock # c.downloadCurrentBlock
    /\ c.downloadXmitBlock # c.downloadCurrentBlock \/ c.late

BlockToSend(c) ==
    IF c.downloadXmitBlock = c.downloadCurrentBlock THEN c.downloadClientBlock
    ELSE c.downloadXmitBlock

Block(n, data) == [block |-> Short(n), refused |-> FALSE, data |-> data]
Refusal == [block |-> 0, refused |-> TRUE, data |-> End]

TransmitBlocks(c) ==
    LET n == BlockToSend(c)
        left == c.downloadCurrentBlock - n
        count == IF left < BlocksPerSnap THEN left ELSE BlocksPerSnap
    IN  IF CanTransmit(c)
        THEN [c |-> [c EXCEPT !.downloadXmitBlock = n + count, !.late = FALSE],
              sent |-> [i \in 1 .. count |-> Block(n + i - 1, c.blocks[Slot(n + i - 1)])]]
        ELSE [c |-> c, sent |-> << >>]

WriteDownload(c) == TransmitBlocks(WithEnd(WithReads(IF c.open THEN c ELSE Opened(c))))

SendSnapshot ==
    /\ sv.downloadName # NoFile
    /\ Len(toClient) < Window
    /\ LET w == WriteDownload(sv)
       IN  /\ sv' = w.c
           /\ toClient' = IF w.sent = << >> THEN toClient ELSE Append(toClient, w.sent)
    /\ UNCHANGED <<cl, toServer>>

\* A file that cannot be opened, or may not be sent: the download is over for the
\* server. The refusal goes out once.
Refuse ==
    /\ sv.downloadName \in Refusable
    /\ ~ sv.open
    /\ Len(toClient) < Window
    /\ sv' = [sv EXCEPT !.downloadName = NoFile, !.refused = TRUE]
    /\ toClient' = Append(toClient, <<Refusal>>)
    /\ UNCHANGED <<cl, toServer>>

\* svs.time - cl->downloadSendTime > 1000
OneSecondPasses ==
    /\ ~ sv.late
    /\ sv.open
    /\ sv' = [sv EXCEPT !.late = TRUE]
    /\ UNCHANGED <<cl, toClient, toServer>>

LoseSnapshot ==
    /\ toClient # << >>
    /\ toClient' = Tail(toClient)
    /\ UNCHANGED <<sv, cl, toServer>>

-----------------------------------------------------------------------------
\* CL_InitDownloads has found files missing and asked for the first.
Init ==
    /\ sv = [dropped |-> FALSE, gamestateSent |-> FALSE, refused |-> FALSE, downloadName |-> NoFile, open |-> FALSE,
             downloadCount |-> 0, downloadClientBlock |-> 0, downloadCurrentBlock |-> 0,
             downloadXmitBlock |-> 0, downloadEOF |-> FALSE, late |-> FALSE,
             blocks |-> [s \in 0 .. MAX_DOWNLOAD_WINDOW - 1 |-> End]]
    /\ \E unwritable \in SUBSET Uncreatable :
       cl = [unwritable |-> unwritable, disconnected |-> FALSE, asked |-> 1, downloading |-> TRUE, downloadBlock |-> 0,
             downloadRestart |-> TRUE, loading |-> FALSE, written |-> << >>, finished |-> {}, commands |-> << >>]
    /\ toClient = << >>
    /\ toServer = <<Download(1)>>

Next == ReceiveBlocks \/ ExecuteCommand \/ SendSnapshot \/ Refuse \/ OneSecondPasses \/ LoseSnapshot

Spec == Init /\ [][Next]_vars

\* A snapshot is sent whenever its time has come and time passes; commands are
\* repeated until they arrive; a snapshot that is not lost arrives, and of the
\* block the client waits for, sent again and again, one is not lost.
Awaited == toClient # << >> /\ \E i \in DOMAIN Head(toClient) :
                Head(toClient)[i].block = cl.downloadBlock

FairSpec ==
    /\ Spec
    /\ WF_vars(SendSnapshot) /\ WF_vars(OneSecondPasses) /\ WF_vars(ExecuteCommand)
    /\ SF_vars(ReceiveBlocks) /\ SF_vars(ReceiveBlocks /\ Awaited)

-----------------------------------------------------------------------------
TypeOK ==
    /\ sv.downloadName \in Files \cup {NoFile}
    /\ sv.downloadClientBlock \in 0 .. sv.downloadCurrentBlock
    /\ sv.downloadXmitBlock \in 0 .. sv.downloadCurrentBlock
    /\ sv.downloadCurrentBlock \in 0 .. sv.downloadCount + 1
    /\ sv.blocks \in [0 .. MAX_DOWNLOAD_WINDOW - 1 -> {End} \cup (Files \X Nat)]
    /\ {sv.dropped, sv.gamestateSent, sv.refused, sv.open, sv.downloadEOF, sv.late} \subseteq BOOLEAN
    /\ {cl.disconnected, cl.downloading, cl.downloadRestart, cl.loading} \subseteq BOOLEAN
    /\ cl.asked \in Files
    /\ cl.downloadBlock \in Nat
    /\ cl.written \in Seq(Files \X Nat)
    /\ \A x \in cl.finished : x.file \in Files /\ x.content \in Seq(Files \X Nat)
    /\ cl.commands = << >>

\* A file that is renamed into place is the server's file, block for block,
\* whatever was lost or sent twice, and whatever is still under way of the file
\* before it (CL_ParseDownload).
FinishedIntact ==
    \A x \in cl.finished :
        x.content = [n \in 1 .. Blocks[x.file] |-> Data(x.file, n - 1)]

\* The window holds what may have to be sent again: no block is read over one
\* that is not acknowledged (SV_WriteDownloadToClient).
WindowKept ==
    sv.open =>
        \A n \in sv.downloadClientBlock .. sv.downloadCurrentBlock - 1 :
            sv.blocks[Slot(n)] =
                IF n < Blocks[sv.downloadName] THEN Data(sv.downloadName, n) ELSE End

\* "argv[1] will be the last acknowledged block from the client; it should be
\* the same as cl->downloadClientBlock" (SV_NextDownload_f): no acknowledgement
\* makes the server drop a client for a "broken download".
AcknowledgesExpectedBlock == ~ sv.dropped

\* "Server sending download, but no download was requested" (CL_ParseDownload):
\* the client tells the server to stop, and stays connected.
UnrequestedIsStopped == ~ sv.refused => ~ cl.disconnected

\* Every download comes to its end: the client has each file it can write and is
\* sent the gamestate, or is disconnected, or the server has refused a file.
DownloadsEnd ==
    <>(\/ cl.disconnected \/ sv.refused
       \/ sv.gamestateSent /\ {x.file : x \in cl.finished} = Files \ cl.unwritable)
=============================================================================
