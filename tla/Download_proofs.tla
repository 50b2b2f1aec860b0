-------------------------- MODULE Download_proofs --------------------------
(***************************************************************************)
(* Proofs about Download, for any files, any window, any number of blocks   *)
(* in a snapshot, and any losses: a finished file is the server's file, the *)
(* window keeps what may have to be sent again, and no acknowledgement is   *)
(* for the wrong block. They suppose FilesKeptApart, without which a block  *)
(* of one file can be taken for one of the next.                            *)
(***************************************************************************)
EXTENDS Download, NumberTheorems

\* The files are no shorter than the window, except for the last, which alone the
\* client may be unable to write; and a block's number tells it from the others in
\* the window.
FilesKeptApart ==
    /\ MAX_DOWNLOAD_WINDOW <= SHORT_RANGE
    /\ Uncreatable \subseteq {Len(Blocks)}
    /\ \A f \in Files : f # Len(Blocks) => Blocks[f] >= MAX_DOWNLOAD_WINDOW

BlockData == {End} \cup (Files \X Nat)
BlockRecord == [block : Int, refused : BOOLEAN, data : BlockData]
Command == [command : {"download", "nextdl", "stopdl", "donedl"}, argument : Nat]

SvRecord == [dropped : BOOLEAN, gamestateSent : BOOLEAN, refused : BOOLEAN,
             downloadName : Files \cup {NoFile}, open : BOOLEAN, downloadCount : Nat,
             downloadClientBlock : Nat, downloadCurrentBlock : Nat, downloadXmitBlock : Nat,
             downloadEOF : BOOLEAN, late : BOOLEAN,
             blocks : [0 .. MAX_DOWNLOAD_WINDOW - 1 -> BlockData]]
ClRecord == [unwritable : SUBSET Uncreatable, disconnected : BOOLEAN, asked : Files,
             downloading : BOOLEAN, downloadBlock : Nat, downloadRestart : BOOLEAN,
             loading : BOOLEAN, written : Seq(Files \X Nat),
             finished : SUBSET [file : Files, content : Seq(Files \X Nat)],
             commands : Seq(Command)]

Content(f, n) == IF n < Blocks[f] THEN Data(f, n) ELSE End
Whole(f, n) == [i \in 1 .. n |-> Data(f, i - 1)]

\* The client writes the file it has asked for.
Writes(c) == c.downloading /\ c.asked \notin c.unwritable

\* The number of blocks the client has had of file f, the last that the server sends.
Acked(c, f) == IF f = c.asked THEN c.downloadBlock ELSE Blocks[f] + 1

ClientOK(c) ==
    /\ c.downloading =>
          c.downloadBlock <= Blocks[c.asked] /\ c.written = Whole(c.asked, c.downloadBlock)
    /\ c.downloadBlock <= Blocks[c.asked] + 1
    /\ c.asked \in c.unwritable => c.downloadBlock = 0
    /\ \A x \in c.finished : x.content = Whole(x.file, Blocks[x.file])
    /\ \A f \in 1 .. c.asked - 1 : 2 * Blocks[f] < SHORT_RANGE

\* The blocks from first on that the server has read are in the window.
WindowHolds(s, first) ==
    \A n \in first .. s.downloadCurrentBlock - 1 : s.blocks[Slot(n)] = Content(s.downloadName, n)

\* The file that is open has been read so far, and acknowledged so far.
OpenOK(s, c) ==
    /\ s.downloadCount <= Blocks[s.downloadName]
    /\ s.downloadCurrentBlock = s.downloadCount + (IF s.downloadEOF THEN 1 ELSE 0)
    /\ s.downloadEOF => s.downloadCount = Blocks[s.downloadName]
    /\ s.downloadCurrentBlock <= s.downloadClientBlock + MAX_DOWNLOAD_WINDOW
    /\ s.downloadClientBlock <= Blocks[s.downloadName]
    /\ s.downloadClientBlock <= Acked(c, s.downloadName)
    /\ Acked(c, s.downloadName) <= s.downloadCurrentBlock
    /\ s.downloadXmitBlock = 0 => Acked(c, s.downloadName) = 0
    /\ WindowHolds(s, s.downloadClientBlock)

Counters(s) ==
    /\ s.downloadClientBlock <= s.downloadCurrentBlock
    /\ s.downloadXmitBlock <= s.downloadCurrentBlock
    /\ s.downloadCurrentBlock <= s.downloadCount + 1

\* The server follows the client from file to file.
ServerOK(s, c) ==
    /\ ~ s.dropped
    /\ Counters(s)
    /\ s.downloadName <= c.asked
    /\ s.downloadName \notin {NoFile, c.asked} => s.open /\ c.downloadBlock = 0
    /\ s.open => s.downloadName # NoFile /\ OpenOK(s, c)
    /\ ~ s.open /\ s.downloadName = c.asked => c.downloadBlock = 0

\* The commands in flight: the first m acknowledge one block after the other.
Acknowledges(s, q, m) ==
    /\ \A i \in 1 .. m : q[i] = NextDl(s.downloadClientBlock + i - 1)
    /\ \A i \in m + 1 .. Len(q) : q[i].command # "nextdl"

HasDownload(q) == \E i \in 1 .. Len(q) : q[i].command = "download"

QueueOK(s, c, q) ==
    /\ \E m \in 0 .. Len(q) :
          /\ Acknowledges(s, q, m)
          /\ s.open => s.downloadClientBlock + m = Acked(c, s.downloadName)
          /\ ~ s.open => m = 0
    /\ \A i \in 1 .. Len(q) : q[i].command = "download" => q[i].argument = c.asked
    /\ HasDownload(q) => s.downloadName # c.asked /\ c.downloadBlock = 0
    /\ \A i, j \in 1 .. Len(q) : q[i].command = "download" /\ q[j].command = "download" => i = j
    /\ Writes(c) /\ ~ c.disconnected =>
          \A i \in 1 .. Len(q) : q[i].command \in {"nextdl", "download"}

\* For each snapshot in flight, the file and the number of its first block
Origin == [file : Files, first : Nat]
LastOf(b, o) == o.first + Len(b) - 1

\* Block n of file f, as it may be in flight: it is taken only if the client waits for it.
BlockOK(b, f, n, c) ==
    /\ ~ b.refused
    /\ b.block = Short(n)
    /\ n <= Blocks[f]
    /\ f = c.asked =>
          /\ n < c.downloadBlock + MAX_DOWNLOAD_WINDOW
          /\ b.data = Content(f, n) \/ n < c.downloadBlock
    /\ f # c.asked => Short(n) # 0

IsRefusal(b) == b = <<Refusal>>

\* Snapshot i in flight; done blocks of the first have been read.
Snapshots(c, T, g, done) ==
    \A i \in 1 .. Len(T) : ~ IsRefusal(T[i]) =>
        \A j \in 1 .. Len(T[i]) :
            \/ i = 1 /\ j <= done
            \/ BlockOK(T[i][j], g[i].file, g[i].first + j - 1, c)

FromFile(s, c, q, o) ==
    /\ o.file <= c.asked
    /\ s.downloadName # NoFile => o.file <= s.downloadName
    /\ c.downloadBlock > 0 => o.file = c.asked
    /\ HasDownload(q) => o.file # c.asked

\* Files are sent one after the other, and after its last block no file, but for the
\* last of them, is sent from the first block on again.
After(b, o, later) ==
    /\ o.file <= later.file
    /\ o.file = later.file /\ o.file # Len(Blocks) /\ ~ IsRefusal(b) /\ LastOf(b, o) = Blocks[o.file] =>
          later.first # 0

Served(s, c, b, o) ==
    ~ IsRefusal(b) =>
        /\ o.file = s.downloadName =>
              s.open /\ s.downloadXmitBlock # 0 /\ LastOf(b, o) < s.downloadCurrentBlock
        /\ o.file = c.asked /\ Writes(c) => s.open /\ s.downloadName = c.asked

FlightOK(s, c, q, T, g, done) ==
    /\ g \in Seq(Origin) /\ Len(g) = Len(T)
    /\ Snapshots(c, T, g, done)
    /\ \A i \in 1 .. Len(T) : FromFile(s, c, q, g[i]) /\ Served(s, c, T[i], g[i])
    /\ \A i, j \in 1 .. Len(T) : i < j => After(T[i], g[i], g[j])

\* What makes the safety of downloads inductive, also while a snapshot is read.
Good(s, c, q, T, done) ==
    /\ s \in SvRecord /\ c \in ClRecord /\ q \in Seq(Command) /\ T \in Seq(Seq(BlockRecord))
    /\ ClientOK(c)
    /\ ServerOK(s, c)
    /\ QueueOK(s, c, q)
    /\ ~ c.disconnected => \E g : FlightOK(s, c, q, T, g, done)

DownloadInv == Good(sv, cl, toServer, toClient, 0) /\ cl.commands = << >>

-----------------------------------------------------------------------------
(* Blocks and their numbers *)

\* The constants as the proofs use them.
LEMMA Sizes ==
    /\ MAX_DOWNLOAD_WINDOW \in Nat \ {0} /\ SHORT_RANGE \in Nat \ {0} /\ BlocksPerSnap \in Nat \ {0}
    /\ Len(Blocks) \in Nat \ {0} /\ Files = 1 .. Len(Blocks)
    /\ \A f \in Files : Blocks[f] \in Nat \ {0}
    /\ Refusable \subseteq Files /\ Uncreatable \subseteq Files
  BY DownloadAssumption DEF Files

\* A block of data is not the block that ends a file.
LEMMA DataIsNotEnd ==
    ASSUME NEW f, NEW n
    PROVE  Data(f, n) # End
  BY DEF Data, End

\* What a block holds is data of a file, or nothing.
LEMMA ContentType ==
    ASSUME NEW f \in Files, NEW n \in Nat
    PROVE  Content(f, n) \in BlockData
  BY DEF Content, BlockData, Data

\* A number that is sent as a short is taken for another only if that is larger by a
\* multiple of the short's range.
LEMMA ShortIs ==
    ASSUME NEW n \in Nat, NEW k \in Nat, Short(n) = k, n < k + SHORT_RANGE
    PROVE  n = k /\ 2 * k < SHORT_RANGE
<1> DEFINE R == SHORT_RANGE
           low == n % R
           times == n \div R
<1>1. R \in Nat \ {0}
  BY Sizes
<1>2. low \in 0 .. R - 1 /\ times \in Nat /\ n = R * times + low
  BY <1>1, RemainderType
<1>3. Short(n) = IF 2 * low >= R THEN low - R ELSE low
  BY DEF Short
<1> HIDE DEF low, times, R
<1>4. low = k /\ 2 * k < R
  BY <1>1, <1>2, <1>3
<1>5. times = 0
  <2> SUFFICES ASSUME times # 0 PROVE FALSE
    OBVIOUS
  <2>1. R * times >= R
    BY <1>1, <1>2, MultipleIsNoLess
  <2>2. n < k + R
    BY DEF R
  <2>3. R * times \in Int
    BY <1>1, <1>2
  <2>4. QED
    BY <2>1, <2>2, <2>3, <1>1, <1>2, <1>4
<1>6. R * times = 0
  BY <1>1, <1>5
<1>7. QED
  BY <1>1, <1>2, <1>4, <1>6 DEF R

\* A number that fits the short comes out as it went in.
LEMMA ShortOfSmall ==
    ASSUME NEW n \in Nat, 2 * n < SHORT_RANGE
    PROVE  Short(n) = n
<1>1. n % SHORT_RANGE = n
  <2>1. (SHORT_RANGE * 0 + n) % SHORT_RANGE = n
    BY Sizes, RemainderIs
  <2>2. SHORT_RANGE * 0 + n = n
    BY Sizes
  <2>3. QED
    BY <2>1, <2>2
<1>2. QED
  BY <1>1, Sizes DEF Short

\* A short is a number,
LEMMA ShortType ==
    ASSUME NEW n \in Nat
    PROVE  Short(n) \in Int
<1>1. n % SHORT_RANGE \in Int
  BY Sizes, RemainderType
<1>2. QED
  BY <1>1, Sizes DEF Short

\* and a slot is one of the window.
LEMMA SlotType ==
    ASSUME NEW n \in Nat
    PROVE  Slot(n) \in 0 .. MAX_DOWNLOAD_WINDOW - 1
  BY Sizes, RemainderType DEF Slot

\* Blocks in the window have slots of their own.
LEMMA SlotsDiffer ==
    ASSUME NEW m \in Nat, NEW n \in Nat, m # n,
           m < n + MAX_DOWNLOAD_WINDOW, n < m + MAX_DOWNLOAD_WINDOW
    PROVE  Slot(m) # Slot(n)
<1>1. CASE m < n
  BY <1>1, Sizes, RemaindersDiffer DEF Slot
<1>2. CASE n < m
  BY <1>2, Sizes, RemaindersDiffer DEF Slot
<1>3. QED
  BY <1>1, <1>2
-----------------------------------------------------------------------------
(* Reading a snapshot *)

\* f says what the client is after each of the first n blocks.
Parses(f, c, blocks, n) ==
    f = [i \in 0 .. n |-> IF i = 0 THEN c ELSE ParseDownload(f[i - 1], blocks[i])]

\* What is read can be read one block further ...
LEMMA ParsesLonger ==
    ASSUME NEW c, NEW blocks, NEW n \in Nat, NEW f, Parses(f, c, blocks, n)
    PROVE  \E g : Parses(g, c, blocks, n + 1)
<1> DEFINE g == [i \in 0 .. n + 1 |-> IF i = n + 1 THEN ParseDownload(f[n], blocks[n + 1]) ELSE f[i]]
<1>1. \A i \in 0 .. n : g[i] = f[i]
  OBVIOUS
<1>2. \A i \in 0 .. n : f[i] = IF i = 0 THEN c ELSE ParseDownload(f[i - 1], blocks[i])
  BY DEF Parses
<1>3. g[n + 1] = ParseDownload(g[n], blocks[n + 1])
  BY <1>1
<1>4. ASSUME NEW i \in 0 .. n + 1
      PROVE  g[i] = IF i = 0 THEN c ELSE ParseDownload(g[i - 1], blocks[i])
  <2>1. CASE i = n + 1
    BY <2>1, <1>3
  <2>2. CASE i = 0
    BY <2>2, <1>1, <1>2
  <2>3. CASE i \in 1 .. n
    BY <2>3, <1>1, <1>2
  <2>4. QED
    BY <2>1, <2>2, <2>3
<1>5. g = [i \in 0 .. n + 1 |-> IF i = 0 THEN c ELSE ParseDownload(g[i - 1], blocks[i])]
  BY <1>4
<1>6. QED
  BY <1>5 DEF Parses

\* ... and so a whole snapshot is read block by block.
LEMMA ParseBlocksIs ==
    ASSUME NEW c, NEW blocks, Len(blocks) \in Nat
    PROVE  \E f : /\ f[0] = c
                  /\ \A i \in 1 .. Len(blocks) : f[i] = ParseDownload(f[i - 1], blocks[i])
                  /\ ParseBlocks(c, blocks) = f[Len(blocks)]
<1> DEFINE parsed == CHOOSE f : Parses(f, c, blocks, Len(blocks))
           Bad == {n \in Nat : ~ \E f : Parses(f, c, blocks, n)}
<1>1. \E f : Parses(f, c, blocks, Len(blocks))
  <2>1. Bad = {}
    <3> SUFFICES ASSUME Bad # {} PROVE FALSE
      OBVIOUS
    <3>1. PICK m \in Bad : \A n \in Bad : m <= n
      <4>1. Bad \in SUBSET Nat
        OBVIOUS
      <4>2. QED
        BY <4>1, HasMinimum
    <3>2. m # 0
      <4>1. Parses([i \in 0 .. 0 |-> c], c, blocks, 0)
        BY DEF Parses
      <4>2. QED
        BY <4>1
    <3>3. m - 1 \in Nat /\ m - 1 \notin Bad
      BY <3>1, <3>2
    <3>4. PICK f : Parses(f, c, blocks, m - 1)
      BY <3>3
    <3>5. \E g : Parses(g, c, blocks, (m - 1) + 1)
      BY <3>3, <3>4, ParsesLonger
    <3>6. QED
      BY <3>1, <3>5
  <2>2. QED
    BY <2>1
<1>2. Parses(parsed, c, blocks, Len(blocks))
  BY <1>1
<1>3. ParseBlocks(c, blocks) = parsed[Len(blocks)]
  BY DEF ParseBlocks, Parses
<1> HIDE DEF parsed
<1>4. QED
  BY <1>2, <1>3 DEF Parses
-----------------------------------------------------------------------------
(* The client reads a block *)

\* Two states of the client in which it waits for the same block of the same file.
SamePlace(c, c2) ==
    /\ c2.asked = c.asked /\ c2.downloadBlock = c.downloadBlock /\ c2.unwritable = c.unwritable
    /\ ~ c2.disconnected => ~ c.disconnected

NoMoreWrites(c, c2) == Writes(c2) /\ ~ c2.disconnected => Writes(c)

\* The server is as right about one as about the other.
LEMMA ServerSteady ==
    ASSUME NEW s, NEW c, NEW c2, ServerOK(s, c), SamePlace(c, c2)
    PROVE  ServerOK(s, c2)
  BY DEF ServerOK, SamePlace, OpenOK, Acked

\* So are the blocks in flight, of which one more may have been read.
LEMMA FlightSteady ==
    ASSUME NEW s, NEW c, NEW c2, NEW q, NEW q2, NEW T, NEW g, NEW done \in Nat, NEW done2 \in Nat,
           FlightOK(s, c, q, T, g, done), SamePlace(c, c2), Writes(c2) => Writes(c), done <= done2,
           HasDownload(q2) => HasDownload(q), T \in Seq(Seq(BlockRecord))
    PROVE  FlightOK(s, c2, q2, T, g, done2)
<1>1. ASSUME NEW i \in 1 .. Len(T)
      PROVE  FromFile(s, c2, q2, g[i]) /\ Served(s, c2, T[i], g[i])
  <2>1. FromFile(s, c, q, g[i]) /\ Served(s, c, T[i], g[i])
    BY DEF FlightOK
  <2>2. QED
    BY <2>1 DEF FromFile, Served, SamePlace
<1>2. Snapshots(c2, T, g, done2)
  <2> SUFFICES ASSUME NEW i \in 1 .. Len(T), ~ IsRefusal(T[i]), NEW j \in 1 .. Len(T[i]),
                      ~ (i = 1 /\ j <= done2)
               PROVE  BlockOK(T[i][j], g[i].file, g[i].first + j - 1, c2)
    BY DEF Snapshots
  <2>1. j \in Nat
    OBVIOUS
  <2>2. BlockOK(T[i][j], g[i].file, g[i].first + j - 1, c)
    BY <2>1 DEF FlightOK, Snapshots
  <2>3. QED
    BY <2>2 DEF BlockOK, SamePlace
<1>3. QED
  BY <1>1, <1>2 DEF FlightOK

\* So are the commands in flight.
LEMMA QueueSteady ==
    ASSUME NEW s, NEW c, NEW c2, NEW q, QueueOK(s, c, q), SamePlace(c, c2), NoMoreWrites(c, c2)
    PROVE  QueueOK(s, c2, q)
  BY DEF QueueOK, SamePlace, NoMoreWrites, Acked

\* A command that is neither of a file nor of a block goes to the end of them.
LEMMA QueueOther ==
    ASSUME NEW s, NEW c, NEW c2, NEW q \in Seq(Command), NEW x \in {StopDl, DoneDl},
           QueueOK(s, c, q), SamePlace(c, c2), ~ (Writes(c2) /\ ~ c2.disconnected)
    PROVE  /\ QueueOK(s, c2, Append(q, x))
           /\ Append(q, x) \in Seq(Command)
           /\ HasDownload(Append(q, x)) => HasDownload(q)
<1> DEFINE q2 == Append(q, x)
<1>1. x \in Command /\ x.command \notin {"nextdl", "download"}
  BY DEF Command, StopDl, DoneDl
<1>2. /\ q2 \in Seq(Command) /\ Len(q2) = Len(q) + 1
      /\ \A i \in 1 .. Len(q) : q2[i] = q[i]
      /\ q2[Len(q) + 1] = x
  BY <1>1
<1>3. \A i \in 1 .. Len(q2) : i \in 1 .. Len(q) \/ i = Len(q) + 1
  BY <1>2
<1> HIDE DEF q2
<1>4. HasDownload(q2) => HasDownload(q)
  BY <1>1, <1>2, <1>3 DEF HasDownload
<1>5. PICK m \in 0 .. Len(q) :
          /\ Acknowledges(s, q, m)
          /\ s.open => s.downloadClientBlock + m = Acked(c, s.downloadName)
          /\ ~ s.open => m = 0
  BY DEF QueueOK
<1>6. Acknowledges(s, q2, m) /\ m \in 0 .. Len(q2)
  BY <1>1, <1>2, <1>3, <1>5 DEF Acknowledges
<1>7. Acked(c2, s.downloadName) = Acked(c, s.downloadName)
  BY DEF Acked, SamePlace
<1>8. \A i, j \in 1 .. Len(q2) : q2[i].command = "download" /\ q2[j].command = "download" => i = j
  BY <1>1, <1>2, <1>3 DEF QueueOK
<1>9. \A i \in 1 .. Len(q2) : q2[i].command = "download" => q2[i].argument = c2.asked
  BY <1>1, <1>2, <1>3 DEF QueueOK, SamePlace
<1>10. HasDownload(q2) => s.downloadName # c2.asked /\ c2.downloadBlock = 0
  BY <1>4 DEF QueueOK, SamePlace
<1>11. QueueOK(s, c2, q2)
  BY <1>5, <1>6, <1>7, <1>8, <1>9, <1>10 DEF QueueOK
<1>12. QED
  BY <1>2, <1>4, <1>11 DEF q2

\* So a block that is not taken changes nothing that matters ...
LEMMA SteadyStep ==
    ASSUME NEW s, NEW c, NEW c2 \in ClRecord, NEW q, NEW T, NEW done \in Nat, NEW done2 \in Nat,
           Good(s, c, q, T, done), SamePlace(c, c2), Writes(c2) => Writes(c), ClientOK(c2),
           done <= done2
    PROVE  Good(s, c2, q, T, done2)
<1>1. ServerOK(s, c2)
  BY ServerSteady DEF Good
<1>2. QueueOK(s, c2, q)
  BY QueueSteady DEF Good, NoMoreWrites
<1>3. ASSUME ~ c2.disconnected
      PROVE  \E g : FlightOK(s, c2, q, T, g, done2)
  <2>1. PICK g : FlightOK(s, c, q, T, g, done)
    BY <1>3 DEF Good, SamePlace
  <2>2. T \in Seq(Seq(BlockRecord))
    BY DEF Good
  <2>3. FlightOK(s, c2, q, T, g, done2)
    BY <2>1, <2>2, FlightSteady
  <2>4. QED
    BY <2>3
<1>4. QED
  BY <1>1, <1>2, <1>3 DEF Good

\* ... nor does a command that goes with it.
LEMMA OtherStep ==
    ASSUME NEW s, NEW c, NEW c2 \in ClRecord, NEW q, NEW T, NEW done \in Nat, NEW done2 \in Nat,
           NEW x \in {StopDl, DoneDl},
           Good(s, c, q, T, done), SamePlace(c, c2), Writes(c2) => Writes(c), ClientOK(c2),
           ~ (Writes(c2) /\ ~ c2.disconnected), done <= done2
    PROVE  Good(s, c2, Append(q, x), T, done2)
<1>1. ServerOK(s, c2)
  BY ServerSteady DEF Good
<1>2. /\ QueueOK(s, c2, Append(q, x)) /\ Append(q, x) \in Seq(Command)
      /\ HasDownload(Append(q, x)) => HasDownload(q)
  BY QueueOther DEF Good
<1>3. ASSUME ~ c2.disconnected
      PROVE  \E g : FlightOK(s, c2, Append(q, x), T, g, done2)
  <2>1. PICK g : FlightOK(s, c, q, T, g, done)
    BY <1>3 DEF Good, SamePlace
  <2>2. T \in Seq(Seq(BlockRecord))
    BY DEF Good
  <2>3. FlightOK(s, c2, Append(q, x), T, g, done2)
    BY <1>2, <2>1, <2>2, FlightSteady
  <2>4. QED
    BY <2>3
<1>4. QED
  BY <1>1, <1>2, <1>3 DEF Good

-----------------------------------------------------------------------------
(* The client takes a block *)

\* What is known when a block is taken: it is the one the client waits for, of the
\* file the server has open, and so is everything behind it.
Takes(s, c, q, T, g, done, b) ==
    /\ Writes(c) /\ ~ c.disconnected /\ T # << >>
    /\ b.data = Content(c.asked, c.downloadBlock)
    /\ 2 * c.downloadBlock < SHORT_RANGE
    /\ c.downloadBlock <= Blocks[c.asked]
    /\ ~ IsRefusal(T[1]) /\ done < Len(T[1]) /\ g[1].first + done = c.downloadBlock
    /\ \A i \in 1 .. Len(T) : g[i].file = c.asked
    /\ s.open /\ s.downloadName = c.asked /\ s.downloadXmitBlock # 0
    /\ c.downloadBlock + 1 <= s.downloadCurrentBlock
    /\ \A i \in 1 .. Len(q) : q[i].command = "nextdl"

\* A block that is taken is the one waited for: of several files' blocks in flight with
\* the same number only the client's own can be it.
LEMMA BlockIsTheNext ==
    ASSUME FilesKeptApart, NEW s, NEW c, NEW q, NEW T, NEW g, NEW done \in Nat, NEW b,
           Good(s, c, q, T, done), FlightOK(s, c, q, T, g, done), T # << >>, done < Len(T[1]),
           b = T[1][done + 1], ~ c.disconnected, c.downloading, ~ b.refused,
           b.block = c.downloadBlock, ~ CannotCreate(c)
    PROVE  Takes(s, c, q, T, g, done, b)
<1> DEFINE k == c.downloadBlock
           o == g[1]
           n == o.first + done
<1>1. /\ c \in ClRecord /\ s \in SvRecord /\ q \in Seq(Command) /\ T \in Seq(Seq(BlockRecord))
      /\ Len(T) \in Nat \ {0} /\ T[1] \in Seq(BlockRecord) /\ Len(T[1]) \in Nat
      /\ k \in Nat /\ c.asked \in Files
  BY DEF Good, ClRecord
<1>2. g \in Seq(Origin) /\ Len(g) = Len(T) /\ \A i \in 1 .. Len(T) : g[i] \in Origin
  BY DEF FlightOK
<1>3. o \in Origin /\ n \in Nat /\ o.file \in Files /\ o.first \in Nat
  BY <1>1, <1>2 DEF Origin
<1>4. ~ IsRefusal(T[1])
  <2> SUFFICES ASSUME T[1] = <<Refusal>> PROVE FALSE
    BY DEF IsRefusal
  <2>1. Len(T[1]) = 1 /\ done = 0
    BY <1>1
  <2>2. b = Refusal
    BY <2>1
  <2>3. QED
    BY <2>2 DEF Refusal
<1>5. BlockOK(b, o.file, n, c)
  <2>1. done + 1 \in 1 .. Len(T[1]) /\ 1 \in 1 .. Len(T) /\ ~ (done + 1 <= done)
    BY <1>1
  <2>2. BlockOK(T[1][done + 1], g[1].file, g[1].first + (done + 1) - 1, c)
    BY <1>4, <2>1 DEF FlightOK, Snapshots
  <2>3. g[1].first + (done + 1) - 1 = n
    BY <1>3
  <2>4. QED
    BY <2>2, <2>3
<1>6. FromFile(s, c, q, o) /\ Served(s, c, T[1], o)
  <2>1. 1 \in 1 .. Len(T)
    BY <1>1
  <2>2. QED
    BY <2>1 DEF FlightOK
<1>7. c.asked \notin c.unwritable
  BY DEF CannotCreate, Good, ClientOK
<1>8. Writes(c)
  BY <1>7 DEF Writes
<1> HIDE DEF n, o
<1>9. o.file = c.asked
  <2>1. CASE k > 0
    BY <2>1, <1>6 DEF FromFile
  <2>2. CASE k = 0
    BY <2>2, <1>5 DEF BlockOK
  <2>3. QED
    BY <1>1, <2>1, <2>2
<1>10. n = k /\ 2 * k < SHORT_RANGE
  <2>1. n < k + SHORT_RANGE /\ Short(n) = k
    BY <1>1, <1>3, <1>5, <1>9, Sizes DEF BlockOK, FilesKeptApart
  <2>2. QED
    BY <2>1, <1>1, <1>3, ShortIs
<1>11. b.data = Content(c.asked, k) /\ k <= Blocks[c.asked]
  <2>1. ~ (n < k)
    BY <1>1, <1>10
  <2>2. QED
    BY <2>1, <1>5, <1>9, <1>10 DEF BlockOK
<1>12. s.open /\ s.downloadName = c.asked
  BY <1>4, <1>6, <1>8, <1>9 DEF Served
<1>13. s.downloadXmitBlock # 0 /\ LastOf(T[1], o) < s.downloadCurrentBlock
  BY <1>4, <1>6, <1>9, <1>12 DEF Served
<1>14. k + 1 <= s.downloadCurrentBlock
  <2>1. LastOf(T[1], o) >= n
    BY <1>1, <1>3 DEF LastOf, n
  <2>2. s.downloadCurrentBlock \in Nat /\ LastOf(T[1], o) \in Int
    BY <1>1, <1>3 DEF SvRecord, LastOf
  <2>3. QED
    BY <2>1, <2>2, <1>1, <1>10, <1>13
<1>15. ASSUME NEW i \in 1 .. Len(T) PROVE g[i].file = c.asked
  <2>1. CASE i = 1
    BY <2>1, <1>9 DEF o
  <2>2. CASE i # 1
    <3>1. After(T[1], g[1], g[i]) /\ FromFile(s, c, q, g[i])
      BY <2>2, <1>1 DEF FlightOK
    <3>2. g[i].file <= c.asked /\ c.asked <= g[i].file
      BY <3>1, <1>9 DEF After, FromFile, o
    <3>3. g[i].file \in Int /\ c.asked \in Int
      BY <1>1, <1>2, Sizes DEF Origin
    <3>4. QED
      BY <3>2, <3>3
  <2>3. QED
    BY <2>1, <2>2
<1>16. ASSUME NEW i \in 1 .. Len(q) PROVE q[i].command = "nextdl"
  <2>1. ~ HasDownload(q)
    BY <1>6, <1>9 DEF FromFile
  <2>2. q[i].command \in {"nextdl", "download"}
    BY <1>8 DEF Good, QueueOK
  <2>3. QED
    BY <2>1, <2>2 DEF HasDownload
<1>17. QED
  BY <1>4, <1>8, <1>10, <1>11, <1>12, <1>13, <1>14, <1>15, <1>16 DEF Takes, n, o

\* The client has taken the block it waited for.
Advanced(c, c2) ==
    /\ c2.asked = c.asked /\ c2.unwritable = c.unwritable
    /\ c2.downloadBlock = c.downloadBlock + 1
    /\ ~ c2.disconnected

\* The server has sent that block, and waits no longer for it than it should.
LEMMA TakenServer ==
    ASSUME NEW s, NEW c, NEW c2, NEW q, NEW T, NEW g, NEW done, NEW b,
           s \in SvRecord, c \in ClRecord, ServerOK(s, c), Takes(s, c, q, T, g, done, b),
           Advanced(c, c2)
    PROVE  ServerOK(s, c2)
<1>1. s.open /\ s.downloadName = c.asked /\ OpenOK(s, c)
  BY DEF Takes, ServerOK
<1>2. /\ c.downloadBlock \in Nat /\ s.downloadClientBlock \in Nat /\ s.downloadCurrentBlock \in Nat
      /\ s.downloadXmitBlock # 0 /\ c.downloadBlock + 1 <= s.downloadCurrentBlock
  BY DEF SvRecord, ClRecord, Takes
<1>3. Acked(c, s.downloadName) = c.downloadBlock /\ Acked(c2, s.downloadName) = c.downloadBlock + 1
  BY <1>1 DEF Acked, Advanced
<1>4. OpenOK(s, c2)
  BY <1>1, <1>2, <1>3 DEF OpenOK
<1>5. QED
  BY <1>1, <1>4 DEF ServerOK, Advanced

\* Its acknowledgement is the next the server expects.
LEMMA TakenQueue ==
    ASSUME NEW s, NEW c, NEW c2, NEW q, NEW T, NEW g, NEW done, NEW b,
           s \in SvRecord, c \in ClRecord, q \in Seq(Command), QueueOK(s, c, q),
           Takes(s, c, q, T, g, done, b), Advanced(c, c2)
    PROVE  /\ QueueOK(s, c2, Append(q, NextDl(c.downloadBlock)))
           /\ Append(q, NextDl(c.downloadBlock)) \in Seq(Command)
           /\ ~ HasDownload(Append(q, NextDl(c.downloadBlock)))
<1> DEFINE k == c.downloadBlock
           x == NextDl(k)
           q2 == Append(q, x)
<1>1. k \in Nat /\ s.downloadClientBlock \in Nat
  BY DEF ClRecord, SvRecord
<1>2. x \in Command /\ x.command = "nextdl"
  BY <1>1 DEF NextDl, Command
<1>3. /\ q2 \in Seq(Command) /\ Len(q2) = Len(q) + 1 /\ Len(q) \in Nat
      /\ \A i \in 1 .. Len(q) : q2[i] = q[i]
      /\ q2[Len(q) + 1] = x
  BY <1>2
<1>4. \A i \in 1 .. Len(q2) : i \in 1 .. Len(q) \/ i = Len(q) + 1
  BY <1>3
<1>5. PICK m \in 0 .. Len(q) :
          /\ Acknowledges(s, q, m)
          /\ s.open => s.downloadClientBlock + m = Acked(c, s.downloadName)
  BY DEF QueueOK
<1>6. m = Len(q)
  <2> SUFFICES ASSUME m # Len(q) PROVE FALSE
    OBVIOUS
  <2>1. m + 1 \in m + 1 .. Len(q) /\ m + 1 \in 1 .. Len(q)
    BY <1>3
  <2>2. q[m + 1].command # "nextdl" /\ q[m + 1].command = "nextdl"
    BY <1>5, <2>1 DEF Acknowledges, Takes
  <2>3. QED
    BY <2>2
<1>7. /\ s.open /\ s.downloadClientBlock + Len(q) = k
      /\ Acked(c2, s.downloadName) = k + 1
  BY <1>5, <1>6 DEF Takes, Acked, Advanced
<1> HIDE DEF q2
<1>8. \A i \in 1 .. Len(q2) : q2[i].command = "nextdl"
  BY <1>2, <1>3, <1>4 DEF Takes
<1>9. Acknowledges(s, q2, Len(q2))
  <2>1. ASSUME NEW i \in 1 .. Len(q2) PROVE q2[i] = NextDl(s.downloadClientBlock + i - 1)
    <3>1. CASE i \in 1 .. Len(q)
      BY <3>1, <1>3, <1>5, <1>6 DEF Acknowledges
    <3>2. CASE i = Len(q) + 1
      <4>1. s.downloadClientBlock + i - 1 = k
        BY <3>2, <1>1, <1>3, <1>7
      <4>2. QED
        BY <4>1, <3>2, <1>3
    <3>3. QED
      BY <3>1, <3>2, <1>4
  <2>2. Len(q2) + 1 .. Len(q2) = {}
    BY <1>3
  <2>3. QED
    BY <2>1, <2>2 DEF Acknowledges
<1>10. Len(q2) \in 0 .. Len(q2) /\ s.downloadClientBlock + Len(q2) = Acked(c2, s.downloadName)
  <2>1. Len(q2) \in Nat /\ Len(q2) = Len(q) + 1
    BY <1>3
  <2>2. s.downloadClientBlock + Len(q2) = k + 1
    BY <2>1, <1>1, <1>3, <1>7
  <2>3. QED
    BY <2>1, <2>2, <1>7
<1>11. ~ HasDownload(q2)
  BY <1>8 DEF HasDownload
<1>12. QueueOK(s, c2, q2)
  BY <1>7, <1>8, <1>9, <1>10, <1>11 DEF QueueOK
<1>13. QED
  BY <1>3, <1>11, <1>12 DEF q2

\* The blocks in flight are those that can follow it.
LEMMA TakenFlight ==
    ASSUME NEW s, NEW c, NEW c2, NEW q, NEW q2, NEW T, NEW g, NEW done \in Nat, NEW b,
           c \in ClRecord, T \in Seq(Seq(BlockRecord)), FlightOK(s, c, q, T, g, done),
           Takes(s, c, q, T, g, done, b), Advanced(c, c2), ~ HasDownload(q2)
    PROVE  FlightOK(s, c2, q2, T, g, done + 1)
<1>1. c.downloadBlock \in Nat /\ c.asked \in Int /\ c2.downloadBlock = c.downloadBlock + 1
  BY Sizes DEF ClRecord, Advanced
<1>2. ASSUME NEW i \in 1 .. Len(T)
      PROVE  FromFile(s, c2, q2, g[i]) /\ Served(s, c2, T[i], g[i])
  <2>1. FromFile(s, c, q, g[i]) /\ Served(s, c, T[i], g[i]) /\ g[i].file = c.asked
    BY DEF FlightOK, Takes
  <2>2. QED
    BY <2>1 DEF FromFile, Served, Advanced, Takes
<1>3. Snapshots(c2, T, g, done + 1)
  <2> SUFFICES ASSUME NEW i \in 1 .. Len(T), ~ IsRefusal(T[i]), NEW j \in 1 .. Len(T[i]),
                      ~ (i = 1 /\ j <= done + 1)
               PROVE  BlockOK(T[i][j], g[i].file, g[i].first + j - 1, c2)
    BY DEF Snapshots
  <2> DEFINE n == g[i].first + j - 1
  <2>1. ~ (i = 1 /\ j <= done)
    OBVIOUS
  <2>2. BlockOK(T[i][j], g[i].file, n, c)
    BY <2>1 DEF FlightOK, Snapshots
  <2>3. n \in Int /\ g[i].file = c.asked
    <3>1. g[i] \in Origin
      BY DEF FlightOK
    <3>2. QED
      BY <3>1 DEF Origin, Takes
  <2> HIDE DEF n
  <2>4. QED
    BY <1>1, <2>2, <2>3, Sizes DEF BlockOK, Advanced, n
<1>4. QED
  BY <1>2, <1>3 DEF FlightOK

\* So taking a block keeps everything.
LEMMA TakenStep ==
    ASSUME NEW s, NEW c, NEW c2 \in ClRecord, NEW q, NEW T, NEW g, NEW done \in Nat, NEW b,
           Good(s, c, q, T, done), FlightOK(s, c, q, T, g, done), Takes(s, c, q, T, g, done, b),
           Advanced(c, c2), ClientOK(c2)
    PROVE  /\ Good(s, c2, Append(q, NextDl(c.downloadBlock)), T, done + 1)
           /\ FlightOK(s, c2, Append(q, NextDl(c.downloadBlock)), T, g, done + 1)
<1> DEFINE q2 == Append(q, NextDl(c.downloadBlock))
<1>1. ServerOK(s, c2)
  BY TakenServer DEF Good
<1>2. QueueOK(s, c2, q2) /\ q2 \in Seq(Command) /\ ~ HasDownload(q2)
  BY TakenQueue DEF Good
<1> HIDE DEF q2
<1>3. FlightOK(s, c2, q2, T, g, done + 1)
  BY <1>2, TakenFlight DEF Good
<1>4. Good(s, c2, q2, T, done + 1)
  BY <1>1, <1>2, <1>3 DEF Good
<1>5. QED
  BY <1>3, <1>4 DEF q2

-----------------------------------------------------------------------------
(* From one file to the next *)

\* The client has finished a file and asks for the next.
Asks(c, c2) ==
    /\ c2.asked = c.asked + 1 /\ c2.unwritable = c.unwritable
    /\ c2.downloadBlock = 0
    /\ ~ c2.disconnected

\* It has had the last block of its file, which was block n of the first snapshot.
HasAll(s, c, T, g, done) ==
    /\ c.downloadBlock = Blocks[c.asked] + 1 /\ ~ c.disconnected
    /\ c.asked < Len(Blocks)
    /\ 2 * Blocks[c.asked] < SHORT_RANGE
    /\ ~ IsRefusal(T[1]) /\ done <= Len(T[1]) /\ g[1].first + done = Blocks[c.asked] + 1
    /\ \A i \in 1 .. Len(T) : g[i].file = c.asked
    /\ s.open /\ s.downloadName = c.asked

\* The last block of a snapshot is the last that has been read, or behind it.
LEMMA LastIsBehind ==
    ASSUME NEW b, NEW o, NEW done \in Nat, NEW n \in Nat, Len(b) \in Nat, o.first \in Nat,
           o.first + done = n + 1, done <= Len(b)
    PROVE  /\ LastOf(b, o) >= n
           /\ Len(b) = done => LastOf(b, o) = n
  BY DEF LastOf

\* The server still has the file before open, and all its blocks sent,
LEMMA AskServer ==
    ASSUME NEW s, NEW c, NEW c2, NEW T, NEW g, NEW done,
           s \in SvRecord, c \in ClRecord, ServerOK(s, c), HasAll(s, c, T, g, done), Asks(c, c2)
    PROVE  ServerOK(s, c2)
<1>1. c.asked \in Int /\ s.downloadName = c.asked /\ s.open /\ OpenOK(s, c) /\ c2.asked = c.asked + 1
  BY Sizes DEF HasAll, ServerOK, ClRecord, Asks
<1>2. Acked(c2, s.downloadName) = Acked(c, s.downloadName)
  BY <1>1 DEF Acked, HasAll
<1>3. OpenOK(s, c2)
  BY <1>1, <1>2 DEF OpenOK
<1>4. QED
  BY <1>1, <1>3 DEF ServerOK, Asks

\* the commands end with the one for the next file,
LEMMA AskQueue ==
    ASSUME NEW s, NEW c, NEW c2, NEW q, NEW T, NEW g, NEW done,
           s \in SvRecord, c \in ClRecord, q \in Seq(Command), QueueOK(s, c, q),
           HasAll(s, c, T, g, done), Asks(c, c2),
           \A i \in 1 .. Len(q) : q[i].command = "nextdl"
    PROVE  /\ QueueOK(s, c2, Append(q, Download(c2.asked)))
           /\ Append(q, Download(c2.asked)) \in Seq(Command)
<1> DEFINE x == Download(c2.asked)
           q2 == Append(q, x)
<1>1. c.asked \in Nat /\ s.downloadName = c.asked /\ s.open /\ c2.asked = c.asked + 1
  BY Sizes DEF HasAll, ClRecord, Asks
<1>2. x \in Command /\ x.command = "download" /\ x.argument = c2.asked
  BY <1>1 DEF Download, Command
<1>3. /\ q2 \in Seq(Command) /\ Len(q2) = Len(q) + 1 /\ Len(q) \in Nat
      /\ \A i \in 1 .. Len(q) : q2[i] = q[i]
      /\ q2[Len(q) + 1] = x
  BY <1>2
<1>4. \A i \in 1 .. Len(q2) : i \in 1 .. Len(q) \/ i = Len(q) + 1
  BY <1>3
<1>5. PICK m \in 0 .. Len(q) :
          /\ Acknowledges(s, q, m)
          /\ s.open => s.downloadClientBlock + m = Acked(c, s.downloadName)
  BY DEF QueueOK
<1>6. Acked(c2, s.downloadName) = Acked(c, s.downloadName)
  BY <1>1 DEF Acked, HasAll
<1> HIDE DEF q2, x
<1>7. Acknowledges(s, q2, m) /\ m \in 0 .. Len(q2)
  BY <1>2, <1>3, <1>4, <1>5 DEF Acknowledges
<1>8. \A i \in 1 .. Len(q2) : q2[i].command \in {"nextdl", "download"}
  BY <1>2, <1>3, <1>4
<1>9. \A i \in 1 .. Len(q2) : q2[i].command = "download" => i = Len(q) + 1
  BY <1>3, <1>4
<1>10. \A i \in 1 .. Len(q2) : q2[i].command = "download" => q2[i].argument = c2.asked
  BY <1>2, <1>3, <1>9
<1>11. QueueOK(s, c2, q2)
  BY <1>1, <1>5, <1>6, <1>7, <1>8, <1>9, <1>10 DEF QueueOK, Asks
<1>12. QED
  BY <1>3, <1>11 DEF q2, x

\* and no block in flight has the number of that file's first.
LEMMA AskFlight ==
    ASSUME NEW s, NEW c, NEW c2, NEW q, NEW q2, NEW T, NEW g, NEW done \in Nat,
           c \in ClRecord, T \in Seq(Seq(BlockRecord)), FlightOK(s, c, q, T, g, done),
           HasAll(s, c, T, g, done), Asks(c, c2)
    PROVE  FlightOK(s, c2, q2, T, g, done)
<1> DEFINE a == c.asked
           B == Blocks[a]
<1>1. a \in Nat /\ a \in Files /\ c2.asked = a + 1 /\ c2.downloadBlock = 0 /\ B \in Nat \ {0}
  BY Sizes DEF ClRecord, Asks
<1>2. ASSUME NEW i \in 1 .. Len(T)
      PROVE  g[i] \in Origin /\ g[i].file = a /\ g[i].first \in Nat
  <2>1. g[i] \in Origin
    BY DEF FlightOK
  <2>2. QED
    BY <2>1 DEF HasAll, Origin
<1>3. ASSUME NEW i \in 1 .. Len(T)
      PROVE  FromFile(s, c2, q2, g[i]) /\ Served(s, c2, T[i], g[i])
  <2>1. FromFile(s, c, q, g[i]) /\ Served(s, c, T[i], g[i]) /\ g[i].file = a
    BY <1>2 DEF FlightOK
  <2>2. QED
    BY <1>1, <2>1 DEF FromFile, Served
<1>4. Snapshots(c2, T, g, done)
  <2> SUFFICES ASSUME NEW i \in 1 .. Len(T), ~ IsRefusal(T[i]), NEW j \in 1 .. Len(T[i]),
                      ~ (i = 1 /\ j <= done)
               PROVE  BlockOK(T[i][j], g[i].file, g[i].first + j - 1, c2)
    BY DEF Snapshots
  <2> DEFINE n == g[i].first + j - 1
  <2>1. BlockOK(T[i][j], g[i].file, n, c)
    BY DEF FlightOK, Snapshots
  <2>2. n \in Nat /\ n <= B /\ T[i] \in Seq(BlockRecord) /\ Len(T[i]) \in Nat
    BY <1>2, <2>1 DEF BlockOK
  <2>3. i # 1
    <3> SUFFICES ASSUME i = 1 PROVE FALSE
      OBVIOUS
    <3>1. g[1].first + done = B + 1 /\ j > done
      BY DEF HasAll
    <3>2. QED
      BY <3>1, <2>2, <1>1, <1>2
  <2>4. n # 0
    <3>1. After(T[1], g[1], g[i])
      BY <2>3 DEF FlightOK
    <3>2. LastOf(T[1], g[1]) = B
      <4>1. T[1] \in Seq(BlockRecord) /\ Len(T[1]) \in Nat /\ 1 \in 1 .. Len(T)
        BY <2>3
      <4>2. g[1].first \in Nat /\ g[1].first + done = B + 1 /\ done <= Len(T[1])
        BY <4>1, <1>2 DEF HasAll
      <4>3. LastOf(T[1], g[1]) >= B
        BY <4>1, <4>2, <1>1, LastIsBehind
      <4>4. CASE Len(T[1]) = done
        BY <4>1, <4>2, <4>4, <1>1, LastIsBehind
      <4>5. CASE Len(T[1]) # done
        <5>1. Len(T[1]) \in 1 .. Len(T[1]) /\ ~ (Len(T[1]) <= done) /\ ~ IsRefusal(T[1])
          BY <4>1, <4>5 DEF HasAll
        <5>2. BlockOK(T[1][Len(T[1])], g[1].file, g[1].first + Len(T[1]) - 1, c)
          BY <4>1, <5>1 DEF FlightOK, Snapshots
        <5>3. LastOf(T[1], g[1]) <= B
          BY <5>2, <4>1, <1>2 DEF BlockOK, LastOf
        <5>4. LastOf(T[1], g[1]) \in Int
          BY <4>1, <4>2 DEF LastOf
        <5>5. QED
          BY <4>3, <5>3, <5>4, <1>1
      <4>6. QED
        BY <4>4, <4>5
    <3>3. a # Len(Blocks) /\ ~ IsRefusal(T[1]) /\ g[1].file = a /\ g[i].file = a
      <4>1. 1 \in 1 .. Len(T)
        BY <2>3
      <4>2. QED
        BY <4>1, <1>1, <1>2, Sizes DEF HasAll
    <3>4. g[i].first # 0
      BY <3>1, <3>2, <3>3 DEF After
    <3>5. QED
      BY <3>4, <1>2
  <2>5. Short(n) # 0
    <3>1. 2 * n < SHORT_RANGE
      BY <2>2, <1>1, Sizes DEF HasAll
    <3>2. QED
      BY <2>2, <2>4, <3>1, ShortOfSmall
  <2>6. g[i].file = a
    BY <1>2
  <2> HIDE DEF n
  <2>7. BlockOK(T[i][j], g[i].file, n, c2)
    BY <1>1, <2>1, <2>5, <2>6 DEF BlockOK
  <2>8. QED
    BY <2>7 DEF n
<1>5. QED
  BY <1>3, <1>4 DEF FlightOK

\* So asking for the next file keeps everything.
LEMMA AskStep ==
    ASSUME NEW s, NEW c, NEW c2 \in ClRecord, NEW q, NEW T, NEW g, NEW done \in Nat,
           Good(s, c, q, T, done), FlightOK(s, c, q, T, g, done), HasAll(s, c, T, g, done),
           Asks(c, c2), ClientOK(c2), \A i \in 1 .. Len(q) : q[i].command = "nextdl"
    PROVE  Good(s, c2, Append(q, Download(c2.asked)), T, done)
<1>1. ServerOK(s, c2)
  BY AskServer DEF Good
<1>2. /\ QueueOK(s, c2, Append(q, Download(c2.asked)))
      /\ Append(q, Download(c2.asked)) \in Seq(Command)
  BY AskQueue DEF Good
<1>3. FlightOK(s, c2, Append(q, Download(c2.asked)), T, g, done)
  BY AskFlight DEF Good
<1>4. QED
  BY <1>1, <1>2, <1>3 DEF Good
-----------------------------------------------------------------------------
(* Reading blocks *)

\* A command added is the last of those in flight.
LEMMA AppendToConcat ==
    ASSUME NEW sent \in Seq(Command), NEW added \in Seq(Command), NEW x \in Command
    PROVE  sent \o Append(added, x) = Append(sent \o added, x)
<1> DEFINE p == sent \o Append(added, x)
           q == Append(sent \o added, x)
<1>1. p \in Seq(Command) /\ q \in Seq(Command) /\ Len(p) = Len(q)
  OBVIOUS
<1>2. ASSUME NEW i \in 1 .. Len(p) PROVE p[i] = q[i]
  <2>1. CASE i <= Len(sent)
    BY <2>1
  <2>2. CASE i > Len(sent) /\ i <= Len(sent) + Len(added)
    BY <2>2
  <2>3. CASE i = Len(sent) + Len(added) + 1
    BY <2>3
  <2>4. QED
    BY <2>1, <2>2, <2>3
<1>3. QED
  BY <1>1, <1>2

\* The beginning of a file, and the same with one block more
LEMMA WholeIsSeq ==
    ASSUME NEW f \in Files, NEW n \in Nat
    PROVE  Whole(f, n) \in Seq(Files \X Nat) /\ Len(Whole(f, n)) = n
<1>1. \A i \in 1 .. n : Data(f, i - 1) \in Files \X Nat
  BY DEF Data
<1>2. QED
  BY <1>1 DEF Whole

\* The next block of a file makes its beginning one block longer.
LEMMA WholeAppend ==
    ASSUME NEW f \in Files, NEW n \in Nat
    PROVE  Append(Whole(f, n), Data(f, n)) = Whole(f, n + 1)
<1> DEFINE w == Whole(f, n)
           x == Data(f, n)
           p == Append(w, x)
           q == Whole(f, n + 1)
<1>1. w \in Seq(Files \X Nat) /\ Len(w) = n /\ x \in Files \X Nat
  BY WholeIsSeq DEF Data
<1>2. q \in Seq(Files \X Nat) /\ Len(q) = n + 1
  BY WholeIsSeq
<1>3. \A i \in 1 .. n : w[i] = Data(f, i - 1)
  BY DEF Whole
<1>4. \A i \in 1 .. n + 1 : q[i] = Data(f, i - 1)
  BY DEF Whole
<1>5. x = Data(f, (n + 1) - 1)
  OBVIOUS
<1> HIDE DEF w, x, q
<1>6. /\ p \in Seq(Files \X Nat) /\ Len(p) = n + 1
      /\ \A i \in 1 .. n : p[i] = w[i]
      /\ p[n + 1] = x
  BY <1>1
<1> HIDE DEF p
<1>7. ASSUME NEW i \in 1 .. n + 1 PROVE p[i] = q[i]
  <2>1. CASE i \in 1 .. n
    BY <2>1, <1>3, <1>4, <1>6
  <2>2. CASE i = n + 1
    BY <2>2, <1>4, <1>5, <1>6
  <2>3. QED
    BY <2>1, <2>2
<1>8. p = q
  BY <1>2, <1>6, <1>7
<1>9. QED
  BY <1>8 DEF p, q, w, x

\* The state of the client when a command has been added that goes with nothing.
WithCommand(c, x) == [c EXCEPT !.commands = Append(@, x)]

\* These commands are commands.
LEMMA StopDlIsCommand == {StopDl, DoneDl} \subseteq Command
  BY DEF StopDl, DoneDl, Command

\* A client that has added a command is a client,
LEMMA MoreCommands ==
    ASSUME NEW c \in ClRecord, NEW x \in Command
    PROVE  WithCommand(c, x) \in ClRecord
<1>1. c.commands \in Seq(Command)
  BY DEF ClRecord
<1>2. Append(c.commands, x) \in Seq(Command)
  BY <1>1
<1> DEFINE more == Append(c.commands, x)
<1> HIDE DEF more
<1>3. more \in Seq(Command) => [c EXCEPT !.commands = more] \in ClRecord
  BY DEF ClRecord
<1>4. QED
  BY <1>2, <1>3 DEF more, WithCommand

\* and nothing else of it has changed.
LEMMA CommandAdded ==
    ASSUME NEW c \in ClRecord, NEW x
    PROVE  /\ WithCommand(c, x).commands = Append(c.commands, x)
           /\ WithCommand(c, x).asked = c.asked
           /\ WithCommand(c, x).unwritable = c.unwritable
           /\ WithCommand(c, x).disconnected = c.disconnected
           /\ WithCommand(c, x).downloading = c.downloading
           /\ WithCommand(c, x).downloadBlock = c.downloadBlock
           /\ WithCommand(c, x).written = c.written
           /\ WithCommand(c, x).finished = c.finished
           /\ WithCommand(c, x).downloadRestart = c.downloadRestart
           /\ WithCommand(c, x).loading = c.loading
  BY DEF WithCommand, ClRecord

\* A block that the client has not asked for
LEMMA MisreadStep ==
    ASSUME NEW s, NEW c, NEW sent \in Seq(Command), NEW T, NEW done \in Nat,
           Good(s, c, sent \o c.commands, T, done)
    PROVE  Good(s, Misread(c), sent \o Misread(c).commands, T, done + 1)
<1> DEFINE c2 == Misread(c)
<1>1. c \in ClRecord /\ ClientOK(c) /\ c.commands \in Seq(Command)
  BY DEF Good, ClRecord
<1>2. /\ c2 \in ClRecord /\ c2.disconnected /\ SamePlace(c, c2) /\ c2.downloading = c.downloading
      /\ c2.written = c.written /\ c2.finished = c.finished
      /\ c2.commands = Append(c.commands, StopDl)
  <2> DEFINE c1 == WithCommand(c, StopDl)
  <2>1. c1 \in ClRecord
    BY <1>1, StopDlIsCommand, MoreCommands
  <2>2. c2 = [c1 EXCEPT !.disconnected = TRUE]
    BY DEF Misread, WithCommand
  <2> HIDE DEF c1, c2
  <2>3. /\ c2 \in ClRecord /\ c2.commands = c1.commands /\ c2.asked = c1.asked
        /\ c2.unwritable = c1.unwritable /\ c2.disconnected
        /\ c2.downloading = c1.downloading /\ c2.downloadBlock = c1.downloadBlock
        /\ c2.written = c1.written /\ c2.finished = c1.finished
    BY <2>1, <2>2 DEF ClRecord
  <2>4. QED
    BY <2>3, <1>1, CommandAdded DEF SamePlace, c1
<1>3. ClientOK(c2) /\ (Writes(c2) => Writes(c))
  BY <1>1, <1>2 DEF ClientOK, SamePlace, Writes
<1>4. sent \o c2.commands = Append(sent \o c.commands, StopDl)
  BY <1>1, <1>2, StopDlIsCommand, AppendToConcat
<1> HIDE DEF c2
<1>5. Good(s, c2, Append(sent \o c.commands, StopDl), T, done + 1)
  BY <1>2, <1>3, OtherStep
<1>6. QED
  BY <1>4, <1>5 DEF c2

\* A refusal
LEMMA RefusedStep ==
    ASSUME NEW s, NEW c, NEW q, NEW T, NEW done \in Nat, Good(s, c, q, T, done)
    PROVE  /\ Good(s, [c EXCEPT !.disconnected = TRUE], q, T, done + 1)
           /\ [c EXCEPT !.disconnected = TRUE].commands = c.commands
<1> DEFINE c2 == [c EXCEPT !.disconnected = TRUE]
<1>1. c \in ClRecord /\ ClientOK(c)
  BY DEF Good
<1>2. /\ c2 \in ClRecord /\ SamePlace(c, c2) /\ c2.downloading = c.downloading
      /\ c2.written = c.written /\ c2.finished = c.finished /\ c2.commands = c.commands
  BY <1>1 DEF ClRecord, SamePlace
<1>3. ClientOK(c2) /\ (Writes(c2) => Writes(c))
  BY <1>1, <1>2 DEF ClientOK, SamePlace, Writes
<1> HIDE DEF c2
<1>4. Good(s, c2, q, T, done + 1)
  BY <1>2, <1>3, SteadyStep
<1>5. QED
  BY <1>2, <1>4 DEF c2

\* The downloads are complete.
LEMMA CompleteStep ==
    ASSUME NEW s, NEW c, NEW sent \in Seq(Command), NEW T, NEW done \in Nat,
           Good(s, c, sent \o c.commands, T, done), ~ Writes(c)
    PROVE  Good(s, DownloadsComplete(c), sent \o DownloadsComplete(c).commands, T, done)
<1> DEFINE c2 == DownloadsComplete(c)
<1>1. c \in ClRecord /\ ClientOK(c) /\ c.commands \in Seq(Command)
  BY DEF Good, ClRecord
<1>2. /\ c2 \in ClRecord /\ SamePlace(c, c2) /\ c2.downloading = c.downloading
      /\ c2.written = c.written /\ c2.finished = c.finished
      /\ c2.commands = c.commands \/ c2.commands = Append(c.commands, DoneDl)
  <2>1. CASE c.downloadRestart
    <3> DEFINE c1 == WithCommand(c, DoneDl)
    <3>1. c1 \in ClRecord
      BY <1>1, StopDlIsCommand, MoreCommands
    <3>2. c2 = [c1 EXCEPT !.downloadRestart = FALSE]
      BY <2>1 DEF DownloadsComplete, WithCommand
    <3> HIDE DEF c1, c2
    <3>3. /\ c2 \in ClRecord /\ c2.commands = c1.commands /\ c2.asked = c1.asked
          /\ c2.unwritable = c1.unwritable /\ c2.disconnected = c1.disconnected
          /\ c2.downloading = c1.downloading /\ c2.downloadBlock = c1.downloadBlock
          /\ c2.written = c1.written /\ c2.finished = c1.finished
      BY <3>1, <3>2 DEF ClRecord
    <3>4. QED
      BY <3>3, <1>1, CommandAdded DEF SamePlace, c1
  <2>2. CASE ~ c.downloadRestart
    <3>1. c2 = [c EXCEPT !.loading = TRUE]
      BY <2>2 DEF DownloadsComplete
    <3> HIDE DEF c2
    <3>2. QED
      BY <1>1, <3>1 DEF ClRecord, SamePlace
  <2>3. QED
    BY <2>1, <2>2
<1>3. ClientOK(c2) /\ ~ Writes(c2)
  BY <1>1, <1>2 DEF ClientOK, SamePlace, Writes
<1> HIDE DEF c2
<1>4. CASE c2.commands = c.commands
  <2>1. Good(s, c2, sent \o c.commands, T, done)
    BY <1>2, <1>3, SteadyStep
  <2>2. QED
    BY <1>4, <2>1 DEF c2
<1>5. CASE c2.commands = Append(c.commands, DoneDl)
  <2>1. sent \o c2.commands = Append(sent \o c.commands, DoneDl)
    BY <1>1, <1>5, StopDlIsCommand, AppendToConcat
  <2>2. Good(s, c2, Append(sent \o c.commands, DoneDl), T, done)
    BY <1>2, <1>3, OtherStep
  <2>3. QED
    BY <2>1, <2>2 DEF c2
<1>6. QED
  BY <1>2, <1>4, <1>5

\* A file that cannot be written is the last.
LEMMA GiveUpStep ==
    ASSUME FilesKeptApart, NEW s, NEW c, NEW sent \in Seq(Command), NEW T, NEW done \in Nat,
           Good(s, c, sent \o c.commands, T, done), CannotCreate(c)
    PROVE  LET c2 == NextDownload(WithCommand(c, StopDl))
           IN  Good(s, c2, sent \o c2.commands, T, done + 1)
<1> DEFINE c1 == WithCommand(c, StopDl)
<1>1. c \in ClRecord /\ ClientOK(c) /\ c.commands \in Seq(Command)
  BY DEF Good, ClRecord
<1>2. c.asked = Len(Blocks) /\ ~ Writes(c)
  BY <1>1 DEF CannotCreate, FilesKeptApart, ClRecord, Writes
<1>3. /\ c1 \in ClRecord /\ SamePlace(c, c1) /\ c1.downloading = c.downloading
      /\ c1.written = c.written /\ c1.finished = c.finished
      /\ c1.commands = Append(c.commands, StopDl)
  BY <1>1, StopDlIsCommand, MoreCommands, CommandAdded DEF SamePlace
<1>4. ClientOK(c1) /\ ~ Writes(c1)
  BY <1>1, <1>2, <1>3 DEF ClientOK, SamePlace, Writes
<1>5. sent \o c1.commands = Append(sent \o c.commands, StopDl)
  BY <1>1, <1>3, StopDlIsCommand, AppendToConcat
<1> HIDE DEF c1
<1>6. Good(s, c1, Append(sent \o c.commands, StopDl), T, done + 1)
  BY <1>3, <1>4, OtherStep
<1>7. NextDownload(c1) = DownloadsComplete(c1)
  BY <1>2, <1>3, Sizes DEF NextDownload, SamePlace
<1>8. Good(s, DownloadsComplete(c1), sent \o DownloadsComplete(c1).commands, T, done + 1)
  <2>1. Good(s, c1, sent \o c1.commands, T, done + 1) /\ done + 1 \in Nat
    BY <1>5, <1>6
  <2>2. QED
    BY <1>4, <2>1, CompleteStep
<1>9. QED
  BY <1>7, <1>8 DEF c1

\* The client after block b of its file: c3 is it without what it writes.
LEMMA TakenIs ==
    ASSUME NEW c \in ClRecord, NEW b \in BlockRecord
    PROVE  /\ Taken(c, b) \in ClRecord
           /\ Taken(c, b).commands = Append(c.commands, NextDl(c.downloadBlock))
           /\ Taken(c, b).downloadBlock = c.downloadBlock + 1
           /\ Taken(c, b).written = IF b.data = End THEN c.written ELSE Append(c.written, b.data)
           /\ Taken(c, b).asked = c.asked /\ Taken(c, b).unwritable = c.unwritable
           /\ Taken(c, b).disconnected = c.disconnected /\ Taken(c, b).downloading = c.downloading
           /\ Taken(c, b).finished = c.finished
<1> DEFINE commands == Append(c.commands, NextDl(c.downloadBlock))
           written == IF b.data = End THEN c.written ELSE Append(c.written, b.data)
           n == c.downloadBlock + 1
<1>1. c.downloadBlock \in Nat /\ c.commands \in Seq(Command) /\ c.written \in Seq(Files \X Nat)
  BY DEF ClRecord
<1>2. commands \in Seq(Command)
  <2>1. NextDl(c.downloadBlock) \in Command
    BY <1>1 DEF NextDl, Command
  <2>2. QED
    BY <1>1, <2>1
<1>3. written \in Seq(Files \X Nat)
  <2>1. b.data # End => b.data \in Files \X Nat
    BY DEF BlockRecord, BlockData
  <2>2. QED
    BY <1>1, <2>1
<1>4. n \in Nat
  BY <1>1
<1>5. Taken(c, b) = [c EXCEPT !.downloadBlock = n, !.commands = commands, !.written = written]
  BY DEF Taken
<1> HIDE DEF commands, written, n
<1>6. /\ Taken(c, b) \in ClRecord
      /\ Taken(c, b).commands = commands
      /\ Taken(c, b).downloadBlock = n
      /\ Taken(c, b).written = written
      /\ Taken(c, b).asked = c.asked /\ Taken(c, b).unwritable = c.unwritable
      /\ Taken(c, b).disconnected = c.disconnected /\ Taken(c, b).downloading = c.downloading
      /\ Taken(c, b).finished = c.finished
  BY <1>2, <1>3, <1>4, <1>5 DEF ClRecord
<1>7. QED
  BY <1>6 DEF commands, written, n

\* Taking a block is an advance, and its acknowledgement goes behind the other commands.
LEMMA TakenAdvances ==
    ASSUME NEW c \in ClRecord, NEW b \in BlockRecord, NEW sent \in Seq(Command), ~ c.disconnected
    PROVE  /\ Advanced(c, Taken(c, b))
           /\ sent \o Taken(c, b).commands = Append(sent \o c.commands, NextDl(c.downloadBlock))
<1>1. c.downloadBlock \in Nat /\ c.commands \in Seq(Command)
  BY DEF ClRecord
<1>2. NextDl(c.downloadBlock) \in Command
  BY <1>1 DEF NextDl, Command
<1>3. sent \o Append(c.commands, NextDl(c.downloadBlock))
        = Append(sent \o c.commands, NextDl(c.downloadBlock))
  BY <1>1, <1>2, AppendToConcat
<1>4. QED
  <2>1. /\ Taken(c, b).commands = Append(c.commands, NextDl(c.downloadBlock))
        /\ Taken(c, b).downloadBlock = c.downloadBlock + 1
        /\ Taken(c, b).asked = c.asked /\ Taken(c, b).unwritable = c.unwritable
        /\ Taken(c, b).disconnected = c.disconnected
    BY TakenIs
  <2>2. Advanced(c, Taken(c, b))
    BY <2>1 DEF Advanced
  <2>3. QED
    BY <1>3, <2>1, <2>2

\* A block of data is written behind the others.
LEMMA DataStep ==
    ASSUME NEW s, NEW c, NEW sent \in Seq(Command), NEW T, NEW g, NEW done \in Nat,
           NEW b \in BlockRecord,
           Good(s, c, sent \o c.commands, T, done), FlightOK(s, c, sent \o c.commands, T, g, done),
           Takes(s, c, sent \o c.commands, T, g, done, b), b.data # End
    PROVE  Good(s, Taken(c, b), sent \o Taken(c, b).commands, T, done + 1)
<1> DEFINE c2 == Taken(c, b)
           a == c.asked
           k == c.downloadBlock
<1>1. c \in ClRecord /\ ClientOK(c) /\ k \in Nat /\ a \in Files /\ Blocks[a] \in Nat
  BY Sizes DEF Good, ClRecord
<1>2. /\ c2 \in ClRecord /\ c2.downloadBlock = k + 1 /\ c2.written = Append(c.written, b.data)
      /\ c2.asked = a /\ c2.unwritable = c.unwritable
      /\ c2.disconnected = c.disconnected /\ c2.downloading = c.downloading
      /\ c2.finished = c.finished
  BY <1>1, TakenIs
<1>3. ~ c.disconnected /\ c.downloading /\ a \notin c.unwritable /\ b.data = Content(a, k)
  BY DEF Takes, Writes
<1>4. b.data = Data(a, k) /\ k < Blocks[a]
  BY <1>3 DEF Content
<1>5. c.written = Whole(a, k)
  BY <1>1, <1>3 DEF ClientOK
<1>6. c2.written = Whole(a, k + 1)
  <2>1. Append(Whole(a, k), Data(a, k)) = Whole(a, k + 1)
    BY <1>1, WholeAppend
  <2>2. QED
    BY <1>2, <1>4, <1>5, <2>1
<1>7. Advanced(c, c2) /\ sent \o c2.commands = Append(sent \o c.commands, NextDl(k))
  BY <1>1, <1>3, TakenAdvances
<1> HIDE DEF c2
<1>8. ClientOK(c2)
  BY <1>1, <1>2, <1>3, <1>4, <1>6 DEF ClientOK
<1>9. Good(s, c2, Append(sent \o c.commands, NextDl(k)), T, done + 1)
  BY <1>2, <1>7, <1>8, TakenStep
<1>10. QED
  BY <1>7, <1>9 DEF c2

\* The empty block ends a file, which is now the client's.
LEMMA FinishedIs ==
    ASSUME NEW c \in ClRecord
    PROVE  /\ Finished(c) \in ClRecord
           /\ Finished(c).downloading = FALSE
           /\ Finished(c).finished = c.finished \cup {[file |-> c.asked, content |-> c.written]}
           /\ Finished(c).commands = c.commands /\ Finished(c).downloadBlock = c.downloadBlock
           /\ Finished(c).asked = c.asked /\ Finished(c).unwritable = c.unwritable
           /\ Finished(c).disconnected = c.disconnected
<1> DEFINE finished == c.finished \cup {[file |-> c.asked, content |-> c.written]}
<1>1. finished \in SUBSET [file : Files, content : Seq(Files \X Nat)]
  BY DEF ClRecord
<1>2. << >> \in Seq(Files \X Nat)
  OBVIOUS
<1>3. Finished(c) = [c EXCEPT !.downloading = FALSE, !.written = << >>, !.finished = finished]
  BY DEF Finished
<1> HIDE DEF finished
<1>4. /\ Finished(c) \in ClRecord
      /\ Finished(c).downloading = FALSE
      /\ Finished(c).finished = finished
      /\ Finished(c).commands = c.commands /\ Finished(c).downloadBlock = c.downloadBlock
      /\ Finished(c).asked = c.asked /\ Finished(c).unwritable = c.unwritable
      /\ Finished(c).disconnected = c.disconnected
  BY <1>1, <1>2, <1>3 DEF ClRecord
<1>5. QED
  BY <1>4 DEF finished

\* The client asks for the next file, if there is one.
LEMMA NextIs ==
    ASSUME NEW c \in ClRecord, c.asked < Len(Blocks)
    PROVE  /\ NextDownload(c) \in ClRecord
           /\ NextDownload(c).asked = c.asked + 1
           /\ NextDownload(c).downloading = TRUE /\ NextDownload(c).downloadBlock = 0
           /\ NextDownload(c).written = << >>
           /\ NextDownload(c).commands = Append(c.commands, Download(c.asked + 1))
           /\ NextDownload(c).unwritable = c.unwritable
           /\ NextDownload(c).disconnected = c.disconnected
           /\ NextDownload(c).finished = c.finished
           /\ Download(c.asked + 1) \in Command
<1> DEFINE commands == Append(c.commands, Download(c.asked + 1))
           a == c.asked + 1
<1>1. c.asked \in Nat /\ a \in Files /\ c.commands \in Seq(Command)
  BY Sizes DEF ClRecord
<1>2. Download(c.asked + 1) \in Command
  BY <1>1 DEF Download, Command
<1>3. commands \in Seq(Command)
  BY <1>1, <1>2
<1>4. << >> \in Seq(Files \X Nat)
  OBVIOUS
<1>5. NextDownload(c) = [c EXCEPT !.asked = a, !.downloading = TRUE, !.downloadBlock = 0,
                         !.written = << >>, !.downloadRestart = TRUE, !.commands = commands]
  BY DEF NextDownload
<1> HIDE DEF commands, a
<1>6. NextDownload(c) \in ClRecord
  <2> DEFINE c1 == [c EXCEPT !.asked = a, !.downloading = TRUE, !.downloadBlock = 0]
  <2>1. c1 \in ClRecord
    BY <1>1 DEF ClRecord
  <2>2. NextDownload(c) = [c1 EXCEPT !.written = << >>, !.downloadRestart = TRUE, !.commands = commands]
    BY <1>5
  <2> HIDE DEF c1
  <2>3. QED
    BY <1>3, <1>4, <2>1, <2>2 DEF ClRecord
<1>7. /\ NextDownload(c).asked = a
      /\ NextDownload(c).downloading = TRUE /\ NextDownload(c).downloadBlock = 0
      /\ NextDownload(c).written = << >>
      /\ NextDownload(c).commands = commands
      /\ NextDownload(c).unwritable = c.unwritable
      /\ NextDownload(c).disconnected = c.disconnected
      /\ NextDownload(c).finished = c.finished
  BY <1>5 DEF ClRecord
<1>8. QED
  BY <1>2, <1>6, <1>7 DEF commands, a

\* The empty block that ends a file keeps everything, whether another file follows or not.
LEMMA EndStep ==
    ASSUME NEW s, NEW c, NEW sent \in Seq(Command), NEW T, NEW g, NEW done \in Nat,
           NEW b \in BlockRecord,
           Good(s, c, sent \o c.commands, T, done), FlightOK(s, c, sent \o c.commands, T, g, done),
           Takes(s, c, sent \o c.commands, T, g, done, b), b.data = End
    PROVE  LET c2 == NextDownload(Finished(Taken(c, b)))
           IN  Good(s, c2, sent \o c2.commands, T, done + 1)
<1> DEFINE c1 == Finished(Taken(c, b))
           a == c.asked
           k == c.downloadBlock
           q1 == sent \o c1.commands
<1>1. /\ c \in ClRecord /\ ClientOK(c) /\ k \in Nat /\ a \in Files /\ Blocks[a] \in Nat
      /\ s \in SvRecord /\ T \in Seq(Seq(BlockRecord))
      /\ c.commands \in Seq(Command)
  BY Sizes DEF Good, ClRecord
<1>2. /\ ~ c.disconnected /\ c.downloading /\ a \notin c.unwritable /\ b.data = Content(a, k)
      /\ k <= Blocks[a] /\ 2 * k < SHORT_RANGE
  BY DEF Takes, Writes
<1>3. k = Blocks[a]
  <2>1. ~ (k < Blocks[a])
    BY <1>2, DataIsNotEnd DEF Content
  <2>2. QED
    BY <2>1, <1>1, <1>2
<1>4. c.written = Whole(a, Blocks[a])
  BY <1>1, <1>2, <1>3 DEF ClientOK
<1>5. /\ Taken(c, b) \in ClRecord
      /\ Taken(c, b).commands = Append(c.commands, NextDl(k))
      /\ Taken(c, b).downloadBlock = k + 1
      /\ Taken(c, b).written = c.written
      /\ Taken(c, b).asked = a /\ Taken(c, b).unwritable = c.unwritable
      /\ Taken(c, b).disconnected = c.disconnected /\ Taken(c, b).finished = c.finished
      /\ sent \o Taken(c, b).commands = Append(sent \o c.commands, NextDl(k))
  BY <1>1, <1>2, TakenIs, TakenAdvances
<1>6. /\ c1 \in ClRecord /\ c1.downloadBlock = k + 1 /\ ~ c1.downloading /\ ~ c1.disconnected
      /\ c1.asked = a /\ c1.unwritable = c.unwritable
      /\ c1.finished = c.finished \cup {[file |-> a, content |-> Whole(a, Blocks[a])]}
      /\ q1 = Append(sent \o c.commands, NextDl(k))
  <2> DEFINE t == Taken(c, b)
  <2>1. t \in ClRecord
    BY <1>5
  <2>2. /\ Finished(t) \in ClRecord
        /\ Finished(t).downloading = FALSE
        /\ Finished(t).finished = t.finished \cup {[file |-> t.asked, content |-> t.written]}
        /\ Finished(t).commands = t.commands /\ Finished(t).downloadBlock = t.downloadBlock
        /\ Finished(t).asked = t.asked /\ Finished(t).unwritable = t.unwritable
        /\ Finished(t).disconnected = t.disconnected
    BY <2>1, FinishedIs
  <2>3. /\ t.downloadBlock = k + 1 /\ t.written = Whole(a, Blocks[a]) /\ t.asked = a
        /\ t.unwritable = c.unwritable /\ ~ t.disconnected /\ t.finished = c.finished
        /\ sent \o t.commands = Append(sent \o c.commands, NextDl(k))
    BY <1>2, <1>4, <1>5
  <2> HIDE DEF t
  <2>4. QED
    BY <2>2, <2>3 DEF t
<1> HIDE DEF c1
<1>7. ClientOK(c1) /\ Advanced(c, c1) /\ ~ Writes(c1)
  BY <1>1, <1>2, <1>3, <1>6 DEF ClientOK, Advanced, Writes
<1>8. Good(s, c1, q1, T, done + 1) /\ FlightOK(s, c1, q1, T, g, done + 1)
  BY <1>6, <1>7, TakenStep
<1>9. CASE a < Len(Blocks)
  <2> DEFINE c2 == NextDownload(c1)
  <2>1. /\ c2 \in ClRecord /\ c2.asked = a + 1 /\ c2.downloading /\ c2.downloadBlock = 0
        /\ c2.written = << >> /\ c2.commands = Append(c1.commands, Download(c2.asked))
        /\ c2.unwritable = c1.unwritable /\ ~ c2.disconnected /\ c2.finished = c1.finished
        /\ Download(c2.asked) \in Command
    BY <1>6, <1>9, NextIs
  <2> HIDE DEF c2
  <2>2. Asks(c1, c2)
    BY <1>6, <2>1 DEF Asks
  <2>3. HasAll(s, c1, T, g, done + 1)
    <3>1. /\ ~ IsRefusal(T[1]) /\ done < Len(T[1]) /\ g[1].first + done = k
          /\ \A i \in 1 .. Len(T) : g[i].file = a
          /\ s.open /\ s.downloadName = a
      BY DEF Takes
    <3>2. /\ T # << >> => Len(T[1]) \in Nat /\ g[1].first \in Nat
      <4>1. T # << >> => 1 \in 1 .. Len(T) /\ T[1] \in Seq(BlockRecord) /\ g[1] \in Origin
        BY <1>1 DEF FlightOK
      <4>2. QED
        BY <4>1 DEF Origin
    <3>3. T # << >>
      BY DEF Takes
    <3>4. done + 1 <= Len(T[1]) /\ g[1].first + (done + 1) = Blocks[a] + 1
      BY <3>1, <3>2, <3>3, <1>1, <1>3
    <3>5. QED
      BY <3>1, <3>4, <1>2, <1>3, <1>6, <1>9 DEF HasAll
  <2>4. ClientOK(c2)
    <3>1. c2.written = Whole(c2.asked, 0)
      BY <2>1 DEF Whole
    <3>2. \A f \in 1 .. c2.asked - 1 : 2 * Blocks[f] < SHORT_RANGE
      <4>1. \A f \in 1 .. a - 1 : 2 * Blocks[f] < SHORT_RANGE
        BY <1>1 DEF ClientOK
      <4>2. 2 * Blocks[a] < SHORT_RANGE
        BY <1>2, <1>3
      <4>3. QED
        BY <4>1, <4>2, <1>1, <2>1, Sizes
    <3>3. c2.asked \in Files /\ Blocks[c2.asked] \in Nat
      BY <2>1, Sizes DEF ClRecord
    <3>4. QED
      BY <3>1, <3>2, <3>3, <2>1, <1>7 DEF ClientOK
  <2>5. q1 \in Seq(Command) /\ \A i \in 1 .. Len(q1) : q1[i].command = "nextdl"
    <3> DEFINE q == sent \o c.commands
    <3>1. q \in Seq(Command) /\ \A i \in 1 .. Len(q) : q[i].command = "nextdl"
      BY <1>1 DEF Takes
    <3> HIDE DEF q
    <3>2. NextDl(k) \in Command /\ NextDl(k).command = "nextdl"
      BY <1>1 DEF NextDl, Command
    <3>3. q1 = Append(q, NextDl(k))
      BY <1>6 DEF q
    <3> HIDE DEF q1
    <3>4. q1 \in Seq(Command) /\ \A i \in 1 .. Len(q1) : q1[i].command = "nextdl"
      BY <3>1, <3>2, <3>3
    <3>5. QED
      BY <3>4
  <2>6. Good(s, c2, Append(q1, Download(c2.asked)), T, done + 1)
    <3> HIDE DEF q1
    <3>1. done + 1 \in Nat
      OBVIOUS
    <3>2. QED
      BY <3>1, <2>1, <2>2, <2>3, <2>4, <2>5, <1>8, AskStep
  <2>7. sent \o c2.commands = Append(q1, Download(c2.asked))
    <3>1. c1.commands \in Seq(Command)
      BY <1>6 DEF ClRecord
    <3>2. sent \o Append(c1.commands, Download(c2.asked)) = Append(q1, Download(c2.asked))
      BY <3>1, <2>1, AppendToConcat
    <3>3. QED
      BY <3>2, <2>1
  <2>8. QED
    BY <2>6, <2>7 DEF c1, c2
<1>10. CASE ~ (a < Len(Blocks))
  <2>1. NextDownload(c1) = DownloadsComplete(c1)
    BY <1>6, <1>10 DEF NextDownload
  <2>2. done + 1 \in Nat
    OBVIOUS
  <2>3. Good(s, DownloadsComplete(c1), sent \o DownloadsComplete(c1).commands, T, done + 1)
    BY <2>2, <1>7, <1>8, CompleteStep
  <2>4. QED
    BY <2>1, <2>3 DEF c1
<1>11. QED
  BY <1>9, <1>10

\* Whatever the block, reading it keeps what is good.
LEMMA ParseStep ==
    ASSUME FilesKeptApart, NEW s, NEW c, NEW sent \in Seq(Command), NEW T, NEW done \in Nat,
           Good(s, c, sent \o c.commands, T, done), T # << >>, done < Len(T[1])
    PROVE  LET c2 == ParseDownload(c, T[1][done + 1])
           IN  Good(s, c2, sent \o c2.commands, T, done + 1)
<1> DEFINE b == T[1][done + 1]
           c2 == ParseDownload(c, b)
           q == sent \o c.commands
<1>1. c \in ClRecord /\ ClientOK(c) /\ T \in Seq(Seq(BlockRecord)) /\ b \in BlockRecord
  <2>1. T \in Seq(Seq(BlockRecord)) /\ 1 \in 1 .. Len(T)
    BY DEF Good
  <2>2. T[1] \in Seq(BlockRecord) /\ done + 1 \in 1 .. Len(T[1])
    BY <2>1
  <2>3. QED
    BY <2>1, <2>2 DEF Good
<1>2. CASE c.disconnected \/ (c.downloading /\ ~ b.refused /\ OtherBlock(c, b))
  <2>1. c2 = c
    BY <1>2 DEF ParseDownload, Unexpected
  <2>2. Good(s, c, q, T, done + 1)
    <3>1. SamePlace(c, c) /\ done + 1 \in Nat /\ done <= done + 1
      BY DEF SamePlace
    <3>2. Good(s, c, q, T, done)
      OBVIOUS
    <3> HIDE DEF q
    <3>3. QED
      BY <3>1, <3>2, <1>1, SteadyStep
  <2>3. QED
    BY <2>1, <2>2
<1>3. CASE ~ c.disconnected /\ ~ c.downloading
  <2>1. c2 = Misread(c)
    BY <1>3 DEF ParseDownload, Unexpected
  <2>2. QED
    BY <2>1, MisreadStep
<1>4. CASE ~ c.disconnected /\ c.downloading /\ b.refused
  <2>1. c2 = [c EXCEPT !.disconnected = TRUE]
    BY <1>4 DEF ParseDownload, Unexpected
  <2>2. QED
    BY <2>1, RefusedStep
<1>5. CASE ~ c.disconnected /\ c.downloading /\ ~ b.refused /\ ~ OtherBlock(c, b) /\ CannotCreate(c)
  <2>1. c2 = NextDownload(WithCommand(c, StopDl))
    BY <1>5 DEF ParseDownload, Unexpected, WithCommand
  <2>2. QED
    BY <2>1, <1>5, GiveUpStep
<1>6. CASE ~ c.disconnected /\ c.downloading /\ ~ b.refused /\ ~ OtherBlock(c, b) /\ ~ CannotCreate(c)
  <2>1. PICK g : FlightOK(s, c, q, T, g, done)
    BY <1>6 DEF Good
  <2>2. b.block = c.downloadBlock
    BY <1>6 DEF OtherBlock
  <2>3. Takes(s, c, q, T, g, done, b)
    <3> HIDE DEF q
    <3>1. Good(s, c, q, T, done)
      BY DEF q
    <3>2. QED
      BY <1>6, <2>1, <2>2, <3>1, BlockIsTheNext
  <2>4. CASE b.data # End
    <3>1. c2 = Taken(c, b)
      BY <1>6, <2>4 DEF ParseDownload, Unexpected
    <3> HIDE DEF b
    <3>2. Good(s, Taken(c, b), sent \o Taken(c, b).commands, T, done + 1)
      BY <1>1, <2>1, <2>3, <2>4, DataStep
    <3>3. QED
      BY <3>1, <3>2 DEF b
  <2>5. CASE b.data = End
    <3>1. c2 = NextDownload(Finished(Taken(c, b)))
      BY <1>6, <2>5 DEF ParseDownload, Unexpected
    <3> HIDE DEF b
    <3>2. LET c3 == NextDownload(Finished(Taken(c, b)))
          IN  Good(s, c3, sent \o c3.commands, T, done + 1)
      BY <1>1, <2>1, <2>3, <2>5, EndStep
    <3>3. QED
      BY <3>1, <3>2 DEF b
  <2>6. QED
    BY <2>4, <2>5
<1>7. QED
  BY <1>2, <1>3, <1>4, <1>5, <1>6

\* So does a whole snapshot.
LEMMA ParseAll ==
    ASSUME FilesKeptApart, NEW s, NEW c, NEW sent \in Seq(Command), NEW T,
           Good(s, c, sent \o c.commands, T, 0), T # << >>
    PROVE  LET c2 == ParseBlocks(c, T[1])
           IN  Good(s, c2, sent \o c2.commands, T, Len(T[1]))
<1> DEFINE N == Len(T[1])
<1>1. N \in Nat
  <2>1. T \in Seq(Seq(BlockRecord)) /\ 1 \in 1 .. Len(T)
    BY DEF Good
  <2>2. T[1] \in Seq(BlockRecord)
    BY <2>1
  <2>3. QED
    BY <2>2
<1>2. PICK f : /\ f[0] = c
               /\ \A i \in 1 .. N : f[i] = ParseDownload(f[i - 1], T[1][i])
               /\ ParseBlocks(c, T[1]) = f[N]
  BY <1>1, ParseBlocksIs
<1> DEFINE Fine(i) == Good(s, f[i], sent \o f[i].commands, T, i)
           Bad == {i \in 0 .. N : ~ Fine(i)}
<1> HIDE DEF N
<1>3. Bad = {}
  <2> SUFFICES ASSUME Bad # {} PROVE FALSE
    OBVIOUS
  <2>1. PICK m \in Bad : \A i \in Bad : m <= i
    <3>1. Bad \in SUBSET Nat
      BY <1>1
    <3> HIDE DEF Bad
    <3>2. QED
      BY <3>1, HasMinimum
  <2>2. m \in 0 .. N /\ ~ Fine(m)
    BY <2>1
  <2>3. m # 0
    <3>1. Fine(0)
      BY <1>2
    <3> HIDE DEF Fine
    <3>2. QED
      BY <3>1, <2>2
  <2>4. m - 1 \in 0 .. N /\ m - 1 < N /\ m - 1 \notin Bad /\ (m - 1) + 1 = m
    <3> HIDE DEF Fine
    <3>1. QED
      BY <1>1, <2>1, <2>2, <2>3
  <2>5. Fine(m - 1)
    BY <2>4
  <2> DEFINE d == m - 1
             c1 == f[d]
  <2>6. d \in Nat /\ Good(s, c1, sent \o c1.commands, T, d) /\ d < Len(T[1])
    BY <2>4, <2>5, <1>1 DEF N
  <2>7. f[m] = ParseDownload(c1, T[1][d + 1])
    BY <1>2, <2>2, <2>3, <2>4
  <2>8. d + 1 = m
    BY <2>4
  <2> HIDE DEF d, c1
  <2>9. LET c2 == ParseDownload(c1, T[1][d + 1])
        IN  Good(s, c2, sent \o c2.commands, T, d + 1)
    BY <2>6, ParseStep
  <2>10. QED
    BY <2>2, <2>7, <2>8, <2>9
<1>4. N \in 0 .. N
  BY <1>1
<1>5. Fine(N)
  BY <1>3, <1>4
<1>6. QED
  BY <1>2, <1>5 DEF N

\* The first snapshot is gone, whether it was read or lost.
LEMMA TailStep ==
    ASSUME NEW s, NEW c, NEW q, NEW T, NEW done \in Nat, Good(s, c, q, T, done), T # << >>
    PROVE  Good(s, c, q, Tail(T), 0)
<1>1. /\ T \in Seq(Seq(BlockRecord)) /\ Len(T) \in Nat \ {0}
      /\ Tail(T) \in Seq(Seq(BlockRecord)) /\ Len(Tail(T)) = Len(T) - 1
      /\ \A i \in 1 .. Len(Tail(T)) : Tail(T)[i] = T[i + 1]
  BY DEF Good
<1>2. ASSUME ~ c.disconnected
      PROVE  \E g : FlightOK(s, c, q, Tail(T), g, 0)
  <2>1. PICK g : FlightOK(s, c, q, T, g, done)
    BY <1>2 DEF Good
  <2> DEFINE h == Tail(g)
             t == Tail(T)
  <2>2. g \in Seq(Origin) /\ Len(g) = Len(T)
    BY <2>1 DEF FlightOK
  <2>3. h \in Seq(Origin) /\ Len(h) = Len(t) /\ \A i \in 1 .. Len(t) : h[i] = g[i + 1]
    BY <1>1, <2>2
  <2>4. \A i \in 1 .. Len(t) : i + 1 \in 1 .. Len(T) /\ i + 1 # 1 /\ t[i] = T[i + 1]
    BY <1>1
  <2> HIDE DEF h, t
  <2>5. ASSUME NEW i \in 1 .. Len(t)
        PROVE  FromFile(s, c, q, h[i]) /\ Served(s, c, t[i], h[i])
    BY <2>1, <2>3, <2>4 DEF FlightOK
  <2>6. ASSUME NEW i \in 1 .. Len(t), NEW j \in 1 .. Len(t), i < j
        PROVE  After(t[i], h[i], h[j])
    <3>1. i + 1 \in 1 .. Len(T) /\ j + 1 \in 1 .. Len(T) /\ i + 1 < j + 1
      BY <2>4, <2>6
    <3>2. After(T[i + 1], g[i + 1], g[j + 1])
      BY <2>1, <3>1 DEF FlightOK
    <3>3. QED
      BY <2>3, <2>4, <3>2
  <2>7. Snapshots(c, t, h, 0)
    <3> SUFFICES ASSUME NEW i \in 1 .. Len(t), ~ IsRefusal(t[i]), NEW j \in 1 .. Len(t[i])
                 PROVE  BlockOK(t[i][j], h[i].file, h[i].first + j - 1, c)
      BY DEF Snapshots
    <3>1. i + 1 \in 1 .. Len(T) /\ i + 1 # 1 /\ t[i] = T[i + 1] /\ h[i] = g[i + 1]
      BY <2>3, <2>4
    <3>2. BlockOK(T[i + 1][j], g[i + 1].file, g[i + 1].first + j - 1, c)
      BY <2>1, <3>1 DEF FlightOK, Snapshots
    <3>3. QED
      BY <3>1, <3>2
  <2>8. FlightOK(s, c, q, t, h, 0)
    BY <2>3, <2>5, <2>6, <2>7 DEF FlightOK
  <2>9. QED
    BY <2>8 DEF t
<1>3. QED
  BY <1>1, <1>2 DEF Good

\* Commands that are sent are not to be sent any more.
LEMMA SentStep ==
    ASSUME NEW s, NEW c, NEW q, NEW T, NEW done \in Nat, Good(s, c, q, T, done)
    PROVE  Good(s, [c EXCEPT !.commands = << >>], q, T, done)
<1> DEFINE c2 == [c EXCEPT !.commands = << >>]
<1>1. c \in ClRecord /\ ClientOK(c) /\ << >> \in Seq(Command)
  BY DEF Good
<1>2. /\ c2 \in ClRecord /\ SamePlace(c, c2) /\ c2.downloading = c.downloading
      /\ c2.written = c.written /\ c2.finished = c.finished
  BY <1>1 DEF ClRecord, SamePlace
<1>3. ClientOK(c2) /\ (Writes(c2) => Writes(c))
  BY <1>1, <1>2 DEF ClientOK, SamePlace, Writes
<1> HIDE DEF c2
<1>4. Good(s, c2, q, T, done)
  BY <1>2, <1>3, SteadyStep
<1>5. QED
  BY <1>4 DEF c2

\* The client reads a snapshot.
LEMMA ReceiveBlocksStep ==
    ASSUME FilesKeptApart, DownloadInv, ReceiveBlocks
    PROVE  DownloadInv'
<1> DEFINE c2 == ParseBlocks(cl, Head(toClient))
<1>1. /\ toClient # << >> /\ toClient' = Tail(toClient) /\ sv' = sv
      /\ cl' = [c2 EXCEPT !.commands = << >>]
      /\ toServer' = toServer \o c2.commands
  BY DEF ReceiveBlocks, SendsCommands
<1>2. toServer \in Seq(Command) /\ toServer \o cl.commands = toServer
  BY DEF DownloadInv, Good
<1>3. Head(toClient) = toClient[1] /\ Len(toClient[1]) \in Nat
  <2>1. toClient \in Seq(Seq(BlockRecord)) /\ 1 \in 1 .. Len(toClient)
    BY <1>1 DEF DownloadInv, Good
  <2>2. toClient[1] \in Seq(BlockRecord)
    BY <2>1
  <2>3. QED
    BY <2>1, <2>2
<1>4. Good(sv, cl, toServer \o cl.commands, toClient, 0)
  BY <1>2 DEF DownloadInv
<1>5. Good(sv, c2, toServer \o c2.commands, toClient, Len(toClient[1]))
  BY <1>1, <1>2, <1>3, <1>4, ParseAll
<1> HIDE DEF c2
<1>6. Good(sv, c2, toServer \o c2.commands, Tail(toClient), 0)
  BY <1>1, <1>3, <1>5, TailStep
<1>7. Good(sv, [c2 EXCEPT !.commands = << >>], toServer \o c2.commands, Tail(toClient), 0)
  BY <1>6, SentStep
<1>8. cl'.commands = << >>
  BY <1>1, <1>6 DEF Good, ClRecord
<1>9. QED
  BY <1>1, <1>7, <1>8 DEF DownloadInv
-----------------------------------------------------------------------------
(* The server writes a section of the file *)

\* The parts of the state that the commands and the snapshots in flight know of.
SameFile(s, s2) ==
    /\ s2.downloadName = s.downloadName /\ s2.open = s.open
    /\ s2.downloadClientBlock = s.downloadClientBlock
    /\ s.downloadXmitBlock # 0 => s2.downloadXmitBlock # 0
    /\ s.downloadCurrentBlock <= s2.downloadCurrentBlock

\* So what is known of the snapshots in flight stays true ...
LEMMA FlightStill ==
    ASSUME NEW s \in SvRecord, NEW s2 \in SvRecord, NEW c, NEW q, NEW T \in Seq(Seq(BlockRecord)),
           NEW g, NEW done, FlightOK(s, c, q, T, g, done), SameFile(s, s2)
    PROVE  FlightOK(s2, c, q, T, g, done)
<1>1. ASSUME NEW i \in 1 .. Len(T)
      PROVE  FromFile(s2, c, q, g[i]) /\ Served(s2, c, T[i], g[i])
  <2>1. FromFile(s, c, q, g[i]) /\ Served(s, c, T[i], g[i])
    BY DEF FlightOK
  <2>2. FromFile(s2, c, q, g[i])
    BY <2>1 DEF FromFile, SameFile
  <2>3. s.downloadCurrentBlock \in Nat /\ s2.downloadCurrentBlock \in Nat
    BY DEF SvRecord
  <2>4. LastOf(T[i], g[i]) \in Int
    <3>1. T[i] \in Seq(BlockRecord) /\ g[i] \in Origin
      BY DEF FlightOK
    <3>2. Len(T[i]) \in Nat /\ g[i].first \in Nat
      BY <3>1 DEF Origin
    <3>3. QED
      BY <3>2 DEF LastOf
  <2>5. Served(s2, c, T[i], g[i])
    BY <2>1, <2>3, <2>4 DEF Served, SameFile
  <2>6. QED
    BY <2>2, <2>5
<1>2. QED
  BY <1>1 DEF FlightOK

\* ... and all that is good stays so.
LEMMA ServedStill ==
    ASSUME NEW s \in SvRecord, NEW s2 \in SvRecord, NEW c, NEW q, NEW T, NEW done,
           Good(s, c, q, T, done), SameFile(s, s2), ServerOK(s2, c)
    PROVE  Good(s2, c, q, T, done)
<1>1. QueueOK(s2, c, q)
  BY DEF Good, QueueOK, SameFile, Acknowledges
<1>2. ASSUME ~ c.disconnected
      PROVE  \E g : FlightOK(s2, c, q, T, g, done)
  <2>1. PICK g : FlightOK(s, c, q, T, g, done)
    BY <1>2 DEF Good
  <2>2. FlightOK(s2, c, q, T, g, done)
    BY <2>1, FlightStill DEF Good
  <2>3. QED
    BY <2>2
<1>3. QED
  BY <1>1, <1>2 DEF Good

\* Opening the file, of which nothing is in flight yet
LEMMA OpenedIs ==
    ASSUME NEW s \in SvRecord
    PROVE  /\ Opened(s) \in SvRecord /\ Opened(s).open /\ Opened(s).downloadName = s.downloadName
           /\ Opened(s).dropped = s.dropped
           /\ Opened(s).downloadCurrentBlock = 0 /\ Opened(s).downloadClientBlock = 0
           /\ Opened(s).downloadXmitBlock = 0 /\ Opened(s).downloadCount = 0
           /\ Opened(s).downloadEOF = FALSE
<1>1. Opened(s) \in SvRecord
  BY DEF Opened, SvRecord
<1>2. QED
  BY <1>1 DEF Opened, SvRecord

\* Opening a file keeps everything.
LEMMA OpenStep ==
    ASSUME NEW s, NEW c, NEW q, NEW T, Good(s, c, q, T, 0), s.downloadName # NoFile, ~ s.open
    PROVE  Good(Opened(s), c, q, T, 0) /\ Opened(s).open /\ Opened(s).downloadName = s.downloadName
<1> DEFINE s2 == Opened(s)
<1>1. s \in SvRecord /\ c \in ClRecord /\ ServerOK(s, c) /\ QueueOK(s, c, q)
  BY DEF Good
<1>2. /\ s2 \in SvRecord /\ s2.open /\ s2.downloadName = s.downloadName /\ s2.dropped = s.dropped
      /\ s2.downloadCurrentBlock = 0 /\ s2.downloadClientBlock = 0 /\ s2.downloadXmitBlock = 0
      /\ s2.downloadCount = 0 /\ s2.downloadEOF = FALSE
  BY <1>1, OpenedIs
<1> HIDE DEF s2
<1>3. s.downloadName = c.asked /\ c.downloadBlock = 0 /\ c.asked \in Files
  BY <1>1 DEF ServerOK, ClRecord
<1>4. Acked(c, s2.downloadName) = 0
  BY <1>2, <1>3 DEF Acked
<1>5. ServerOK(s2, c)
  <2>1. WindowHolds(s2, 0)
    BY <1>2 DEF WindowHolds
  <2>2. OpenOK(s2, c)
    BY <1>2, <1>3, <1>4, <2>1, Sizes DEF OpenOK
  <2>3. Counters(s2)
    BY <1>2 DEF Counters
  <2>4. QED
    BY <1>1, <1>2, <1>3, <2>2, <2>3 DEF ServerOK
<1>6. QueueOK(s2, c, q)
  <2>1. Acknowledges(s2, q, 0) /\ 0 \in 0 .. Len(q)
    <3>1. Acknowledges(s, q, 0) /\ Len(q) \in Nat
      BY <1>1 DEF QueueOK, Good
    <3>2. QED
      BY <3>1 DEF Acknowledges
  <2>2. \E m \in 0 .. Len(q) :
          /\ Acknowledges(s2, q, m)
          /\ s2.open => s2.downloadClientBlock + m = Acked(c, s2.downloadName)
          /\ ~ s2.open => m = 0
    BY <1>2, <1>4, <2>1
  <2>3. QED
    BY <1>1, <1>2, <2>2 DEF QueueOK
<1>7. ASSUME ~ c.disconnected
      PROVE  \E g : FlightOK(s2, c, q, T, g, 0)
  <2>1. PICK g : FlightOK(s, c, q, T, g, 0)
    BY <1>7 DEF Good
  <2>2. ASSUME NEW i \in 1 .. Len(T)
        PROVE  FromFile(s2, c, q, g[i]) /\ Served(s2, c, T[i], g[i])
    <3>1. FromFile(s, c, q, g[i]) /\ Served(s, c, T[i], g[i])
      BY <2>1 DEF FlightOK
    <3>2. QED
      BY <3>1, <1>2, <1>3 DEF FromFile, Served
  <2>3. FlightOK(s2, c, q, T, g, 0)
    BY <2>1, <2>2 DEF FlightOK
  <2>4. QED
    BY <2>3
<1>8. Good(s2, c, q, T, 0)
  BY <1>2, <1>5, <1>6, <1>7 DEF Good
<1>9. QED
  BY <1>2, <1>8 DEF s2

\* Blocks that are put behind those in the window leave these alone.
NewBlocks(s, data) ==
    [n \in DOMAIN s.blocks |->
        IF {i \in DOMAIN data : Slot(s.downloadCurrentBlock + i - 1) = n} = {}
        THEN s.blocks[n]
        ELSE data[CHOOSE i \in {i \in DOMAIN data : Slot(s.downloadCurrentBlock + i - 1) = n} : TRUE]]

\* They are where they are looked for, and those in the window are left alone.
LEMMA NewBlocksAre ==
    ASSUME NEW s \in SvRecord, NEW data \in Seq(BlockData), Len(data) <= MAX_DOWNLOAD_WINDOW
    PROVE  /\ NewBlocks(s, data) \in [0 .. MAX_DOWNLOAD_WINDOW - 1 -> BlockData]
           /\ \A i \in 1 .. Len(data) :
                 NewBlocks(s, data)[Slot(s.downloadCurrentBlock + i - 1)] = data[i]
           /\ \A n \in Nat : n < s.downloadCurrentBlock
                              /\ s.downloadCurrentBlock + Len(data) <= n + MAX_DOWNLOAD_WINDOW =>
                 NewBlocks(s, data)[Slot(n)] = s.blocks[Slot(n)]
<1> DEFINE new == NewBlocks(s, data)
           current == s.downloadCurrentBlock
           In(n) == {i \in DOMAIN data : Slot(current + i - 1) = n}
           W == MAX_DOWNLOAD_WINDOW
<1>1. /\ s.blocks \in [0 .. W - 1 -> BlockData] /\ current \in Nat /\ Len(data) \in Nat
      /\ DOMAIN data = 1 .. Len(data) /\ \A i \in 1 .. Len(data) : data[i] \in BlockData
      /\ W \in Nat \ {0}
  BY Sizes DEF SvRecord
<1>2. \A n \in 0 .. W - 1 :
         /\ In(n) = {} => new[n] = s.blocks[n]
         /\ In(n) # {} => \E i \in In(n) : new[n] = data[i]
  BY <1>1 DEF NewBlocks
<1>3. new \in [0 .. W - 1 -> BlockData]
  <2>1. new = [n \in 0 .. W - 1 |-> new[n]]
    BY <1>1 DEF NewBlocks
  <2>2. ASSUME NEW n \in 0 .. W - 1 PROVE new[n] \in BlockData
    <3>1. CASE In(n) = {}
      BY <3>1, <1>1, <1>2
    <3>2. CASE In(n) # {}
      <4>1. PICK i \in In(n) : new[n] = data[i]
        BY <3>2, <1>2
      <4>2. QED
        BY <4>1, <1>1
    <3>3. QED
      BY <3>1, <3>2
  <2> HIDE DEF new
  <2>3. QED
    BY <2>1, <2>2
<1> HIDE DEF new
<1>4. ASSUME NEW i \in 1 .. Len(data)
      PROVE  new[Slot(current + i - 1)] = data[i]
  <2> DEFINE n == current + i - 1
  <2>1. n \in Nat /\ Slot(n) \in 0 .. W - 1
    <3>1. n \in Nat
      BY <1>1
    <3> HIDE DEF n
    <3>2. QED
      BY <3>1, SlotType
  <2>2. i \in In(Slot(n))
    BY <1>1
  <2>3. \A j \in In(Slot(n)) : j = i
    <3> SUFFICES ASSUME NEW j \in 1 .. Len(data), Slot(current + j - 1) = Slot(n), j # i
                 PROVE  FALSE
      BY <1>1
    <3>1. current + j - 1 \in Nat /\ current + j - 1 # n
      BY <1>1
    <3>2. current + j - 1 < n + W /\ n < current + j - 1 + W
      BY <1>1
    <3> HIDE DEF n
    <3>3. QED
      BY <2>1, <3>1, <3>2, SlotsDiffer
  <2>4. PICK j \in In(Slot(n)) : new[Slot(n)] = data[j]
    BY <1>2, <2>1, <2>2
  <2>5. QED
    BY <2>3, <2>4
<1>5. ASSUME NEW n \in Nat, n < current, current + Len(data) <= n + W
      PROVE  new[Slot(n)] = s.blocks[Slot(n)]
  <2>1. Slot(n) \in 0 .. W - 1
    BY SlotType
  <2>2. In(Slot(n)) = {}
    <3> SUFFICES ASSUME NEW i \in 1 .. Len(data), Slot(current + i - 1) = Slot(n)
                 PROVE  FALSE
      BY <1>1
    <3>1. current + i - 1 \in Nat /\ current + i - 1 # n
      BY <1>1, <1>5
    <3>2. current + i - 1 < n + W /\ n < current + i - 1 + W
      BY <1>1, <1>5
    <3>3. QED
      BY <3>1, <3>2, SlotsDiffer
  <2>3. QED
    BY <1>2, <2>1, <2>2
<1>6. QED
  BY <1>3, <1>4, <1>5 DEF new

\* The server has put the next blocks of the file into the window.
Reading(s, s2, data) ==
    /\ s2.downloadName = s.downloadName /\ s2.open = s.open /\ s2.dropped = s.dropped
    /\ s2.downloadClientBlock = s.downloadClientBlock
    /\ s2.downloadXmitBlock = s.downloadXmitBlock
    /\ s2.downloadCurrentBlock = s.downloadCurrentBlock + Len(data)
    /\ s2.blocks = NewBlocks(s, data)
    /\ Len(data) <= Room(s)
    /\ \A i \in 1 .. Len(data) :
          data[i] = Content(s.downloadName, s.downloadCurrentBlock + i - 1)
    /\ s2.downloadCount <= Blocks[s.downloadName]
    /\ s2.downloadCurrentBlock = s2.downloadCount + (IF s2.downloadEOF THEN 1 ELSE 0)
    /\ s2.downloadEOF => s2.downloadCount = Blocks[s.downloadName]

\* So putting the next blocks into the window keeps everything.
LEMMA ReadingStep ==
    ASSUME NEW s, NEW s2 \in SvRecord, NEW data \in Seq(BlockData), NEW c, NEW q, NEW T,
           Good(s, c, q, T, 0), s.open, Reading(s, s2, data)
    PROVE  Good(s2, c, q, T, 0)
<1> DEFINE W == MAX_DOWNLOAD_WINDOW
           first == s.downloadClientBlock
           current == s.downloadCurrentBlock
<1>1. /\ s \in SvRecord /\ ServerOK(s, c) /\ OpenOK(s, c) /\ Counters(s)
      /\ s.downloadName # NoFile /\ s.downloadName \in Files
      /\ first \in Nat /\ current \in Nat /\ s2.downloadCurrentBlock \in Nat
      /\ s2.downloadCount \in Nat /\ s.downloadXmitBlock \in Nat
      /\ Len(data) \in Nat /\ W \in Nat \ {0} /\ c \in ClRecord
      /\ Blocks[s.downloadName] \in Nat
  BY Sizes DEF Good, ServerOK, SvRecord
<1>2. /\ first <= current /\ current <= first + W /\ current + Len(data) <= first + W
      /\ Len(data) <= W
  BY <1>1 DEF OpenOK, Counters, Reading, Room
<1>3. Acked(c, s.downloadName) \in Nat
  BY <1>1 DEF Acked, ClRecord
<1>4. WindowHolds(s2, first)
  <2> SUFFICES ASSUME NEW n \in first .. (current + Len(data)) - 1
               PROVE  s2.blocks[Slot(n)] = Content(s.downloadName, n)
    BY DEF WindowHolds, Reading
  <2>1. CASE n < current
    <3>1. n \in Nat /\ current + Len(data) <= n + W
      BY <1>1, <1>2
    <3>2. s2.blocks[Slot(n)] = s.blocks[Slot(n)]
      BY <1>1, <1>2, <2>1, <3>1, NewBlocksAre DEF Reading
    <3>3. n \in first .. current - 1
      BY <1>1, <2>1
    <3>4. s.blocks[Slot(n)] = Content(s.downloadName, n)
      BY <1>1, <3>3 DEF OpenOK, WindowHolds
    <3>5. QED
      BY <3>2, <3>4
  <2>2. CASE n >= current
    <3> DEFINE i == n - current + 1
    <3>1. i \in 1 .. Len(data) /\ current + i - 1 = n
      BY <1>1, <2>2
    <3> HIDE DEF i
    <3>2. NewBlocks(s, data)[Slot(current + i - 1)] = data[i]
      BY <1>1, <1>2, <3>1, NewBlocksAre
    <3>3. data[i] = Content(s.downloadName, current + i - 1)
      BY <3>1 DEF Reading
    <3>4. QED
      BY <3>1, <3>2, <3>3 DEF Reading
  <2>3. QED
    BY <2>1, <2>2, <1>1
<1>5. OpenOK(s2, c)
  <2>1. /\ s2.downloadCount <= Blocks[s2.downloadName]
        /\ s2.downloadCurrentBlock = s2.downloadCount + (IF s2.downloadEOF THEN 1 ELSE 0)
        /\ s2.downloadEOF => s2.downloadCount = Blocks[s2.downloadName]
        /\ s2.downloadCurrentBlock = current + Len(data)
        /\ s2.downloadClientBlock = first /\ s2.downloadName = s.downloadName
        /\ s2.downloadXmitBlock = s.downloadXmitBlock
    BY DEF Reading
  <2>2. /\ s.downloadClientBlock <= Blocks[s.downloadName]
        /\ s.downloadClientBlock <= Acked(c, s.downloadName)
        /\ Acked(c, s.downloadName) <= s.downloadCurrentBlock
        /\ s.downloadXmitBlock = 0 => Acked(c, s.downloadName) = 0
    BY <1>1 DEF OpenOK
  <2>3. Acked(c, s.downloadName) <= s2.downloadCurrentBlock
    BY <1>1, <1>3, <2>1, <2>2
  <2>4. s2.downloadCurrentBlock <= first + W
    BY <1>2, <2>1
  <2>5. QED
    BY <1>4, <2>1, <2>2, <2>3, <2>4 DEF OpenOK
<1>6. Counters(s2)
  <2>1. s2.downloadCurrentBlock <= s2.downloadCount + 1
    BY <1>1 DEF Reading
  <2>2. current <= s2.downloadCurrentBlock
    BY <1>1 DEF Reading
  <2>3. QED
    BY <1>1, <2>1, <2>2 DEF Counters, Reading
<1>7. ServerOK(s2, c)
  BY <1>1, <1>5, <1>6 DEF ServerOK, Reading
<1>8. SameFile(s, s2)
  BY <1>1 DEF SameFile, Reading
<1>9. QED
  BY <1>1, <1>7, <1>8, ServedStill

\* What WithBlocks does, field by field.
LEMMA WithBlocksIs ==
    ASSUME NEW s \in SvRecord, NEW data \in Seq(BlockData), Len(data) <= MAX_DOWNLOAD_WINDOW
    PROVE  /\ WithBlocks(s, data) \in SvRecord
           /\ WithBlocks(s, data).downloadCurrentBlock = s.downloadCurrentBlock + Len(data)
           /\ WithBlocks(s, data).blocks = NewBlocks(s, data)
           /\ WithBlocks(s, data).downloadName = s.downloadName
           /\ WithBlocks(s, data).open = s.open /\ WithBlocks(s, data).dropped = s.dropped
           /\ WithBlocks(s, data).downloadClientBlock = s.downloadClientBlock
           /\ WithBlocks(s, data).downloadXmitBlock = s.downloadXmitBlock
           /\ WithBlocks(s, data).downloadCount = s.downloadCount
           /\ WithBlocks(s, data).downloadEOF = s.downloadEOF
<1> DEFINE new == NewBlocks(s, data)
           current == s.downloadCurrentBlock + Len(data)
<1>1. new \in [0 .. MAX_DOWNLOAD_WINDOW - 1 -> BlockData]
  BY NewBlocksAre
<1>2. current \in Nat
  BY DEF SvRecord
<1>3. WithBlocks(s, data) = [s EXCEPT !.downloadCurrentBlock = current, !.blocks = new]
  BY DEF WithBlocks, NewBlocks
<1> HIDE DEF new, current
<1>4. /\ WithBlocks(s, data) \in SvRecord
      /\ WithBlocks(s, data).downloadCurrentBlock = current
      /\ WithBlocks(s, data).blocks = new
      /\ WithBlocks(s, data).downloadName = s.downloadName
      /\ WithBlocks(s, data).open = s.open /\ WithBlocks(s, data).dropped = s.dropped
      /\ WithBlocks(s, data).downloadClientBlock = s.downloadClientBlock
      /\ WithBlocks(s, data).downloadXmitBlock = s.downloadXmitBlock
      /\ WithBlocks(s, data).downloadCount = s.downloadCount
      /\ WithBlocks(s, data).downloadEOF = s.downloadEOF
  BY <1>1, <1>2, <1>3 DEF SvRecord
<1>5. QED
  BY <1>4 DEF new, current

\* The server reads as much as there is, and as there is room for.
LEMMA ReadsStep ==
    ASSUME NEW s, NEW c, NEW q, NEW T, Good(s, c, q, T, 0), s.open
    PROVE  /\ Good(WithReads(s), c, q, T, 0)
           /\ WithReads(s).open /\ WithReads(s).downloadName = s.downloadName
<1> DEFINE r == Reads(s)
           current == s.downloadCurrentBlock
           file == s.downloadName
           data == [i \in 1 .. r |-> Data(file, current + i - 1)]
           s1 == WithBlocks(s, data)
           s2 == [s1 EXCEPT !.downloadCount = @ + r]
<1>1. /\ s \in SvRecord /\ OpenOK(s, c) /\ Counters(s) /\ file \in Files
      /\ current \in Nat /\ s.downloadCount \in Nat /\ s.downloadClientBlock \in Nat
      /\ Blocks[file] \in Nat /\ MAX_DOWNLOAD_WINDOW \in Nat \ {0} /\ s.downloadEOF \in BOOLEAN
  BY Sizes DEF Good, ServerOK, SvRecord
<1>2. /\ s.downloadCount <= Blocks[file]
      /\ current = s.downloadCount + (IF s.downloadEOF THEN 1 ELSE 0)
      /\ s.downloadEOF => s.downloadCount = Blocks[file]
      /\ current <= s.downloadClientBlock + MAX_DOWNLOAD_WINDOW
      /\ s.downloadClientBlock <= current
  BY <1>1 DEF OpenOK, Counters
<1>3. /\ r \in Nat /\ r <= Room(s) /\ Room(s) \in 0 .. MAX_DOWNLOAD_WINDOW
      /\ s.downloadCount + r <= Blocks[file]
      /\ s.downloadEOF => r = 0
  BY <1>1, <1>2 DEF Reads, Room
<1> HIDE DEF r
<1>4. data \in Seq(BlockData) /\ Len(data) = r /\ \A i \in 1 .. r : data[i] = Data(file, current + i - 1)
  <2>1. \A i \in 1 .. r : Data(file, current + i - 1) \in BlockData
    BY <1>1 DEF Data, BlockData
  <2>2. QED
    BY <1>3, <2>1
<1>5. \A i \in 1 .. r : data[i] = Content(file, current + i - 1)
  <2> SUFFICES ASSUME NEW i \in 1 .. r PROVE current + i - 1 < Blocks[file]
    BY <1>4 DEF Content
  <2>1. ~ s.downloadEOF
    BY <1>3
  <2>2. current = s.downloadCount
    BY <1>1, <1>2, <2>1
  <2>3. QED
    BY <1>1, <1>3, <2>2
<1> HIDE DEF data
<1>6. /\ s1 \in SvRecord /\ s1.downloadCurrentBlock = current + r
      /\ s1.blocks = NewBlocks(s, data) /\ s1.downloadName = file /\ s1.open = s.open
      /\ s1.dropped = s.dropped /\ s1.downloadClientBlock = s.downloadClientBlock
      /\ s1.downloadXmitBlock = s.downloadXmitBlock /\ s1.downloadCount = s.downloadCount
      /\ s1.downloadEOF = s.downloadEOF
  <2>1. Len(data) <= MAX_DOWNLOAD_WINDOW
    BY <1>1, <1>3, <1>4
  <2>2. QED
    BY <1>1, <1>4, <2>1, WithBlocksIs
<1> HIDE DEF s1
<1>7. /\ s2 \in SvRecord /\ s2.downloadCount = s.downloadCount + r
      /\ s2.downloadCurrentBlock = s1.downloadCurrentBlock /\ s2.blocks = s1.blocks
      /\ s2.downloadName = s1.downloadName /\ s2.open = s1.open /\ s2.dropped = s1.dropped
      /\ s2.downloadClientBlock = s1.downloadClientBlock
      /\ s2.downloadXmitBlock = s1.downloadXmitBlock /\ s2.downloadEOF = s1.downloadEOF
  <2> DEFINE n == s1.downloadCount + r
  <2>1. n = s.downloadCount + r /\ n \in Nat
    BY <1>1, <1>3, <1>6
  <2>2. s2 = [s1 EXCEPT !.downloadCount = n]
    OBVIOUS
  <2> HIDE DEF n, s2
  <2>3. s2 \in SvRecord
    BY <2>1, <2>2, <1>6 DEF SvRecord
  <2>4. /\ s2.downloadCount = n
        /\ s2.downloadCurrentBlock = s1.downloadCurrentBlock /\ s2.blocks = s1.blocks
        /\ s2.downloadName = s1.downloadName /\ s2.open = s1.open /\ s2.dropped = s1.dropped
        /\ s2.downloadClientBlock = s1.downloadClientBlock
        /\ s2.downloadXmitBlock = s1.downloadXmitBlock /\ s2.downloadEOF = s1.downloadEOF
    BY <2>2, <1>6 DEF SvRecord
  <2>5. QED
    BY <2>1, <2>3, <2>4
<1>8. WithReads(s) = s2
  BY DEF WithReads, s1, data, r
<1> HIDE DEF s2
<1>9. Reading(s, s2, data)
  <2>1. s2.downloadCurrentBlock = s2.downloadCount + (IF s2.downloadEOF THEN 1 ELSE 0)
    BY <1>1, <1>2, <1>3, <1>6, <1>7
  <2>2. s2.downloadEOF => s2.downloadCount = Blocks[file]
    BY <1>1, <1>2, <1>3, <1>6, <1>7
  <2>3. QED
    BY <1>3, <1>4, <1>5, <1>6, <1>7, <2>1, <2>2 DEF Reading
<1>10. Good(s2, c, q, T, 0)
  BY <1>4, <1>7, <1>9, ReadingStep
<1>11. QED
  BY <1>6, <1>7, <1>8, <1>10

\* Behind the last it puts the empty block.
LEMMA EofStep ==
    ASSUME NEW s, NEW c, NEW q, NEW T, Good(s, c, q, T, 0), s.open
    PROVE  /\ Good(WithEnd(s), c, q, T, 0)
           /\ WithEnd(s).open /\ WithEnd(s).downloadName = s.downloadName
<1> DEFINE current == s.downloadCurrentBlock
           file == s.downloadName
           data == <<End>>
           s1 == WithBlocks(s, data)
           s2 == [s1 EXCEPT !.downloadEOF = TRUE]
<1>1. CASE ~ (s.downloadCount = Blocks[file] /\ ~ s.downloadEOF /\ Room(s) > 0)
  BY <1>1 DEF WithEnd
<1>2. CASE s.downloadCount = Blocks[file] /\ ~ s.downloadEOF /\ Room(s) > 0
  <2>1. /\ s \in SvRecord /\ OpenOK(s, c) /\ Counters(s) /\ file \in Files
        /\ current \in Nat /\ s.downloadCount \in Nat /\ s.downloadClientBlock \in Nat
        /\ Blocks[file] \in Nat /\ MAX_DOWNLOAD_WINDOW \in Nat \ {0}
    BY Sizes DEF Good, ServerOK, SvRecord
  <2>2. current = Blocks[file]
    BY <1>2, <2>1 DEF OpenOK
  <2>3. data \in Seq(BlockData) /\ Len(data) = 1 /\ data[1] = End
    BY DEF BlockData
  <2>4. \A i \in 1 .. 1 : data[i] = Content(file, current + i - 1)
    <3>1. current + 1 - 1 = Blocks[file]
      BY <2>1, <2>2
    <3>2. Content(file, current + 1 - 1) = End
      BY <2>1, <3>1 DEF Content
    <3>3. QED
      BY <2>3, <3>2
  <2>5. 1 <= Room(s)
    BY <1>2, <2>1 DEF Room
  <2> HIDE DEF data
  <2>6. /\ s1 \in SvRecord /\ s1.downloadCurrentBlock = current + 1
        /\ s1.blocks = NewBlocks(s, data) /\ s1.downloadName = file /\ s1.open = s.open
        /\ s1.dropped = s.dropped /\ s1.downloadClientBlock = s.downloadClientBlock
        /\ s1.downloadXmitBlock = s.downloadXmitBlock /\ s1.downloadCount = s.downloadCount
    <3>1. Len(data) <= MAX_DOWNLOAD_WINDOW
      BY <2>1, <2>3
    <3>2. /\ s1 \in SvRecord /\ s1.downloadCurrentBlock = current + Len(data)
          /\ s1.blocks = NewBlocks(s, data) /\ s1.downloadName = file /\ s1.open = s.open
          /\ s1.dropped = s.dropped /\ s1.downloadClientBlock = s.downloadClientBlock
          /\ s1.downloadXmitBlock = s.downloadXmitBlock /\ s1.downloadCount = s.downloadCount
      BY <2>1, <2>3, <3>1, WithBlocksIs
    <3>3. QED
      BY <2>3, <3>2
  <2> HIDE DEF s1
  <2>7. /\ s2 \in SvRecord /\ s2.downloadCount = s1.downloadCount
        /\ s2.downloadCurrentBlock = s1.downloadCurrentBlock /\ s2.blocks = s1.blocks
        /\ s2.downloadName = s1.downloadName /\ s2.open = s1.open /\ s2.dropped = s1.dropped
        /\ s2.downloadClientBlock = s1.downloadClientBlock
        /\ s2.downloadXmitBlock = s1.downloadXmitBlock /\ s2.downloadEOF = TRUE
    BY <2>6 DEF SvRecord
  <2>8. WithEnd(s) = s2
    BY <1>2 DEF WithEnd, s1, data
  <2> HIDE DEF s2
  <2>9. Reading(s, s2, data)
    BY <1>2, <2>1, <2>2, <2>3, <2>4, <2>5, <2>6, <2>7 DEF Reading
  <2>10. Good(s2, c, q, T, 0)
    BY <2>3, <2>7, <2>9, ReadingStep
  <2>11. QED
    BY <2>6, <2>7, <2>8, <2>10
<1>3. QED
  BY <1>1, <1>2

\* Another snapshot is sent after those in flight.
LEMMA OneMoreInFlight ==
    ASSUME NEW s, NEW c, NEW q, NEW T \in Seq(Seq(BlockRecord)), NEW g, NEW b \in Seq(BlockRecord),
           NEW o \in Origin, FlightOK(s, c, q, T, g, 0),
           FromFile(s, c, q, o), Served(s, c, b, o),
           ~ IsRefusal(b) => \A j \in 1 .. Len(b) : BlockOK(b[j], o.file, o.first + j - 1, c),
           \A i \in 1 .. Len(T) : After(T[i], g[i], o)
    PROVE  FlightOK(s, c, q, Append(T, b), Append(g, o), 0)
<1> DEFINE t == Append(T, b)
           h == Append(g, o)
<1>1. g \in Seq(Origin) /\ Len(g) = Len(T) /\ Len(T) \in Nat
  BY DEF FlightOK
<1>2. /\ Len(t) = Len(T) + 1 /\ t[Len(T) + 1] = b
      /\ \A i \in 1 .. Len(T) : t[i] = T[i]
  OBVIOUS
<1>3. /\ h \in Seq(Origin) /\ Len(h) = Len(T) + 1 /\ h[Len(T) + 1] = o
      /\ \A i \in 1 .. Len(T) : h[i] = g[i]
  BY <1>1
<1>4. \A i \in 1 .. Len(t) : i \in 1 .. Len(T) \/ i = Len(T) + 1
  BY <1>1, <1>2
<1> HIDE DEF t, h
<1>5. ASSUME NEW i \in 1 .. Len(t)
      PROVE  FromFile(s, c, q, h[i]) /\ Served(s, c, t[i], h[i])
  BY <1>2, <1>3, <1>4 DEF FlightOK
<1>6. Snapshots(c, t, h, 0)
  <2> SUFFICES ASSUME NEW i \in 1 .. Len(t), ~ IsRefusal(t[i]), NEW j \in 1 .. Len(t[i])
               PROVE  BlockOK(t[i][j], h[i].file, h[i].first + j - 1, c)
    BY DEF Snapshots
  <2>1. CASE i \in 1 .. Len(T)
    <3>1. t[i] = T[i] /\ h[i] = g[i]
      BY <2>1, <1>2, <1>3
    <3>2. BlockOK(T[i][j], g[i].file, g[i].first + j - 1, c)
      BY <2>1, <3>1 DEF FlightOK, Snapshots
    <3>3. QED
      BY <3>1, <3>2
  <2>2. CASE i = Len(T) + 1
    <3>1. t[i] = b /\ h[i] = o
      BY <2>2, <1>2, <1>3
    <3>2. BlockOK(b[j], o.file, o.first + j - 1, c)
      BY <3>1
    <3>3. QED
      BY <3>1, <3>2
  <2>3. QED
    BY <2>1, <2>2, <1>4
<1>7. ASSUME NEW i \in 1 .. Len(t), NEW j \in 1 .. Len(t), i < j
      PROVE  After(t[i], h[i], h[j])
  <2>1. i \in 1 .. Len(T)
    BY <1>1, <1>2, <1>7
  <2>2. t[i] = T[i] /\ h[i] = g[i]
    BY <2>1, <1>2, <1>3
  <2>3. CASE j \in 1 .. Len(T)
    BY <2>1, <2>2, <2>3, <1>3, <1>7 DEF FlightOK
  <2>4. CASE j = Len(T) + 1
    BY <2>1, <2>2, <2>4, <1>3
  <2>5. QED
    BY <2>3, <2>4, <1>4
<1>8. FlightOK(s, c, q, t, h, 0)
  BY <1>2, <1>3, <1>5, <1>6, <1>7 DEF FlightOK
<1>9. QED
  BY <1>8 DEF t, h

\* The blocks of a snapshot, and the server that has sent them
Section(s, n, count) == [i \in 1 .. count |-> Block(n + i - 1, s.blocks[Slot(n + i - 1)])]
AfterSection(s, n, count) == [s EXCEPT !.downloadXmitBlock = n + count, !.late = FALSE]

\* What is to be sent, if anything is, is in the window: from the first block that is
\* not acknowledged, or from the first that has not been sent.
Sends(s, n, count) ==
    /\ count >= 1 /\ n + count <= s.downloadCurrentBlock
    /\ n \in {s.downloadClientBlock, s.downloadXmitBlock}
    /\ TransmitBlocks(s) = [c |-> AfterSection(s, n, count), sent |-> Section(s, n, count)]

\* Such a section there is whenever there is something to transmit.
LEMMA SectionIs ==
    ASSUME NEW s \in SvRecord, Counters(s), CanTransmit(s)
    PROVE  \E n, count \in Nat : Sends(s, n, count)
<1> DEFINE n == BlockToSend(s)
           left == s.downloadCurrentBlock - n
           count == IF left < BlocksPerSnap THEN left ELSE BlocksPerSnap
<1>1. /\ s.downloadCurrentBlock \in Nat /\ s.downloadClientBlock \in Nat
      /\ s.downloadXmitBlock \in Nat /\ BlocksPerSnap \in Nat \ {0}
  BY Sizes DEF SvRecord
<1>2. n \in Nat /\ n < s.downloadCurrentBlock /\ n \in {s.downloadClientBlock, s.downloadXmitBlock}
  BY <1>1 DEF BlockToSend, CanTransmit, Counters
<1>3. TransmitBlocks(s) = [c |-> AfterSection(s, n, count), sent |-> Section(s, n, count)]
  BY DEF TransmitBlocks, AfterSection, Section
<1> HIDE DEF n
<1>4. count \in Nat /\ count >= 1 /\ n + count <= s.downloadCurrentBlock
  BY <1>1, <1>2
<1> HIDE DEF count
<1>5. Sends(s, n, count)
  BY <1>2, <1>3, <1>4 DEF Sends
<1>6. QED
  BY <1>2, <1>4, <1>5

\* The server that has sent blocks of the window is as right as before.
LEMMA AfterSectionStep ==
    ASSUME NEW s, NEW c, NEW q, NEW T, NEW n \in Nat, NEW count \in Nat,
           Good(s, c, q, T, 0), s.open, Sends(s, n, count)
    PROVE  /\ Good(AfterSection(s, n, count), c, q, T, 0)
           /\ AfterSection(s, n, count).downloadXmitBlock = n + count
           /\ SameFile(s, AfterSection(s, n, count))
           /\ AfterSection(s, n, count).downloadCurrentBlock = s.downloadCurrentBlock
<1> DEFINE s2 == AfterSection(s, n, count)
           xmit == n + count
<1>1. s \in SvRecord /\ ServerOK(s, c) /\ s.downloadCurrentBlock \in Nat
  BY DEF Good, SvRecord
<1>2. xmit \in Nat /\ xmit # 0 /\ xmit <= s.downloadCurrentBlock
  BY DEF Sends
<1>3. s2 = [s EXCEPT !.downloadXmitBlock = xmit, !.late = FALSE]
  BY DEF AfterSection
<1> HIDE DEF s2, xmit
<1>4. /\ s2 \in SvRecord /\ s2.downloadXmitBlock = xmit
      /\ s2.dropped = s.dropped /\ s2.downloadName = s.downloadName /\ s2.open = s.open
      /\ s2.downloadCount = s.downloadCount
      /\ s2.downloadClientBlock = s.downloadClientBlock
      /\ s2.downloadCurrentBlock = s.downloadCurrentBlock
      /\ s2.downloadEOF = s.downloadEOF /\ s2.blocks = s.blocks
  BY <1>1, <1>2, <1>3 DEF SvRecord
<1>5. ServerOK(s2, c)
  <2>1. OpenOK(s2, c)
    BY <1>1, <1>2, <1>4 DEF ServerOK, OpenOK, WindowHolds
  <2>2. Counters(s2)
    BY <1>1, <1>2, <1>4 DEF ServerOK, Counters
  <2>3. QED
    BY <1>1, <1>4, <2>1, <2>2 DEF ServerOK
<1>6. SameFile(s, s2)
  BY <1>1, <1>2, <1>4 DEF SameFile
<1>7. Good(s2, c, q, T, 0)
  BY <1>1, <1>4, <1>5, <1>6, ServedStill
<1>8. QED
  BY <1>4, <1>6, <1>7 DEF s2, xmit

\* Of a file that is not the client's any more nothing is sent from the first block on.
LEMMA NotFromTheFirst ==
    ASSUME FilesKeptApart, NEW s, NEW c, NEW q, NEW T, NEW n \in Nat, NEW count \in Nat,
           Good(s, c, q, T, 0), s.open, Sends(s, n, count),
           s.downloadName # Len(Blocks), s.downloadXmitBlock # 0,
           s.downloadCurrentBlock > Blocks[s.downloadName]
    PROVE  n # 0
<1>1. /\ s.downloadCurrentBlock \in Nat /\ s.downloadClientBlock \in Nat
      /\ s.downloadName \in Files /\ Blocks[s.downloadName] \in Nat
      /\ s.downloadCurrentBlock <= s.downloadClientBlock + MAX_DOWNLOAD_WINDOW
      /\ MAX_DOWNLOAD_WINDOW \in Nat
  BY Sizes DEF Good, ServerOK, OpenOK, SvRecord
<1>2. Blocks[s.downloadName] >= MAX_DOWNLOAD_WINDOW
  BY <1>1 DEF FilesKeptApart
<1>3. s.downloadClientBlock # 0
  BY <1>1, <1>2
<1>4. QED
  BY <1>3 DEF Sends

\* What is sent is of the file, and where the client waits for it, as in the file.
LEMMA SectionOK ==
    ASSUME FilesKeptApart, NEW s, NEW c, NEW q, NEW T, NEW n \in Nat, NEW count \in Nat,
           Good(s, c, q, T, 0), s.open, Sends(s, n, count)
    PROVE  /\ Section(s, n, count) \in Seq(BlockRecord) /\ Len(Section(s, n, count)) = count
           /\ \A j \in 1 .. count : BlockOK(Section(s, n, count)[j], s.downloadName, n + j - 1, c)
<1> DEFINE W == MAX_DOWNLOAD_WINDOW
           f == s.downloadName
           first == s.downloadClientBlock
           current == s.downloadCurrentBlock
           sent == Section(s, n, count)
<1>1. /\ s \in SvRecord /\ ServerOK(s, c) /\ OpenOK(s, c) /\ ClientOK(c) /\ c \in ClRecord
      /\ f # NoFile /\ f \in Files /\ first \in Nat /\ current \in Nat /\ s.downloadCount \in Nat
      /\ s.blocks \in [0 .. W - 1 -> BlockData]
      /\ Blocks[f] \in Nat \ {0} /\ W \in Nat \ {0} /\ c.downloadBlock \in Nat /\ c.asked \in Files
      /\ s.downloadXmitBlock \in Nat
  BY Sizes DEF Good, ServerOK, SvRecord, ClRecord
<1>2. /\ current <= first + W /\ current <= Blocks[f] + 1
      /\ first <= Acked(c, f) /\ Acked(c, f) <= current /\ WindowHolds(s, first)
      /\ s.downloadXmitBlock = 0 => Acked(c, f) = 0
  BY <1>1 DEF OpenOK
<1>3. ASSUME NEW j \in 1 .. count
      PROVE  /\ n + j - 1 \in Nat /\ n + j - 1 < current
             /\ Block(n + j - 1, s.blocks[Slot(n + j - 1)]) \in BlockRecord
             /\ BlockOK(Block(n + j - 1, s.blocks[Slot(n + j - 1)]), f, n + j - 1, c)
  <2> DEFINE N == n + j - 1
  <2>1. N \in Nat /\ N >= n /\ N < current
    BY <1>1 DEF Sends
  <2> HIDE DEF N
  <2>2. Slot(N) \in 0 .. W - 1 /\ Short(N) \in Int
    BY <2>1, SlotType, ShortType
  <2>3. s.blocks[Slot(N)] \in BlockData
    BY <1>1, <2>2
  <2> DEFINE data == s.blocks[Slot(N)]
             b == Block(N, data)
  <2>4. b.block = Short(N) /\ ~ b.refused /\ b.data = data /\ b \in BlockRecord
    BY <2>2, <2>3 DEF Block, BlockRecord
  <2>5. N <= Blocks[f]
    BY <1>1, <1>2, <2>1
  <2>6. ASSUME f = c.asked
        PROVE  /\ N < c.downloadBlock + W
               /\ data = Content(f, N) \/ N < c.downloadBlock
    <3>1. first <= c.downloadBlock
      BY <1>2, <2>6 DEF Acked
    <3>2. N < c.downloadBlock + W
      BY <1>1, <1>2, <2>1, <3>1
    <3>3. CASE N < first
      BY <1>1, <2>1, <3>1, <3>2, <3>3
    <3>4. CASE ~ (N < first)
      <4>1. N \in first .. current - 1
        BY <1>1, <2>1, <3>4
      <4>2. data = Content(f, N)
        BY <1>2, <4>1 DEF WindowHolds
      <4>3. QED
        BY <3>2, <4>2
    <3>5. QED
      BY <3>3, <3>4
  <2>7. ASSUME f # c.asked
        PROVE  Short(N) # 0
    <3>1. f <= c.asked /\ f \in Int /\ c.asked \in 1 .. Len(Blocks) /\ f >= 1
      BY <1>1, Sizes DEF ServerOK
    <3>2. f \in 1 .. c.asked - 1 /\ f # Len(Blocks)
      BY <2>7, <3>1, Sizes
    <3>3. 2 * Blocks[f] < SHORT_RANGE
      BY <1>1, <3>2 DEF ClientOK
    <3>4. Acked(c, f) = Blocks[f] + 1
      BY <2>7 DEF Acked
    <3>5. s.downloadXmitBlock # 0 /\ current > Blocks[f]
      BY <1>1, <1>2, <3>4
    <3>6. n # 0
      BY <3>2, <3>5, NotFromTheFirst
    <3>7. N # 0 /\ 2 * N < SHORT_RANGE
      BY <1>1, <2>1, <2>5, <3>3, <3>6, Sizes
    <3>8. QED
      BY <2>1, <3>7, ShortOfSmall
  <2> HIDE DEF b
  <2>8. BlockOK(b, f, N, c)
    BY <2>4, <2>5, <2>6, <2>7 DEF BlockOK
  <2>9. QED
    BY <2>1, <2>4, <2>8 DEF b, N
<1>4. sent \in Seq(BlockRecord) /\ Len(sent) = count
  BY <1>3 DEF Section
<1>5. \A j \in 1 .. count : sent[j] = Block(n + j - 1, s.blocks[Slot(n + j - 1)])
  BY DEF Section
<1> HIDE DEF sent
<1>6. QED
  BY <1>3, <1>4, <1>5 DEF sent

\* What goes out: snapshots without blocks are not counted.
Sent(T, b) == IF b = << >> THEN T ELSE Append(T, b)

\* Sending a section of the file keeps what is good.
LEMMA TransmitStep ==
    ASSUME FilesKeptApart, NEW s, NEW c, NEW q, NEW T, Good(s, c, q, T, 0), s.open
    PROVE  LET w == TransmitBlocks(s)
           IN  Good(w.c, c, q, Sent(T, w.sent), 0)
<1>1. CASE ~ CanTransmit(s)
  <2>1. TransmitBlocks(s) = [c |-> s, sent |-> << >>]
    BY <1>1 DEF TransmitBlocks
  <2>2. QED
    BY <2>1 DEF Sent
<1>2. CASE CanTransmit(s)
  <2>1. s \in SvRecord /\ ServerOK(s, c) /\ Counters(s) /\ T \in Seq(Seq(BlockRecord)) /\ c \in ClRecord
    BY DEF Good, ServerOK
  <2>2. PICK n, count \in Nat : Sends(s, n, count)
    BY <1>2, <2>1, SectionIs
  <2> DEFINE s2 == AfterSection(s, n, count)
             b == Section(s, n, count)
             f == s.downloadName
             o == [file |-> f, first |-> n]
  <2>3. /\ Good(s2, c, q, T, 0) /\ s2.downloadXmitBlock = n + count /\ SameFile(s, s2)
        /\ s2.downloadCurrentBlock = s.downloadCurrentBlock
    BY <2>2, AfterSectionStep
  <2>4. /\ b \in Seq(BlockRecord) /\ Len(b) = count
        /\ \A j \in 1 .. count : BlockOK(b[j], f, n + j - 1, c)
    BY <2>2, SectionOK
  <2>5. f # NoFile /\ f \in Files /\ f \in Nat /\ f <= c.asked /\ c.asked \in Files
    BY <2>1, Sizes DEF ServerOK, SvRecord, ClRecord
  <2>6. o \in Origin /\ o.file = f /\ o.first = n
    BY <2>5 DEF Origin
  <2> HIDE DEF s2, b, o
  <2>7. ASSUME ~ c.disconnected
        PROVE  \E g : FlightOK(s2, c, q, Append(T, b), g, 0)
    <3>1. PICK g : FlightOK(s, c, q, T, g, 0) /\ FlightOK(s2, c, q, T, g, 0)
      <4>1. PICK h : FlightOK(s, c, q, T, h, 0)
        BY <2>7 DEF Good
      <4>2. FlightOK(s2, c, q, T, h, 0)
        BY <2>1, <2>3, <4>1, FlightStill DEF Good
      <4>3. QED
        BY <4>1, <4>2
    <3>2. FromFile(s2, c, q, o)
      <4>1. HasDownload(q) => f # c.asked
        BY DEF Good, QueueOK
      <4>2. c.downloadBlock > 0 => f = c.asked
        BY <2>1, <2>5 DEF ServerOK, ClRecord
      <4>3. QED
        BY <2>3, <2>5, <2>6, <4>1, <4>2 DEF FromFile, SameFile
    <3>3. Served(s2, c, b, o)
      <4>1. LastOf(b, o) < s2.downloadCurrentBlock /\ s2.downloadXmitBlock # 0
        <5>1. s.downloadCurrentBlock \in Nat /\ count >= 1 /\ n + count <= s.downloadCurrentBlock
          BY <2>1, <2>2 DEF SvRecord, Sends
        <5>2. QED
          BY <2>3, <2>4, <2>6, <5>1 DEF LastOf
      <4>2. s2.open /\ s2.downloadName = f
        BY <2>3 DEF SameFile
      <4>3. QED
        BY <2>6, <4>1, <4>2 DEF Served
    <3>4. \A j \in 1 .. Len(b) : BlockOK(b[j], o.file, o.first + j - 1, c)
      BY <2>4, <2>6
    <3>5. ASSUME NEW i \in 1 .. Len(T) PROVE After(T[i], g[i], o)
      <4>1. /\ FromFile(s, c, q, g[i]) /\ Served(s, c, T[i], g[i])
            /\ T[i] \in Seq(BlockRecord) /\ g[i] \in Origin
        BY <2>1, <3>1 DEF FlightOK
      <4>2. LastOf(T[i], g[i]) \in Int /\ s.downloadCurrentBlock \in Nat
        BY <2>1, <4>1 DEF LastOf, Origin, SvRecord
      <4>3. g[i].file <= o.file
        BY <2>5, <2>6, <4>1 DEF FromFile
      <4>4. ASSUME g[i].file = o.file, o.file # Len(Blocks), ~ IsRefusal(T[i]),
                   LastOf(T[i], g[i]) = Blocks[o.file]
            PROVE  n # 0
        <5>1. s.downloadCurrentBlock > Blocks[f] /\ s.downloadXmitBlock # 0
          BY <2>6, <4>1, <4>2, <4>4 DEF Served
        <5>2. QED
          BY <2>2, <2>6, <4>4, <5>1, NotFromTheFirst
      <4>5. QED
        BY <2>6, <4>3, <4>4 DEF After
    <3>6. QED
      BY <2>1, <2>4, <2>6, <3>1, <3>2, <3>3, <3>4, <3>5, OneMoreInFlight
  <2>8. Append(T, b) \in Seq(Seq(BlockRecord)) /\ b # << >>
    BY <2>1, <2>2, <2>4 DEF Sends
  <2>9. Good(s2, c, q, Append(T, b), 0)
    BY <2>3, <2>7, <2>8 DEF Good
  <2>10. TransmitBlocks(s) = [c |-> s2, sent |-> b]
    BY <2>2 DEF Sends, s2, b
  <2>11. QED
    BY <2>8, <2>9, <2>10 DEF Sent
<1>3. QED
  BY <1>1, <1>2
-----------------------------------------------------------------------------
(* The steps *)

\* The server opens the file, reads, and sends.
LEMMA SendSnapshotStep ==
    ASSUME FilesKeptApart, DownloadInv, SendSnapshot
    PROVE  DownloadInv'
<1> DEFINE s1 == IF sv.open THEN sv ELSE Opened(sv)
           s2 == WithReads(s1)
           s3 == WithEnd(s2)
           w == TransmitBlocks(s3)
<1>1. /\ sv.downloadName # NoFile /\ cl' = cl /\ toServer' = toServer
      /\ sv' = w.c /\ toClient' = Sent(toClient, w.sent)
  BY DEF SendSnapshot, WriteDownload, Sent
<1>2. Good(sv, cl, toServer, toClient, 0) /\ cl.commands = << >>
  BY DEF DownloadInv
<1>3. Good(s1, cl, toServer, toClient, 0) /\ s1.open
  <2>1. CASE sv.open
    BY <2>1, <1>2
  <2>2. CASE ~ sv.open
    BY <2>2, <1>1, <1>2, OpenStep
  <2>3. QED
    BY <2>1, <2>2
<1> HIDE DEF s1
<1>4. Good(s2, cl, toServer, toClient, 0) /\ s2.open
  BY <1>3, ReadsStep
<1> HIDE DEF s2
<1>5. Good(s3, cl, toServer, toClient, 0) /\ s3.open
  BY <1>4, EofStep
<1> HIDE DEF s3
<1>6. Good(w.c, cl, toServer, Sent(toClient, w.sent), 0)
  BY <1>5, TransmitStep
<1> HIDE DEF w
<1>7. QED
  BY <1>1, <1>2, <1>6 DEF DownloadInv

\* The server refuses the file, of which nothing has been sent.
LEMMA RefuseStep ==
    ASSUME DownloadInv, Refuse
    PROVE  DownloadInv'
<1> DEFINE s2 == [sv EXCEPT !.downloadName = NoFile, !.refused = TRUE]
           b == <<Refusal>>
           o == [file |-> sv.downloadName, first |-> 1]
<1>1. /\ sv' = s2 /\ toClient' = Append(toClient, b) /\ cl' = cl /\ toServer' = toServer
      /\ ~ sv.open /\ sv.downloadName \in Files
  BY Sizes DEF Refuse
<1>2. /\ Good(sv, cl, toServer, toClient, 0) /\ cl.commands = << >>
      /\ sv \in SvRecord /\ cl \in ClRecord /\ toClient \in Seq(Seq(BlockRecord))
      /\ ServerOK(sv, cl) /\ QueueOK(sv, cl, toServer)
  BY DEF DownloadInv, Good
<1>3. /\ s2 \in SvRecord /\ s2.downloadName = NoFile /\ s2.open = sv.open
      /\ s2.dropped = sv.dropped /\ s2.downloadCount = sv.downloadCount
      /\ s2.downloadClientBlock = sv.downloadClientBlock
      /\ s2.downloadCurrentBlock = sv.downloadCurrentBlock
      /\ s2.downloadXmitBlock = sv.downloadXmitBlock
  BY <1>2 DEF SvRecord
<1>4. cl.asked \in Nat /\ NoFile \notin Files /\ NoFile <= cl.asked /\ cl.asked # NoFile
  BY <1>2, Sizes DEF ClRecord, NoFile
<1>5. sv.downloadName = cl.asked
  BY <1>1, <1>2, <1>4 DEF ServerOK
<1>6. b \in Seq(BlockRecord) /\ IsRefusal(b)
  BY DEF IsRefusal, Refusal, BlockRecord, BlockData
<1>7. o \in Origin /\ o.file = cl.asked /\ o.first = 1
  BY <1>1, <1>5 DEF Origin
<1> HIDE DEF s2, b, o
<1>8. ServerOK(s2, cl)
  BY <1>1, <1>2, <1>3, <1>4 DEF ServerOK, Counters
<1>9. QueueOK(s2, cl, toServer)
  <2>1. \E m \in 0 .. Len(toServer) :
          /\ Acknowledges(s2, toServer, m)
          /\ s2.open => s2.downloadClientBlock + m = Acked(cl, s2.downloadName)
          /\ ~ s2.open => m = 0
    BY <1>1, <1>2, <1>3 DEF QueueOK, Acknowledges
  <2>2. QED
    BY <1>2, <1>3, <1>4, <2>1 DEF QueueOK
<1>10. ASSUME ~ cl.disconnected
       PROVE  \E g : FlightOK(s2, cl, toServer, Append(toClient, b), g, 0)
  <2>1. PICK g : FlightOK(sv, cl, toServer, toClient, g, 0)
    BY <1>2, <1>10 DEF Good
  <2>2. ASSUME NEW i \in 1 .. Len(toClient)
        PROVE  /\ FromFile(s2, cl, toServer, g[i]) /\ Served(s2, cl, toClient[i], g[i])
               /\ After(toClient[i], g[i], o)
    <3>1. /\ FromFile(sv, cl, toServer, g[i]) /\ Served(sv, cl, toClient[i], g[i])
          /\ g[i] \in Origin
      BY <2>1 DEF FlightOK
    <3>2. FromFile(s2, cl, toServer, g[i])
      BY <3>1, <1>3 DEF FromFile
    <3>3. Served(s2, cl, toClient[i], g[i])
      <4>1. g[i].file # NoFile
        BY <3>1, <1>4 DEF Origin
      <4>2. QED
        BY <4>1, <3>1, <1>1, <1>3 DEF Served
    <3>4. After(toClient[i], g[i], o)
      BY <3>1, <1>7 DEF After, FromFile
    <3>5. QED
      BY <3>2, <3>3, <3>4
  <2>3. FlightOK(s2, cl, toServer, toClient, g, 0)
    BY <2>1, <2>2 DEF FlightOK
  <2>4. FromFile(s2, cl, toServer, o)
    <3>1. ~ HasDownload(toServer)
      BY <1>2, <1>5 DEF QueueOK
    <3>2. QED
      BY <3>1, <1>3, <1>4, <1>7 DEF FromFile
  <2>5. Served(s2, cl, b, o)
    BY <1>6 DEF Served
  <2>6. FlightOK(s2, cl, toServer, Append(toClient, b), Append(g, o), 0)
    BY <1>2, <1>6, <1>7, <2>2, <2>3, <2>4, <2>5, OneMoreInFlight
  <2>7. QED
    BY <2>6
<1>11. Append(toClient, b) \in Seq(Seq(BlockRecord))
  BY <1>2, <1>6
<1>12. Good(s2, cl, toServer, Append(toClient, b), 0)
  BY <1>2, <1>3, <1>8, <1>9, <1>10, <1>11 DEF Good
<1>13. QED
  BY <1>1, <1>2, <1>12 DEF DownloadInv

\* Time passes.
LEMMA OneSecondStep ==
    ASSUME DownloadInv, OneSecondPasses
    PROVE  DownloadInv'
<1> DEFINE s2 == [sv EXCEPT !.late = TRUE]
<1>1. sv' = s2 /\ cl' = cl /\ toServer' = toServer /\ toClient' = toClient
  BY DEF OneSecondPasses
<1>2. /\ Good(sv, cl, toServer, toClient, 0) /\ cl.commands = << >>
      /\ sv \in SvRecord /\ ServerOK(sv, cl)
  BY DEF DownloadInv, Good
<1>3. /\ s2 \in SvRecord /\ s2.downloadXmitBlock = sv.downloadXmitBlock
      /\ s2.dropped = sv.dropped /\ s2.downloadName = sv.downloadName /\ s2.open = sv.open
      /\ s2.downloadCount = sv.downloadCount
      /\ s2.downloadClientBlock = sv.downloadClientBlock
      /\ s2.downloadCurrentBlock = sv.downloadCurrentBlock
      /\ s2.downloadEOF = sv.downloadEOF /\ s2.blocks = sv.blocks
  BY <1>2 DEF SvRecord
<1> HIDE DEF s2
<1>4. ServerOK(s2, cl)
  <2>1. Counters(s2)
    BY <1>2, <1>3 DEF ServerOK, Counters
  <2>2. sv.open => OpenOK(s2, cl)
    BY <1>2, <1>3 DEF ServerOK, OpenOK, WindowHolds
  <2>3. QED
    BY <1>2, <1>3, <2>1, <2>2 DEF ServerOK
<1>5. SameFile(sv, s2)
  BY <1>2, <1>3 DEF SameFile, SvRecord
<1>6. Good(s2, cl, toServer, toClient, 0)
  BY <1>2, <1>3, <1>4, <1>5, ServedStill
<1>7. QED
  BY <1>1, <1>2, <1>6 DEF DownloadInv

\* A snapshot is lost.
LEMMA LoseSnapshotStep ==
    ASSUME DownloadInv, LoseSnapshot
    PROVE  DownloadInv'
<1>1. Good(sv, cl, toServer, toClient, 0) /\ cl.commands = << >>
  BY DEF DownloadInv
<1>2. Good(sv, cl, toServer, Tail(toClient), 0)
  BY <1>1, TailStep DEF LoseSnapshot
<1>3. QED
  BY <1>1, <1>2 DEF LoseSnapshot, DownloadInv
-----------------------------------------------------------------------------
(* The server executes a command *)

\* The commands behind the first
LEMMA TailIs ==
    ASSUME NEW q \in Seq(Command), q # << >>
    PROVE  /\ Head(q) = q[1] /\ q[1] \in Command /\ Len(q) \in Nat /\ 1 \in 1 .. Len(q)
           /\ Tail(q) \in Seq(Command) /\ Len(Tail(q)) = Len(q) - 1
           /\ \A i \in 1 .. Len(Tail(q)) : i + 1 \in 1 .. Len(q) /\ Tail(q)[i] = q[i + 1]
  OBVIOUS

\* What the commands acknowledge, in the words of QueueOK
Acknowledged(s, c, q) ==
    \E m \in 0 .. Len(q) :
        /\ Acknowledges(s, q, m)
        /\ s.open => s.downloadClientBlock + m = Acked(c, s.downloadName)
        /\ ~ s.open => m = 0

\* The commands behind the first are as they have to be, if what they acknowledge is.
LEMMA TailQueue ==
    ASSUME NEW s, NEW c, NEW q \in Seq(Command), NEW s2, q # << >>, QueueOK(s, c, q),
           Acknowledged(s2, c, Tail(q)), HasDownload(Tail(q)) => s2.downloadName # c.asked
    PROVE  /\ QueueOK(s2, c, Tail(q))
           /\ HasDownload(Tail(q)) => HasDownload(q)
<1> DEFINE t == Tail(q)
<1>1. \A i \in 1 .. Len(t) : i \in Int /\ i + 1 \in 1 .. Len(q) /\ t[i] = q[i + 1]
  BY TailIs
<1>2. \A i, j \in 1 .. Len(t) : i + 1 = j + 1 => i = j
  OBVIOUS
<1>3. HasDownload(t) => s2.downloadName # c.asked
  OBVIOUS
<1>4. Acknowledged(s2, c, t)
  OBVIOUS
<1> HIDE DEF t
<1>5. HasDownload(t) => HasDownload(q)
  BY <1>1 DEF HasDownload
<1>6. \A i \in 1 .. Len(t) : t[i].command = "download" => t[i].argument = c.asked
  BY <1>1 DEF QueueOK
<1>7. ASSUME NEW i \in 1 .. Len(t), NEW j \in 1 .. Len(t),
             t[i].command = "download", t[j].command = "download"
      PROVE  i = j
  <2>1. i + 1 = j + 1
    BY <1>1, <1>7 DEF QueueOK
  <2>2. QED
    BY <2>1, <1>2
<1>8. Writes(c) /\ ~ c.disconnected =>
          \A i \in 1 .. Len(t) : t[i].command \in {"nextdl", "download"}
  BY <1>1 DEF QueueOK
<1>9. HasDownload(t) => c.downloadBlock = 0
  BY <1>5 DEF QueueOK
<1>10. QueueOK(s2, c, t)
  BY <1>3, <1>4, <1>6, <1>7, <1>8, <1>9 DEF QueueOK, Acknowledged
<1>11. QED
  BY <1>5, <1>10 DEF t

\* When the first acknowledges nothing, none does.
LEMMA NoneAcknowledges ==
    ASSUME NEW s, NEW c, NEW q \in Seq(Command), NEW s2 \in SvRecord, q # << >>, QueueOK(s, c, q),
           q[1].command # "nextdl",
           s2.open => /\ s.open /\ s2.downloadClientBlock = s.downloadClientBlock
                      /\ s2.downloadName = s.downloadName
    PROVE  Acknowledged(s2, c, Tail(q))
<1> DEFINE t == Tail(q)
<1>1. /\ 1 \in 1 .. Len(q) /\ Len(t) \in Nat
      /\ \A i \in 1 .. Len(t) : i + 1 \in 1 .. Len(q) /\ t[i] = q[i + 1]
  BY TailIs
<1> HIDE DEF t
<1>2. PICK m \in 0 .. Len(q) :
          /\ Acknowledges(s, q, m)
          /\ s.open => s.downloadClientBlock + m = Acked(c, s.downloadName)
          /\ ~ s.open => m = 0
  BY DEF QueueOK
<1>3. m = 0
  <2> SUFFICES ASSUME m # 0 PROVE FALSE
    OBVIOUS
  <2>1. 1 \in 1 .. m
    BY <1>1
  <2>2. q[1] = NextDl(s.downloadClientBlock + 1 - 1)
    BY <1>2, <2>1 DEF Acknowledges
  <2>3. q[1].command = "nextdl"
    BY <2>2 DEF NextDl
  <2>4. QED
    BY <2>3
<1>4. \A i \in 1 .. Len(q) : q[i].command # "nextdl"
  BY <1>2, <1>3 DEF Acknowledges
<1>5. \A i \in 1 .. Len(t) : t[i].command # "nextdl"
  BY <1>1, <1>4
<1>6. Acknowledges(s2, t, 0) /\ 0 \in 0 .. Len(t)
  BY <1>1, <1>5 DEF Acknowledges
<1>7. s2.open => s2.downloadClientBlock + 0 = Acked(c, s2.downloadName)
  BY <1>2, <1>3
<1>8. Acknowledged(s2, c, t)
  BY <1>6, <1>7 DEF Acknowledged
<1>9. QED
  BY <1>8 DEF t

\* What a command has to leave true of the snapshots in flight
KeepsFlight(s, s2, c, q) ==
    \A o \in Origin, b \in Seq(BlockRecord) :
        FromFile(s, c, q, o) /\ Served(s, c, b, o) =>
            FromFile(s2, c, Tail(q), o) /\ Served(s2, c, b, o)

\* Then executing it keeps everything.
LEMMA CommandStep ==
    ASSUME NEW s, NEW c, NEW q, NEW T, NEW s2 \in SvRecord, Good(s, c, q, T, 0), q # << >>,
           ServerOK(s2, c), Acknowledged(s2, c, Tail(q)),
           HasDownload(Tail(q)) => s2.downloadName # c.asked,
           ~ c.disconnected => KeepsFlight(s, s2, c, q)
    PROVE  Good(s2, c, Tail(q), T, 0)
<1>1. q \in Seq(Command) /\ QueueOK(s, c, q) /\ T \in Seq(Seq(BlockRecord))
  BY DEF Good
<1>2. QueueOK(s2, c, Tail(q)) /\ Tail(q) \in Seq(Command)
  BY <1>1, TailQueue, TailIs
<1>3. ASSUME ~ c.disconnected
      PROVE  \E g : FlightOK(s2, c, Tail(q), T, g, 0)
  <2>1. PICK g : FlightOK(s, c, q, T, g, 0)
    BY <1>3 DEF Good
  <2>2. ASSUME NEW i \in 1 .. Len(T)
        PROVE  FromFile(s2, c, Tail(q), g[i]) /\ Served(s2, c, T[i], g[i])
    <3>1. /\ FromFile(s, c, q, g[i]) /\ Served(s, c, T[i], g[i])
          /\ g[i] \in Origin /\ T[i] \in Seq(BlockRecord)
      BY <1>1, <2>1 DEF FlightOK
    <3>2. QED
      BY <3>1, <1>3 DEF KeepsFlight
  <2>3. FlightOK(s2, c, Tail(q), T, g, 0)
    BY <2>1, <2>2 DEF FlightOK
  <2>4. QED
    BY <2>3
<1>4. QED
  BY <1>2, <1>3 DEF Good

\* No file open, nothing of the client's file is left to be served.
LEMMA CloseIs ==
    ASSUME NEW s \in SvRecord, NEW f \in Files \cup {NoFile}
    PROVE  LET s2 == [CloseDownload(s) EXCEPT !.downloadName = f]
           IN  /\ s2 \in SvRecord /\ s2.downloadName = f /\ ~ s2.open /\ s2.dropped = s.dropped
               /\ s2.downloadCount = s.downloadCount
               /\ s2.downloadClientBlock = s.downloadClientBlock
               /\ s2.downloadCurrentBlock = s.downloadCurrentBlock
               /\ s2.downloadXmitBlock = s.downloadXmitBlock
<1> DEFINE s2 == [CloseDownload(s) EXCEPT !.downloadName = f]
<1>1. s2 = [s EXCEPT !.downloadName = f, !.open = FALSE]
  BY DEF CloseDownload, SvRecord
<1> HIDE DEF s2
<1>2. /\ s2 \in SvRecord /\ s2.downloadName = f /\ ~ s2.open /\ s2.dropped = s.dropped
      /\ s2.downloadCount = s.downloadCount
      /\ s2.downloadClientBlock = s.downloadClientBlock
      /\ s2.downloadCurrentBlock = s.downloadCurrentBlock
      /\ s2.downloadXmitBlock = s.downloadXmitBlock
  BY <1>1 DEF SvRecord
<1>3. QED
  BY <1>2 DEF s2

\* The client asks for its next file, of which nothing is in flight.
LEMMA DownloadStep ==
    ASSUME NEW s, NEW c, NEW q, NEW T, Good(s, c, q, T, 0), q # << >>, q[1].command = "download"
    PROVE  Good(BeginDownload(s, q[1].argument), c, Tail(q), T, 0)
<1> DEFINE s2 == BeginDownload(s, q[1].argument)
<1>1. /\ s \in SvRecord /\ c \in ClRecord /\ c.asked \in Files /\ q \in Seq(Command)
      /\ ServerOK(s, c) /\ QueueOK(s, c, q) /\ c.asked \in Nat
  BY Sizes DEF Good, ClRecord
<1>2. 1 \in 1 .. Len(q) /\ q[1].argument = c.asked /\ HasDownload(q)
  BY <1>1, TailIs DEF QueueOK, HasDownload
<1>3. /\ s2 \in SvRecord /\ s2.downloadName = c.asked /\ ~ s2.open /\ s2.dropped = s.dropped
      /\ s2.downloadCount = s.downloadCount
      /\ s2.downloadClientBlock = s.downloadClientBlock
      /\ s2.downloadCurrentBlock = s.downloadCurrentBlock
      /\ s2.downloadXmitBlock = s.downloadXmitBlock
  BY <1>1, <1>2, CloseIs DEF BeginDownload
<1> HIDE DEF s2
<1>4. c.downloadBlock = 0
  BY <1>1, <1>2 DEF QueueOK
<1>5. ServerOK(s2, c)
  BY <1>1, <1>3, <1>4 DEF ServerOK, Counters
<1>6. ~ HasDownload(Tail(q))
  <2> SUFFICES ASSUME NEW i \in 1 .. Len(Tail(q)), Tail(q)[i].command = "download" PROVE FALSE
    BY DEF HasDownload
  <2>1. i + 1 \in 1 .. Len(q) /\ q[i + 1].command = "download"
    BY <1>1, TailIs
  <2>2. i + 1 = 1
    BY <1>1, <1>2, <2>1 DEF QueueOK
  <2>3. QED
    BY <2>2
<1>7. Acknowledged(s2, c, Tail(q))
  BY <1>1, <1>3, NoneAcknowledges
<1>8. KeepsFlight(s, s2, c, q)
  BY <1>1, <1>2, <1>3, <1>4, <1>6 DEF KeepsFlight, FromFile, Served
<1>9. Good(s2, c, Tail(q), T, 0)
  BY <1>3, <1>5, <1>6, <1>7, <1>8, CommandStep
<1>10. QED
  BY <1>9 DEF s2

\* The client asks for nothing more, and writes nothing.
LEMMA StopStep ==
    ASSUME NEW s, NEW c, NEW q, NEW T, Good(s, c, q, T, 0), q # << >>, q[1].command = "stopdl"
    PROVE  Good(CloseDownload(s), c, Tail(q), T, 0)
<1> DEFINE s2 == CloseDownload(s)
<1>1. /\ s \in SvRecord /\ c \in ClRecord /\ c.asked \in Nat /\ c.asked # NoFile
      /\ q \in Seq(Command) /\ ServerOK(s, c) /\ QueueOK(s, c, q) /\ NoFile \notin Files
  BY Sizes DEF Good, ClRecord, NoFile
<1>2. Writes(c) => c.disconnected
  BY <1>1, TailIs DEF QueueOK
<1>3. /\ s2 \in SvRecord /\ s2.downloadName = NoFile /\ ~ s2.open /\ s2.dropped = s.dropped
      /\ s2.downloadCount = s.downloadCount
      /\ s2.downloadClientBlock = s.downloadClientBlock
      /\ s2.downloadCurrentBlock = s.downloadCurrentBlock
      /\ s2.downloadXmitBlock = s.downloadXmitBlock
  BY <1>1 DEF SvRecord, CloseDownload
<1> HIDE DEF s2
<1>4. ServerOK(s2, c)
  BY <1>1, <1>3 DEF ServerOK, Counters, NoFile
<1>5. Acknowledged(s2, c, Tail(q))
  BY <1>1, <1>3, NoneAcknowledges
<1>6. HasDownload(Tail(q)) => HasDownload(q)
  BY <1>1, <1>3, <1>5, TailQueue
<1>7. ~ c.disconnected => KeepsFlight(s, s2, c, q)
  BY <1>1, <1>2, <1>3, <1>6 DEF KeepsFlight, FromFile, Served, Origin
<1>8. Good(s2, c, Tail(q), T, 0)
  BY <1>1, <1>3, <1>4, <1>5, <1>7, CommandStep
<1>9. QED
  BY <1>8 DEF s2

\* The client has what it asked for: the gamestate is sent.
LEMMA DoneStep ==
    ASSUME NEW s, NEW c, NEW q, NEW T, Good(s, c, q, T, 0), q # << >>, q[1].command = "donedl"
    PROVE  Good([s EXCEPT !.gamestateSent = TRUE], c, Tail(q), T, 0)
<1> DEFINE s2 == [s EXCEPT !.gamestateSent = TRUE]
<1>1. /\ s \in SvRecord /\ c \in ClRecord /\ q \in Seq(Command)
      /\ ServerOK(s, c) /\ QueueOK(s, c, q)
  BY DEF Good
<1>2. /\ s2 \in SvRecord /\ s2.downloadXmitBlock = s.downloadXmitBlock
      /\ s2.dropped = s.dropped /\ s2.downloadName = s.downloadName /\ s2.open = s.open
      /\ s2.downloadCount = s.downloadCount
      /\ s2.downloadClientBlock = s.downloadClientBlock
      /\ s2.downloadCurrentBlock = s.downloadCurrentBlock
      /\ s2.downloadEOF = s.downloadEOF /\ s2.blocks = s.blocks
  BY <1>1 DEF SvRecord
<1> HIDE DEF s2
<1>3. ServerOK(s2, c)
  <2>1. Counters(s2)
    BY <1>1, <1>2 DEF ServerOK, Counters
  <2>2. s.open => OpenOK(s2, c)
    BY <1>1, <1>2 DEF ServerOK, OpenOK, WindowHolds
  <2>3. QED
    BY <1>1, <1>2, <2>1, <2>2 DEF ServerOK
<1>4. Acknowledged(s2, c, Tail(q))
  BY <1>1, <1>2, NoneAcknowledges
<1>5. HasDownload(Tail(q)) => HasDownload(q)
  <2>1. \A i \in 1 .. Len(Tail(q)) : i + 1 \in 1 .. Len(q) /\ Tail(q)[i] = q[i + 1]
    BY <1>1, TailIs
  <2>2. QED
    BY <2>1 DEF HasDownload
<1>6. HasDownload(Tail(q)) => s2.downloadName # c.asked
  BY <1>1, <1>2, <1>5 DEF QueueOK
<1>7. KeepsFlight(s, s2, c, q)
  BY <1>2, <1>5 DEF KeepsFlight, FromFile, Served
<1>8. Good(s2, c, Tail(q), T, 0)
  BY <1>1, <1>2, <1>3, <1>4, <1>6, <1>7, CommandStep
<1>9. QED
  BY <1>8 DEF s2

\* An acknowledgement is for the block the server expects it for, and that block is
\* in the window.
LEMMA ExpectedBlock ==
    ASSUME NEW s, NEW c, NEW q, NEW T, Good(s, c, q, T, 0), q # << >>, q[1].command = "nextdl"
    PROVE  /\ s.open /\ q[1].argument = s.downloadClientBlock
           /\ s.downloadClientBlock < Acked(c, s.downloadName)
           /\ AcknowledgesEnd(s) <=> s.downloadClientBlock = Blocks[s.downloadName]
           /\ \E m \in 1 .. Len(q) :
                 /\ Acknowledges(s, q, m)
                 /\ s.downloadClientBlock + m = Acked(c, s.downloadName)
<1> DEFINE first == s.downloadClientBlock
           f == s.downloadName
<1>1. /\ s \in SvRecord /\ c \in ClRecord /\ q \in Seq(Command)
      /\ ServerOK(s, c) /\ QueueOK(s, c, q) /\ first \in Nat /\ s.downloadCurrentBlock \in Nat
  BY DEF Good, SvRecord
<1>2. 1 \in 1 .. Len(q) /\ Len(q) \in Nat
  BY <1>1, TailIs
<1>3. PICK m \in 0 .. Len(q) :
          /\ Acknowledges(s, q, m)
          /\ s.open => first + m = Acked(c, f)
          /\ ~ s.open => m = 0
  BY <1>1 DEF QueueOK
<1>4. m # 0
  <2> SUFFICES ASSUME m = 0 PROVE FALSE
    OBVIOUS
  <2>1. 1 \in m + 1 .. Len(q)
    BY <1>2
  <2>2. q[1].command # "nextdl"
    BY <1>3, <2>1 DEF Acknowledges
  <2>3. QED
    BY <2>2
<1>5. m \in 1 .. Len(q) /\ s.open /\ first + m = Acked(c, f)
  BY <1>3, <1>4
<1>6. q[1] = NextDl(first)
  <2>1. 1 \in 1 .. m
    BY <1>5
  <2>2. q[1] = NextDl(first + 1 - 1)
    BY <1>3, <2>1 DEF Acknowledges
  <2>3. first + 1 - 1 = first
    BY <1>1
  <2>4. QED
    BY <2>2, <2>3
<1>7. OpenOK(s, c) /\ f \in Files /\ Blocks[f] \in Nat
  BY <1>1, <1>5, Sizes DEF ServerOK, SvRecord
<1>8. first < Acked(c, f) /\ first < s.downloadCurrentBlock /\ first <= Blocks[f]
  BY <1>1, <1>5, <1>7 DEF OpenOK
<1>9. s.blocks[Slot(first)] = Content(f, first)
  <2>1. first \in first .. s.downloadCurrentBlock - 1
    BY <1>1, <1>8
  <2>2. QED
    BY <2>1, <1>7 DEF OpenOK, WindowHolds
<1>10. AcknowledgesEnd(s) <=> first = Blocks[f]
  <2>1. Content(f, first) = End <=> ~ (first < Blocks[f])
    BY DataIsNotEnd DEF Content
  <2>2. QED
    BY <2>1, <1>1, <1>7, <1>8, <1>9 DEF AcknowledgesEnd
<1>11. QED
  BY <1>3, <1>5, <1>6, <1>8, <1>10 DEF NextDl

\* The last block of a file is acknowledged: the server closes it.
LEMMA LastBlockStep ==
    ASSUME NEW s, NEW c, NEW q, NEW T, Good(s, c, q, T, 0), q # << >>, q[1].command = "nextdl",
           AcknowledgesEnd(s)
    PROVE  Good(CloseDownload(s), c, Tail(q), T, 0)
<1> DEFINE s2 == CloseDownload(s)
           f == s.downloadName
           first == s.downloadClientBlock
<1>1. /\ s \in SvRecord /\ c \in ClRecord /\ c.asked \in Nat /\ c.asked # NoFile
      /\ q \in Seq(Command) /\ ServerOK(s, c) /\ QueueOK(s, c, q) /\ NoFile \notin Files
      /\ first \in Nat /\ s.downloadCurrentBlock \in Nat /\ s.downloadCount \in Nat
      /\ c.downloadBlock \in Nat /\ ClientOK(c) /\ Len(q) \in Nat
  BY Sizes DEF Good, ClRecord, SvRecord, NoFile
<1>2. s.open /\ first = Blocks[f]
  BY ExpectedBlock
<1>3. PICK m \in 1 .. Len(q) : Acknowledges(s, q, m) /\ first + m = Acked(c, f)
  BY ExpectedBlock
<1>4. OpenOK(s, c) /\ f \in Files /\ Blocks[f] \in Nat
  BY <1>1, <1>2, Sizes DEF ServerOK, SvRecord
<1>5. m = 1 /\ Acked(c, f) = Blocks[f] + 1
  <2>1. Acked(c, f) <= s.downloadCurrentBlock /\ s.downloadCurrentBlock <= Blocks[f] + 1
    BY <1>1, <1>4 DEF OpenOK
  <2>2. QED
    BY <2>1, <1>1, <1>2, <1>3, <1>4
<1>6. /\ s2 \in SvRecord /\ s2.downloadName = NoFile /\ ~ s2.open /\ s2.dropped = s.dropped
      /\ s2.downloadCount = s.downloadCount
      /\ s2.downloadClientBlock = s.downloadClientBlock
      /\ s2.downloadCurrentBlock = s.downloadCurrentBlock
      /\ s2.downloadXmitBlock = s.downloadXmitBlock
  BY <1>1 DEF SvRecord, CloseDownload
<1> HIDE DEF s2
<1>7. ServerOK(s2, c)
  BY <1>1, <1>6 DEF ServerOK, Counters, NoFile
<1>8. Acknowledged(s2, c, Tail(q))
  <2>1. \A i \in 1 .. Len(Tail(q)) : i + 1 \in 2 .. Len(q) /\ Tail(q)[i] = q[i + 1]
    BY <1>1, TailIs
  <2>2. \A i \in 2 .. Len(q) : q[i].command # "nextdl"
    BY <1>3, <1>5 DEF Acknowledges
  <2>3. \A i \in 1 .. Len(Tail(q)) : Tail(q)[i].command # "nextdl"
    BY <2>1, <2>2
  <2>4. Len(Tail(q)) \in Nat
    BY <1>1, TailIs
  <2>5. \A i \in 0 + 1 .. Len(Tail(q)) : Tail(q)[i].command # "nextdl"
    BY <2>3
  <2>6. Acknowledges(s2, Tail(q), 0)
    BY <2>5 DEF Acknowledges
  <2>7. 0 \in 0 .. Len(Tail(q))
    BY <2>4
  <2>8. QED
    BY <2>6, <2>7, <1>6 DEF Acknowledged
<1>9. HasDownload(Tail(q)) => HasDownload(q)
  BY <1>1, <1>6, <1>8, TailQueue
<1>10. ~ (f = c.asked /\ Writes(c))
  BY <1>1, <1>4, <1>5 DEF ClientOK, Writes, Acked
<1>11. KeepsFlight(s, s2, c, q)
  BY <1>1, <1>6, <1>9, <1>10 DEF KeepsFlight, FromFile, Served, Origin
<1>12. Good(s2, c, Tail(q), T, 0)
  BY <1>1, <1>6, <1>7, <1>8, <1>11, CommandStep
<1>13. QED
  BY <1>12 DEF s2

\* Any other block is acknowledged: the window moves on.
LEMMA NextBlockStep ==
    ASSUME NEW s, NEW c, NEW q, NEW T, Good(s, c, q, T, 0), q # << >>, q[1].command = "nextdl",
           ~ AcknowledgesEnd(s)
    PROVE  Good([s EXCEPT !.downloadClientBlock = @ + 1, !.late = FALSE], c, Tail(q), T, 0)
<1> DEFINE s2 == [s EXCEPT !.downloadClientBlock = @ + 1, !.late = FALSE]
           f == s.downloadName
           first == s.downloadClientBlock
           next == first + 1
<1>1. /\ s \in SvRecord /\ c \in ClRecord /\ q \in Seq(Command)
      /\ ServerOK(s, c) /\ QueueOK(s, c, q)
      /\ first \in Nat /\ s.downloadCurrentBlock \in Nat /\ s.downloadCount \in Nat
      /\ c.downloadBlock \in Nat /\ Len(q) \in Nat /\ MAX_DOWNLOAD_WINDOW \in Nat
  BY Sizes DEF Good, ClRecord, SvRecord
<1>2. s.open /\ first # Blocks[f] /\ first < Acked(c, f)
  BY ExpectedBlock
<1>3. PICK m \in 1 .. Len(q) : Acknowledges(s, q, m) /\ first + m = Acked(c, f)
  BY ExpectedBlock
<1>4. /\ OpenOK(s, c) /\ f \in Files /\ f # NoFile /\ Blocks[f] \in Nat
      /\ Acked(c, f) \in Nat
  BY <1>1, <1>2, Sizes DEF ServerOK, SvRecord, Acked
<1>5. /\ next \in Nat /\ next <= Acked(c, f) /\ next <= Blocks[f]
      /\ next <= s.downloadCurrentBlock
      /\ s.downloadCurrentBlock <= next + MAX_DOWNLOAD_WINDOW
  BY <1>1, <1>2, <1>4 DEF OpenOK
<1>6. s2 = [s EXCEPT !.downloadClientBlock = next, !.late = FALSE]
  OBVIOUS
<1>7. next = first + 1
  OBVIOUS
<1> HIDE DEF s2, next
<1>8. /\ s2 \in SvRecord /\ s2.downloadXmitBlock = s.downloadXmitBlock
      /\ s2.dropped = s.dropped /\ s2.downloadName = s.downloadName /\ s2.open = s.open
      /\ s2.downloadCount = s.downloadCount
      /\ s2.downloadClientBlock = next
      /\ s2.downloadCurrentBlock = s.downloadCurrentBlock
      /\ s2.downloadEOF = s.downloadEOF /\ s2.blocks = s.blocks
  BY <1>1, <1>5, <1>6 DEF SvRecord
<1>9. ServerOK(s2, c)
  <2>1. Counters(s2)
    BY <1>1, <1>5, <1>8 DEF ServerOK, Counters
  <2>2. WindowHolds(s2, next)
    <3>1. \A n \in next .. s.downloadCurrentBlock - 1 : n \in first .. s.downloadCurrentBlock - 1
      BY <1>1, <1>5, <1>7
    <3>2. QED
      BY <1>4, <1>8, <3>1 DEF OpenOK, WindowHolds
  <2>3. OpenOK(s2, c)
    <3>1. /\ s.downloadCount <= Blocks[f]
          /\ s.downloadCurrentBlock = s.downloadCount + (IF s.downloadEOF THEN 1 ELSE 0)
          /\ s.downloadEOF => s.downloadCount = Blocks[f]
          /\ Acked(c, f) <= s.downloadCurrentBlock
          /\ s.downloadXmitBlock = 0 => Acked(c, f) = 0
      BY <1>4 DEF OpenOK
    <3>2. QED
      BY <1>5, <1>8, <2>2, <3>1 DEF OpenOK
  <2>4. QED
    BY <1>1, <1>2, <1>4, <1>8, <2>1, <2>3 DEF ServerOK
<1>10. Acknowledged(s2, c, Tail(q))
  <2> DEFINE t == Tail(q)
             l == m - 1
  <2>1. Len(t) = Len(q) - 1 /\ \A i \in 1 .. Len(t) : i + 1 \in 1 .. Len(q) /\ t[i] = q[i + 1]
    BY <1>1, TailIs
  <2>2. l \in 0 .. Len(t) /\ l + 1 = m
    BY <1>1, <2>1
  <2> HIDE DEF t, l
  <2>3. ASSUME NEW i \in 1 .. l PROVE t[i] = NextDl(next + i - 1)
    <3>1. i + 1 \in 1 .. m /\ i \in 1 .. Len(t)
      BY <1>1, <2>1, <2>2
    <3>2. t[i] = NextDl(first + (i + 1) - 1)
      BY <1>3, <2>1, <3>1 DEF Acknowledges
    <3>3. first + (i + 1) - 1 = next + i - 1
      BY <1>1, <1>7, <2>2
    <3>4. QED
      BY <3>2, <3>3
  <2>4. ASSUME NEW i \in l + 1 .. Len(t) PROVE t[i].command # "nextdl"
    <3>1. i + 1 \in m + 1 .. Len(q) /\ i \in 1 .. Len(t)
      BY <1>1, <2>1, <2>2
    <3>2. q[i + 1].command # "nextdl"
      BY <1>3, <3>1 DEF Acknowledges
    <3>3. QED
      BY <2>1, <3>1, <3>2
  <2>5. next + l = Acked(c, f)
    <3>1. next = first + 1 /\ l + 1 = m /\ {first, m, l} \subseteq Nat
      BY <1>1, <1>7, <2>2
    <3>2. first + m = Acked(c, f)
      BY <1>3
    <3>3. QED
      BY <3>1, <3>2
  <2>6. Acknowledges(s2, t, l)
    BY <2>3, <2>4, <1>8 DEF Acknowledges
  <2>7. Acknowledged(s2, c, t)
    BY <1>2, <1>8, <2>2, <2>5, <2>6 DEF Acknowledged
  <2>8. QED
    BY <2>7 DEF t
<1>11. HasDownload(Tail(q)) => HasDownload(q)
  <2>1. \A i \in 1 .. Len(Tail(q)) : i + 1 \in 1 .. Len(q) /\ Tail(q)[i] = q[i + 1]
    BY <1>1, TailIs
  <2>2. QED
    BY <2>1 DEF HasDownload
<1>12. HasDownload(Tail(q)) => s2.downloadName # c.asked
  BY <1>1, <1>8, <1>11 DEF QueueOK
<1>13. KeepsFlight(s, s2, c, q)
  BY <1>8, <1>11 DEF KeepsFlight, FromFile, Served
<1>14. Good(s2, c, Tail(q), T, 0)
  BY <1>1, <1>8, <1>9, <1>10, <1>12, <1>13, CommandStep
<1>15. QED
  BY <1>14 DEF s2

\* The server executes the first command in flight.
LEMMA ExecuteCommandStep ==
    ASSUME DownloadInv, ExecuteCommand
    PROVE  DownloadInv'
<1> DEFINE x == toServer[1]
<1>1. /\ Good(sv, cl, toServer, toClient, 0) /\ cl.commands = << >>
      /\ toServer \in Seq(Command) /\ toServer # << >> /\ ~ sv.dropped
  BY DEF DownloadInv, Good, ServerOK, ExecuteCommand
<1>2. Head(toServer) = x /\ x \in Command
  BY <1>1, TailIs
<1>3. /\ sv' = IF x.command = "download" THEN BeginDownload(sv, x.argument)
               ELSE IF x.command = "nextdl" THEN NextDownloadBlock(sv, x.argument)
               ELSE IF x.command = "stopdl" THEN CloseDownload(sv)
               ELSE [sv EXCEPT !.gamestateSent = TRUE]
      /\ toServer' = Tail(toServer) /\ cl' = cl /\ toClient' = toClient
  BY <1>1, <1>2 DEF ExecuteCommand
<1>4. Good(sv', cl, Tail(toServer), toClient, 0)
  <2>1. CASE x.command = "download"
    BY <2>1, <1>1, <1>3, DownloadStep
  <2>2. CASE x.command = "nextdl"
    <3>1. x.argument = sv.downloadClientBlock
      BY <2>2, <1>1, ExpectedBlock
    <3>2. CASE AcknowledgesEnd(sv)
      BY <2>2, <3>1, <3>2, <1>1, <1>3, LastBlockStep DEF NextDownloadBlock
    <3>3. CASE ~ AcknowledgesEnd(sv)
      BY <2>2, <3>1, <3>3, <1>1, <1>3, NextBlockStep DEF NextDownloadBlock
    <3>4. QED
      BY <3>2, <3>3
  <2>3. CASE x.command = "stopdl"
    BY <2>3, <1>1, <1>3, StopStep
  <2>4. CASE x.command = "donedl"
    BY <2>4, <1>1, <1>3, DoneStep
  <2>5. QED
    BY <1>2, <2>1, <2>2, <2>3, <2>4 DEF Command
<1>5. QED
  BY <1>1, <1>3, <1>4 DEF DownloadInv
-----------------------------------------------------------------------------
(* The theorems *)

\* The client has asked for the first file, and nothing of it has been sent.
LEMMA DownloadStarts ==
    ASSUME Init
    PROVE  DownloadInv
<1>1. /\ Len(Blocks) \in Nat \ {0} /\ Files = 1 .. Len(Blocks) /\ 1 \in Files
      /\ Blocks[1] \in Nat \ {0} /\ NoFile \notin Files /\ Uncreatable \subseteq Files
      /\ MAX_DOWNLOAD_WINDOW \in Nat \ {0}
  BY Sizes DEF NoFile
<1>2. /\ sv \in SvRecord /\ ~ sv.dropped /\ ~ sv.open /\ sv.downloadName = NoFile
      /\ sv.downloadCount = 0 /\ sv.downloadClientBlock = 0
      /\ sv.downloadCurrentBlock = 0 /\ sv.downloadXmitBlock = 0
  <2>1. [s \in 0 .. MAX_DOWNLOAD_WINDOW - 1 |-> End] \in [0 .. MAX_DOWNLOAD_WINDOW - 1 -> BlockData]
    BY DEF BlockData
  <2>2. QED
    BY <2>1 DEF Init, SvRecord
<1>3. /\ cl \in ClRecord /\ cl.asked = 1 /\ cl.downloading /\ cl.downloadBlock = 0
      /\ cl.written = << >> /\ cl.finished = {} /\ cl.commands = << >> /\ ~ cl.disconnected
  <2>1. << >> \in Seq(Files \X Nat) /\ << >> \in Seq(Command)
    OBVIOUS
  <2>2. {} \in SUBSET [file : Files, content : Seq(Files \X Nat)]
    OBVIOUS
  <2>3. QED
    BY <1>1, <2>1, <2>2 DEF Init, ClRecord
<1>4. /\ toServer \in Seq(Command) /\ Len(toServer) = 1 /\ toServer[1].command = "download"
      /\ toServer[1].argument = 1 /\ toClient = << >>
  BY DEF Init, Download, Command
<1>5. ClientOK(cl)
  <2>1. cl.written = Whole(1, 0)
    BY <1>3 DEF Whole
  <2>2. 1 .. cl.asked - 1 = {}
    BY <1>3
  <2>3. QED
    BY <1>1, <1>3, <2>1, <2>2 DEF ClientOK
<1>6. ServerOK(sv, cl)
  BY <1>2, <1>3 DEF ServerOK, Counters, NoFile
<1>7. QueueOK(sv, cl, toServer)
  <2>1. Acknowledges(sv, toServer, 0) /\ 0 \in 0 .. Len(toServer)
    BY <1>4 DEF Acknowledges
  <2>2. \A i, j \in 1 .. Len(toServer) : i = j
    BY <1>4
  <2>3. QED
    BY <1>2, <1>3, <1>4, <2>1, <2>2 DEF QueueOK, NoFile
<1>8. FlightOK(sv, cl, toServer, toClient, << >>, 0)
  BY <1>4 DEF FlightOK, Snapshots
<1>9. QED
  BY <1>2, <1>3, <1>4, <1>5, <1>6, <1>7, <1>8 DEF DownloadInv, Good

\* What is good stays so.
LEMMA DownloadInvariant ==
    ASSUME FilesKeptApart
    PROVE  Spec => []DownloadInv
<1>1. Init => DownloadInv
  BY DownloadStarts
<1>2. DownloadInv /\ [Next]_vars => DownloadInv'
  <2> SUFFICES ASSUME DownloadInv, [Next]_vars PROVE DownloadInv'
    OBVIOUS
  <2>1. CASE ReceiveBlocks
    BY <2>1, ReceiveBlocksStep
  <2>2. CASE ExecuteCommand
    BY <2>2, ExecuteCommandStep
  <2>3. CASE SendSnapshot
    BY <2>3, SendSnapshotStep
  <2>4. CASE Refuse
    BY <2>4, RefuseStep
  <2>5. CASE OneSecondPasses
    BY <2>5, OneSecondStep
  <2>6. CASE LoseSnapshot
    BY <2>6, LoseSnapshotStep
  <2>7. CASE UNCHANGED vars
    BY <2>7 DEF vars, DownloadInv
  <2>8. QED
    BY <2>1, <2>2, <2>3, <2>4, <2>5, <2>6, <2>7 DEF Next
<1>3. QED
  BY <1>1, <1>2, PTL DEF Spec

\* Type correctness: the block the server waits to have acknowledged and the one it
\* sends next never pass the one it reads next (SV_WriteDownloadToClient,
\* SV_NextDownload_f).
THEOREM DownloadTypes ==
    ASSUME FilesKeptApart
    PROVE  Spec => []TypeOK
<1>1. DownloadInv => TypeOK
  <2> SUFFICES ASSUME DownloadInv PROVE TypeOK
    OBVIOUS
  <2>1. sv \in SvRecord /\ cl \in ClRecord /\ Counters(sv) /\ cl.commands = << >>
    BY DEF DownloadInv, Good, ServerOK
  <2>2. /\ sv.downloadName \in Files \cup {NoFile}
        /\ sv.downloadClientBlock \in 0 .. sv.downloadCurrentBlock
        /\ sv.downloadXmitBlock \in 0 .. sv.downloadCurrentBlock
        /\ sv.downloadCurrentBlock \in 0 .. sv.downloadCount + 1
    BY <2>1 DEF SvRecord, Counters
  <2>3. /\ sv.blocks \in [0 .. MAX_DOWNLOAD_WINDOW - 1 -> {End} \cup (Files \X Nat)]
        /\ {sv.dropped, sv.gamestateSent, sv.refused, sv.open, sv.downloadEOF, sv.late} \subseteq BOOLEAN
    BY <2>1 DEF SvRecord, BlockData
  <2>4. /\ {cl.disconnected, cl.downloading, cl.downloadRestart, cl.loading} \subseteq BOOLEAN
        /\ cl.asked \in Files
        /\ cl.downloadBlock \in Nat
        /\ cl.written \in Seq(Files \X Nat)
        /\ \A x \in cl.finished : x.file \in Files /\ x.content \in Seq(Files \X Nat)
    BY <2>1 DEF ClRecord
  <2>5. QED
    BY <2>1, <2>2, <2>3, <2>4 DEF TypeOK
<1>2. QED
  BY <1>1, DownloadInvariant, PTL

\* A file that is renamed into place is the server's, whatever the sizes of the
\* files, the window and the snapshots, and whatever is lost (CL_ParseDownload).
THEOREM FinishedFilesIntact ==
    ASSUME FilesKeptApart
    PROVE  Spec => []FinishedIntact
<1>1. DownloadInv => FinishedIntact
  BY DEF DownloadInv, Good, ClientOK, FinishedIntact, Whole
<1>2. QED
  BY <1>1, DownloadInvariant, PTL

\* What may have to be sent again is in the window (SV_WriteDownloadToClient).
THEOREM WindowIsKept ==
    ASSUME FilesKeptApart
    PROVE  Spec => []WindowKept
<1>1. DownloadInv => WindowKept
  BY DEF DownloadInv, Good, ServerOK, OpenOK, WindowHolds, WindowKept, Content
<1>2. QED
  BY <1>1, DownloadInvariant, PTL

\* No acknowledgement is for another block than the one the server waits to have
\* acknowledged, so no client is dropped for it (SV_NextDownload_f).
THEOREM NoBrokenDownload ==
    ASSUME FilesKeptApart
    PROVE  Spec => []AcknowledgesExpectedBlock
<1>1. DownloadInv => AcknowledgesExpectedBlock
  BY DEF DownloadInv, Good, ServerOK, AcknowledgesExpectedBlock
<1>2. QED
  BY <1>1, DownloadInvariant, PTL
=============================================================================
