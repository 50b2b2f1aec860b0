------------------------------- MODULE Memory -------------------------------
(***************************************************************************)
(* The engine's memory: the zone, and the hunk of qcommon/common.cpp, from  *)
(* both ends of which memory is taken. One end, the permanent bank, keeps   *)
(* what it gives until the hunk is cleared; the other, the temporary bank,  *)
(* holds the files that FS_ReadFile loads, which may be freed in any order,  *)
(* and short-lived scratch memory. When there is no temporary memory the    *)
(* two may be exchanged.                                                    *)
(*                                                                         *)
(* Until the hunk exists, files are loaded into the zone.                   *)
(***************************************************************************)
EXTENDS Zone

CONSTANTS
    s_hunkTotal,    \* the size of the hunk
    HunkSizes,      \* what is asked for, rounded, with the header if temporary
    Dedicated,      \* which processes: is it one without a client?
    MaxDrops        \* bound: errors that files in memory do not survive

ASSUME HunkAssumption ==
    /\ s_hunkTotal \in Nat
    /\ HunkSizes \subseteq Nat \ {0}
    /\ Dedicated \subseteq BOOLEAN
    /\ MaxDrops \in Nat

VARIABLES
    hunk,           \* both banks, and which one is the permanent one
    fs_loadStack,   \* "total files in memory"
    com_dedicated,
    drops

vars == <<zone, scan, live, hunk, fs_loadStack, com_dedicated, drops>>

Ends == {"low", "high"}
Unused == [mark |-> 0, permanent |-> 0, temp |-> 0, tempHighwater |-> 0]
Cleared == [bank |-> [e \in Ends |-> Unused], permanent |-> "low"]
NoHunk == [bank |-> <<>>, permanent |-> "none"]
HunkExists == hunk # NoHunk

Opposite(e) == IF e = "low" THEN "high" ELSE "low"
TempEnd(h) == Opposite(h.permanent)
TempInUse(h) == h.bank[TempEnd(h)].temp # h.bank[TempEnd(h)].permanent

Using(uses) == {p \in Pointers : live[p].use \in uses}
Files == Using({"file"})
Scratch == Using({"scratch"})
Permanent == Using({"permanent"})
Released(S) == [p \in Pointers |-> IF p \in S THEN NULL ELSE live[p]]

Init ==
    /\ ZoneInit
    /\ hunk = NoHunk
    /\ fs_loadStack = 0
    /\ com_dedicated \in Dedicated
    /\ drops = 0

\* No allocation is under way.
Ready == scan = Idle
\* Scratch memory is freed before the function that asked for it does anything
\* else with files or the hunk.
Free == Ready /\ Scratch = {}
NoTemp == Files = {} /\ Scratch = {}

-----------------------------------------------------------------------------
\* Bug: the banks are exchanged with files in memory.
SwapAnyway(h) ==
    LET wasted(e) == h.bank[e].tempHighwater - h.bank[e].permanent IN
    IF wasted(TempEnd(h)) > wasted(h.permanent)
    THEN [h EXCEPT !.permanent = TempEnd(h)]
    ELSE h

\* Hunk_SwapBanks
SwapBanks(h) ==
    LET wasted(e) == h.bank[e].tempHighwater - h.bank[e].permanent IN
    IF ~TempInUse(h) /\ wasted(TempEnd(h)) > wasted(h.permanent)
    THEN [h EXCEPT !.permanent = TempEnd(h)]
    ELSE h

\* The place of the last size units taken from an end of which used are in use.
Place(e, used, size) == IF e = "low" THEN used - size ELSE s_hunkTotal - used

Piece(e, used, size, use) ==
    [place |-> "hunk", from |-> Place(e, used, size), size |-> size, use |-> use, kept |-> FALSE]

\* Hunk_Clear: everyone who has memory of the hunk was shut down.
Hunk_Clear ==
    /\ hunk' = Cleared
    /\ live' = Released(Files \cup Scratch \cup Permanent)

\* Com_Error( ERR_DROP ): whoever had files or scratch memory is left by longjmp,
\* and does not free them. A client clears the hunk (CL_FlushMemory), the server
\* being down; a dedicated server keeps it as it is until the next map.
Com_Error(h) ==
    /\ drops < MaxDrops
    /\ drops' = drops + 1
    /\ IF com_dedicated
       THEN hunk' = h /\ live' = Released(Files \cup Scratch)
       ELSE Hunk_Clear

\* Hunk_AllocateTempMemory, when the hunk exists.
AllocateTempMemory(p, size, use) ==
    LET h == SwapBanks(hunk)
        e == TempEnd(h)
        temp == h.bank[e].temp + size
    IN IF temp + h.bank[h.permanent].permanent > s_hunkTotal
       THEN Com_Error(h)
       ELSE /\ hunk' = [h EXCEPT !.bank[e].temp = temp,
                                 !.bank[e].tempHighwater = IF temp > @ THEN temp ELSE @]
            /\ live' = [live EXCEPT ![p] = Piece(e, temp, size, use)]
            /\ UNCHANGED drops

\* Hunk_FreeTempMemory: the memory is had back if it was the last allocated.
FreeTempMemory(r) ==
    LET e == TempEnd(hunk) IN
    IF r.from = Place(e, hunk.bank[e].temp, r.size)
    THEN [hunk EXCEPT !.bank[e].temp = @ - r.size]
    ELSE hunk

ClearTempMemory(h) == [h EXCEPT !.bank[TempEnd(h)].temp = h.bank[TempEnd(h)].permanent]

-----------------------------------------------------------------------------
Z_Malloc(p, size) ==
    /\ Ready
    /\ live[p] = NULL
    /\ Z_TagMalloc(p, size, "block")
    /\ UNCHANGED <<hunk, fs_loadStack, drops, com_dedicated>>

Z_MallocTurn ==
    /\ ScanTurn
    /\ UNCHANGED <<hunk, fs_loadStack, drops, com_dedicated>>

FreeBlock(p) ==
    /\ Ready
    /\ live[p].use = "block"
    /\ Z_Free(live[p].from)
    /\ live' = Released({p})
    /\ UNCHANGED <<scan, hunk, fs_loadStack, drops, com_dedicated>>

FS_ReadFile(p, size) ==
    /\ Free
    /\ live[p] = NULL
    /\ fs_loadStack' = fs_loadStack + 1
    /\ IF HunkExists
       THEN AllocateTempMemory(p, size, "file") /\ UNCHANGED <<zone, scan>>
       ELSE Z_TagMalloc(p, size, "file") /\ UNCHANGED <<hunk, drops>>
    /\ UNCHANGED com_dedicated

FS_FreeFile(p) ==
    /\ Free
    /\ live[p].use = "file"
    /\ fs_loadStack' = fs_loadStack - 1
    /\ live' = Released({p})
    /\ IF HunkExists
       THEN /\ hunk' = LET h == FreeTempMemory(live[p])
                       IN IF fs_loadStack' = 0 THEN ClearTempMemory(h) ELSE h
            /\ UNCHANGED zone
       ELSE Z_Free(live[p].from) /\ UNCHANGED hunk
    /\ UNCHANGED <<scan, drops, com_dedicated>>

\* RI_AutoPtr, the cinematics, and SV_ChangeMaxClients, which is all that a
\* dedicated server has and calls nothing that drops.
AllocateScratch(p, size) ==
    /\ Ready
    /\ HunkExists
    /\ com_dedicated => Scratch = {}
    /\ live[p] = NULL
    /\ AllocateTempMemory(p, size, "scratch")
    /\ UNCHANGED <<zone, scan, fs_loadStack, com_dedicated>>

\* In the reverse order, as destructors run: the one nearest the middle first.
FreeScratch(p) ==
    /\ Ready
    /\ live[p].use = "scratch"
    /\ \A q \in Scratch : IF TempEnd(hunk) = "low" THEN live[q].from <= live[p].from
                                                  ELSE live[q].from >= live[p].from
    /\ hunk' = FreeTempMemory(live[p])
    /\ live' = Released({p})
    /\ UNCHANGED <<zone, scan, fs_loadStack, drops, com_dedicated>>

\* With a file in memory Com_InitHunkMemory is a fatal error.
Com_InitHunkMemory ==
    /\ Ready
    /\ ~HunkExists
    /\ fs_loadStack = 0
    /\ Hunk_Clear
    /\ UNCHANGED <<zone, scan, fs_loadStack, drops, com_dedicated>>

\* Bug: the temporary memory is not counted.
AllocOverTemp(p, size, preference) ==
    /\ Free
    /\ HunkExists
    /\ live[p] = NULL
    /\ LET h == IF preference # hunk.permanent \/ TempInUse(hunk) THEN SwapBanks(hunk) ELSE hunk
           e == h.permanent
           used == h.bank[e].permanent + size
       IN IF h.bank["low"].permanent + h.bank["high"].permanent + size > s_hunkTotal
          THEN Com_Error(h)
          ELSE /\ hunk' = [h EXCEPT !.bank[e].permanent = used, !.bank[e].temp = used]
               /\ live' = [live EXCEPT ![p] = Piece(e, used, size, "permanent")]
               /\ UNCHANGED drops
    /\ UNCHANGED <<zone, scan, fs_loadStack, com_dedicated>>

Hunk_Alloc(p, size, preference) ==
    /\ Free
    /\ HunkExists
    /\ live[p] = NULL
    /\ LET h == IF preference # hunk.permanent \/ TempInUse(hunk) THEN SwapBanks(hunk) ELSE hunk
           e == h.permanent
           used == h.bank[e].permanent + size
       IN IF h.bank["low"].temp + h.bank["high"].temp + size > s_hunkTotal
          THEN Com_Error(h)
          ELSE /\ hunk' = [h EXCEPT !.bank[e].permanent = used, !.bank[e].temp = used]
               /\ live' = [live EXCEPT ![p] = Piece(e, used, size, "permanent")]
               /\ UNCHANGED drops
    /\ UNCHANGED <<zone, scan, fs_loadStack, com_dedicated>>

\* SV_SpawnServer, CL_FlushMemory and CL_Vid_Restart_f.
ClearHunk ==
    /\ Free
    /\ HunkExists /\ NoTemp
    /\ Hunk_Clear
    /\ UNCHANGED <<zone, scan, fs_loadStack, drops, com_dedicated>>

\* At the end of SV_SpawnServer.
Hunk_SetMark ==
    /\ Free
    /\ HunkExists /\ NoTemp
    /\ hunk' = [hunk EXCEPT !.bank = [e \in Ends |->
                    [hunk.bank[e] EXCEPT !.mark = hunk.bank[e].permanent]]]
    /\ live' = [p \in Pointers |-> IF p \in Permanent THEN [live[p] EXCEPT !.kept = TRUE]
                                                       ELSE live[p]]
    /\ UNCHANGED <<zone, scan, fs_loadStack, drops, com_dedicated>>

\* CL_FlushMemory and CL_Vid_Restart_f, in the process of a server, whose memory
\* is kept.
Hunk_ClearToMark ==
    /\ Free
    /\ HunkExists /\ NoTemp
    /\ ~com_dedicated
    /\ hunk' = [hunk EXCEPT !.bank = [e \in Ends |->
                    [hunk.bank[e] EXCEPT !.permanent = hunk.bank[e].mark,
                                         !.temp = hunk.bank[e].mark]]]
    /\ live' = Released({p \in Permanent : ~live[p].kept})
    /\ UNCHANGED <<zone, scan, fs_loadStack, drops, com_dedicated>>

\* Any other error that drops to the console, such as a damaged map.
Drop ==
    /\ Ready
    /\ HunkExists
    /\ com_dedicated => Scratch = {}
    /\ Com_Error(hunk)
    /\ UNCHANGED <<zone, scan, fs_loadStack, com_dedicated>>

Next ==
    \/ \E p \in Pointers, n \in ZoneSizes : Z_Malloc(p, n)
    \/ Z_MallocTurn
    \/ \E p \in Pointers : FreeBlock(p) \/ FS_FreeFile(p) \/ FreeScratch(p)
    \/ \E p \in Pointers, n \in HunkSizes : FS_ReadFile(p, n) \/ AllocateScratch(p, n)
    \/ \E p \in Pointers, n \in HunkSizes, end \in Ends \cup {"dontcare"} : Hunk_Alloc(p, n, end)
    \/ Com_InitHunkMemory \/ ClearHunk \/ Hunk_SetMark \/ Hunk_ClearToMark \/ Drop

Spec == Init /\ [][Next]_vars

-----------------------------------------------------------------------------
Blocks == DOMAIN zone.block \ {Cap}

TypeOK ==
    /\ zone.rover \in DOMAIN zone.block
    /\ zone.used \in 0..ZONE_SIZE
    /\ \A b \in DOMAIN zone.block :
           zone.block[b] \in [size : 0..ZONE_SIZE, used : BOOLEAN,
                             next : DOMAIN zone.block, prev : DOMAIN zone.block]
    /\ HunkExists => hunk.bank \in [Ends -> [mark : 0..s_hunkTotal, permanent : 0..s_hunkTotal,
                                            temp : 0..s_hunkTotal, tempHighwater : 0..s_hunkTotal]]
    /\ fs_loadStack \in Nat

UsedMemory == UNION {b .. b + zone.block[b].size - 1 : b \in {c \in Blocks : zone.block[c].used}}

\* "There is never any space between memblocks, and there will never be two
\* contiguous free memblocks" (common.cpp:690): the blocks lie end to end, their
\* links agree, what is free next to each other was merged, and the memory used
\* is that of the blocks in use.
HeapOK ==
    /\ \A b \in Blocks :
        /\ b + zone.block[b].size = zone.block[b].next
        /\ zone.block[zone.block[b].next].prev = b
        /\ ~zone.block[b].used => zone.block[zone.block[b].next].used
    /\ zone.used = Cardinality(UsedMemory)

\* Z_TagMalloc is right when it says that memory is exhausted. It ends at the block
\* before the one it began with, and does not look at it if the one before that is
\* free: right because no two free blocks touch.
FailsOnlyWhenFull ==
    OutOfMemory => \A b \in Blocks : zone.block[b].used \/ zone.block[b].size < scan.size

\* "Temp memory must never be allocated on two ends at once" (common.cpp:1088),
\* and when none is in use, and all files are freed, none is lost: what the files
\* freed out of order left behind is had back.
TempOnOneEnd ==
    HunkExists =>
        /\ hunk.bank[hunk.permanent].temp = hunk.bank[hunk.permanent].permanent
        /\ NoTemp /\ fs_loadStack = 0 => ~TempInUse(hunk)

\* "total files in memory" (files.cpp:221). An error leaves it too high for ever,
\* and what is then freed out of order is kept until the hunk is cleared.
LoadStackCountsFiles == Ready => fs_loadStack = Cardinality(Files)

Cells(r) == IF r = NULL THEN {} ELSE {r.place} \X (r.from .. r.from + r.size - 1)

\* Two users never have the same memory, whatever is freed, exchanged, cleared or
\* abandoned between, and none outside what there is.
Allocation == INSTANCE Allocator WITH
    Places <- ({"zone"} \X (0 .. ZONE_SIZE - 1)) \cup ({"hunk"} \X (0 .. s_hunkTotal - 1)),
    piece <- [p \in Pointers |-> Cells(live[p])]
AllocatorSpec == Allocation!Spec
=============================================================================
