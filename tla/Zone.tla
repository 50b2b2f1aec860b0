-------------------------------- MODULE Zone --------------------------------
(***************************************************************************)
(* The zone of qcommon/common.cpp: one stretch of memory cut into blocks,   *)
(* which form a ring through a cap that is always in use. An allocation     *)
(* looks for the first free block that is large enough, from the rover on.  *)
(*                                                                         *)
(* Addresses are counted in units of the alignment, and so are sizes, which *)
(* include the block's header. The main and the small zone are two of these. *)
(* The scan is taken a turn of its loop at a time, but nothing else happens *)
(* meanwhile: everything runs in one thread.                                *)
(***************************************************************************)
EXTENDS Integers, FiniteSets

CONSTANTS
    ZONE_SIZE,      \* the memory the blocks share
    MINFRAGMENT,    \* a remainder is cut off only when larger than this
    ZoneSizes,      \* what is asked for, with header and padding
    Pointers        \* the variables whose values the allocators return

ASSUME ZoneAssumption ==
    /\ ZONE_SIZE \in Nat \ {0}
    /\ MINFRAGMENT \in Nat
    /\ ZoneSizes \subseteq Nat \ {0}

VARIABLES
    zone,           \* the ring of blocks by address, the rover, the memory used
    scan,           \* an allocation under way
    live            \* by pointer: the memory it points to, as its user knows it

\* The blocklist of memzone_t, "start / end cap for linked list". Its address
\* is given as the one after the last block's.
Cap == ZONE_SIZE
Idle == [size |-> 0]
NULL == [use |-> "none"]

\* Z_ClearZone: one free block.
ZoneInit ==
    /\ zone = [block |-> [a \in {0, Cap} |->
                  IF a = 0 THEN [size |-> ZONE_SIZE, used |-> FALSE, next |-> Cap, prev |-> Cap]
                           ELSE [size |-> 0, used |-> TRUE, next |-> 0, prev |-> 0]],
               rover |-> 0,
               used |-> 0]
    /\ scan = Idle
    /\ live = [p \in Pointers |-> NULL]

-----------------------------------------------------------------------------
\* Bug: the scan stops where it begins.
StartsAtRover(p, size, use) ==
    /\ scan' = [pointer |-> p, size |-> size, use |-> use, base |-> zone.rover, rover |-> zone.rover,
                start |-> zone.rover]
    /\ UNCHANGED <<zone, live>>

\* p = Z_TagMalloc(size, tag) begins. use tells what the memory is for.
Z_TagMalloc(p, size, use) ==
    /\ scan' = [pointer |-> p, size |-> size, use |-> use, base |-> zone.rover, rover |-> zone.rover,
                start |-> zone.block[zone.rover].prev]
    /\ UNCHANGED <<zone, live>>

\* Block b is cut into one of the given size and a free one.
Split(block, b, size) ==
    LET p == b + size IN
    [a \in DOMAIN block \cup {p} |->
        CASE a = b -> [block[b] EXCEPT !.size = size, !.next = p]
          [] a = p -> [size |-> block[b].size - size, used |-> FALSE,
                       next |-> block[b].next, prev |-> b]
          [] a = block[b].next -> [block[a] EXCEPT !.prev = p]
          [] OTHER -> block[a]]

\* The block found is taken, whole unless a free block worth having remains.
Take(base) ==
    LET fitted == IF zone.block[base].size - scan.size > MINFRAGMENT
                  THEN Split(zone.block, base, scan.size)
                  ELSE zone.block
    IN /\ zone' = [block |-> [fitted EXCEPT ![base].used = TRUE],
                   rover |-> fitted[base].next,
                   used |-> zone.used + fitted[base].size]
       /\ live' = [live EXCEPT ![scan.pointer] =
                      [place |-> "zone", from |-> base, size |-> fitted[base].size,
                       use |-> scan.use, kept |-> FALSE]]
       /\ scan' = Idle

\* A turn of the loop. When it is back at the start, that is a fatal error, and
\* the process ends: OutOfMemory.
ScanTurn ==
    /\ scan # Idle
    /\ scan.rover # scan.start
    /\ LET next == zone.block[scan.rover].next
           base == IF zone.block[scan.rover].used THEN next ELSE scan.base
       IN IF zone.block[base].used \/ zone.block[base].size < scan.size
          THEN /\ scan' = [scan EXCEPT !.rover = next, !.base = base]
               /\ UNCHANGED <<zone, live>>
          ELSE Take(base)

OutOfMemory == scan # Idle /\ scan.rover = scan.start

-----------------------------------------------------------------------------
\* Free block q becomes part of free block p, which is before it.
Absorb(block, p, q) ==
    LET next == block[q].next IN
    [a \in DOMAIN block \ {q} |->
        CASE a = p -> [block[p] EXCEPT !.size = @ + block[q].size, !.next = next]
          [] a = next -> [block[a] EXCEPT !.prev = p]
          [] OTHER -> block[a]]

\* Bug: only the block after it is merged.
FreeForward(b) ==
    LET freed == [zone.block EXCEPT ![b].used = FALSE]
        after == freed[b].next
    IN zone' = [block |-> IF freed[after].used THEN freed ELSE Absorb(freed, b, after),
                rover |-> b,
                used |-> zone.used - zone.block[b].size]

\* Bug: the rover is left at a block that was merged away.
FreeUnderRover(b) ==
    LET freed == [zone.block EXCEPT ![b].used = FALSE]
        before == freed[b].prev
        merged == IF freed[before].used THEN freed ELSE Absorb(freed, before, b)
        kept == IF freed[before].used THEN b ELSE before
        after == merged[kept].next
    IN zone' = [block |-> IF merged[after].used THEN merged ELSE Absorb(merged, kept, after),
                rover |-> zone.rover,
                used |-> zone.used - zone.block[b].size]

\* Z_Free(ptr): the block is merged with the one before it and the one after it.
Z_Free(b) ==
    LET freed == [zone.block EXCEPT ![b].used = FALSE]
        before == freed[b].prev
        merged == IF freed[before].used THEN freed ELSE Absorb(freed, before, b)
        kept == IF freed[before].used THEN b ELSE before
        after == merged[kept].next
    IN zone' = [block |-> IF merged[after].used THEN merged ELSE Absorb(merged, kept, after),
                rover |-> kept,
                used |-> zone.used - zone.block[b].size]
=============================================================================
