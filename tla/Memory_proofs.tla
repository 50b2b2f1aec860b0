--------------------------- MODULE Memory_proofs ---------------------------
(***************************************************************************)
(* Proofs about Memory and Zone, for memory of any size, any sizes asked    *)
(* for and any number of pointers. The invariant describes the zone's ring  *)
(* of blocks, what an allocation under way has come by, where in the hunk   *)
(* each kind of memory lies, and who uses what.                             *)
(***************************************************************************)
EXTENDS Memory, NumberTheorems

\* The links of a zone's blocks: they lie end to end, each knows the next and the
\* one before, and after the cap comes the first.
Links(block) == [size : Nat, used : BOOLEAN, next : DOMAIN block, prev : DOMAIN block]

RingOK(block) ==
    /\ DOMAIN block \subseteq 0 .. Cap /\ {0, Cap} \subseteq DOMAIN block
    /\ block \in [DOMAIN block -> Links(block)]
    /\ block[Cap].used /\ block[Cap].size = 0 /\ block[Cap].next = 0
    /\ \A a \in DOMAIN block : block[block[a].next].prev = a /\ block[block[a].prev].next = a
    /\ \A a \in DOMAIN block \ {Cap} :
          /\ block[a].size > 0 /\ block[a].next = a + block[a].size
          /\ \A c \in DOMAIN block : c <= a \/ block[a].next <= c

\* No two free blocks touch.
Merged(block) == \A a \in DOMAIN block : block[a].used \/ block[block[a].next].used

\* The blocks in use, as their users know them.
UsedBlocks(block) == {<<a, block[a].size>> : a \in {b \in DOMAIN block \ {Cap} : block[b].used}}

\* The memory of some pieces of it.
Extent(x) == x[1] .. x[1] + x[2] - 1
Memory(pieces) == UNION {Extent(x) : x \in pieces}

ZoneOK(z) ==
    /\ z \in [block : {z.block}, rover : DOMAIN z.block, used : Nat]
    /\ RingOK(z.block)
    /\ Merged(z.block)
    /\ z.used = Cardinality(Memory(UsedBlocks(z.block)))

\* The blocks the scan has come by, from block a to block b round the ring.
Passed(block, a, b) ==
    {c \in DOMAIN block : IF a <= b THEN a <= c /\ c <= b ELSE a <= c \/ c <= b}

Unfit(block, size, b) == block[b].used \/ block[b].size < size

ScanRecord(z) == [pointer : Pointers, size : Nat \ {0}, use : {"block", "file"},
                  base : DOMAIN z.block, rover : DOMAIN z.block, start : DOMAIN z.block]

\* When it is not where it began, all that it has come by was of no use.
ScanOK(z, s) ==
    s = Idle \/
    /\ s \in ScanRecord(z)
    /\ s.start = z.block[z.rover].prev
    /\ \/ s.rover = z.rover /\ s.base = s.rover
       \/ \A b \in Passed(z.block, z.rover, s.rover) : Unfit(z.block, s.size, b)

\* What a pointer may point to.
PieceRecord == [place : {"zone", "hunk"}, from : Int, size : Nat \ {0},
                use : {"block", "file", "scratch", "permanent"}, kept : BOOLEAN]
In(place, lv) == {p \in Pointers : lv[p] # NULL /\ lv[p].place = place}
Of(use, lv) == {p \in Pointers : lv[p].use = use}

\* Memory of the zone is a block in use, and nobody else's.
ZoneUsers(z, lv) ==
    /\ \A p \in In("zone", lv) :
          /\ lv[p].use \in {"block", "file"}
          /\ <<lv[p].from, lv[p].size>> \in UsedBlocks(z.block)
    /\ \A p, q \in In("zone", lv) : p # q => lv[p].from # lv[q].from

\* How far from its end of the hunk a piece begins and ends.
Start(r, e) == IF e = "low" THEN r.from ELSE s_hunkTotal - (r.from + r.size)
Depth(r, e) == Start(r, e) + r.size
Within(r, e, a, b) == a <= Start(r, e) /\ Depth(r, e) <= b

Apart(r, s) == r.from + r.size <= s.from \/ s.from + s.size <= r.from

BankRecord == [mark : 0 .. s_hunkTotal, permanent : 0 .. s_hunkTotal,
               temp : 0 .. s_hunkTotal, tempHighwater : 0 .. s_hunkTotal]
HunkRecord == [bank : [Ends -> BankRecord], permanent : Ends]

BanksOK(h) ==
    /\ h \in HunkRecord
    /\ \A e \in Ends : h.bank[e].mark <= h.bank[e].permanent /\ h.bank[e].permanent <= h.bank[e].temp
    /\ h.bank[h.permanent].temp = h.bank[h.permanent].permanent
    /\ h.bank["low"].temp + h.bank["high"].temp <= s_hunkTotal

\* Every piece is where its kind belongs, and nobody else's.
Placed(h, r) ==
    \/ /\ r.use = "permanent"
       /\ \E e \in Ends : Within(r, e, 0, IF r.kept THEN h.bank[e].mark ELSE h.bank[e].permanent)
    \/ /\ r.use \in {"file", "scratch"}
       /\ Within(r, TempEnd(h), h.bank[TempEnd(h)].permanent, h.bank[TempEnd(h)].temp)

AllApart(lv) == \A p, q \in In("hunk", lv) : p # q => Apart(lv[p], lv[q])

HunkUsers(h, lv) == (\A p \in In("hunk", lv) : Placed(h, lv[p])) /\ AllApart(lv)

\* Scratch memory is a stack: what lies on a piece is scratch memory too and, if
\* there are no files, so is what it lies on.
Reached(h, lv, depth) ==
    \/ depth = h.bank[TempEnd(h)].permanent
    \/ \E q \in Of("scratch", lv) : Depth(lv[q], TempEnd(h)) = depth

ScratchStack(h, lv, files) ==
    /\ \A p \in Of("scratch", lv) :
          \/ Depth(lv[p], TempEnd(h)) = h.bank[TempEnd(h)].temp
          \/ \E q \in Of("scratch", lv) : Start(lv[q], TempEnd(h)) = Depth(lv[p], TempEnd(h))
    /\ files = 0 =>
          /\ Reached(h, lv, h.bank[TempEnd(h)].temp)
          /\ \A p \in Of("scratch", lv) : Reached(h, lv, Start(lv[p], TempEnd(h)))

HunkOK(h, lv, files) ==
    IF h = NoHunk THEN In("hunk", lv) = {}
    ELSE BanksOK(h) /\ HunkUsers(h, lv) /\ ScratchStack(h, lv, files)

\* The files in memory, and the one for which memory is looked for.
Loaded(s, lv) ==
    Of("file", lv) \cup IF s # Idle /\ s.use = "file" THEN {s.pointer} ELSE {}

\* Until the hunk exists the count of files is right, and then it is never too low.
FilesOK(s, h, lv, files) ==
    /\ IsFiniteSet(Loaded(s, lv))
    /\ files \in Nat /\ files >= Cardinality(Loaded(s, lv))
    /\ h = NoHunk => files = Cardinality(Loaded(s, lv))
    /\ h # NoHunk => Of("file", lv) \subseteq In("hunk", lv) /\ (s # Idle => s.use = "block")

\* What makes the safety of the allocators inductive.
MemoryInv ==
    /\ ZoneOK(zone)
    /\ ScanOK(zone, scan)
    /\ scan # Idle => live[scan.pointer] = NULL
    /\ live \in [Pointers -> {NULL} \cup PieceRecord]
    /\ ZoneUsers(zone, live)
    /\ HunkOK(hunk, live, fs_loadStack)
    /\ FilesOK(scan, hunk, live, fs_loadStack)

-----------------------------------------------------------------------------
(* Rings *)

\* What is known of each block.
LEMMA RingFacts ==
    ASSUME NEW block, RingOK(block)
    PROVE  /\ Cap \in Nat \ {0} /\ 0 \in DOMAIN block /\ Cap \in DOMAIN block
           /\ \A a \in DOMAIN block :
                 /\ a \in 0 .. Cap /\ a \in Nat
                 /\ block[a].next \in DOMAIN block /\ block[a].prev \in DOMAIN block
                 /\ block[a].size \in Nat /\ block[a].used \in BOOLEAN
                 /\ block[a] = [size |-> block[a].size, used |-> block[a].used,
                                next |-> block[a].next, prev |-> block[a].prev]
                 /\ block[block[a].next].prev = a /\ block[block[a].prev].next = a
           /\ block[Cap].used /\ block[Cap].next = 0
           /\ \A a \in DOMAIN block \ {Cap} :
                 /\ block[a].size > 0 /\ block[a].next = a + block[a].size
                 /\ \A c \in DOMAIN block : c <= a \/ block[a].next <= c
<1>1. Cap \in Nat \ {0}
  BY ZoneAssumption DEF Cap
<1>2. ASSUME NEW a \in DOMAIN block
      PROVE  /\ a \in 0 .. Cap /\ a \in Nat
             /\ block[a].next \in DOMAIN block /\ block[a].prev \in DOMAIN block
             /\ block[a].size \in Nat /\ block[a].used \in BOOLEAN
             /\ block[a] = [size |-> block[a].size, used |-> block[a].used,
                            next |-> block[a].next, prev |-> block[a].prev]
  <2>1. a \in 0 .. Cap
    BY DEF RingOK
  <2>2. block[a] \in Links(block)
    BY DEF RingOK
  <2>3. QED
    BY <1>1, <2>1, <2>2 DEF Links
<1>3. QED
  BY <1>1, <1>2 DEF RingOK

\* A block changes hands.
IsUse(block, b, use, changed) ==
    /\ RingOK(changed) /\ DOMAIN changed = DOMAIN block
    /\ \A a \in DOMAIN block :
          /\ changed[a].size = block[a].size /\ changed[a].next = block[a].next
          /\ changed[a].prev = block[a].prev
          /\ changed[a].used = IF a = b THEN use ELSE block[a].used

\* That leaves a ring.
LEMMA RingUse ==
    ASSUME NEW block, RingOK(block), NEW b \in DOMAIN block \ {Cap}, NEW use \in BOOLEAN
    PROVE  IsUse(block, b, use, [block EXCEPT ![b].used = use])
<1> DEFINE changed == [block EXCEPT ![b].used = use]
<1>1. DOMAIN changed = DOMAIN block
  OBVIOUS
<1>2. ASSUME NEW a \in DOMAIN block
      PROVE  /\ changed[a].size = block[a].size /\ changed[a].next = block[a].next
             /\ changed[a].prev = block[a].prev
             /\ changed[a].used = IF a = b THEN use ELSE block[a].used
             /\ changed[a] \in Links(block)
  <2>1. block[a] \in Links(block)
    BY DEF RingOK
  <2>2. changed[a] = IF a = b THEN [block[a] EXCEPT !.used = use] ELSE block[a]
    BY DEF RingOK
  <2>3. QED
    BY <2>1, <2>2 DEF Links
<1>3. changed \in [DOMAIN changed -> Links(changed)]
  BY <1>1, <1>2 DEF Links
<1> HIDE DEF changed
<1>4. RingOK(changed)
  <2>1. DOMAIN changed \subseteq 0 .. Cap /\ {0, Cap} \subseteq DOMAIN changed
    BY <1>1, RingFacts
  <2>2. changed[Cap].used = block[Cap].used /\ changed[Cap].size = block[Cap].size
        /\ changed[Cap].next = block[Cap].next
    BY <1>2, RingFacts
  <2>3. block[Cap].used /\ block[Cap].size = 0 /\ block[Cap].next = 0
    BY DEF RingOK
  <2>4. ASSUME NEW a \in DOMAIN block
        PROVE  changed[changed[a].next].prev = a /\ changed[changed[a].prev].next = a
    <3>1. /\ block[a].next \in DOMAIN block /\ block[a].prev \in DOMAIN block
          /\ block[block[a].next].prev = a /\ block[block[a].prev].next = a
      BY RingFacts
    <3>2. QED
      BY <1>2, <3>1
  <2>5. ASSUME NEW a \in DOMAIN block \ {Cap}
        PROVE  /\ changed[a].size > 0 /\ changed[a].next = a + changed[a].size
               /\ \A c \in DOMAIN block : c <= a \/ changed[a].next <= c
    <3>1. /\ block[a].size > 0 /\ block[a].next = a + block[a].size
          /\ \A c \in DOMAIN block : c <= a \/ block[a].next <= c
      BY RingFacts
    <3>2. QED
      BY <1>2, <3>1
  <2>6. QED
    BY <1>1, <1>3, <2>1, <2>2, <2>3, <2>4, <2>5 DEF RingOK
<1>5. IsUse(block, b, use, changed)
  BY <1>1, <1>2, <1>4 DEF IsUse
<1>6. QED
  BY <1>5 DEF changed

\* A block is cut in two.
IsCut(block, b, size, cut) ==
    /\ RingOK(cut) /\ DOMAIN cut = DOMAIN block \cup {b + size}
    /\ b + size \notin DOMAIN block
    /\ cut[b].size = size /\ cut[b].used = block[b].used /\ cut[b].next = b + size
    /\ cut[b + size].size = block[b].size - size /\ cut[b + size].used = FALSE
    /\ cut[b + size].next = block[b].next
    /\ \A a \in DOMAIN block \ {b} :
          /\ cut[a].size = block[a].size /\ cut[a].used = block[a].used
          /\ cut[a].next = block[a].next

\* Split cuts a free block so.
LEMMA RingSplit ==
    ASSUME NEW block, RingOK(block), NEW b \in DOMAIN block \ {Cap},
           NEW size \in Nat, 0 < size, size < block[b].size
    PROVE  IsCut(block, b, size, Split(block, b, size))
<1> DEFINE cut == Split(block, b, size)
           p == b + size
           n == block[b].next
<1>1. /\ Cap \in Nat /\ Cap \in DOMAIN block /\ 0 \in DOMAIN block
      /\ b \in Nat /\ block[b].size \in Nat /\ n = b + block[b].size /\ n \in DOMAIN block
      /\ \A c \in DOMAIN block : c <= b \/ n <= c
      /\ \A c \in DOMAIN block : c \in Nat /\ c <= Cap
  BY RingFacts
<1>2. p \in Nat /\ b < p /\ p < n /\ n <= Cap /\ p \notin DOMAIN block
  <2>1. p \in Nat /\ b < p /\ p < n
    BY <1>1
  <2>2. QED
    BY <1>1, <2>1
<1> HIDE DEF n, p
<1>3. DOMAIN cut = DOMAIN block \cup {p}
  BY DEF Split, p
<1>4. ASSUME NEW a \in DOMAIN cut
      PROVE  cut[a] = IF a = b THEN [block[b] EXCEPT !.size = size, !.next = p]
                      ELSE IF a = p THEN [size |-> block[b].size - size, used |-> FALSE,
                                          next |-> n, prev |-> b]
                      ELSE IF a = n THEN [block[a] EXCEPT !.prev = p]
                      ELSE block[a]
  <2>1. cut[a] = CASE a = b -> [block[b] EXCEPT !.size = size, !.next = p]
                   [] a = p -> [size |-> block[b].size - size, used |-> FALSE,
                                next |-> n, prev |-> b]
                   [] a = n -> [block[a] EXCEPT !.prev = p]
                   [] OTHER -> block[a]
    BY <1>3, <1>4 DEF Split, p, n
  <2>2. b # p /\ b # n /\ p # n
    BY <1>1, <1>2
  <2>3. CASE a = b
    BY <2>1, <2>2, <2>3
  <2>4. CASE a = p
    BY <2>1, <2>2, <2>4
  <2>5. CASE a = n
    BY <2>1, <2>2, <2>5
  <2>6. CASE a # b /\ a # p /\ a # n
    BY <2>1, <2>6
  <2>7. QED
    BY <2>2, <2>3, <2>4, <2>5, <2>6
<1>5. \A a \in DOMAIN block : block[a] \in Links(block)
  BY DEF RingOK
<1> HIDE DEF cut
<1>6. /\ cut[b].size = size /\ cut[b].used = block[b].used
      /\ cut[b].next = p /\ cut[b].prev = block[b].prev
  <2>1. cut[b] = [block[b] EXCEPT !.size = size, !.next = p]
    BY <1>3, <1>4
  <2>2. QED
    BY <1>5, <2>1 DEF Links
<1>7. /\ cut[p].size = block[b].size - size /\ cut[p].used = FALSE
      /\ cut[p].next = n /\ cut[p].prev = b
  <2>1. cut[p] = [size |-> block[b].size - size, used |-> FALSE, next |-> n, prev |-> b]
    BY <1>1, <1>2, <1>3, <1>4
  <2>2. QED
    BY <2>1
<1>8. ASSUME NEW a \in DOMAIN block \ {b}
      PROVE  /\ cut[a].size = block[a].size /\ cut[a].used = block[a].used
             /\ cut[a].next = block[a].next
             /\ cut[a].prev = IF a = n THEN p ELSE block[a].prev
  <2>1. cut[a] = IF a = n THEN [block[a] EXCEPT !.prev = p] ELSE block[a]
    BY <1>2, <1>3, <1>4
  <2>2. QED
    BY <1>5, <2>1 DEF Links
<1>9. cut \in [DOMAIN cut -> Links(cut)]
  <2>1. cut = [a \in DOMAIN cut |-> cut[a]]
    BY DEF cut, Split
  <2>2. ASSUME NEW a \in DOMAIN cut PROVE cut[a] \in Links(cut)
    <3>1. CASE a = b
      BY <1>3, <1>4, <1>5, <3>1 DEF Links
    <3>2. CASE a = p
      <4>1. cut[a] = [size |-> block[b].size - size, used |-> FALSE, next |-> n, prev |-> b]
        BY <1>1, <1>2, <1>4, <3>2
      <4>2. QED
        BY <1>1, <1>3, <4>1 DEF Links
    <3>3. CASE a # b /\ a # p
      BY <1>3, <1>4, <1>5, <3>3 DEF Links
    <3>4. QED
      BY <3>1, <3>2, <3>3
  <2>3. QED
    BY <2>1, <2>2
<1>10. /\ block[n].prev = b /\ block[block[b].prev].next = b /\ block[b].prev \in DOMAIN block
       /\ \A a \in DOMAIN block :
             /\ block[a].next \in DOMAIN block /\ block[a].prev \in DOMAIN block
             /\ block[block[a].next].prev = a /\ block[block[a].prev].next = a
  BY RingFacts DEF n
<1>11. b # n /\ block[b].next = n
  BY <1>1, <1>2 DEF n
<1>12. ASSUME NEW a \in DOMAIN cut PROVE cut[cut[a].next].prev = a /\ cut[cut[a].prev].next = a
  <2>1. CASE a = b
    <3>1. cut[b].prev \in DOMAIN block \ {b} /\ block[cut[b].prev].next = b
      BY <1>6, <1>10, <1>11
    <3>2. QED
      BY <1>6, <1>7, <1>8, <2>1, <3>1
  <2>2. CASE a = p
    BY <1>1, <1>6, <1>7, <1>8, <1>11, <2>2
  <2>3. CASE a \in DOMAIN block \ {b}
    <3>1. cut[cut[a].next].prev = a
      <4>1. block[a].next # n
        BY <1>10, <2>3
      <4>2. CASE block[a].next = b
        BY <1>6, <1>8, <1>10, <2>3, <4>2
      <4>3. CASE block[a].next # b
        <5>1. block[a].next \in DOMAIN block \ {b} /\ block[block[a].next].prev = a
          BY <1>10, <2>3, <4>3
        <5>2. cut[block[a].next].prev = block[block[a].next].prev
          BY <1>8, <4>1, <5>1
        <5>3. QED
          BY <1>8, <2>3, <5>1, <5>2
      <4>4. QED
        BY <4>2, <4>3
    <3>2. cut[cut[a].prev].next = a
      <4>1. CASE a = n
        BY <1>7, <1>8, <2>3, <4>1
      <4>2. CASE a # n
        <5>1. block[a].prev # b
          BY <1>10, <1>11, <2>3, <4>2
        <5>2. block[a].prev \in DOMAIN block \ {b} /\ block[block[a].prev].next = a
          BY <1>10, <2>3, <5>1
        <5>3. cut[block[a].prev].next = block[block[a].prev].next
          BY <1>8, <5>2
        <5>4. QED
          BY <1>8, <2>3, <4>2, <5>2, <5>3
      <4>3. QED
        BY <4>1, <4>2
    <3>3. QED
      BY <3>1, <3>2
  <2>4. QED
    BY <1>3, <2>1, <2>2, <2>3
<1>13. ASSUME NEW a \in DOMAIN cut \ {Cap}
       PROVE  /\ cut[a].size > 0 /\ cut[a].next = a + cut[a].size
              /\ \A c \in DOMAIN cut : c <= a \/ cut[a].next <= c
  <2>1. CASE a = b
    BY <1>1, <1>2, <1>3, <1>6, <2>1 DEF p
  <2>2. CASE a = p
    BY <1>1, <1>2, <1>3, <1>7, <2>2 DEF p
  <2>3. CASE a \in DOMAIN block \ {b}
    <3>1. /\ block[a].size > 0 /\ block[a].next = a + block[a].size /\ block[a].size \in Nat
          /\ \A c \in DOMAIN block : c <= a \/ block[a].next <= c
      BY <2>3, RingFacts
    <3>2. p <= a \/ block[a].next <= p
      BY <1>1, <1>2, <2>3, <3>1
    <3>3. QED
      BY <1>3, <1>8, <2>3, <3>1, <3>2
  <2>4. QED
    BY <1>3, <2>1, <2>2, <2>3
<1>14. DOMAIN cut \subseteq 0 .. Cap /\ {0, Cap} \subseteq DOMAIN cut
  BY <1>1, <1>2, <1>3
<1>15. cut[Cap].used = block[Cap].used /\ cut[Cap].size = block[Cap].size
       /\ cut[Cap].next = block[Cap].next
  BY <1>1, <1>8
<1>16. block[Cap].used /\ block[Cap].size = 0 /\ block[Cap].next = 0
  BY DEF RingOK
<1>17. RingOK(cut)
  BY <1>9, <1>12, <1>13, <1>14, <1>15, <1>16 DEF RingOK
<1>18. IsCut(block, b, size, cut)
  BY <1>2, <1>3, <1>6, <1>7, <1>8, <1>17 DEF p, n, IsCut
<1>19. QED
  BY <1>18 DEF cut

\* Block p takes in q, the one after it.
IsJoin(block, p, q, joined) ==
    /\ RingOK(joined) /\ DOMAIN joined = DOMAIN block \ {q}
    /\ p # q /\ q \in DOMAIN block \ {Cap}
    /\ joined[p].used = block[p].used /\ joined[p].next = block[q].next
    /\ joined[p].size = block[p].size + block[q].size
    /\ \A a \in DOMAIN block \ {p, q} :
          /\ joined[a].size = block[a].size /\ joined[a].used = block[a].used
          /\ joined[a].next = block[a].next

\* Absorb joins two blocks so.
LEMMA RingAbsorb ==
    ASSUME NEW block, RingOK(block), NEW p \in DOMAIN block \ {Cap}, block[p].next # Cap
    PROVE  IsJoin(block, p, block[p].next, Absorb(block, p, block[p].next))
<1> DEFINE q == block[p].next
           merged == Absorb(block, p, q)
           n == block[q].next
<1>1. /\ Cap \in Nat /\ Cap \in DOMAIN block /\ 0 \in DOMAIN block
      /\ p \in Nat /\ block[p].size \in Nat /\ block[p].size > 0 /\ q = p + block[p].size
      /\ q \in DOMAIN block
      /\ \A c \in DOMAIN block : c <= p \/ q <= c
      /\ \A c \in DOMAIN block : c \in Nat /\ c <= Cap
  <2>1. Cap \in Nat /\ \A c \in DOMAIN block : c \in Nat /\ c \in 0 .. Cap
    BY RingFacts
  <2>2. /\ block[p].size \in Nat /\ block[p].size > 0 /\ block[p].next = p + block[p].size
        /\ block[p].next \in DOMAIN block
        /\ \A c \in DOMAIN block : c <= p \/ block[p].next <= c
    BY RingFacts
  <2>3. Cap \in DOMAIN block /\ 0 \in DOMAIN block
    BY RingFacts
  <2>4. QED
    BY <2>1, <2>2, <2>3
<1>2. /\ q # Cap /\ q \in Nat /\ block[q].size \in Nat /\ block[q].size > 0
      /\ n = q + block[q].size /\ n \in DOMAIN block
      /\ \A c \in DOMAIN block : c <= q \/ n <= c
  <2>1. q \in DOMAIN block \ {Cap}
    BY <1>1
  <2> HIDE DEF q
  <2>2. QED
    BY <1>1, <2>1, RingFacts
<1>3. /\ block[p].prev \in DOMAIN block /\ block[n].prev = q /\ block[q].prev = p
      /\ block[block[p].prev].next = p
  <2>1. block[q].prev = p /\ block[p].prev \in DOMAIN block /\ block[block[p].prev].next = p
    BY RingFacts
  <2>2. block[n].prev = q
    <3> HIDE DEF q
    <3>1. QED
      BY <1>1, RingFacts
  <2>3. QED
    BY <2>1, <2>2
<1>4. block[p].next = q /\ block[q].next = n
  OBVIOUS
<1> HIDE DEF q, n
<1>5. p # q /\ n # p /\ n # q
  BY <1>1, <1>2
<1>6. DOMAIN merged = DOMAIN block \ {q}
  BY DEF Absorb
<1>7. ASSUME NEW a \in DOMAIN merged
      PROVE  merged[a] = IF a = p THEN [block[p] EXCEPT !.size = @ + block[q].size, !.next = n]
                         ELSE IF a = n THEN [block[a] EXCEPT !.prev = p]
                         ELSE block[a]
  <2>1. merged[a] = CASE a = p -> [block[p] EXCEPT !.size = @ + block[q].size, !.next = n]
                      [] a = n -> [block[a] EXCEPT !.prev = p]
                      [] OTHER -> block[a]
    BY <1>4, <1>6, <1>7 DEF Absorb
  <2>2. CASE a = p
    BY <1>5, <2>1, <2>2
  <2>3. CASE a = n
    BY <1>5, <2>1, <2>3
  <2>4. CASE a # p /\ a # n
    BY <2>1, <2>4
  <2>5. QED
    BY <1>5, <2>2, <2>3, <2>4
<1>8. \A a \in DOMAIN block : block[a] \in Links(block)
  BY DEF RingOK
<1>9. merged = [a \in DOMAIN merged |-> merged[a]]
  BY DEF Absorb
<1> HIDE DEF merged
<1>10. /\ merged[p].size = block[p].size + block[q].size /\ merged[p].used = block[p].used
       /\ merged[p].next = n /\ merged[p].prev = block[p].prev
  <2>1. merged[p] = [block[p] EXCEPT !.size = @ + block[q].size, !.next = n]
    BY <1>5, <1>6, <1>7
  <2>2. QED
    BY <1>8, <2>1 DEF Links
<1>11. ASSUME NEW a \in DOMAIN block \ {p, q}
       PROVE  /\ merged[a].size = block[a].size /\ merged[a].used = block[a].used
              /\ merged[a].next = block[a].next
              /\ merged[a].prev = IF a = n THEN p ELSE block[a].prev
  <2>1. merged[a] = IF a = n THEN [block[a] EXCEPT !.prev = p] ELSE block[a]
    BY <1>6, <1>7
  <2>2. QED
    BY <1>8, <2>1 DEF Links
<1>12. \A a \in DOMAIN block :
           /\ block[a].next \in DOMAIN block /\ block[a].prev \in DOMAIN block
           /\ block[block[a].next].prev = a /\ block[block[a].prev].next = a
           /\ block[a].size \in Nat /\ block[a].used \in BOOLEAN
  BY RingFacts
<1>13. \A a \in DOMAIN block \ {p, q} : block[a].next # q /\ (a # n => block[a].prev # q)
  BY <1>2, <1>3, <1>4, <1>12
<1>14. block[p].prev # q
  BY <1>1, <1>2, <1>3, <1>4
<1>15. merged \in [DOMAIN merged -> Links(merged)]
  <2>1. ASSUME NEW a \in DOMAIN merged PROVE merged[a] \in Links(merged)
    <3>1. CASE a = p
      <4>1. merged[a] = [block[p] EXCEPT !.size = @ + block[q].size, !.next = n]
        BY <1>7, <3>1
      <4>2. /\ n \in DOMAIN merged /\ block[p].prev \in DOMAIN merged
            /\ block[p].size + block[q].size \in Nat
        BY <1>1, <1>2, <1>3, <1>5, <1>6, <1>14
      <4>3. QED
        BY <1>8, <4>1, <4>2 DEF Links
    <3>2. CASE a # p
      <4>1. a \in DOMAIN block \ {p, q}
        BY <1>6, <2>1, <3>2
      <4>2. merged[a] = IF a = n THEN [block[a] EXCEPT !.prev = p] ELSE block[a]
        BY <1>7, <3>2
      <4>3. block[a].next \in DOMAIN merged /\ p \in DOMAIN merged
            /\ (a # n => block[a].prev \in DOMAIN merged)
        BY <1>5, <1>6, <1>12, <1>13, <4>1
      <4>4. QED
        BY <1>8, <4>1, <4>2, <4>3 DEF Links
    <3>3. QED
      BY <3>1, <3>2
  <2>2. QED
    BY <1>9, <2>1
<1>16. ASSUME NEW a \in DOMAIN merged
       PROVE  merged[merged[a].next].prev = a /\ merged[merged[a].prev].next = a
  <2>1. CASE a = p
    <3>1. n \in DOMAIN block \ {p, q}
      BY <1>2, <1>5
    <3>2. merged[n].prev = p
      BY <1>11, <3>1
    <3>3. block[p].prev \in DOMAIN block \ {p, q}
      BY <1>3, <1>4, <1>5, <1>14
    <3>4. merged[block[p].prev].next = p
      BY <1>3, <1>11, <3>3
    <3>5. QED
      BY <1>10, <2>1, <3>2, <3>4
  <2>2. CASE a # p
    <3>1. a \in DOMAIN block \ {p, q}
      BY <1>6, <2>2
    <3>2. merged[merged[a].next].prev = a
      <4>1. block[a].next \in DOMAIN block /\ block[block[a].next].prev = a /\ block[a].next # q
        BY <1>12, <1>13, <3>1
      <4>2. block[a].next # n
        BY <1>3, <3>1, <4>1
      <4>3. CASE block[a].next = p
        BY <1>10, <1>11, <3>1, <4>1, <4>3
      <4>4. CASE block[a].next # p
        <5>1. merged[block[a].next].prev = block[block[a].next].prev
          BY <1>11, <4>1, <4>2, <4>4
        <5>2. QED
          BY <1>11, <3>1, <4>1, <5>1
      <4>5. QED
        BY <4>3, <4>4
    <3>3. merged[merged[a].prev].next = a
      <4>1. CASE a = n
        BY <1>10, <1>11, <3>1, <4>1
      <4>2. CASE a # n
        <5>1. block[a].prev \in DOMAIN block /\ block[block[a].prev].next = a /\ block[a].prev # q
          BY <1>12, <1>13, <3>1, <4>2
        <5>2. block[a].prev # p
          BY <1>4, <3>1, <5>1
        <5>3. merged[block[a].prev].next = block[block[a].prev].next
          BY <1>11, <5>1, <5>2
        <5>4. QED
          BY <1>11, <3>1, <4>2, <5>1, <5>3
      <4>3. QED
        BY <4>1, <4>2
    <3>4. QED
      BY <3>2, <3>3
  <2>3. QED
    BY <2>1, <2>2
<1>17. ASSUME NEW a \in DOMAIN merged \ {Cap}
       PROVE  /\ merged[a].size > 0 /\ merged[a].next = a + merged[a].size
              /\ \A c \in DOMAIN merged : c <= a \/ merged[a].next <= c
  <2>1. CASE a = p
    <3>1. merged[p].size > 0 /\ merged[p].next = p + merged[p].size
      BY <1>1, <1>2, <1>10
    <3>2. ASSUME NEW c \in DOMAIN merged PROVE c <= p \/ n <= c
      BY <1>1, <1>2, <1>6
    <3>3. QED
      BY <1>10, <2>1, <3>1, <3>2
  <2>2. CASE a # p
    <3>1. a \in DOMAIN block \ {p, q} /\ a # Cap
      BY <1>6, <2>2
    <3>2. /\ block[a].size > 0 /\ block[a].next = a + block[a].size
          /\ \A c \in DOMAIN block : c <= a \/ block[a].next <= c
      BY <3>1, RingFacts
    <3>3. QED
      BY <1>6, <1>11, <3>1, <3>2
  <2>3. QED
    BY <2>1, <2>2
<1>18. DOMAIN merged \subseteq 0 .. Cap /\ {0, Cap} \subseteq DOMAIN merged
  BY <1>1, <1>2, <1>6
<1>19. merged[Cap].used = block[Cap].used /\ merged[Cap].size = block[Cap].size
       /\ merged[Cap].next = block[Cap].next
  BY <1>1, <1>2, <1>11
<1>20. block[Cap].used /\ block[Cap].size = 0 /\ block[Cap].next = 0
  BY DEF RingOK
<1>21. RingOK(merged)
  BY <1>15, <1>16, <1>17, <1>18, <1>19, <1>20 DEF RingOK
<1>22. IsJoin(block, p, q, merged)
  BY <1>1, <1>2, <1>5, <1>6, <1>10, <1>11, <1>21 DEF IsJoin, n
<1>23. QED
  BY <1>22 DEF merged, q

-----------------------------------------------------------------------------
(* The memory in use *)

\* A block's memory lies within the zone, and as much of it as the block's size.
LEMMA ExtentFacts ==
    ASSUME NEW block, RingOK(block), NEW a \in DOMAIN block \ {Cap}
    PROVE  LET x == <<a, block[a].size>>
           IN  /\ Extent(x) = a .. block[a].next - 1 /\ Extent(x) \subseteq 0 .. Cap - 1
               /\ IsFiniteSet(Extent(x)) /\ Cardinality(Extent(x)) = block[a].size
<1> DEFINE x == <<a, block[a].size>>
<1>1. /\ Cap \in Nat /\ a \in Nat /\ block[a].size \in Nat /\ block[a].size > 0
      /\ block[a].next = a + block[a].size
      /\ block[a].next \in DOMAIN block
  BY RingFacts
<1>2. block[a].next \in 0 .. Cap
  BY <1>1, RingFacts
<1>3. Extent(x) = a .. a + block[a].size - 1
  BY DEF Extent
<1>4. /\ IsFiniteSet(a .. a + block[a].size - 1)
      /\ Cardinality(a .. a + block[a].size - 1) = block[a].size
  <2> DEFINE end == a + block[a].size - 1
  <2>1. a \in Int /\ end \in Int /\ ~(a > end) /\ end - a + 1 = block[a].size
    BY <1>1
  <2> HIDE DEF end
  <2>2. IsFiniteSet(a .. end) /\ Cardinality(a .. end) = end - a + 1
    BY <2>1, FS_Interval
  <2>3. QED
    BY <2>1, <2>2 DEF end
<1>5. a .. a + block[a].size - 1 \subseteq 0 .. Cap - 1
  BY <1>1, <1>2
<1>6. QED
  BY <1>1, <1>3, <1>4, <1>5

\* Different blocks share no memory.
LEMMA ExtentsApart ==
    ASSUME NEW block, RingOK(block),
           NEW a \in DOMAIN block \ {Cap}, NEW b \in DOMAIN block \ {Cap}, a # b
    PROVE  Extent(<<a, block[a].size>>) \cap Extent(<<b, block[b].size>>) = {}
<1>1. /\ Extent(<<a, block[a].size>>) = a .. block[a].next - 1
      /\ Extent(<<b, block[b].size>>) = b .. block[b].next - 1
  BY ExtentFacts
<1>2. /\ a \in Nat /\ b \in Nat
      /\ block[a].next \in DOMAIN block /\ block[b].next \in DOMAIN block
      /\ b <= a \/ block[a].next <= b
      /\ a <= b \/ block[b].next <= a
  BY RingFacts
<1>3. block[a].next \in Nat /\ block[b].next \in Nat
  BY <1>2, RingFacts
<1>4. QED
  BY <1>1, <1>2, <1>3

\* The memory in use is finite.
LEMMA MemoryFinite ==
    ASSUME NEW block, RingOK(block)
    PROVE  /\ Memory(UsedBlocks(block)) \subseteq 0 .. Cap - 1
           /\ IsFiniteSet(Memory(UsedBlocks(block)))
           /\ Cardinality(Memory(UsedBlocks(block))) \in 0 .. Cap
<1>1. Memory(UsedBlocks(block)) \subseteq 0 .. Cap - 1
  <2>1. \A x \in UsedBlocks(block) : Extent(x) \subseteq 0 .. Cap - 1
    BY ExtentFacts DEF UsedBlocks
  <2>2. QED
    BY <2>1 DEF Memory
<1>2. IsFiniteSet(0 .. Cap - 1) /\ Cardinality(0 .. Cap - 1) = Cap
  <2>1. Cap \in Nat \ {0}
    BY RingFacts
  <2>2. 0 \in Int /\ Cap - 1 \in Int /\ ~(0 > Cap - 1)
    BY <2>1
  <2>3. Cardinality(0 .. Cap - 1) = (Cap - 1) - 0 + 1
    BY <2>2, FS_Interval
  <2>4. QED
    BY <2>1, <2>2, <2>3, FS_Interval
<1>3. /\ IsFiniteSet(Memory(UsedBlocks(block)))
      /\ Cardinality(Memory(UsedBlocks(block))) <= Cap
  BY <1>1, <1>2, FS_Subset
<1>4. QED
  BY <1>1, <1>3, FS_CardinalityType, RingFacts

\* When a free block comes into use, as much more memory is in use.
Differ(free, c, taken) ==
    /\ DOMAIN taken = DOMAIN free
    /\ \A a \in DOMAIN free : /\ taken[a].size = free[a].size
                              /\ taken[a].used = IF a = c THEN TRUE ELSE free[a].used

More(free, c, taken) ==
    /\ UsedBlocks(taken) = UsedBlocks(free) \cup {<<c, free[c].size>>}
    /\ \A x \in UsedBlocks(free) : x[1] # c
    /\ Cardinality(Memory(UsedBlocks(taken)))
           = Cardinality(Memory(UsedBlocks(free))) + free[c].size

\* The memory in use grows by what is taken.
LEMMA UsedGain ==
    ASSUME NEW free, RingOK(free), NEW c \in DOMAIN free \ {Cap}, ~free[c].used,
           NEW taken, Differ(free, c, taken)
    PROVE  More(free, c, taken)
<1> DEFINE x == <<c, free[c].size>>
           U == UsedBlocks(free)
<1>1. UsedBlocks(taken) = U \cup {x}
  BY DEF UsedBlocks, Differ
<1>2. \A y \in U : y[1] # c
  BY DEF UsedBlocks
<1>3. Memory(UsedBlocks(taken)) = Memory(U) \cup Extent(x)
  <2> HIDE DEF x, U
  <2>1. QED
    BY <1>1 DEF Memory
<1>4. Memory(U) \cap Extent(x) = {}
  <2>1. ASSUME NEW y \in U PROVE Extent(y) \cap Extent(x) = {}
    <3>1. PICK a \in DOMAIN free \ {Cap} : free[a].used /\ y = <<a, free[a].size>>
      BY DEF UsedBlocks
    <3>2. a # c
      BY <3>1
    <3>3. QED
      BY <3>1, <3>2, ExtentsApart
  <2> HIDE DEF x, U
  <2>2. QED
    BY <2>1 DEF Memory
<1>5. /\ IsFiniteSet(Memory(U)) /\ IsFiniteSet(Extent(x)) /\ Cardinality(Extent(x)) = free[c].size
      /\ Cardinality(Memory(U)) \in Nat /\ free[c].size \in Nat
  BY MemoryFinite, ExtentFacts, FS_CardinalityType, RingFacts
<1>6. Cardinality(Memory(U) \cup Extent(x)) = Cardinality(Memory(U)) + free[c].size - 0
  <2> HIDE DEF x, U
  <2>1. Cardinality(Memory(U) \cup Extent(x)) = Cardinality(Memory(U)) + Cardinality(Extent(x))
                                                 - Cardinality(Memory(U) \cap Extent(x))
    BY <1>5, FS_Union
  <2>2. Cardinality(Memory(U) \cap Extent(x)) = 0
    BY <1>4, FS_EmptySet
  <2>3. QED
    BY <1>5, <2>1, <2>2
<1>7. Cardinality(Memory(UsedBlocks(taken))) = Cardinality(Memory(U)) + free[c].size
  <2> HIDE DEF x, U
  <2>1. QED
    BY <1>3, <1>5, <1>6
<1>8. QED
  BY <1>1, <1>2, <1>7 DEF More

\* Cutting up and merging free blocks changes nothing of what is in use.
LEMMA SplitFree ==
    ASSUME NEW block, NEW b \in DOMAIN block \ {Cap}, ~block[b].used,
           NEW size, NEW cut, IsCut(block, b, size, cut)
    PROVE  UsedBlocks(cut) = UsedBlocks(block)
<1> DEFINE p == b + size
<1>1. /\ DOMAIN cut = DOMAIN block \cup {p} /\ p \notin DOMAIN block
      /\ cut[b].used = block[b].used /\ cut[p].used = FALSE
      /\ \A a \in DOMAIN block \ {b} : cut[a].size = block[a].size /\ cut[a].used = block[a].used
  BY DEF IsCut
<1> HIDE DEF p
<1>2. QED
  BY <1>1 DEF UsedBlocks

\* Two free blocks that become one change nothing of what is in use.
LEMMA AbsorbFree ==
    ASSUME NEW block, NEW p \in DOMAIN block \ {Cap}, NEW q, ~block[p].used, ~block[q].used,
           NEW joined, IsJoin(block, p, q, joined)
    PROVE  UsedBlocks(joined) = UsedBlocks(block)
<1>1. /\ DOMAIN joined = DOMAIN block \ {q} /\ p # q
      /\ joined[p].used = block[p].used
      /\ \A a \in DOMAIN block \ {p, q} :
            joined[a].size = block[a].size /\ joined[a].used = block[a].used
  BY DEF IsJoin
<1>2. QED
  BY <1>1 DEF UsedBlocks

-----------------------------------------------------------------------------
(* Taking and freeing a block *)

\* What the zone's invariant says.
LEMMA ZoneFacts ==
    ASSUME NEW z, ZoneOK(z)
    PROVE  /\ RingOK(z.block) /\ Merged(z.block) /\ z.rover \in DOMAIN z.block
           /\ z.used = Cardinality(Memory(UsedBlocks(z.block)))
           /\ z.used \in 0 .. Cap
<1>1. RingOK(z.block) /\ Merged(z.block) /\ z.rover \in DOMAIN z.block
      /\ z.used = Cardinality(Memory(UsedBlocks(z.block)))
  BY DEF ZoneOK
<1>2. QED
  BY <1>1, MemoryFinite

\* The zone when its parts are as they should be.
LEMMA ZoneIsOK ==
    ASSUME NEW block, RingOK(block), Merged(block), NEW rover \in DOMAIN block,
           NEW used, used = Cardinality(Memory(UsedBlocks(block)))
    PROVE  ZoneOK([block |-> block, rover |-> rover, used |-> used])
<1>1. used \in Nat
  BY MemoryFinite
<1>2. QED
  BY <1>1 DEF ZoneOK

\* What is taken is a free block's memory, enough of it, and all else in use stays
\* as it is.
Took(z, after, base, size) ==
    /\ ZoneOK(after)
    /\ UsedBlocks(after.block) = UsedBlocks(z.block) \cup {<<base, size>>}
    /\ \A x \in UsedBlocks(z.block) : x[1] # base
    /\ size \in Nat \ {0}

\* Take does that.
LEMMA TakeKeepsZone ==
    ASSUME ZoneOK(zone), NEW base \in DOMAIN zone.block, ~zone.block[base].used,
           scan.size \in Nat \ {0}, zone.block[base].size >= scan.size, Take(base)
    PROVE  \E size \in Nat \ {0} :
              /\ Took(zone, zone', base, size)
              /\ live' = [live EXCEPT ![scan.pointer] =
                             [place |-> "zone", from |-> base, size |-> size,
                              use |-> scan.use, kept |-> FALSE]]
              /\ scan' = Idle
<1> DEFINE block == zone.block
           larger == block[base].size - scan.size > MINFRAGMENT
           fitted == IF larger THEN Split(block, base, scan.size) ELSE block
           taken == [fitted EXCEPT ![base].used = TRUE]
           size == fitted[base].size
<1>1. /\ RingOK(block) /\ Merged(block) /\ zone.used = Cardinality(Memory(UsedBlocks(block)))
      /\ zone.used \in 0 .. Cap
  BY ZoneFacts
<1>2. base # Cap /\ block[base].size \in Nat /\ block[block[base].next].used
      /\ block[base].next \in DOMAIN block
  BY <1>1, RingFacts DEF Merged
<1>3. larger => IsCut(block, base, scan.size, Split(block, base, scan.size))
  <2>1. larger => scan.size \in Nat /\ 0 < scan.size /\ scan.size < block[base].size
    BY <1>2, ZoneAssumption
  <2>2. QED
    BY <1>1, <1>2, <2>1, RingSplit
<1>4. /\ RingOK(fitted) /\ base \in DOMAIN fitted /\ ~fitted[base].used
      /\ UsedBlocks(fitted) = UsedBlocks(block)
      /\ \A a \in DOMAIN fitted \ {base} :
            fitted[a].used \/ fitted[fitted[a].next].used \/ fitted[a].next = base
  <2>1. CASE larger
    <3> DEFINE cut == Split(block, base, scan.size)
               p == base + scan.size
               n == block[base].next
    <3>1. IsCut(block, base, scan.size, cut)
      BY <1>3, <2>1
    <3>2. fitted = cut
      BY <2>1
    <3>3. ~block[base].used /\ block[n].used
      BY <1>2
    <3>4. \A a \in DOMAIN block : block[a].next \in DOMAIN block
      BY <1>1, RingFacts
    <3>5. \A a \in DOMAIN block : block[a].used \/ block[block[a].next].used
      BY <1>1 DEF Merged
    <3> HIDE DEF cut, fitted, n, block
    <3>6. UsedBlocks(cut) = UsedBlocks(block)
      BY <1>2, <3>1, <3>3, SplitFree DEF block
    <3>7. n # base /\ n \in DOMAIN block /\ block[base].next = n
      BY <1>2, <3>3 DEF n
    <3>8. /\ RingOK(cut) /\ DOMAIN cut = DOMAIN block \cup {p} /\ p \notin DOMAIN block
          /\ cut[base].used = block[base].used
          /\ cut[p].next = n
          /\ \A a \in DOMAIN block \ {base} :
                cut[a].used = block[a].used /\ cut[a].next = block[a].next
      BY <3>1, <3>7 DEF IsCut
    <3> HIDE DEF p
    <3>9. ASSUME NEW a \in DOMAIN cut \ {base}
          PROVE  cut[a].used \/ cut[cut[a].next].used \/ cut[a].next = base
      <4>1. CASE a = p
        <5>1. cut[n].used = block[n].used
          BY <3>7, <3>8
        <5>2. QED
          BY <3>3, <3>8, <4>1, <5>1
      <4>2. CASE a # p
        <5>1. a \in DOMAIN block \ {base}
          BY <3>8, <4>2
        <5>2. cut[a].used = block[a].used /\ cut[a].next = block[a].next
          BY <3>8, <5>1
        <5>3. block[a].next # base => cut[block[a].next].used = block[block[a].next].used
          BY <3>4, <3>8, <5>1
        <5>4. QED
          BY <3>5, <5>1, <5>2, <5>3
      <4>3. QED
        BY <4>1, <4>2
    <3>10. base \in DOMAIN block
      BY DEF block
    <3>11. QED
      BY <3>2, <3>3, <3>6, <3>8, <3>9, <3>10
  <2>2. CASE ~larger
    <3>1. fitted = block
      BY <2>2
    <3>2. QED
      BY <1>1, <3>1 DEF Merged
  <2>3. QED
    BY <2>1, <2>2
<1>5. zone' = [block |-> taken, rover |-> fitted[base].next, used |-> zone.used + size]
  BY DEF Take
<1>6. /\ live' = [live EXCEPT ![scan.pointer] = [place |-> "zone", from |-> base, size |-> size,
                                                use |-> scan.use, kept |-> FALSE]]
      /\ scan' = Idle
  BY DEF Take
<1> HIDE DEF fitted
<1>7. base \in DOMAIN fitted \ {Cap}
  BY <1>2, <1>4
<1>8. /\ RingOK(taken) /\ DOMAIN taken = DOMAIN fitted
      /\ \A a \in DOMAIN fitted :
            /\ taken[a].size = fitted[a].size /\ taken[a].next = fitted[a].next
            /\ taken[a].prev = fitted[a].prev
            /\ taken[a].used = IF a = base THEN TRUE ELSE fitted[a].used
  <2>1. IsUse(fitted, base, TRUE, taken)
    BY <1>4, <1>7, RingUse
  <2>2. QED
    BY <2>1 DEF IsUse
<1>9. \A a \in DOMAIN fitted : fitted[a].next \in DOMAIN fitted
  BY <1>4, RingFacts
<1>10. fitted[base].size \in Nat /\ fitted[base].size > 0
  BY <1>4, <1>7, RingFacts
<1> HIDE DEF taken
<1>11. Merged(taken)
  <2>1. ASSUME NEW a \in DOMAIN fitted PROVE taken[a].used \/ taken[taken[a].next].used
    <3>1. CASE a = base
      BY <1>8, <3>1
    <3>2. CASE a # base
      <4>1. fitted[a].used \/ fitted[fitted[a].next].used \/ fitted[a].next = base
        BY <1>4, <3>2
      <4>2. /\ taken[a].used = fitted[a].used /\ taken[a].next = fitted[a].next
            /\ taken[fitted[a].next].used
                   = IF fitted[a].next = base THEN TRUE ELSE fitted[fitted[a].next].used
        BY <1>8, <1>9, <3>2
      <4>3. QED
        BY <4>1, <4>2
    <3>3. QED
      BY <3>1, <3>2
  <2>2. QED
    BY <1>8, <2>1 DEF Merged
<1>12. /\ UsedBlocks(taken) = UsedBlocks(fitted) \cup {<<base, size>>}
       /\ \A x \in UsedBlocks(fitted) : x[1] # base
       /\ Cardinality(Memory(UsedBlocks(taken))) = Cardinality(Memory(UsedBlocks(fitted))) + size
  <2>1. Differ(fitted, base, taken)
    BY <1>8 DEF Differ
  <2>2. More(fitted, base, taken)
    BY <1>4, <1>7, <2>1, UsedGain
  <2>3. QED
    BY <2>2 DEF More
<1>13. zone.used + size = Cardinality(Memory(UsedBlocks(taken)))
  BY <1>1, <1>4, <1>12
<1>14. ZoneOK(zone') /\ zone'.block = taken
  BY <1>5, <1>8, <1>9, <1>7, <1>11, <1>13, ZoneIsOK
<1>15. Took(zone, zone', base, size) /\ size \in Nat \ {0}
  BY <1>4, <1>10, <1>12, <1>14 DEF Took
<1> HIDE DEF size
<1>16. QED
  BY <1>6, <1>15

\* All that may be wrong with the ring is that block c is free and so is the one
\* after it.
Settled(block, c) == \A a \in DOMAIN block \ {c} : block[a].used \/ block[block[a].next].used

\* A free block c takes in the next one if that is free, and nothing is wrong.
LEMMA MergeForward ==
    ASSUME NEW block, RingOK(block), NEW c \in DOMAIN block, ~block[c].used, Settled(block, c)
    PROVE  LET after == block[c].next
               joined == IF block[after].used THEN block ELSE Absorb(block, c, after)
           IN  /\ RingOK(joined) /\ Merged(joined) /\ c \in DOMAIN joined
               /\ UsedBlocks(joined) = UsedBlocks(block)
<1> DEFINE after == block[c].next
           absorbed == Absorb(block, c, after)
<1>1. CASE block[after].used
  BY <1>1 DEF Settled, Merged
<1>2. CASE ~block[after].used
  <2>1. c \in DOMAIN block \ {Cap} /\ after # Cap
    BY <1>2, RingFacts
  <2>2. IsJoin(block, c, after, absorbed)
    BY <2>1, RingAbsorb
  <2>3. \A a \in DOMAIN block : block[a].next \in DOMAIN block
    BY RingFacts
  <2> HIDE DEF after, absorbed
  <2>4. UsedBlocks(absorbed) = UsedBlocks(block)
    BY <1>2, <2>1, <2>2, AbsorbFree
  <2>5. /\ RingOK(absorbed) /\ DOMAIN absorbed = DOMAIN block \ {after}
        /\ c # after /\ after \in DOMAIN block
        /\ absorbed[c].next = block[after].next
        /\ \A a \in DOMAIN block \ {c, after} :
              absorbed[a].used = block[a].used /\ absorbed[a].next = block[a].next
    BY <2>2 DEF IsJoin
  <2>6. \A a \in DOMAIN block \ {c} : block[a].used \/ block[block[a].next].used
    BY DEF Settled
  <2>7. ASSUME NEW a \in DOMAIN absorbed PROVE absorbed[a].used \/ absorbed[absorbed[a].next].used
    <3>1. CASE a = c
      <4>1. block[block[after].next].used
        BY <1>2, <2>5, <2>6
      <4>2. block[after].next \in DOMAIN block \ {c, after}
        BY <1>2, <2>3, <2>5, <4>1
      <4>3. QED
        BY <2>5, <3>1, <4>1, <4>2
    <3>2. CASE a # c
      <4>1. a \in DOMAIN block \ {c, after}
        BY <2>5, <3>2
      <4>2. CASE block[a].used
        BY <2>5, <4>1, <4>2
      <4>3. CASE ~block[a].used
        <5>1. block[block[a].next].used
          BY <2>6, <4>1, <4>3
        <5>2. block[a].next \in DOMAIN block \ {c, after}
          BY <1>2, <2>3, <4>1, <5>1
        <5>3. QED
          BY <2>5, <4>1, <5>1, <5>2
      <4>4. QED
        BY <4>2, <4>3
    <3>3. QED
      BY <3>1, <3>2
  <2>8. Merged(absorbed) /\ c \in DOMAIN absorbed
    BY <2>5, <2>7 DEF Merged
  <2>9. QED
    BY <1>2, <2>4, <2>5, <2>8 DEF after, absorbed
<1>3. QED
  BY <1>1, <1>2

\* A block that was just freed becomes part of the one before it if that is free.
LEMMA MergeBackward ==
    ASSUME NEW block, RingOK(block), NEW b \in DOMAIN block \ {Cap}, ~block[b].used,
           \A a \in DOMAIN block :
               block[a].used \/ block[block[a].next].used \/ a = b \/ block[a].next = b
    PROVE  LET before == block[b].prev
               joined == IF block[before].used THEN block ELSE Absorb(block, before, b)
               kept == IF block[before].used THEN b ELSE before
           IN  /\ RingOK(joined) /\ kept \in DOMAIN joined /\ ~joined[kept].used
               /\ Settled(joined, kept)
               /\ UsedBlocks(joined) = UsedBlocks(block)
<1> DEFINE before == block[b].prev
           absorbed == Absorb(block, before, b)
<1>1. before \in DOMAIN block /\ block[before].next = b
      /\ \A a \in DOMAIN block : block[block[a].next].prev = a
  BY RingFacts
<1> HIDE DEF before
<1>2. \A a \in DOMAIN block : block[a].next = b => a = before
  BY <1>1 DEF before
<1>3. CASE block[before].used
  <2>1. Settled(block, b)
    BY <1>2, <1>3 DEF Settled
  <2>2. QED
    BY <1>3, <2>1 DEF before
<1>4. CASE ~block[before].used
  <2>1. before \in DOMAIN block \ {Cap} /\ b # Cap
    BY <1>1, <1>4, RingFacts
  <2>2. IsJoin(block, before, b, absorbed)
    BY <1>1, <2>1, RingAbsorb
  <2> HIDE DEF absorbed
  <2>3. UsedBlocks(absorbed) = UsedBlocks(block)
    BY <1>4, <2>1, <2>2, AbsorbFree
  <2>4. /\ RingOK(absorbed) /\ DOMAIN absorbed = DOMAIN block \ {b}
        /\ before # b
        /\ absorbed[before].used = block[before].used
        /\ \A a \in DOMAIN block \ {before, b} :
              absorbed[a].used = block[a].used /\ absorbed[a].next = block[a].next
    BY <2>2 DEF IsJoin
  <2>5. \A a \in DOMAIN block : block[a].next \in DOMAIN block
    BY RingFacts
  <2>6. ASSUME NEW a \in DOMAIN absorbed \ {before}
        PROVE  absorbed[a].used \/ absorbed[absorbed[a].next].used
    <3>1. a \in DOMAIN block \ {before, b}
      BY <2>4
    <3>2. CASE block[a].used
      BY <2>4, <3>1, <3>2
    <3>3. CASE ~block[a].used
      <4>1. block[block[a].next].used
        BY <1>2, <3>1, <3>3
      <4>2. block[a].next \in DOMAIN block \ {before, b}
        BY <1>4, <2>5, <3>1, <4>1
      <4>3. QED
        BY <2>4, <3>1, <4>1, <4>2
    <3>4. QED
      BY <3>2, <3>3
  <2>7. Settled(absorbed, before)
    BY <2>6 DEF Settled
  <2>8. before \in DOMAIN absorbed
    BY <1>1, <2>4
  <2>9. QED
    BY <1>4, <2>3, <2>4, <2>7, <2>8 DEF before, absorbed
<1>5. QED
  BY <1>3, <1>4

\* Z_Free gives back the block's memory and leaves all else in use as it was.
Gave(z, after, b) ==
    /\ ZoneOK(after)
    /\ UsedBlocks(after.block) = UsedBlocks(z.block) \ {<<b, z.block[b].size>>}
    /\ \A x \in UsedBlocks(after.block) : x[1] # b

\* It does, with either neighbour free or in use.
LEMMA FreeKeepsZone ==
    ASSUME ZoneOK(zone), NEW b \in DOMAIN zone.block \ {Cap}, zone.block[b].used, Z_Free(b)
    PROVE  Gave(zone, zone', b)
<1> DEFINE block == zone.block
           freed == [block EXCEPT ![b].used = FALSE]
           before == freed[b].prev
           merged == IF freed[before].used THEN freed ELSE Absorb(freed, before, b)
           kept == IF freed[before].used THEN b ELSE before
           after == merged[kept].next
           joined == IF merged[after].used THEN merged ELSE Absorb(merged, kept, after)
<1>1. /\ RingOK(block) /\ Merged(block) /\ zone.used = Cardinality(Memory(UsedBlocks(block)))
      /\ zone.used \in 0 .. Cap
  BY ZoneFacts
<1>2. zone' = [block |-> joined, rover |-> kept, used |-> zone.used - block[b].size]
  BY DEF Z_Free
<1>3. b \in DOMAIN block \ {Cap} /\ block[b].used
  OBVIOUS
<1> HIDE DEF block
<1>4. /\ RingOK(freed) /\ DOMAIN freed = DOMAIN block
      /\ \A a \in DOMAIN block :
            /\ freed[a].size = block[a].size /\ freed[a].next = block[a].next
            /\ freed[a].prev = block[a].prev
            /\ freed[a].used = IF a = b THEN FALSE ELSE block[a].used
  <2>1. IsUse(block, b, FALSE, freed)
    BY <1>1, <1>3, RingUse
  <2>2. QED
    BY <2>1 DEF IsUse
<1> HIDE DEF freed
<1>5. \A a \in DOMAIN freed :
          freed[a].used \/ freed[freed[a].next].used \/ a = b \/ freed[a].next = b
  <2>1. \A a \in DOMAIN block : block[a].next \in DOMAIN block
    BY <1>1, RingFacts
  <2>2. \A a \in DOMAIN block : block[a].used \/ block[block[a].next].used
    BY <1>1 DEF Merged
  <2>3. QED
    BY <1>4, <2>1, <2>2
<1>6. /\ RingOK(merged) /\ kept \in DOMAIN merged /\ ~merged[kept].used /\ Settled(merged, kept)
      /\ UsedBlocks(merged) = UsedBlocks(freed)
  BY <1>3, <1>4, <1>5, MergeBackward
<1> HIDE DEF merged, kept
<1>7. /\ RingOK(joined) /\ Merged(joined) /\ kept \in DOMAIN joined
      /\ UsedBlocks(joined) = UsedBlocks(merged)
  BY <1>6, MergeForward
<1> HIDE DEF joined
<1>8. UsedBlocks(joined) = UsedBlocks(freed)
  BY <1>6, <1>7
<1>9. More(freed, b, block)
  <2>1. Differ(freed, b, block)
    BY <1>3, <1>4 DEF Differ
  <2>2. b \in DOMAIN freed \ {Cap} /\ ~freed[b].used
    BY <1>3, <1>4
  <2>3. QED
    BY <1>4, <2>1, <2>2, UsedGain
<1>10. /\ UsedBlocks(block) = UsedBlocks(freed) \cup {<<b, block[b].size>>}
       /\ \A x \in UsedBlocks(freed) : x[1] # b
       /\ Cardinality(Memory(UsedBlocks(block)))
              = Cardinality(Memory(UsedBlocks(freed))) + block[b].size
  BY <1>3, <1>4, <1>9 DEF More
<1>11. Cardinality(Memory(UsedBlocks(freed))) \in Nat /\ block[b].size \in Nat
  BY <1>1, <1>3, <1>4, MemoryFinite, RingFacts
<1>12. zone.used - block[b].size = Cardinality(Memory(UsedBlocks(joined)))
  BY <1>1, <1>8, <1>10, <1>11
<1>13. ZoneOK(zone') /\ zone'.block = joined
  BY <1>2, <1>7, <1>12, ZoneIsOK
<1>14. UsedBlocks(joined) = UsedBlocks(block) \ {<<b, block[b].size>>}
  BY <1>8, <1>10
<1>15. QED
  BY <1>8, <1>10, <1>13, <1>14 DEF Gave, block

-----------------------------------------------------------------------------
(* Round the ring *)

\* What the scan has come by: one block, then another, and when it is at the block
\* before the one it began with, all of them.
LEMMA PassedRound ==
    ASSUME NEW block, RingOK(block), NEW a \in DOMAIN block, NEW b \in DOMAIN block
    PROVE  /\ Passed(block, a, a) = {a}
           /\ block[b].next # a => Passed(block, a, block[b].next)
                                       = Passed(block, a, b) \cup {block[b].next}
           /\ Passed(block, a, block[a].prev) = DOMAIN block
           /\ block[a].prev # a
<1>1. /\ Cap \in Nat \ {0} /\ 0 \in DOMAIN block /\ block[Cap].next = 0
      /\ \A c \in DOMAIN block : c \in Nat /\ c <= Cap
      /\ \A c \in DOMAIN block \ {Cap} : block[c].next > c /\ block[c].next \in Nat
      /\ \A c \in DOMAIN block \ {Cap} : \A d \in DOMAIN block : d <= c \/ block[c].next <= d
  <2>1. ASSUME NEW c \in DOMAIN block \ {Cap}
        PROVE  /\ block[c].next > c /\ block[c].next \in Nat
               /\ \A d \in DOMAIN block : d <= c \/ block[c].next <= d
    <3>1. /\ block[c].size \in Nat /\ block[c].size > 0 /\ block[c].next = c + block[c].size
          /\ c \in Nat
          /\ \A d \in DOMAIN block : d <= c \/ block[c].next <= d
      BY RingFacts
    <3>2. QED
      BY <3>1
  <2>2. Cap \in Nat \ {0} /\ 0 \in DOMAIN block /\ block[Cap].next = 0
    BY RingFacts
  <2>3. \A c \in DOMAIN block : c \in Nat /\ c <= Cap
    BY RingFacts
  <2>4. QED
    BY <2>1, <2>2, <2>3
<1>2. Passed(block, a, a) = {a}
  BY <1>1 DEF Passed
<1>3. ASSUME block[b].next # a
      PROVE  Passed(block, a, block[b].next) = Passed(block, a, b) \cup {block[b].next}
  <2>1. block[b].next \in DOMAIN block
    BY RingFacts
  <2>2. CASE b = Cap
    BY <1>1, <1>3, <2>1, <2>2 DEF Passed
  <2>3. CASE b # Cap
    <3> DEFINE n == block[b].next
    <3>1. /\ n \in DOMAIN block /\ n > b /\ n \in Nat /\ b \in Nat /\ a \in Nat
          /\ a <= b \/ n < a
          /\ \A c \in DOMAIN block : c \in Nat /\ (c <= b \/ n <= c)
      BY <1>1, <1>3, <2>1, <2>3
    <3> HIDE DEF n
    <3>2. Passed(block, a, n) = Passed(block, a, b) \cup {n}
      BY <3>1 DEF Passed
    <3>3. QED
      BY <3>2 DEF n
  <2>4. QED
    BY <2>2, <2>3
<1>4. block[a].prev # a /\ Passed(block, a, block[a].prev) = DOMAIN block
  <2> DEFINE p == block[a].prev
  <2>1. p \in DOMAIN block /\ block[p].next = a
    BY RingFacts
  <2> HIDE DEF p
  <2>2. CASE p = Cap
    BY <1>1, <2>1, <2>2 DEF Passed, p
  <2>3. CASE p # Cap
    <3>1. /\ a > p /\ a \in Nat /\ p \in Nat
          /\ \A c \in DOMAIN block : c \in Nat /\ (c <= p \/ a <= c)
      BY <1>1, <2>1, <2>3
    <3>2. Passed(block, a, p) = DOMAIN block
      BY <3>1 DEF Passed
    <3>3. QED
      BY <3>1, <3>2 DEF p
  <2>4. QED
    BY <2>2, <2>3
<1>5. QED
  BY <1>2, <1>3, <1>4

\* A turn of the loop takes a block that is free and large enough, or has come by
\* one more that is of no use.
LEMMA TurnOfScan ==
    ASSUME ZoneOK(zone), ScanOK(zone, scan), ScanTurn
    PROVE  \/ /\ ScanOK(zone, scan')
              /\ scan' # Idle /\ scan'.pointer = scan.pointer /\ scan'.use = scan.use
              /\ UNCHANGED <<zone, live>>
           \/ \E base \in DOMAIN zone.block :
                 /\ ~zone.block[base].used /\ zone.block[base].size >= scan.size
                 /\ Take(base)
<1> DEFINE block == zone.block
           a == zone.rover
           r == scan.rover
           next == block[r].next
           base == IF block[r].used THEN next ELSE scan.base
<1>1. RingOK(block) /\ Merged(block) /\ a \in DOMAIN block
  BY ZoneFacts
<1>2. scan # Idle /\ r # scan.start
  BY DEF ScanTurn
<1>3. /\ scan \in ScanRecord(zone)
      /\ scan.start = block[a].prev
      /\ \/ r = a /\ scan.base = r
         \/ \A b \in Passed(block, a, r) : Unfit(block, scan.size, b)
  BY <1>2 DEF ScanOK
<1>4. r \in DOMAIN block /\ scan.base \in DOMAIN block /\ scan.size \in Nat \ {0}
  BY <1>3 DEF ScanRecord
<1>5. /\ next \in DOMAIN block /\ block[next].prev = r /\ base \in DOMAIN block
      /\ \A b \in DOMAIN block : block[b].size \in Nat
  <2>1. \A b \in DOMAIN block : /\ block[b].next \in DOMAIN block /\ block[b].size \in Nat
                                /\ block[block[b].next].prev = b
    BY <1>1, RingFacts
  <2>2. QED
    BY <1>4, <2>1
<1>6. next # a
  BY <1>2, <1>3, <1>5
<1>7. CASE Unfit(block, scan.size, base)
  <2>1. scan' = [scan EXCEPT !.rover = next, !.base = base] /\ UNCHANGED <<zone, live>>
    BY <1>7 DEF ScanTurn, Unfit
  <2>2. \A b \in Passed(block, a, next) : Unfit(block, scan.size, b)
    <3>1. Passed(block, a, next) = Passed(block, a, r) \cup {next} /\ Passed(block, a, a) = {a}
      BY <1>1, <1>4, <1>6, PassedRound
    <3>2. Unfit(block, scan.size, next)
      <4>1. CASE block[r].used
        BY <1>7, <4>1
      <4>2. CASE ~block[r].used
        BY <1>1, <1>4, <4>2 DEF Merged, Unfit
      <4>3. QED
        BY <4>1, <4>2
    <3>3. \A b \in Passed(block, a, r) : Unfit(block, scan.size, b)
      <4>1. CASE r = a /\ scan.base = r
        <5>1. Unfit(block, scan.size, r)
          BY <1>7, <4>1 DEF Unfit
        <5>2. QED
          BY <3>1, <4>1, <5>1
      <4>2. QED
        BY <1>3, <4>1
    <3> HIDE DEF next, block
    <3>4. QED
      BY <3>1, <3>2, <3>3
  <2> HIDE DEF next, base
  <2>3. scan' \in ScanRecord(zone)
    BY <1>3, <1>5, <2>1 DEF ScanRecord
  <2>4. /\ scan'.rover = next /\ scan'.start = scan.start /\ scan'.size = scan.size
        /\ scan'.pointer = scan.pointer /\ scan'.use = scan.use
    BY <1>3, <2>1 DEF ScanRecord
  <2>5. scan' # Idle
    <3>1. scan'.rover = next /\ DOMAIN scan' = {"pointer", "size", "use", "base", "rover", "start"}
      BY <2>3, <2>4 DEF ScanRecord
    <3>2. DOMAIN Idle = {"size"}
      BY DEF Idle
    <3>3. QED
      BY <3>1, <3>2
  <2>6. ScanOK(zone, scan')
    BY <1>3, <2>2, <2>3, <2>4 DEF ScanOK
  <2>7. QED
    BY <2>1, <2>4, <2>5, <2>6
<1>8. CASE ~Unfit(block, scan.size, base)
  <2>1. ~block[base].used /\ ~(block[base].size < scan.size)
    BY <1>8 DEF Unfit
  <2>2. Take(base)
    BY <2>1 DEF ScanTurn
  <2> HIDE DEF base
  <2>3. QED
    BY <1>4, <1>5, <2>1, <2>2
<1>9. QED
  BY <1>7, <1>8

\* When it ends without success, it has come by all blocks.
LEMMA ScanEnds ==
    ASSUME ZoneOK(zone), ScanOK(zone, scan), OutOfMemory
    PROVE  \A b \in DOMAIN zone.block : Unfit(zone.block, scan.size, b)
<1> DEFINE block == zone.block
           a == zone.rover
<1>1. RingOK(block) /\ a \in DOMAIN block
  BY ZoneFacts
<1>2. /\ scan.rover = block[a].prev
      /\ \/ scan.rover = a
         \/ \A b \in Passed(block, a, scan.rover) : Unfit(block, scan.size, b)
  BY DEF ScanOK, OutOfMemory
<1>3. Passed(block, a, block[a].prev) = DOMAIN block /\ block[a].prev # a
  BY <1>1, PassedRound
<1>4. QED
  BY <1>2, <1>3

-----------------------------------------------------------------------------
(* Who points to what *)

PointersOK(lv) == lv \in [Pointers -> {NULL} \cup PieceRecord]

\* Nobody has the kinds of memory in a place where it is not.
LEMMA Kinds ==
    ASSUME NEW lv, PointersOK(lv), NEW z, ZoneUsers(z, lv)
    PROVE  /\ \A p \in Pointers : lv[p] = NULL \/ lv[p] \in PieceRecord
           /\ \A r \in PieceRecord : r # NULL
           /\ NULL.use = "none"
           /\ \A p \in Pointers : lv[p] # NULL => p \in In("zone", lv) \/ p \in In("hunk", lv)
           /\ \A p \in Pointers : lv[p].use # "none" => lv[p] # NULL
           /\ Of("scratch", lv) \subseteq In("hunk", lv)
           /\ Of("permanent", lv) \subseteq In("hunk", lv)
           /\ In("zone", lv) \cap In("hunk", lv) = {}
<1>1. \A p \in Pointers : lv[p] = NULL \/ lv[p] \in PieceRecord
  BY DEF PointersOK
<1>2. NULL.use = "none"
  BY DEF NULL
<1>3. \A r \in PieceRecord : r # NULL
  BY <1>2 DEF PieceRecord
<1>4. \A p \in Pointers : lv[p] # NULL => p \in In("zone", lv) \/ p \in In("hunk", lv)
  BY <1>1 DEF In, PieceRecord
<1>5. \A p \in Pointers : lv[p].use # "none" => lv[p] # NULL
  BY <1>2
<1>6. \A p \in In("zone", lv) : lv[p].use \in {"block", "file"}
  BY DEF ZoneUsers
<1>7. Of("scratch", lv) \subseteq In("hunk", lv) /\ Of("permanent", lv) \subseteq In("hunk", lv)
  BY <1>4, <1>5, <1>6 DEF Of
<1>8. In("zone", lv) \cap In("hunk", lv) = {}
  BY DEF In
<1>9. QED
  BY <1>1, <1>2, <1>3, <1>4, <1>5, <1>7, <1>8

\* What changes when memory of the zone comes to a pointer, or goes.
Gained(z, lv, lv2, p, use) ==
    /\ PointersOK(lv2) /\ ZoneUsers(z, lv2)
    /\ In("hunk", lv2) = In("hunk", lv)
    /\ \A q \in Pointers \ {p} : lv2[q] = lv[q]
    /\ lv2[p] # NULL
    /\ \A kind \in {"block", "file", "scratch", "permanent"} :
          Of(kind, lv2) = IF kind = use THEN Of(kind, lv) \cup {p} ELSE Of(kind, lv)

WithPiece(lv, p, base, size, use) ==
    [lv EXCEPT ![p] = [place |-> "zone", from |-> base, size |-> size,
                       use |-> use, kept |-> FALSE]]

\* What Take gives a pointer.
LEMMA ZoneGained ==
    ASSUME NEW lv, PointersOK(lv), NEW z, ZoneUsers(z, lv), NEW z2, NEW base \in Nat, NEW size \in Nat,
           Took(z, z2, base, size), NEW p \in Pointers, lv[p] = NULL, NEW use \in {"block", "file"}
    PROVE  Gained(z2, lv, WithPiece(lv, p, base, size, use), p, use)
<1> DEFINE r == [place |-> "zone", from |-> base, size |-> size, use |-> use, kept |-> FALSE]
           lv2 == [lv EXCEPT ![p] = r]
<1>1. r \in PieceRecord /\ r.use = use /\ r.place = "zone" /\ r.from = base /\ r.size = size
  BY DEF Took, PieceRecord
<1>2. r # NULL /\ NULL.use = "none" /\ (\A q \in Pointers : lv[q] # NULL => lv[q] \in PieceRecord)
  BY <1>1, Kinds
<1> HIDE DEF r
<1>3. lv2 = [q \in Pointers |-> IF q = p THEN r ELSE lv[q]]
  BY DEF PointersOK
<1>4. /\ \A q \in Pointers \ {p} : lv2[q] = lv[q]
      /\ lv2[p] = r
  BY <1>3
<1>5. PointersOK(lv2)
  BY <1>1, <1>3 DEF PointersOK
<1> HIDE DEF lv2
<1>6. In("hunk", lv2) = In("hunk", lv) /\ In("zone", lv2) = In("zone", lv) \cup {p}
  BY <1>1, <1>2, <1>4 DEF In
<1>7. ASSUME NEW kind \in {"block", "file", "scratch", "permanent"}
      PROVE  Of(kind, lv2) = IF kind = use THEN Of(kind, lv) \cup {p} ELSE Of(kind, lv)
  BY <1>1, <1>2, <1>4 DEF Of
<1>8. ZoneUsers(z2, lv2)
  <2>1. p \notin In("zone", lv)
    BY DEF In
  <2>2. \A q \in In("zone", lv) : lv2[q] = lv[q]
    BY <1>4, <2>1 DEF In
  <2>3. /\ \A q \in In("zone", lv) : /\ lv[q].use \in {"block", "file"}
                                     /\ <<lv[q].from, lv[q].size>> \in UsedBlocks(z.block)
        /\ \A q, q2 \in In("zone", lv) : q # q2 => lv[q].from # lv[q2].from
    BY DEF ZoneUsers
  <2>4. /\ UsedBlocks(z2.block) = UsedBlocks(z.block) \cup {<<base, size>>}
        /\ \A x \in UsedBlocks(z.block) : x[1] # base
    BY DEF Took
  <2>5. \A q \in In("zone", lv) : lv[q].from # base
    BY <2>3, <2>4
  <2>6. \A q \in In("zone", lv2) : /\ lv2[q].use \in {"block", "file"}
                                   /\ <<lv2[q].from, lv2[q].size>> \in UsedBlocks(z2.block)
    BY <1>1, <1>4, <1>6, <2>2, <2>3, <2>4
  <2>7. \A q, q2 \in In("zone", lv2) : q # q2 => lv2[q].from # lv2[q2].from
    BY <1>1, <1>4, <1>6, <2>2, <2>3, <2>5
  <2>8. QED
    BY <2>6, <2>7 DEF ZoneUsers
<1>9. QED
  BY <1>2, <1>4, <1>5, <1>6, <1>7, <1>8 DEF Gained, lv2, r, WithPiece

Without(lv, S) == [q \in Pointers |-> IF q \in S THEN NULL ELSE lv[q]]

\* What the pointers that are left have.
LEMMA WithoutFacts ==
    ASSUME NEW lv, PointersOK(lv), NEW S
    PROVE  LET left == Without(lv, S)
           IN  /\ PointersOK(left)
               /\ \A q \in Pointers \ S : left[q] = lv[q]
               /\ \A q \in Pointers \cap S : left[q] = NULL
               /\ \A place \in {"zone", "hunk"} : In(place, left) = In(place, lv) \ S
               /\ \A kind \in {"block", "file", "scratch", "permanent"} :
                     Of(kind, left) = Of(kind, lv) \ S
<1> DEFINE left == Without(lv, S)
<1>1. NULL.use = "none"
  BY DEF NULL
<1>2. /\ \A q \in Pointers \ S : left[q] = lv[q]
      /\ \A q \in Pointers \cap S : left[q] = NULL
  BY DEF Without
<1>3. PointersOK(left)
  BY DEF PointersOK, Without
<1> HIDE DEF left
<1>4. \A place \in {"zone", "hunk"} : In(place, left) = In(place, lv) \ S
  BY <1>2 DEF In
<1>5. \A kind \in {"block", "file", "scratch", "permanent"} : Of(kind, left) = Of(kind, lv) \ S
  BY <1>1, <1>2 DEF Of
<1>6. QED
  BY <1>2, <1>3, <1>4, <1>5 DEF left

\* A pointer that is left without its block: the others still have theirs.
LEMMA ZoneLost ==
    ASSUME NEW lv, PointersOK(lv), NEW z, ZoneUsers(z, lv), NEW p \in In("zone", lv),
           NEW z2, Gave(z, z2, lv[p].from), z.block[lv[p].from].size = lv[p].size
    PROVE  ZoneUsers(z2, Without(lv, {p}))
<1> DEFINE lv2 == Without(lv, {p})
<1>1. In("zone", lv2) = In("zone", lv) \ {p} /\ \A q \in Pointers \ {p} : lv2[q] = lv[q]
  BY WithoutFacts
<1> HIDE DEF lv2
<1>2. \A q \in In("zone", lv2) : lv2[q] = lv[q] /\ q \in In("zone", lv) /\ q # p
  BY <1>1 DEF In
<1>3. /\ \A q \in In("zone", lv) : /\ lv[q].use \in {"block", "file"}
                                   /\ <<lv[q].from, lv[q].size>> \in UsedBlocks(z.block)
      /\ \A q, q2 \in In("zone", lv) : q # q2 => lv[q].from # lv[q2].from
  BY DEF ZoneUsers
<1>4. UsedBlocks(z2.block) = UsedBlocks(z.block) \ {<<lv[p].from, lv[p].size>>}
  BY DEF Gave
<1>5. \A q \in In("zone", lv2) : <<lv2[q].from, lv2[q].size>> \in UsedBlocks(z2.block)
  BY <1>2, <1>3, <1>4
<1>6. QED
  BY <1>2, <1>3, <1>5 DEF ZoneUsers, lv2

-----------------------------------------------------------------------------
(* Places in the hunk *)

\* There are two ends, and each is opposite the other.
LEMMA EndFacts ==
    ASSUME NEW e \in Ends
    PROVE  /\ Opposite(e) \in Ends /\ Opposite(e) # e /\ Opposite(Opposite(e)) = e
           /\ \A f \in Ends : f = e \/ f = Opposite(e)
  BY DEF Ends, Opposite

\* What is taken from an end begins where that end's memory ended.
IsPiece(r, e, used, size, use) ==
    /\ r \in PieceRecord /\ r.place = "hunk" /\ r.use = use /\ r.kept = FALSE
    /\ Start(r, e) = used - size /\ Depth(r, e) = used

\* Piece is such a piece.
LEMMA PieceFacts ==
    ASSUME NEW e \in Ends, NEW used \in Int, NEW size \in Nat \ {0},
           NEW use \in {"block", "file", "scratch", "permanent"}
    PROVE  IsPiece(Piece(e, used, size, use), e, used, size, use)
<1> DEFINE r == Piece(e, used, size, use)
<1>1. r = [place |-> "hunk", from |-> Place(e, used, size), size |-> size, use |-> use, kept |-> FALSE]
  BY DEF Piece
<1>2. Place(e, used, size) \in Int /\ s_hunkTotal \in Int
  BY HunkAssumption DEF Place
<1>3. r \in PieceRecord /\ r.place = "hunk" /\ r.use = use /\ r.kept = FALSE
      /\ r.from = Place(e, used, size) /\ r.size = size
  BY <1>1, <1>2 DEF PieceRecord
<1> HIDE DEF r
<1>4. Start(r, e) = used - size
  BY <1>2, <1>3 DEF Start, Place
<1>5. QED
  BY <1>3, <1>4 DEF Depth, IsPiece, r

\* Start and Depth of a piece, from either end.
LEMMA DepthFacts ==
    ASSUME NEW r \in PieceRecord, NEW e \in Ends
    PROVE  /\ Start(r, e) \in Int /\ Depth(r, e) \in Int /\ Start(r, e) < Depth(r, e)
           /\ Start(r, Opposite(e)) = s_hunkTotal - Depth(r, e)
           /\ Depth(r, Opposite(e)) = s_hunkTotal - Start(r, e)
<1>1. r.from \in Int /\ r.size \in Nat \ {0} /\ s_hunkTotal \in Int
  BY HunkAssumption DEF PieceRecord
<1>2. QED
  BY <1>1 DEF Start, Depth, Ends, Opposite

\* Pieces are apart when one ends before the other begins, from either end.
LEMMA ApartFacts ==
    ASSUME NEW r \in PieceRecord, NEW s \in PieceRecord, NEW e \in Ends
    PROVE  /\ Apart(r, s) <=> Depth(r, e) <= Start(s, e) \/ Depth(s, e) <= Start(r, e)
           /\ Apart(r, s) <=> Apart(s, r)
           /\ Depth(r, e) + Depth(s, Opposite(e)) <= s_hunkTotal => Apart(r, s)
           /\ r.from <= s.from => IF e = "low" THEN Start(r, e) <= Start(s, e)
                                               ELSE Depth(s, e) <= Depth(r, e)
<1>1. /\ r.from \in Int /\ r.size \in Nat \ {0} /\ s_hunkTotal \in Int
      /\ s.from \in Int /\ s.size \in Nat \ {0}
  BY HunkAssumption DEF PieceRecord
<1>2. Apart(r, s) <=> Depth(r, e) <= Start(s, e) \/ Depth(s, e) <= Start(r, e)
  <2>1. CASE e = "low"
    BY <1>1, <2>1 DEF Start, Depth, Apart
  <2>2. CASE e = "high"
    BY <1>1, <2>2 DEF Start, Depth, Apart
  <2>3. QED
    BY <2>1, <2>2 DEF Ends
<1>3. Apart(r, s) <=> Apart(s, r)
  BY DEF Apart
<1>4. Depth(r, e) + Depth(s, Opposite(e)) <= s_hunkTotal => Depth(r, e) <= Start(s, e)
  BY <1>1, DepthFacts
<1>5. r.from <= s.from => IF e = "low" THEN Start(r, e) <= Start(s, e)
                                       ELSE Depth(s, e) <= Depth(r, e)
  BY <1>1 DEF Start, Depth
<1>6. QED
  BY <1>2, <1>3, <1>4, <1>5

\* What is known of the banks.
LEMMA BankFacts ==
    ASSUME NEW h, BanksOK(h)
    PROVE  /\ h.permanent \in Ends /\ TempEnd(h) \in Ends /\ TempEnd(h) = Opposite(h.permanent)
           /\ h.permanent = Opposite(TempEnd(h))
           /\ h.permanent # TempEnd(h)
           /\ \A e \in Ends : e = h.permanent \/ e = TempEnd(h)
           /\ \A e \in Ends :
                 /\ h.bank[e] \in BankRecord
                 /\ h.bank[e].mark \in Nat /\ h.bank[e].permanent \in Nat
                 /\ h.bank[e].temp \in Nat /\ h.bank[e].tempHighwater \in Nat
                 /\ h.bank[e].mark <= h.bank[e].permanent /\ h.bank[e].permanent <= h.bank[e].temp
                 /\ h.bank[e].temp + h.bank[Opposite(e)].temp <= s_hunkTotal
           /\ h.bank[h.permanent].temp = h.bank[h.permanent].permanent
           /\ h # NoHunk
<1>1. h \in HunkRecord /\ s_hunkTotal \in Nat
  BY HunkAssumption DEF BanksOK
<1>2. h.permanent \in Ends /\ \A e \in Ends : h.bank[e] \in BankRecord
  BY <1>1 DEF HunkRecord
<1>3. TempEnd(h) \in Ends /\ TempEnd(h) = Opposite(h.permanent)
      /\ h.permanent = Opposite(TempEnd(h)) /\ h.permanent # TempEnd(h)
      /\ \A e \in Ends : e = h.permanent \/ e = TempEnd(h)
  BY <1>2, EndFacts DEF TempEnd
<1>4. \A e \in Ends :
         /\ h.bank[e].mark \in Nat /\ h.bank[e].permanent \in Nat
         /\ h.bank[e].temp \in Nat /\ h.bank[e].tempHighwater \in Nat
  BY <1>1, <1>2 DEF BankRecord
<1>5. \A e \in Ends : h.bank[e].temp + h.bank[Opposite(e)].temp <= s_hunkTotal
  <2>1. "low" \in Ends /\ "high" \in Ends
    BY DEF Ends
  <2>2. h.bank["low"].temp + h.bank["high"].temp <= s_hunkTotal
    BY DEF BanksOK
  <2>3. QED
    BY <1>4, <2>1, <2>2 DEF Ends, Opposite
<1>6. h # NoHunk
  BY <1>2 DEF NoHunk, Ends
<1>7. QED
  BY <1>2, <1>3, <1>4, <1>5, <1>6 DEF BanksOK

\* Every piece lies at one end, within what is taken there.
LEMMA InABank ==
    ASSUME NEW h, BanksOK(h), NEW lv, PointersOK(lv), HunkUsers(h, lv), NEW p \in In("hunk", lv)
    PROVE  \E e \in Ends : 0 <= Start(lv[p], e) /\ Depth(lv[p], e) <= h.bank[e].temp
<1>0. lv[p] \in PieceRecord
  BY DEF PointersOK, In
<1>1. CASE \E e \in Ends : Within(lv[p], e, 0, IF lv[p].kept THEN h.bank[e].mark
                                                ELSE h.bank[e].permanent)
  <2>1. PICK e \in Ends : Within(lv[p], e, 0, IF lv[p].kept THEN h.bank[e].mark
                                              ELSE h.bank[e].permanent)
    BY <1>1
  <2>2. 0 <= Start(lv[p], e) /\ (Depth(lv[p], e) <= h.bank[e].mark
                                 \/ Depth(lv[p], e) <= h.bank[e].permanent)
    BY <2>1 DEF Within
  <2>3. /\ h.bank[e].mark \in Nat /\ h.bank[e].permanent \in Nat /\ h.bank[e].temp \in Nat
        /\ h.bank[e].mark <= h.bank[e].permanent /\ h.bank[e].permanent <= h.bank[e].temp
    BY BankFacts
  <2>4. Start(lv[p], e) \in Int /\ Depth(lv[p], e) \in Int
    BY <1>0, DepthFacts
  <2>5. QED
    BY <2>2, <2>3, <2>4
<1>2. CASE Within(lv[p], TempEnd(h), h.bank[TempEnd(h)].permanent, h.bank[TempEnd(h)].temp)
  <2> DEFINE e == TempEnd(h)
  <2>1. e \in Ends /\ h.bank[e].permanent \in Nat
    BY BankFacts
  <2>2. h.bank[e].permanent <= Start(lv[p], e) /\ Depth(lv[p], e) <= h.bank[e].temp
    BY <1>2 DEF Within
  <2> HIDE DEF e
  <2>3. Start(lv[p], e) \in Int
    BY <1>0, <2>1, DepthFacts
  <2>4. QED
    BY <2>1, <2>2, <2>3
<1>3. QED
  BY <1>1, <1>2 DEF HunkUsers, Placed

\* Without temporary memory there is no piece of it.
LEMMA NoTempPieces ==
    ASSUME NEW h, BanksOK(h), NEW lv, PointersOK(lv), HunkUsers(h, lv),
           h.bank[TempEnd(h)].temp = h.bank[TempEnd(h)].permanent
    PROVE  \A p \in In("hunk", lv) : lv[p].use = "permanent"
<1> SUFFICES ASSUME NEW p \in In("hunk", lv), lv[p].use # "permanent"
             PROVE  FALSE
  OBVIOUS
<1> DEFINE e == TempEnd(h)
<1>1. h.bank[e].permanent <= Start(lv[p], e) /\ Depth(lv[p], e) <= h.bank[e].temp
  BY DEF HunkUsers, Placed, Within
<1>2. e \in Ends /\ h.bank[e].permanent \in Nat /\ h.bank[e].temp = h.bank[e].permanent
  BY BankFacts
<1>3. lv[p] \in PieceRecord
  BY DEF PointersOK, In
<1> HIDE DEF e
<1>4. Start(lv[p], e) \in Int /\ Depth(lv[p], e) \in Int /\ Start(lv[p], e) < Depth(lv[p], e)
  BY <1>2, <1>3, DepthFacts
<1>5. QED
  BY <1>1, <1>2, <1>4

\* Exchanging the banks disturbs nobody.
LEMMA SwapKeeps ==
    ASSUME NEW h, NEW lv, NEW files, h # NoHunk, HunkOK(h, lv, files), PointersOK(lv),
           Of("scratch", lv) \subseteq In("hunk", lv)
    PROVE  /\ HunkOK(SwapBanks(h), lv, files) /\ SwapBanks(h) # NoHunk
           /\ SwapBanks(h).bank = h.bank
<1> DEFINE h2 == [h EXCEPT !.permanent = TempEnd(h)]
<1>1. BanksOK(h) /\ HunkUsers(h, lv) /\ ScratchStack(h, lv, files)
  BY DEF HunkOK
<1>2. CASE SwapBanks(h) = h
  BY <1>2
<1>3. CASE SwapBanks(h) # h
  <2>1. ~TempInUse(h) /\ SwapBanks(h) = h2
    BY <1>3 DEF SwapBanks
  <2>2. h.bank[TempEnd(h)].temp = h.bank[TempEnd(h)].permanent
    BY <2>1 DEF TempInUse
  <2>3. h \in HunkRecord /\ TempEnd(h) \in Ends /\ h.permanent = Opposite(TempEnd(h))
        /\ h.bank[h.permanent].temp = h.bank[h.permanent].permanent
    BY <1>1, BankFacts DEF BanksOK
  <2>4. h2 \in HunkRecord /\ h2.bank = h.bank /\ h2.permanent = TempEnd(h)
    BY <2>3 DEF HunkRecord
  <2> HIDE DEF h2
  <2>5. TempEnd(h2) = h.permanent
    BY <2>3, <2>4 DEF TempEnd
  <2>6. BanksOK(h2)
    BY <1>1, <2>2, <2>4 DEF BanksOK
  <2>7. \A p \in In("hunk", lv) : lv[p].use = "permanent"
    BY <1>1, <2>2, NoTempPieces
  <2>8. HunkUsers(h2, lv)
    <3>1. \A r : r.use = "permanent" /\ Placed(h, r) => Placed(h2, r)
      BY <2>4 DEF Placed
    <3>2. QED
      BY <1>1, <2>7, <3>1 DEF HunkUsers
  <2>9. Of("scratch", lv) = {}
    BY <2>7 DEF Of
  <2>10. ScratchStack(h2, lv, files)
    BY <2>3, <2>4, <2>5, <2>9 DEF ScratchStack, Reached
  <2>11. h2 # NoHunk
    BY <2>6, BankFacts
  <2>12. QED
    BY <2>1, <2>4, <2>6, <2>8, <2>10, <2>11 DEF HunkOK
<1>4. QED
  BY <1>2, <1>3

\* A new piece at one of the ends is its user's alone.
Added(h, lv, lv2, e, used, size, p, use) ==
    /\ PointersOK(lv2)
    /\ In("hunk", lv2) = In("hunk", lv) \cup {p} /\ p \notin In("hunk", lv)
    /\ In("zone", lv2) = In("zone", lv)
    /\ \A q \in Pointers \ {p} : lv2[q] = lv[q]
    /\ lv2[p] \in PieceRecord /\ lv2[p].use = use /\ lv2[p].kept = FALSE
    /\ Start(lv2[p], e) = used - size /\ Depth(lv2[p], e) = used
    /\ AllApart(lv2)
    /\ \A kind \in {"block", "file", "scratch", "permanent"} :
          Of(kind, lv2) = IF kind = use THEN Of(kind, lv) \cup {p} ELSE Of(kind, lv)

\* A piece on top of what an end has used is apart from all others.
LEMMA PieceAdded ==
    ASSUME NEW h, BanksOK(h), NEW lv, PointersOK(lv), HunkUsers(h, lv),
           NEW p \in Pointers, lv[p] = NULL, NEW size \in Nat \ {0}, NEW e \in Ends,
           NEW use \in {"file", "scratch", "permanent"},
           NEW used, used = h.bank[e].temp + size,
           used + h.bank[Opposite(e)].temp <= s_hunkTotal
    PROVE  Added(h, lv, [lv EXCEPT ![p] = Piece(e, used, size, use)], e, used, size, p, use)
<1> DEFINE r == Piece(e, used, size, use)
           lv2 == [lv EXCEPT ![p] = r]
<1>1. /\ h.bank[e].temp \in Nat /\ h.bank[Opposite(e)].temp \in Nat /\ used \in Nat
      /\ Opposite(e) \in Ends /\ Opposite(Opposite(e)) = e
  BY BankFacts, EndFacts
<1>2. /\ r \in PieceRecord /\ r.place = "hunk" /\ r.use = use /\ r.kept = FALSE
      /\ Start(r, e) = used - size /\ Depth(r, e) = used
  <2>1. used \in Int /\ use \in {"block", "file", "scratch", "permanent"}
    BY <1>1
  <2>2. IsPiece(r, e, used, size, use)
    BY <2>1, PieceFacts
  <2>3. QED
    BY <2>2 DEF IsPiece
<1> HIDE DEF r
<1>3. lv2 = [q \in Pointers |-> IF q = p THEN r ELSE lv[q]]
  BY DEF PointersOK
<1>4. lv2[p] = r /\ (\A q \in Pointers \ {p} : lv2[q] = lv[q])
  BY <1>3
<1>5. PointersOK(lv2)
  BY <1>2, <1>3 DEF PointersOK
<1> HIDE DEF lv2
<1>6. NULL.use = "none" /\ r # NULL
  <2>1. NULL.use = "none"
    BY DEF NULL
  <2>2. QED
    BY <1>2, <2>1
<1>7. /\ In("hunk", lv2) = In("hunk", lv) \cup {p} /\ p \notin In("hunk", lv)
      /\ In("zone", lv2) = In("zone", lv)
  BY <1>2, <1>4, <1>6 DEF In
<1>8. \A kind \in {"block", "file", "scratch", "permanent"} :
          Of(kind, lv2) = IF kind = use THEN Of(kind, lv) \cup {p} ELSE Of(kind, lv)
  BY <1>2, <1>4, <1>6 DEF Of
<1>9. ASSUME NEW q \in In("hunk", lv) PROVE Apart(lv[q], r) /\ Apart(r, lv[q])
  <2>1. lv[q] \in PieceRecord
    BY DEF PointersOK, In
  <2>2. PICK f \in Ends : Depth(lv[q], f) <= h.bank[f].temp
    BY InABank
  <2>3. Depth(lv[q], f) \in Int
    BY <2>1, <2>2, DepthFacts
  <2>4. CASE f = e
    <3>1. Depth(lv[q], e) <= Start(r, e)
      BY <1>1, <1>2, <2>2, <2>3, <2>4
    <3>2. QED
      BY <1>2, <2>1, <3>1, ApartFacts
  <2>5. CASE f = Opposite(e)
    <3>1. Depth(r, e) + Depth(lv[q], Opposite(e)) <= s_hunkTotal
      BY <1>1, <1>2, <2>2, <2>3, <2>5, HunkAssumption
    <3>2. QED
      BY <1>2, <2>1, <3>1, ApartFacts
  <2>6. QED
    BY <2>2, <2>4, <2>5, EndFacts
<1>10. AllApart(lv2)
  <2>1. \A q \in In("hunk", lv) : q # p /\ lv2[q] = lv[q]
    BY <1>4, <1>7 DEF In
  <2>2. \A q, q2 \in In("hunk", lv) : q # q2 => Apart(lv[q], lv[q2])
    BY DEF HunkUsers, AllApart
  <2>3. QED
    BY <1>4, <1>7, <1>9, <2>1, <2>2 DEF AllApart
<1>11. Added(h, lv, lv2, e, used, size, p, use)
  BY <1>2, <1>4, <1>5, <1>7, <1>8, <1>10 DEF Added
<1>12. QED
  BY <1>11 DEF lv2, r

\* Only the kind of a bank's numbers decides where its pieces may lie.
Moved(h, h2, e, permanent, temp) ==
    /\ h2 \in HunkRecord /\ h2.permanent = h.permanent
    /\ h2.bank[e].mark = h.bank[e].mark
    /\ h2.bank[e].permanent = permanent /\ h2.bank[e].temp = temp
    /\ h2.bank[Opposite(e)] = h.bank[Opposite(e)]

\* Temporary memory grows.
LEMMA TempRaised ==
    ASSUME NEW h \in HunkRecord, NEW e \in Ends, NEW temp \in 0 .. s_hunkTotal
    PROVE  Moved(h, [h EXCEPT !.bank[e].temp = temp,
                              !.bank[e].tempHighwater = IF temp > @ THEN temp ELSE @],
                 e, h.bank[e].permanent, temp)
<1> DEFINE h2 == [h EXCEPT !.bank[e].temp = temp,
                           !.bank[e].tempHighwater = IF temp > @ THEN temp ELSE @]
<1>1. h2 \in HunkRecord
  BY DEF HunkRecord, BankRecord
<1>2. h2.permanent = h.permanent /\ \A f \in Ends \ {e} : h2.bank[f] = h.bank[f]
  BY DEF HunkRecord
<1>3. /\ h2.bank[e].mark = h.bank[e].mark /\ h2.bank[e].permanent = h.bank[e].permanent
      /\ h2.bank[e].temp = temp
  BY DEF HunkRecord, BankRecord
<1> HIDE DEF h2
<1>4. Moved(h, h2, e, h.bank[e].permanent, temp)
  BY <1>1, <1>2, <1>3, EndFacts DEF Moved
<1>5. QED
  BY <1>4 DEF h2

\* Temporary memory is had back.
LEMMA TempLowered ==
    ASSUME NEW h \in HunkRecord, NEW e \in Ends, NEW temp \in 0 .. s_hunkTotal
    PROVE  Moved(h, [h EXCEPT !.bank[e].temp = temp], e, h.bank[e].permanent, temp)
<1> DEFINE h2 == [h EXCEPT !.bank[e].temp = temp]
<1>1. h2 \in HunkRecord
  BY DEF HunkRecord, BankRecord
<1>2. h2.permanent = h.permanent /\ \A f \in Ends \ {e} : h2.bank[f] = h.bank[f]
  BY DEF HunkRecord
<1>3. /\ h2.bank[e].mark = h.bank[e].mark /\ h2.bank[e].permanent = h.bank[e].permanent
      /\ h2.bank[e].temp = temp
  BY DEF HunkRecord, BankRecord
<1> HIDE DEF h2
<1>4. Moved(h, h2, e, h.bank[e].permanent, temp)
  BY <1>1, <1>2, <1>3, EndFacts DEF Moved
<1>5. QED
  BY <1>4 DEF h2

\* Permanent memory grows, of a bank without temporary memory.
LEMMA PermanentRaised ==
    ASSUME NEW h \in HunkRecord, NEW e \in Ends, NEW used \in 0 .. s_hunkTotal
    PROVE  Moved(h, [h EXCEPT !.bank[e].permanent = used, !.bank[e].temp = used], e, used, used)
<1> DEFINE h2 == [h EXCEPT !.bank[e].permanent = used, !.bank[e].temp = used]
<1>1. h2 \in HunkRecord
  BY DEF HunkRecord, BankRecord
<1>2. h2.permanent = h.permanent /\ \A f \in Ends \ {e} : h2.bank[f] = h.bank[f]
  BY DEF HunkRecord
<1>3. h2.bank[e].mark = h.bank[e].mark /\ h2.bank[e].permanent = used /\ h2.bank[e].temp = used
  BY DEF HunkRecord, BankRecord
<1> HIDE DEF h2
<1>4. Moved(h, h2, e, used, used)
  BY <1>1, <1>2, <1>3, EndFacts DEF Moved
<1>5. QED
  BY <1>4 DEF h2

\* The banks are in order after a change at one end.
LEMMA MovedBanks ==
    ASSUME NEW h, BanksOK(h), NEW e \in Ends, NEW permanent \in Nat, NEW temp \in Nat,
           NEW h2, Moved(h, h2, e, permanent, temp),
           h.bank[e].mark <= permanent, permanent <= temp,
           e = h.permanent => temp = permanent,
           temp + h.bank[Opposite(e)].temp <= s_hunkTotal
    PROVE  BanksOK(h2) /\ TempEnd(h2) = TempEnd(h)
<1> DEFINE f == Opposite(e)
<1>1. /\ f \in Ends /\ f # e /\ \A g \in Ends : g = e \/ g = f
  BY EndFacts
<1> HIDE DEF f
<1>2. /\ h.bank[f].mark <= h.bank[f].permanent /\ h.bank[f].permanent <= h.bank[f].temp
      /\ h.bank[f].temp \in Nat
      /\ h.bank[h.permanent].temp = h.bank[h.permanent].permanent
      /\ h.permanent \in Ends
  BY <1>1, BankFacts
<1>3. /\ h2 \in HunkRecord /\ h2.permanent = h.permanent
      /\ h2.bank[e].mark = h.bank[e].mark
      /\ h2.bank[e].permanent = permanent /\ h2.bank[e].temp = temp
      /\ h2.bank[f] = h.bank[f]
  BY DEF Moved, f
<1>4. temp + h.bank[f].temp <= s_hunkTotal
  BY DEF f
<1>5. \A g \in Ends : h2.bank[g].mark <= h2.bank[g].permanent
                      /\ h2.bank[g].permanent <= h2.bank[g].temp
  BY <1>1, <1>2, <1>3
<1>6. h2.bank[h2.permanent].temp = h2.bank[h2.permanent].permanent
  BY <1>1, <1>2, <1>3
<1>7. h2.bank["low"].temp + h2.bank["high"].temp <= s_hunkTotal
  BY <1>1, <1>2, <1>3, <1>4 DEF Ends
<1>8. QED
  BY <1>3, <1>5, <1>6, <1>7 DEF BanksOK, TempEnd

\* A file is counted, and loaded when there is no scratch memory.
Counted(use, lv, files, files2) ==
    /\ use = "scratch" => files2 = files
    /\ use = "file" => Of("scratch", lv) = {} /\ files2 # 0

\* Memory for a file, or scratch memory, on top of the temporary memory.
LEMMA TempKeeps ==
    ASSUME NEW h, NEW lv, NEW files, h # NoHunk, HunkOK(h, lv, files), PointersOK(lv),
           Of("scratch", lv) \subseteq In("hunk", lv),
           NEW p \in Pointers, lv[p] = NULL, NEW size \in Nat \ {0},
           NEW use \in {"file", "scratch"}, NEW files2,
           Counted(use, lv, files, files2),
           NEW e, e = TempEnd(h), NEW temp, temp = h.bank[e].temp + size,
           temp + h.bank[h.permanent].permanent <= s_hunkTotal,
           NEW h2, Moved(h, h2, e, h.bank[e].permanent, temp),
           NEW lv2, Added(h, lv, lv2, e, temp, size, p, use)
    PROVE  HunkOK(h2, lv2, files2) /\ h2 # NoHunk
<1>1. BanksOK(h) /\ HunkUsers(h, lv) /\ ScratchStack(h, lv, files)
  BY DEF HunkOK
<1>2. /\ e \in Ends /\ h.permanent = Opposite(e) /\ h.bank[e].temp \in Nat
      /\ h.bank[h.permanent].temp = h.bank[h.permanent].permanent
      /\ h.bank[e].permanent \in Nat /\ h.bank[h.permanent].permanent \in Nat
      /\ h.bank[e].permanent <= h.bank[e].temp /\ h.bank[e].mark <= h.bank[e].permanent
      /\ h.permanent # e
  BY <1>1, BankFacts
<1>3. temp \in Nat /\ temp \in 0 .. s_hunkTotal /\ h.bank[e].temp = temp - size
      /\ h.bank[e].permanent <= temp
  BY <1>2, HunkAssumption
<1>5. BanksOK(h2) /\ TempEnd(h2) = e
  BY <1>1, <1>2, <1>3, MovedBanks
<1>7. /\ In("hunk", lv2) = In("hunk", lv) \cup {p} /\ p \notin In("hunk", lv)
      /\ \A q \in Pointers \ {p} : lv2[q] = lv[q]
      /\ lv2[p] \in PieceRecord /\ lv2[p].use = use
      /\ Start(lv2[p], e) = temp - size /\ Depth(lv2[p], e) = temp
      /\ AllApart(lv2)
      /\ Of("scratch", lv2) = IF "scratch" = use THEN Of("scratch", lv) \cup {p}
                              ELSE Of("scratch", lv)
  BY DEF Added
<1>8. /\ h2.bank[e].mark = h.bank[e].mark /\ h2.bank[e].permanent = h.bank[e].permanent
      /\ h2.bank[e].temp = temp /\ h2.bank[Opposite(e)] = h.bank[Opposite(e)]
  BY DEF Moved
<1>9. \A q \in In("hunk", lv) : q # p /\ lv2[q] = lv[q] /\ lv[q] \in PieceRecord
  BY <1>7 DEF In, PointersOK
<1>10. HunkUsers(h2, lv2)
  <2>1. ASSUME NEW q \in In("hunk", lv) PROVE Placed(h2, lv[q])
    <3>0. Placed(h, lv[q])
      BY <1>1 DEF HunkUsers
    <3>1. CASE lv[q].use = "permanent"
      <4>1. PICK f \in Ends : Within(lv[q], f, 0, IF lv[q].kept THEN h.bank[f].mark
                                                  ELSE h.bank[f].permanent)
        BY <3>0, <3>1 DEF Placed
      <4>2. h2.bank[f].mark = h.bank[f].mark /\ h2.bank[f].permanent = h.bank[f].permanent
        BY <1>2, <1>8, EndFacts
      <4>3. QED
        BY <3>1, <4>1, <4>2 DEF Placed
    <3>2. CASE lv[q].use # "permanent"
      <4>1. lv[q].use \in {"file", "scratch"} /\ Within(lv[q], e, h.bank[e].permanent, h.bank[e].temp)
        BY <3>0, <3>2 DEF Placed
      <4>2. Depth(lv[q], e) \in Int
        BY <1>2, <1>9, DepthFacts
      <4>3. QED
        <5>1. Within(lv[q], e, h2.bank[e].permanent, h2.bank[e].temp)
          <6>1. h.bank[e].permanent <= Start(lv[q], e) /\ Depth(lv[q], e) <= h.bank[e].temp
            BY <4>1 DEF Within
          <6>2. h.bank[e].temp \in Int /\ temp \in Int /\ h.bank[e].temp <= temp
            BY <1>2, <1>3
          <6>3. Depth(lv[q], e) <= temp
            BY <4>2, <6>1, <6>2
          <6>4. QED
            BY <1>8, <6>1, <6>3 DEF Within
        <5>2. QED
          BY <1>5, <4>1, <5>1 DEF Placed
    <3>3. QED
      BY <3>1, <3>2
  <2>2. Within(lv2[p], e, h2.bank[e].permanent, h2.bank[e].temp) /\ lv2[p].use \in {"file", "scratch"}
    <3>1. h.bank[e].permanent <= Start(lv2[p], e)
      BY <1>2, <1>3, <1>7
    <3>2. Depth(lv2[p], e) <= temp
      <4>1. Depth(lv2[p], e) = temp
        BY <1>7
      <4>2. temp <= temp
        BY <1>3
      <4>3. QED
        BY <4>1, <4>2
    <3>3. QED
      BY <1>7, <1>8, <3>1, <3>2 DEF Within
  <2>3. Placed(h2, lv2[p])
    BY <1>5, <2>2 DEF Placed
  <2>4. QED
    BY <1>7, <1>9, <2>1, <2>3 DEF HunkUsers
<1>11. ScratchStack(h2, lv2, files2)
  <2>1. CASE use = "file"
    <3>1. Of("scratch", lv2) = {}
      BY <1>7, <2>1 DEF Counted
    <3>2. files2 # 0
      BY <2>1 DEF Counted
    <3>3. QED
      BY <3>1, <3>2 DEF ScratchStack
  <2>2. CASE use = "scratch"
    <3>1. Of("scratch", lv2) = Of("scratch", lv) \cup {p} /\ files2 = files
      BY <1>7, <2>2 DEF Counted
    <3>2. \A q \in Of("scratch", lv) : lv2[q] = lv[q]
      BY <1>9
    <3>3. \A d : Reached(h, lv, d) => Reached(h2, lv2, d)
      BY <1>5, <1>8, <3>1, <3>2 DEF Reached
    <3>4. Start(lv2[p], e) = h.bank[e].temp /\ Depth(lv2[p], e) = h2.bank[e].temp
      BY <1>3, <1>7, <1>8
    <3>5. \A q \in Of("scratch", lv2) :
              \/ Depth(lv2[q], e) = h2.bank[e].temp
              \/ \E q2 \in Of("scratch", lv2) : Start(lv2[q2], e) = Depth(lv2[q], e)
      BY <1>1, <3>1, <3>2, <3>4 DEF ScratchStack
    <3>6. files = 0 => Reached(h2, lv2, h.bank[e].temp)
                       /\ \A q \in Of("scratch", lv) : Reached(h2, lv2, Start(lv[q], e))
      BY <1>1, <3>3 DEF ScratchStack
    <3>7. Reached(h2, lv2, h2.bank[e].temp)
      BY <1>5, <3>1, <3>4 DEF Reached
    <3>8. files2 = 0 => \A q \in Of("scratch", lv2) : Reached(h2, lv2, Start(lv2[q], e))
      BY <3>1, <3>2, <3>4, <3>6
    <3>9. QED
      BY <1>5, <3>5, <3>7, <3>8 DEF ScratchStack
  <2>3. QED
    BY <2>1, <2>2
<1>12. h2 # NoHunk
  BY <1>5, BankFacts
<1>13. QED
  BY <1>5, <1>10, <1>11, <1>12 DEF HunkOK

\* Permanent memory comes after what that bank has.
LEMMA PermanentKeeps ==
    ASSUME NEW h, NEW lv, NEW files, h # NoHunk, HunkOK(h, lv, files), PointersOK(lv),
           Of("scratch", lv) = {}, NEW p \in Pointers, lv[p] = NULL, NEW size \in Nat \ {0},
           NEW e, e = h.permanent, NEW used, used = h.bank[e].permanent + size,
           h.bank["low"].temp + h.bank["high"].temp + size <= s_hunkTotal,
           NEW h2, Moved(h, h2, e, used, used),
           NEW lv2, Added(h, lv, lv2, e, used, size, p, "permanent")
    PROVE  HunkOK(h2, lv2, files) /\ h2 # NoHunk
<1> DEFINE f == TempEnd(h)
<1>1. BanksOK(h) /\ HunkUsers(h, lv) /\ ScratchStack(h, lv, files)
  BY DEF HunkOK
<1>2. /\ e \in Ends /\ f = Opposite(e) /\ f \in Ends /\ f # e /\ \A g \in Ends : g = e \/ g = f
      /\ h.bank[e].temp = h.bank[e].permanent /\ h.bank[e].permanent \in Nat
      /\ h.bank[e].mark \in Nat /\ h.bank[e].mark <= h.bank[e].permanent
      /\ h.bank[f].temp \in Nat /\ h.bank[f].permanent \in Nat
      /\ h.bank[e] \in BankRecord
  BY <1>1, BankFacts
<1> HIDE DEF f
<1>3. h.bank[e].temp + h.bank[f].temp + size <= s_hunkTotal
  BY <1>2 DEF Ends
<1>4. used \in Nat /\ used \in 0 .. s_hunkTotal /\ used + h.bank[f].temp <= s_hunkTotal
      /\ used = h.bank[e].temp + size /\ h.bank[e].permanent <= used /\ h.bank[e].mark <= used
  BY <1>2, <1>3, HunkAssumption
<1>6. BanksOK(h2) /\ TempEnd(h2) = f
  BY <1>1, <1>2, <1>4, MovedBanks DEF f
<1>8. /\ In("hunk", lv2) = In("hunk", lv) \cup {p} /\ p \notin In("hunk", lv)
      /\ \A q \in Pointers \ {p} : lv2[q] = lv[q]
      /\ lv2[p] \in PieceRecord /\ lv2[p].use = "permanent" /\ lv2[p].kept = FALSE
      /\ Start(lv2[p], e) = used - size /\ Depth(lv2[p], e) = used
      /\ AllApart(lv2)
      /\ Of("scratch", lv2) = Of("scratch", lv)
  BY DEF Added
<1>9. /\ h2.bank[e].mark = h.bank[e].mark /\ h2.bank[e].permanent = used /\ h2.bank[e].temp = used
      /\ h2.bank[f] = h.bank[f]
  BY <1>2 DEF Moved
<1>10. \A q \in In("hunk", lv) : q # p /\ lv2[q] = lv[q] /\ lv[q] \in PieceRecord
  BY <1>8 DEF In, PointersOK
<1>11. HunkUsers(h2, lv2)
  <2>1. ASSUME NEW q \in In("hunk", lv) PROVE Placed(h2, lv[q])
    <3>0. Placed(h, lv[q])
      BY <1>1 DEF HunkUsers
    <3>1. CASE lv[q].use = "permanent"
      <4>1. PICK g \in Ends : Within(lv[q], g, 0, IF lv[q].kept THEN h.bank[g].mark
                                                  ELSE h.bank[g].permanent)
        BY <3>0, <3>1 DEF Placed
      <4>2. CASE g = f
        BY <1>9, <3>1, <4>1, <4>2 DEF Placed
      <4>3. CASE g = e
        <5>1. Depth(lv[q], e) \in Int
          BY <1>2, <1>10, DepthFacts
        <5>2. Within(lv[q], e, 0, IF lv[q].kept THEN h2.bank[e].mark ELSE h2.bank[e].permanent)
          BY <1>2, <1>4, <1>9, <4>1, <4>3, <5>1 DEF Within
        <5>3. QED
          BY <1>2, <3>1, <5>2 DEF Placed
      <4>4. QED
        BY <1>2, <4>2, <4>3
    <3>2. CASE lv[q].use # "permanent"
      BY <1>6, <1>9, <3>0, <3>2 DEF Placed, f
    <3>3. QED
      BY <3>1, <3>2
  <2>2. \E g \in Ends : Within(lv2[p], g, 0, IF lv2[p].kept THEN h2.bank[g].mark
                                             ELSE h2.bank[g].permanent)
    <3>1. Within(lv2[p], e, 0, h2.bank[e].permanent)
      BY <1>2, <1>4, <1>8, <1>9 DEF Within
    <3>2. QED
      BY <1>2, <1>8, <3>1
  <2>3. Placed(h2, lv2[p])
    BY <1>8, <2>2 DEF Placed
  <2>4. QED
    BY <1>8, <1>10, <2>1, <2>3 DEF HunkUsers
<1>12. ScratchStack(h2, lv2, files)
  <2>1. files = 0 => h2.bank[f].temp = h2.bank[f].permanent
    BY <1>1, <1>9 DEF ScratchStack, Reached, f
  <2>2. QED
    BY <1>6, <1>8, <2>1 DEF ScratchStack, Reached
<1>13. h2 # NoHunk
  BY <1>6, BankFacts
<1>14. QED
  BY <1>6, <1>11, <1>12, <1>13 DEF HunkOK

\* Pieces that are left are where they were.
LEMMA UsersLeft ==
    ASSUME NEW h, NEW lv, PointersOK(lv), HunkUsers(h, lv), NEW S
    PROVE  HunkUsers(h, Without(lv, S))
<1> DEFINE left == Without(lv, S)
<1>1. In("hunk", left) = In("hunk", lv) \ S /\ \A q \in Pointers \ S : left[q] = lv[q]
  BY WithoutFacts
<1> HIDE DEF left
<1>2. \A q \in In("hunk", left) : q \in In("hunk", lv) /\ left[q] = lv[q]
  BY <1>1 DEF In
<1>3. \A q \in In("hunk", left) : Placed(h, left[q])
  BY <1>2 DEF HunkUsers
<1>4. AllApart(left)
  BY <1>2 DEF HunkUsers, AllApart
<1>5. QED
  BY <1>3, <1>4 DEF HunkUsers, left

\* An error leaves the hunk as it is, without anybody who has temporary memory.
LEMMA AbandonKeeps ==
    ASSUME NEW h, NEW lv, NEW files, h # NoHunk, HunkOK(h, lv, files), PointersOK(lv),
           NEW files2, files2 = 0 => files = 0 /\ Of("scratch", lv) = {}
    PROVE  HunkOK(h, Without(lv, Of("file", lv) \cup Of("scratch", lv)), files2)
<1> DEFINE left == Without(lv, Of("file", lv) \cup Of("scratch", lv))
<1>1. BanksOK(h) /\ HunkUsers(h, lv) /\ ScratchStack(h, lv, files)
  BY DEF HunkOK
<1>2. HunkUsers(h, left)
  BY <1>1, UsersLeft
<1>3. Of("scratch", left) = {}
  <2>1. Of("scratch", left) = Of("scratch", lv) \ (Of("file", lv) \cup Of("scratch", lv))
    BY WithoutFacts
  <2>2. QED
    BY <2>1
<1> HIDE DEF left
<1>4. ScratchStack(h, left, files2)
  BY <1>1, <1>3 DEF ScratchStack, Reached
<1>5. QED
  BY <1>1, <1>2, <1>4 DEF HunkOK, left

\* A cleared hunk has no users.
LEMMA ClearedOK ==
    ASSUME NEW lv, In("hunk", lv) = {}, Of("scratch", lv) = {}, NEW files
    PROVE  HunkOK(Cleared, lv, files) /\ Cleared # NoHunk
<1>1. Unused \in BankRecord /\ s_hunkTotal \in Nat
  BY HunkAssumption DEF Unused, BankRecord
<1>2. Cleared \in HunkRecord
  BY <1>1 DEF Cleared, HunkRecord, Ends
<1>3. \A e \in Ends : Cleared.bank[e] = Unused
  BY DEF Cleared
<1>4. Cleared.permanent \in Ends /\ "low" \in Ends /\ "high" \in Ends
      /\ Unused.mark = 0 /\ Unused.permanent = 0 /\ Unused.temp = 0
  BY DEF Cleared, Ends, Unused
<1>5. BanksOK(Cleared)
  BY <1>1, <1>2, <1>3, <1>4 DEF BanksOK
<1>6. HunkUsers(Cleared, lv)
  BY DEF HunkUsers, AllApart
<1>7. ScratchStack(Cleared, lv, files)
  <2>1. TempEnd(Cleared) \in Ends
    BY <1>5, BankFacts
  <2>2. QED
    BY <1>3, <1>4, <2>1 DEF ScratchStack, Reached
<1>8. QED
  BY <1>5, <1>6, <1>7, BankFacts DEF HunkOK

\* A piece of temporary memory is had back if it is the last one, and stays where it
\* is if it is not.
Freed(h, h2, lv, p) ==
    /\ BanksOK(h2) /\ TempEnd(h2) = TempEnd(h)
    /\ h2.bank[TempEnd(h)].permanent = h.bank[TempEnd(h)].permanent
    /\ h2.bank[TempEnd(h)].temp = IF Depth(lv[p], TempEnd(h)) = h.bank[TempEnd(h)].temp
                                  THEN Start(lv[p], TempEnd(h)) ELSE h.bank[TempEnd(h)].temp
    /\ HunkUsers(h2, Without(lv, {p}))

\* Hunk_FreeTempMemory does that.
LEMMA TempFreed ==
    ASSUME BanksOK(hunk), HunkUsers(hunk, live), PointersOK(live),
           NEW p \in In("hunk", live), live[p].use \in {"file", "scratch"}
    PROVE  Freed(hunk, FreeTempMemory(live[p]), live, p)
<1> DEFINE r == live[p]
           e == TempEnd(hunk)
           h2 == FreeTempMemory(r)
           left == Without(live, {p})
           start == Start(r, e)
           t == hunk.bank[e].temp - r.size
<1>1. /\ e \in Ends /\ hunk.bank[e].temp \in 0 .. s_hunkTotal
      /\ hunk.bank[e].permanent \in Nat /\ hunk.bank[e].permanent <= hunk.bank[e].temp
      /\ hunk.bank[e].mark <= hunk.bank[e].permanent
      /\ e # hunk.permanent /\ s_hunkTotal \in Nat /\ hunk \in HunkRecord
      /\ hunk.bank[e].temp + hunk.bank[Opposite(e)].temp <= s_hunkTotal
      /\ hunk.bank[Opposite(e)].temp \in Nat
  <2>1. e \in Ends /\ e # hunk.permanent
    BY BankFacts
  <2> HIDE DEF e
  <2>2. hunk.bank[e] \in BankRecord /\ Opposite(e) \in Ends
    BY <2>1, BankFacts, EndFacts
  <2>3. QED
    BY <2>1, <2>2, BankFacts, HunkAssumption DEF BankRecord, BanksOK
<1>2. r \in PieceRecord /\ p \in Pointers
  BY DEF PointersOK, In
<1>3. hunk.bank[e].permanent <= start /\ Depth(r, e) <= hunk.bank[e].temp
  <2>1. Placed(hunk, r) /\ r.use # "permanent"
    BY DEF HunkUsers
  <2>2. QED
    BY <2>1 DEF Placed, Within
<1> HIDE DEF e, r
<1>4. /\ start \in Int /\ Depth(r, e) \in Int /\ start < Depth(r, e)
      /\ Depth(r, e) = start + r.size /\ r.size \in Nat \ {0} /\ r.from \in Int
  BY <1>1, <1>2, DepthFacts DEF Depth, PieceRecord
<1>5. r.from = Place(e, hunk.bank[e].temp, r.size) <=> Depth(r, e) = hunk.bank[e].temp
  BY <1>1, <1>4 DEF Place, Depth, Start
<1>6. h2 = IF Depth(r, e) = hunk.bank[e].temp THEN [hunk EXCEPT !.bank[e].temp = t] ELSE hunk
  BY <1>5 DEF FreeTempMemory, e
<1>7. Depth(r, e) = hunk.bank[e].temp => t = start /\ t \in 0 .. s_hunkTotal
  BY <1>1, <1>3, <1>4
<1>8. CASE Depth(r, e) # hunk.bank[e].temp
  <2>1. h2 = hunk
    BY <1>6, <1>8
  <2>2. HunkUsers(hunk, left)
    BY UsersLeft
  <2>3. QED
    BY <1>8, <2>1, <2>2 DEF Freed, r, e
<1>9. CASE Depth(r, e) = hunk.bank[e].temp
  <2>1. h2 = [hunk EXCEPT !.bank[e].temp = t] /\ t = start /\ t \in 0 .. s_hunkTotal
    BY <1>6, <1>7, <1>9
  <2>2. Moved(hunk, [hunk EXCEPT !.bank[e].temp = t], e, hunk.bank[e].permanent, t)
    BY <1>1, <2>1, TempLowered
  <2>3. Moved(hunk, h2, e, hunk.bank[e].permanent, start)
    BY <2>1, <2>2
  <2>4. start \in Nat /\ hunk.bank[e].permanent <= start
        /\ start + hunk.bank[Opposite(e)].temp <= s_hunkTotal
    BY <1>1, <1>3, <1>4, <1>9
  <2> HIDE DEF h2, t, start
  <2>5. BanksOK(h2) /\ TempEnd(h2) = e
    BY <1>1, <2>3, <2>4, MovedBanks DEF e
  <2>6. /\ h2.bank[e].mark = hunk.bank[e].mark /\ h2.bank[e].permanent = hunk.bank[e].permanent
        /\ h2.bank[e].temp = start /\ h2.bank[Opposite(e)] = hunk.bank[Opposite(e)]
    BY <2>3 DEF Moved
  <2>7. In("hunk", left) = In("hunk", live) \ {p} /\ \A q \in Pointers \ {p} : left[q] = live[q]
    BY WithoutFacts
  <2> HIDE DEF left
  <2>8. ASSUME NEW q \in In("hunk", live) \ {p} PROVE Placed(h2, live[q])
    <3>1. Placed(hunk, live[q]) /\ Apart(live[q], r)
      BY DEF HunkUsers, AllApart, r
    <3>2. live[q] \in PieceRecord
      BY DEF PointersOK, In
    <3>3. CASE live[q].use = "permanent"
      <4>1. PICK f \in Ends : Within(live[q], f, 0, IF live[q].kept THEN hunk.bank[f].mark
                                                    ELSE hunk.bank[f].permanent)
        BY <3>1, <3>3 DEF Placed
      <4>2. h2.bank[f].mark = hunk.bank[f].mark /\ h2.bank[f].permanent = hunk.bank[f].permanent
        BY <1>1, <2>6, EndFacts
      <4>3. QED
        BY <3>3, <4>1, <4>2 DEF Placed
    <3>4. CASE live[q].use # "permanent"
      <4>1. /\ live[q].use \in {"file", "scratch"}
            /\ hunk.bank[e].permanent <= Start(live[q], e)
            /\ Depth(live[q], e) <= hunk.bank[e].temp
        BY <3>1, <3>4 DEF Placed, Within, e
      <4>2. /\ Start(live[q], e) \in Int /\ Depth(live[q], e) \in Int
            /\ Start(live[q], e) < Depth(live[q], e)
        BY <1>1, <3>2, DepthFacts
      <4>3. Depth(live[q], e) <= start \/ Depth(r, e) <= Start(live[q], e)
        BY <1>1, <1>2, <3>1, <3>2, ApartFacts DEF start
      <4>4. Depth(live[q], e) <= start
        BY <1>1, <1>4, <1>9, <4>1, <4>2, <4>3
      <4>5. Within(live[q], e, h2.bank[e].permanent, h2.bank[e].temp)
        BY <2>6, <4>1, <4>4 DEF Within
      <4>6. QED
        BY <2>5, <4>1, <4>5 DEF Placed
    <3>5. QED
      BY <3>3, <3>4
  <2>9. \A q \in In("hunk", left) : q \in In("hunk", live) \ {p} /\ left[q] = live[q]
    BY <2>7 DEF In
  <2>10. AllApart(left)
    BY <2>9 DEF HunkUsers, AllApart
  <2>11. HunkUsers(h2, left)
    BY <2>8, <2>9, <2>10 DEF HunkUsers
  <2>12. QED
    BY <1>9, <2>5, <2>6, <2>11 DEF Freed, e, h2, left, start, r
<1>10. QED
  BY <1>8, <1>9

\* With the last file all temporary memory is had back.
LEMMA ClearTempKeeps ==
    ASSUME NEW h, BanksOK(h), NEW lv, HunkUsers(h, lv), PointersOK(lv),
           Of("file", lv) = {}, Of("scratch", lv) = {}, NEW files
    PROVE  HunkOK(ClearTempMemory(h), lv, files) /\ ClearTempMemory(h) # NoHunk
<1> DEFINE e == TempEnd(h)
           t == h.bank[e].permanent
           h2 == ClearTempMemory(h)
<1>1. /\ e \in Ends /\ h \in HunkRecord /\ h.permanent # e /\ h.permanent = Opposite(e)
      /\ t \in 0 .. s_hunkTotal
  <2>1. e \in Ends /\ h.permanent # e /\ h.permanent = Opposite(e)
    BY BankFacts
  <2> HIDE DEF e
  <2>2. h.bank[e] \in BankRecord
    BY <2>1, BankFacts
  <2>3. QED
    BY <2>1, <2>2 DEF BankRecord, BanksOK
<1>2. h2 = [h EXCEPT !.bank[e].temp = t]
  BY DEF ClearTempMemory
<1> HIDE DEF e, t, h2
<1>3. Moved(h, [h EXCEPT !.bank[e].temp = t], e, h.bank[e].permanent, t)
  BY <1>1, TempLowered
<1>4. Moved(h, h2, e, t, t) /\ h.bank[e].permanent = t
  BY <1>2, <1>3 DEF t
<1>5. /\ t \in Nat /\ h.bank[e].mark <= t /\ t <= t
      /\ t + h.bank[Opposite(e)].temp <= s_hunkTotal
  <2>1. /\ h.bank[e].mark <= h.bank[e].permanent /\ h.bank[e].permanent <= h.bank[e].temp
        /\ h.bank[e].temp + h.bank[Opposite(e)].temp <= s_hunkTotal
        /\ h.bank[e].temp \in Nat /\ h.bank[e].permanent \in Nat
    BY <1>1, BankFacts
  <2>2. h.bank[Opposite(e)].temp \in Nat
    BY <1>1, BankFacts, EndFacts
  <2>3. QED
    BY <1>4, <2>1, <2>2, HunkAssumption
<1>6. BanksOK(h2) /\ TempEnd(h2) = e
  BY <1>1, <1>4, <1>5, MovedBanks DEF e
<1>7. /\ h2.bank[e].mark = h.bank[e].mark /\ h2.bank[e].permanent = h.bank[e].permanent
      /\ h2.bank[e].temp = h2.bank[e].permanent /\ h2.bank[Opposite(e)] = h.bank[Opposite(e)]
  BY <1>4 DEF Moved
<1>8. HunkUsers(h2, lv)
  <2>1. ASSUME NEW q \in In("hunk", lv) PROVE Placed(h2, lv[q])
    <3>1. lv[q].use = "permanent" /\ Placed(h, lv[q])
      <4>1. lv[q].use \notin {"file", "scratch"}
        BY DEF Of, In
      <4>2. QED
        BY <4>1 DEF HunkUsers, Placed
    <3>2. \A f \in Ends : h2.bank[f].mark = h.bank[f].mark
                          /\ h2.bank[f].permanent = h.bank[f].permanent
      BY <1>1, <1>7, EndFacts
    <3>3. QED
      BY <3>1, <3>2 DEF Placed
  <2>2. QED
    BY <2>1 DEF HunkUsers
<1>9. ScratchStack(h2, lv, files)
  BY <1>6, <1>7 DEF ScratchStack, Reached
<1>10. h2 # NoHunk
  BY <1>6, BankFacts
<1>11. QED
  BY <1>6, <1>8, <1>9, <1>10 DEF HunkOK, h2

\* Freed in the reverse order, scratch memory is always the last piece.
LEMMA ScratchFreed ==
    ASSUME NEW files, hunk # NoHunk, HunkOK(hunk, live, files), PointersOK(live),
           Of("scratch", live) \subseteq In("hunk", live), NEW p \in Of("scratch", live),
           \A q \in Of("scratch", live) : IF TempEnd(hunk) = "low" THEN live[q].from <= live[p].from
                                                                   ELSE live[q].from >= live[p].from
    PROVE  /\ HunkOK(FreeTempMemory(live[p]), Without(live, {p}), files)
           /\ FreeTempMemory(live[p]) # NoHunk
<1> DEFINE e == TempEnd(hunk)
           h2 == FreeTempMemory(live[p])
           left == Without(live, {p})
           stack == Of("scratch", live)
           D(q) == Depth(live[q], e)
           B(q) == Start(live[q], e)
           top == hunk.bank[e].temp
<1>1. BanksOK(hunk) /\ HunkUsers(hunk, live) /\ ScratchStack(hunk, live, files)
  BY DEF HunkOK
<1>2. p \in In("hunk", live) /\ live[p].use \in {"file", "scratch"}
  BY DEF Of
<1>3. Freed(hunk, h2, live, p)
  BY <1>1, <1>2, TempFreed
<1>4. e \in Ends
  BY <1>1, BankFacts
<1>5. ASSUME NEW q \in stack
      PROVE  /\ q \in In("hunk", live) /\ live[q] \in PieceRecord
             /\ B(q) \in Int /\ D(q) \in Int /\ B(q) < D(q)
             /\ D(q) <= top
  <2>1. q \in In("hunk", live) /\ live[q] \in PieceRecord
    BY DEF PointersOK, In
  <2>2. live[q].use = "scratch" /\ Placed(hunk, live[q])
    BY <1>1, <2>1 DEF HunkUsers, Of
  <2>3. D(q) <= top
    BY <2>2 DEF Placed, Within
  <2>4. QED
    BY <1>4, <2>1, <2>3, DepthFacts
<1>6. ASSUME NEW q \in stack \ {p} PROVE D(q) <= B(p)
  <2>1. /\ live[q] \in PieceRecord /\ B(q) \in Int /\ D(q) \in Int /\ B(q) < D(q)
        /\ live[p] \in PieceRecord /\ B(p) \in Int /\ D(p) \in Int /\ B(p) < D(p)
        /\ q \in In("hunk", live)
    BY <1>5
  <2>2. Apart(live[q], live[p])
    BY <1>1, <1>2, <2>1 DEF HunkUsers, AllApart
  <2>3. D(q) <= B(p) \/ D(p) <= B(q)
    BY <1>4, <2>1, <2>2, ApartFacts
  <2>4. B(q) <= B(p) \/ D(q) <= D(p)
    <3>1. CASE e = "low"
      <4>1. live[q].from <= live[p].from
        BY <3>1
      <4>2. QED
        BY <1>4, <2>1, <3>1, <4>1, ApartFacts
    <3>2. CASE e # "low"
      <4>1. live[p].from \in Int /\ live[q].from \in Int
        BY <2>1 DEF PieceRecord
      <4>2. live[p].from <= live[q].from
        BY <3>2, <4>1
      <4>3. QED
        BY <1>4, <2>1, <3>2, <4>2, ApartFacts
    <3>3. QED
      BY <3>1, <3>2
  <2>5. QED
    BY <2>1, <2>3, <2>4
<1>7. /\ \A q \in stack : D(q) = top \/ \E q2 \in stack : B(q2) = D(q)
      /\ files = 0 => (\A q \in stack : Reached(hunk, live, B(q)))
  BY <1>1 DEF ScratchStack
<1>8. \A d : Reached(hunk, live, d) <=> d = hunk.bank[e].permanent \/ \E q \in stack : D(q) = d
  BY DEF Reached
<1>9. Of("scratch", left) = stack \ {p} /\ \A q \in Pointers \ {p} : left[q] = live[q]
  BY WithoutFacts
<1>10. \A q \in stack \ {p} : Depth(left[q], e) = D(q) /\ Start(left[q], e) = B(q)
  BY <1>9 DEF Of
<1> HIDE DEF left, D, B, top, stack, e, h2
<1>11. p \in stack
  BY DEF stack
<1>12. D(p) = top
  <2>1. CASE D(p) # top
    <3>1. PICK q \in stack : B(q) = D(p)
      BY <1>7, <1>11, <2>1
    <3>2. q # p
      BY <1>5, <1>11, <3>1
    <3>3. D(q) <= B(p) /\ B(q) < D(q) /\ B(p) < D(p) /\ B(q) \in Int /\ D(q) \in Int
          /\ B(p) \in Int /\ D(p) \in Int
      BY <1>5, <1>6, <1>11, <3>2
    <3>4. QED
      BY <3>1, <3>3
  <2>2. QED
    BY <2>1
<1>13. /\ BanksOK(h2) /\ TempEnd(h2) = e /\ h2.bank[e].permanent = hunk.bank[e].permanent
       /\ h2.bank[e].temp = B(p) /\ HunkUsers(h2, left)
  BY <1>3, <1>12 DEF Freed, e, D, B, top, left
<1>14. ASSUME NEW q \in stack \ {p}
       PROVE  D(q) = B(p) \/ \E q2 \in stack \ {p} : B(q2) = D(q)
  <2>1. D(q) # top
    BY <1>5, <1>6, <1>11, <1>12
  <2>2. QED
    BY <1>7, <2>1
<1>15. \A d : Reached(h2, left, d) <=> d = hunk.bank[e].permanent \/ \E q \in stack \ {p} : D(q) = d
  BY <1>9, <1>10, <1>13 DEF Reached
<1>16. ASSUME files = 0, NEW q \in stack PROVE Reached(h2, left, B(q))
  <2>1. B(q) = hunk.bank[e].permanent \/ \E q2 \in stack : D(q2) = B(q)
    BY <1>7, <1>8, <1>16
  <2>2. D(p) # B(q)
    <3>1. B(q) < D(q) /\ D(q) <= top /\ B(q) \in Int /\ D(q) \in Int /\ top = D(p)
      BY <1>5, <1>12
    <3>2. D(p) \in Int
      BY <1>5, <1>11
    <3>3. QED
      BY <3>1, <3>2
  <2>3. QED
    BY <1>15, <2>1, <2>2
<1>17. ScratchStack(h2, left, files)
  <2>1. \A q \in Of("scratch", left) :
            \/ Depth(left[q], e) = h2.bank[e].temp
            \/ \E q2 \in Of("scratch", left) : Start(left[q2], e) = Depth(left[q], e)
    BY <1>9, <1>10, <1>13, <1>14
  <2>2. files = 0 => /\ Reached(h2, left, h2.bank[e].temp)
                     /\ \A q \in Of("scratch", left) : Reached(h2, left, Start(left[q], e))
    BY <1>9, <1>10, <1>11, <1>13, <1>16
  <2>3. QED
    BY <1>13, <2>1, <2>2 DEF ScratchStack
<1>18. h2 # NoHunk
  BY <1>13, BankFacts
<1>19. QED
  BY <1>13, <1>17, <1>18 DEF HunkOK, left, h2

\* Of the banks only the permanent memory is left, up to some number.
Marked(h) == [h EXCEPT !.bank = [e \in Ends |-> [h.bank[e] EXCEPT !.mark = h.bank[e].permanent]]]
ToMark(h) == [h EXCEPT !.bank = [e \in Ends |-> [h.bank[e] EXCEPT !.permanent = h.bank[e].mark,
                                                                  !.temp = h.bank[e].mark]]]
Kept(lv) == [p \in Pointers |-> IF p \in Of("permanent", lv) THEN [lv[p] EXCEPT !.kept = TRUE]
                                                            ELSE lv[p]]

\* Everything permanent is below the mark that Hunk_SetMark makes.
LEMMA MarkKeeps ==
    ASSUME NEW h, NEW lv, NEW files, h # NoHunk, HunkOK(h, lv, files), PointersOK(lv),
           Of("permanent", lv) \subseteq In("hunk", lv)
    PROVE  /\ HunkOK(Marked(h), Kept(lv), files) /\ Marked(h) # NoHunk /\ PointersOK(Kept(lv))
           /\ \A p \in Pointers : /\ Kept(lv)[p].use = lv[p].use
                                  /\ (Kept(lv)[p] = NULL) <=> (lv[p] = NULL)
                                  /\ Kept(lv)[p].place = lv[p].place /\ Kept(lv)[p].from = lv[p].from
                                  /\ Kept(lv)[p].size = lv[p].size
<1> DEFINE h2 == Marked(h)
           lv2 == Kept(lv)
<1>1. BanksOK(h) /\ HunkUsers(h, lv) /\ ScratchStack(h, lv, files)
  BY DEF HunkOK
<1>2. h \in HunkRecord /\ \A e \in Ends : h.bank[e] \in BankRecord
  BY <1>1, BankFacts DEF BanksOK
<1>3. h2.permanent = h.permanent /\ h2.bank = [e \in Ends |-> [h.bank[e] EXCEPT !.mark = h.bank[e].permanent]]
      /\ h2 = [bank |-> h2.bank, permanent |-> h.permanent]
  BY <1>2 DEF Marked, HunkRecord
<1>4. \A e \in Ends : /\ h2.bank[e] \in BankRecord /\ h2.bank[e].mark = h.bank[e].permanent
                      /\ h2.bank[e].permanent = h.bank[e].permanent /\ h2.bank[e].temp = h.bank[e].temp
  BY <1>2, <1>3 DEF BankRecord
<1> HIDE DEF h2
<1>5. h2 \in HunkRecord
  <2>1. h2.bank \in [Ends -> BankRecord]
    BY <1>3, <1>4
  <2>2. h.permanent \in Ends
    BY <1>1, BankFacts
  <2>3. QED
    BY <1>3, <2>1, <2>2 DEF HunkRecord
<1>6. BanksOK(h2) /\ TempEnd(h2) = TempEnd(h)
  <2>1. /\ h.permanent \in Ends /\ h.bank[h.permanent].temp = h.bank[h.permanent].permanent
        /\ "low" \in Ends /\ "high" \in Ends
        /\ h.bank["low"].temp + h.bank["high"].temp <= s_hunkTotal
        /\ \A e \in Ends : h.bank[e].permanent <= h.bank[e].temp /\ h.bank[e].permanent <= h.bank[e].permanent
    BY <1>1, BankFacts DEF BanksOK, Ends
  <2>2. QED
    BY <1>3, <1>4, <1>5, <2>1 DEF BanksOK, TempEnd
<1>7. \A p \in Pointers : lv[p] = NULL \/ lv[p] \in PieceRecord
  BY DEF PointersOK
<1>8. NULL.use = "none" /\ \A r \in PieceRecord : r # NULL
  <2>1. NULL.use = "none"
    BY DEF NULL
  <2>2. QED
    BY <2>1 DEF PieceRecord
<1>9. ASSUME NEW p \in Pointers
      PROVE  /\ lv2[p].use = lv[p].use /\ ((lv2[p] = NULL) <=> (lv[p] = NULL))
             /\ lv2[p].place = lv[p].place /\ lv2[p].from = lv[p].from /\ lv2[p].size = lv[p].size
             /\ lv2[p] \in {NULL} \cup PieceRecord
             /\ lv2[p].kept => lv[p].use = "permanent" \/ lv[p].kept
             /\ p \notin Of("permanent", lv) => lv2[p] = lv[p]
             /\ p \in Of("permanent", lv) => lv2[p].kept
  <2>1. CASE p \in Of("permanent", lv)
    <3>1. lv[p] \in PieceRecord /\ lv[p].use = "permanent"
      BY <1>7, <1>8, <2>1 DEF Of
    <3>2. lv2[p] = [lv[p] EXCEPT !.kept = TRUE]
      BY <2>1 DEF Kept
    <3>3. lv2[p] \in PieceRecord
      BY <3>1, <3>2 DEF PieceRecord
    <3>4. /\ lv2[p].use = lv[p].use /\ lv2[p].place = lv[p].place /\ lv2[p].from = lv[p].from
          /\ lv2[p].size = lv[p].size /\ lv2[p].kept
      BY <3>1, <3>2 DEF PieceRecord
    <3>5. QED
      BY <1>8, <2>1, <3>1, <3>3, <3>4
  <2>2. CASE p \notin Of("permanent", lv)
    <3>1. lv2[p] = lv[p]
      BY <2>2 DEF Kept
    <3>2. QED
      BY <1>7, <2>2, <3>1
  <2>3. QED
    BY <2>1, <2>2
<1>10. PointersOK(lv2)
  BY <1>9 DEF PointersOK, Kept
<1> HIDE DEF lv2
<1>11. In("hunk", lv2) = In("hunk", lv) /\ Of("scratch", lv2) = Of("scratch", lv)
  BY <1>9 DEF In, Of
<1>12. \A p \in Pointers : \A e \in Ends : Start(lv2[p], e) = Start(lv[p], e)
                                           /\ Depth(lv2[p], e) = Depth(lv[p], e)
  BY <1>9 DEF Start, Depth
<1>13. ASSUME NEW q \in In("hunk", lv) PROVE Placed(h2, lv2[q])
  <2>1. q \in Pointers /\ Placed(h, lv[q]) /\ lv[q] \in PieceRecord
    BY <1>1, <1>7 DEF HunkUsers, In
  <2>2. CASE lv[q].use = "permanent"
    <3>1. lv2[q].kept /\ lv2[q].use = "permanent"
      BY <1>9, <2>1, <2>2 DEF Of
    <3>2. PICK f \in Ends : Within(lv[q], f, 0, IF lv[q].kept THEN h.bank[f].mark
                                                ELSE h.bank[f].permanent)
      BY <2>1, <2>2 DEF Placed
    <3>3. /\ h.bank[f].mark \in Nat /\ h.bank[f].permanent \in Nat
          /\ h.bank[f].mark <= h.bank[f].permanent /\ Depth(lv[q], f) \in Int
      BY <1>1, <2>1, BankFacts, DepthFacts
    <3>4. Within(lv[q], f, 0, h.bank[f].permanent)
      BY <3>2, <3>3 DEF Within
    <3>5. Within(lv2[q], f, 0, h2.bank[f].mark)
      BY <1>4, <1>12, <2>1, <3>4 DEF Within
    <3>6. QED
      BY <3>1, <3>5 DEF Placed
  <2>3. CASE lv[q].use # "permanent"
    <3>1. lv2[q] = lv[q]
      BY <1>9, <2>1, <2>3 DEF Of
    <3>2. TempEnd(h) \in Ends
      BY <1>1, BankFacts
    <3>3. QED
      BY <1>4, <1>6, <2>1, <2>3, <3>1, <3>2 DEF Placed
  <2>4. QED
    BY <2>2, <2>3
<1>14. AllApart(lv2)
  BY <1>1, <1>9, <1>11 DEF HunkUsers, AllApart, Apart, In
<1>15. HunkUsers(h2, lv2)
  BY <1>11, <1>13, <1>14 DEF HunkUsers
<1>16. ScratchStack(h2, lv2, files)
  <2>1. TempEnd(h) \in Ends
    BY <1>1, BankFacts
  <2>2. \A d : Reached(h, lv, d) => Reached(h2, lv2, d)
    BY <1>4, <1>6, <1>11, <1>12, <2>1 DEF Reached, Of
  <2>3. \A q \in Of("scratch", lv) : /\ Start(lv2[q], TempEnd(h)) = Start(lv[q], TempEnd(h))
                                     /\ Depth(lv2[q], TempEnd(h)) = Depth(lv[q], TempEnd(h))
    BY <1>12, <2>1 DEF Of
  <2>4. h2.bank[TempEnd(h)].temp = h.bank[TempEnd(h)].temp
    BY <1>4, <2>1
  <2>5. QED
    BY <1>1, <1>6, <1>11, <2>2, <2>3, <2>4 DEF ScratchStack
<1>17. h2 # NoHunk
  BY <1>6, BankFacts
<1>18. QED
  BY <1>6, <1>9, <1>10, <1>15, <1>16, <1>17 DEF HunkOK, h2, lv2

\* What is left below the mark is exactly what was kept.
LEMMA ToMarkKeeps ==
    ASSUME NEW h, NEW lv, NEW files, h # NoHunk, HunkOK(h, lv, files), PointersOK(lv),
           Of("file", lv) = {}, Of("scratch", lv) = {}
    PROVE  /\ HunkOK(ToMark(h), Without(lv, {p \in Of("permanent", lv) : ~lv[p].kept}), files)
           /\ ToMark(h) # NoHunk
<1> DEFINE h2 == ToMark(h)
           gone == {p \in Of("permanent", lv) : ~lv[p].kept}
           left == Without(lv, gone)
<1>1. BanksOK(h) /\ HunkUsers(h, lv)
  BY DEF HunkOK
<1>2. h \in HunkRecord /\ \A e \in Ends : h.bank[e] \in BankRecord
  BY <1>1, BankFacts DEF BanksOK
<1>3. /\ h2.permanent = h.permanent
      /\ h2.bank = [e \in Ends |-> [h.bank[e] EXCEPT !.permanent = h.bank[e].mark,
                                                     !.temp = h.bank[e].mark]]
      /\ h2 = [bank |-> h2.bank, permanent |-> h.permanent]
  <2> DEFINE b == [e \in Ends |-> [h.bank[e] EXCEPT !.permanent = h.bank[e].mark,
                                                   !.temp = h.bank[e].mark]]
  <2>1. h2 = [h EXCEPT !.bank = b]
    BY DEF ToMark
  <2> HIDE DEF b, h2
  <2>2. h2.permanent = h.permanent /\ h2.bank = b /\ h2 = [bank |-> h2.bank, permanent |-> h2.permanent]
    BY <1>2, <2>1 DEF HunkRecord
  <2>3. QED
    BY <2>2 DEF b
<1>4. \A e \in Ends : /\ h2.bank[e] \in BankRecord /\ h2.bank[e].mark = h.bank[e].mark
                      /\ h2.bank[e].permanent = h.bank[e].mark /\ h2.bank[e].temp = h.bank[e].mark
  BY <1>2, <1>3 DEF BankRecord
<1> HIDE DEF h2
<1>5. h2 \in HunkRecord
  <2>1. h2.bank \in [Ends -> BankRecord]
    BY <1>3, <1>4
  <2>2. h.permanent \in Ends
    BY <1>1, BankFacts
  <2>3. QED
    BY <1>3, <2>1, <2>2 DEF HunkRecord
<1>6. BanksOK(h2) /\ TempEnd(h2) \in Ends
  <2>1. /\ h.permanent \in Ends /\ "low" \in Ends /\ "high" \in Ends
        /\ h.bank["low"].temp + h.bank["high"].temp <= s_hunkTotal
        /\ \A e \in Ends : /\ h.bank[e].mark \in Nat /\ h.bank[e].temp \in Nat
                           /\ h.bank[e].mark <= h.bank[e].permanent
                           /\ h.bank[e].permanent <= h.bank[e].temp /\ h.bank[e].permanent \in Nat
    BY <1>1, BankFacts DEF BanksOK, Ends
  <2>2. h.bank["low"].mark + h.bank["high"].mark <= s_hunkTotal
    BY <2>1, HunkAssumption
  <2>3. BanksOK(h2)
    <3>1. \A e \in Ends : h2.bank[e].mark <= h2.bank[e].permanent
                          /\ h2.bank[e].permanent <= h2.bank[e].temp
      BY <1>4, <2>1
    <3>2. h2.bank[h2.permanent].temp = h2.bank[h2.permanent].permanent
      BY <1>3, <1>4, <2>1
    <3>3. h2.bank["low"].temp + h2.bank["high"].temp <= s_hunkTotal
      BY <1>4, <2>1, <2>2
    <3>4. QED
      BY <1>5, <3>1, <3>2, <3>3 DEF BanksOK
  <2>4. QED
    BY <2>3, BankFacts
<1>7. /\ In("hunk", left) = In("hunk", lv) \ gone /\ \A q \in Pointers \ gone : left[q] = lv[q]
      /\ Of("scratch", left) = Of("scratch", lv) \ gone
  BY WithoutFacts
<1>8. HunkUsers(h2, left)
  <2>1. ASSUME NEW q \in In("hunk", left) PROVE Placed(h2, left[q])
    <3>1. q \in In("hunk", lv) /\ q \in Pointers \ gone /\ left[q] = lv[q]
      BY <1>7 DEF In
    <3>2. Placed(h, lv[q]) /\ lv[q].use \notin {"file", "scratch"}
      BY <1>1, <3>1 DEF HunkUsers, Of, In
    <3>3. lv[q].use = "permanent"
      BY <3>2 DEF Placed
    <3>4. lv[q].kept
      BY <3>1, <3>3 DEF Of
    <3>5. PICK f \in Ends : Within(lv[q], f, 0, h.bank[f].mark)
      BY <3>2, <3>3, <3>4 DEF Placed
    <3>6. Within(left[q], f, 0, h2.bank[f].mark)
      BY <1>4, <3>1, <3>5
    <3> HIDE DEF left, gone
    <3>7. QED
      BY <3>1, <3>3, <3>4, <3>6 DEF Placed
  <2>2. AllApart(left)
    <3>1. \A q \in In("hunk", left) : q \in In("hunk", lv) /\ left[q] = lv[q]
      BY <1>7 DEF In
    <3> HIDE DEF left
    <3>2. QED
      BY <1>1, <3>1 DEF HunkUsers, AllApart
  <2>3. QED
    BY <2>1, <2>2 DEF HunkUsers
<1>9. ScratchStack(h2, left, files)
  BY <1>4, <1>6, <1>7 DEF ScratchStack, Reached
<1>10. h2 # NoHunk
  BY <1>6, BankFacts
<1>11. QED
  BY <1>6, <1>8, <1>9, <1>10 DEF HunkOK, h2

-----------------------------------------------------------------------------
(* The steps of the hunk *)

\* What the invariant says when no allocation is under way.
LEMMA WhenReady ==
    ASSUME MemoryInv, Ready
    PROVE  /\ scan = Idle /\ PointersOK(live) /\ ZoneUsers(zone, live) /\ ZoneOK(zone)
           /\ HunkOK(hunk, live, fs_loadStack)
           /\ IsFiniteSet(Of("file", live)) /\ fs_loadStack \in Nat
           /\ fs_loadStack >= Cardinality(Of("file", live))
           /\ Cardinality(Of("file", live)) \in Nat
           /\ HunkExists => Of("file", live) \subseteq In("hunk", live)
           /\ ~HunkExists => fs_loadStack = Cardinality(Of("file", live)) /\ In("hunk", live) = {}
           /\ Of("scratch", live) \subseteq In("hunk", live)
           /\ Of("permanent", live) \subseteq In("hunk", live)
           /\ Files = Of("file", live) /\ Scratch = Of("scratch", live)
           /\ Permanent = Of("permanent", live)
           /\ \A S : Released(S) = Without(live, S)
<1>1. /\ scan = Idle /\ PointersOK(live) /\ ZoneUsers(zone, live) /\ ZoneOK(zone)
      /\ HunkOK(hunk, live, fs_loadStack) /\ FilesOK(scan, hunk, live, fs_loadStack)
  BY DEF MemoryInv, Ready, PointersOK
<1>2. Loaded(scan, live) = Of("file", live)
  BY <1>1 DEF Loaded
<1>3. /\ IsFiniteSet(Of("file", live)) /\ fs_loadStack \in Nat
      /\ fs_loadStack >= Cardinality(Of("file", live))
      /\ HunkExists => Of("file", live) \subseteq In("hunk", live)
      /\ ~HunkExists => fs_loadStack = Cardinality(Of("file", live))
  BY <1>1, <1>2 DEF FilesOK, HunkExists
<1>4. ~HunkExists => In("hunk", live) = {}
  BY <1>1 DEF HunkOK, HunkExists
<1>5. Of("scratch", live) \subseteq In("hunk", live) /\ Of("permanent", live) \subseteq In("hunk", live)
  BY <1>1, Kinds
<1>6. /\ Files = Of("file", live) /\ Scratch = Of("scratch", live)
      /\ Permanent = Of("permanent", live)
      /\ \A S : Released(S) = Without(live, S)
  BY DEF Files, Scratch, Permanent, Using, Of, Released, Without
<1>7. QED
  BY <1>1, <1>3, <1>4, <1>5, <1>6, FS_CardinalityType

\* The invariant again after a step of the hunk alone.
LEMMA HunkStep ==
    ASSUME MemoryInv, Ready, UNCHANGED <<zone, scan>>,
           PointersOK(live'), ZoneUsers(zone, live'), HunkOK(hunk', live', fs_loadStack'),
           hunk' # NoHunk, IsFiniteSet(Of("file", live')), fs_loadStack' \in Nat,
           fs_loadStack' >= Cardinality(Of("file", live')),
           Of("file", live') \subseteq In("hunk", live')
    PROVE  MemoryInv'
<1>1. scan' = Idle /\ scan = Idle
  BY DEF Ready
<1>2. Loaded(scan', live') = Of("file", live')
  BY <1>1 DEF Loaded
<1>3. FilesOK(scan', hunk', live', fs_loadStack')
  BY <1>1, <1>2 DEF FilesOK
<1>4. ScanOK(zone', scan')
  BY <1>1 DEF ScanOK
<1>5. ZoneOK(zone') /\ zone' = zone
  BY DEF MemoryInv
<1>6. QED
  BY <1>1, <1>3, <1>4, <1>5 DEF MemoryInv, PointersOK

\* The zone's users are not disturbed by what happens to others.
LEMMA ZoneUsersSame ==
    ASSUME NEW z, NEW lv, ZoneUsers(z, lv), NEW lv2, In("zone", lv2) \subseteq In("zone", lv),
           \A q \in In("zone", lv2) : lv2[q] = lv[q]
    PROVE  ZoneUsers(z, lv2)
  BY DEF ZoneUsers

\* An error leaves nothing that the invariant forbids, on a client or not.
LEMMA ErrorStep ==
    ASSUME MemoryInv, Ready, HunkExists, NEW h, h # NoHunk, HunkOK(h, live, fs_loadStack),
           com_dedicated => Scratch = {}, fs_loadStack' \in {fs_loadStack, fs_loadStack + 1},
           UNCHANGED <<zone, scan>>, Com_Error(h)
    PROVE  MemoryInv'
<1>1. /\ PointersOK(live) /\ ZoneUsers(zone, live)
      /\ HunkOK(hunk, live, fs_loadStack)
      /\ fs_loadStack \in Nat
      /\ Files = Of("file", live) /\ Scratch = Of("scratch", live)
      /\ Permanent = Of("permanent", live)
      /\ \A S : Released(S) = Without(live, S)
  BY WhenReady
<1>2. PICK S \in SUBSET Pointers :
          /\ live' = Without(live, S) /\ Of("file", live) \cup Of("scratch", live) \subseteq S
          /\ hunk' # NoHunk /\ HunkOK(hunk', live', fs_loadStack')
  <2>1. CASE com_dedicated
    <3> DEFINE S == Of("file", live) \cup Of("scratch", live)
    <3>1. hunk' = h /\ live' = Without(live, S)
      BY <1>1, <2>1 DEF Com_Error
    <3>2. fs_loadStack' = 0 => fs_loadStack = 0 /\ Of("scratch", live) = {}
      BY <1>1, <2>1
    <3>3. HunkOK(h, Without(live, S), fs_loadStack')
      BY <1>1, <3>2, AbandonKeeps
    <3>4. S \in SUBSET Pointers
      BY DEF Of
    <3>5. QED
      BY <3>1, <3>3, <3>4
  <2>2. CASE ~com_dedicated
    <3> DEFINE S == Of("file", live) \cup Of("scratch", live) \cup Of("permanent", live)
    <3>1. hunk' = Cleared /\ live' = Without(live, S)
      BY <1>1, <2>2 DEF Com_Error, Hunk_Clear
    <3>2. In("hunk", live) \subseteq S
      <4>1. HunkUsers(hunk, live)
        BY <1>1 DEF HunkOK, HunkExists
      <4>2. QED
        BY <4>1 DEF HunkUsers, Placed, In, Of
    <3>3. In("hunk", Without(live, S)) = {} /\ Of("scratch", Without(live, S)) = {}
      <4>1. /\ In("hunk", Without(live, S)) = In("hunk", live) \ S
            /\ Of("scratch", Without(live, S)) = Of("scratch", live) \ S
        BY <1>1, WithoutFacts
      <4>2. QED
        BY <3>2, <4>1
    <3>4. HunkOK(Cleared, Without(live, S), fs_loadStack') /\ Cleared # NoHunk
      BY <3>3, ClearedOK
    <3>5. S \in SUBSET Pointers
      BY DEF Of
    <3>6. QED
      BY <3>1, <3>4, <3>5
  <2>3. QED
    BY <2>1, <2>2
<1>3. /\ PointersOK(live') /\ In("zone", live') = In("zone", live) \ S
      /\ Of("file", live') = {} /\ \A q \in Pointers \ S : live'[q] = live[q]
  <2>1. /\ PointersOK(Without(live, S)) /\ In("zone", Without(live, S)) = In("zone", live) \ S
        /\ Of("file", Without(live, S)) = Of("file", live) \ S
        /\ \A q \in Pointers \ S : Without(live, S)[q] = live[q]
    BY <1>1, WithoutFacts
  <2>2. QED
    BY <1>2, <2>1
<1>4. ZoneUsers(zone, live')
  BY <1>1, <1>3, ZoneUsersSame DEF In
<1>5. /\ IsFiniteSet(Of("file", live')) /\ fs_loadStack' \in Nat
      /\ fs_loadStack' >= Cardinality(Of("file", live'))
      /\ Of("file", live') \subseteq In("hunk", live')
  BY <1>1, <1>3, FS_EmptySet
<1>6. QED
  BY <1>2, <1>3, <1>4, <1>5, HunkStep

\* Temporary memory for a file or for scratch.
LEMMA TempStep ==
    ASSUME MemoryInv, Ready, HunkExists, NEW p \in Pointers, live[p] = NULL,
           NEW size \in HunkSizes, NEW use \in {"file", "scratch"},
           AllocateTempMemory(p, size, use), UNCHANGED <<zone, scan>>,
           use = "file" => Scratch = {} /\ fs_loadStack' = fs_loadStack + 1,
           use = "scratch" => fs_loadStack' = fs_loadStack,
           com_dedicated => Scratch = {}
    PROVE  MemoryInv'
<1> DEFINE h == SwapBanks(hunk)
           e == TempEnd(h)
           temp == h.bank[e].temp + size
           h2 == [h EXCEPT !.bank[e].temp = temp,
                           !.bank[e].tempHighwater = IF temp > @ THEN temp ELSE @]
           lv2 == [live EXCEPT ![p] = Piece(e, temp, size, use)]
<1>1. /\ PointersOK(live) /\ ZoneUsers(zone, live)
      /\ HunkOK(hunk, live, fs_loadStack) /\ hunk # NoHunk
      /\ IsFiniteSet(Of("file", live)) /\ fs_loadStack \in Nat
      /\ fs_loadStack >= Cardinality(Of("file", live)) /\ Cardinality(Of("file", live)) \in Nat
      /\ Of("file", live) \subseteq In("hunk", live)
      /\ Of("scratch", live) \subseteq In("hunk", live)
      /\ Scratch = Of("scratch", live)
  BY WhenReady DEF HunkExists
<1>2. HunkOK(h, live, fs_loadStack) /\ h # NoHunk
  BY <1>1, SwapKeeps
<1>3. fs_loadStack' \in {fs_loadStack, fs_loadStack + 1} /\ fs_loadStack' \in Nat
  BY <1>1
<1>4. CASE temp + h.bank[h.permanent].permanent > s_hunkTotal
  <2>1. Com_Error(h)
    BY <1>4 DEF AllocateTempMemory
  <2>2. QED
    BY <1>2, <1>3, <2>1, ErrorStep
<1>5. CASE ~(temp + h.bank[h.permanent].permanent > s_hunkTotal)
  <2>1. hunk' = h2 /\ live' = lv2
    BY <1>5 DEF AllocateTempMemory
  <2> HIDE DEF h, e, temp
  <2>2. BanksOK(h) /\ HunkUsers(h, live) /\ e = TempEnd(h)
    BY <1>2 DEF HunkOK, e
  <2>3. /\ e \in Ends /\ h \in HunkRecord /\ h.bank[e].temp \in Nat
        /\ h.bank[h.permanent].permanent \in Nat /\ h.permanent = Opposite(e)
        /\ h.bank[h.permanent].temp = h.bank[h.permanent].permanent
    BY <2>2, BankFacts DEF BanksOK
  <2>4. size \in Nat \ {0}
    BY HunkAssumption
  <2>5. /\ temp = h.bank[e].temp + size /\ temp \in 0 .. s_hunkTotal
        /\ temp + h.bank[h.permanent].permanent <= s_hunkTotal
        /\ temp + h.bank[Opposite(e)].temp <= s_hunkTotal
    BY <1>5, <2>3, <2>4, HunkAssumption DEF temp
  <2>6. Moved(h, h2, e, h.bank[e].permanent, temp)
    BY <2>3, <2>5, TempRaised
  <2>7. Added(h, live, lv2, e, temp, size, p, use)
    <3>1. use \in {"file", "scratch", "permanent"}
      OBVIOUS
    <3>2. QED
      BY <1>1, <2>2, <2>3, <2>4, <2>5, <3>1, PieceAdded
  <2> HIDE DEF h2, lv2
  <2>8. HunkOK(h2, lv2, fs_loadStack') /\ h2 # NoHunk
    <3>1. Counted(use, live, fs_loadStack, fs_loadStack')
      BY <1>1 DEF Counted
    <3>2. QED
      BY <1>1, <1>2, <2>2, <2>4, <2>5, <2>6, <2>7, <3>1, TempKeeps
  <2>9. /\ PointersOK(lv2) /\ In("hunk", lv2) = In("hunk", live) \cup {p} /\ p \notin In("hunk", live)
        /\ In("zone", lv2) = In("zone", live)
        /\ \A q \in Pointers \ {p} : lv2[q] = live[q]
        /\ Of("file", lv2) = IF "file" = use THEN Of("file", live) \cup {p} ELSE Of("file", live)
    BY <2>7 DEF Added
  <2>10. ZoneUsers(zone, lv2)
    <3>1. p \notin In("zone", live)
      BY DEF In
    <3>2. \A q \in In("zone", lv2) : lv2[q] = live[q]
      BY <2>9, <3>1 DEF In
    <3>3. QED
      BY <1>1, <2>9, <3>2, ZoneUsersSame
  <2>11. /\ IsFiniteSet(Of("file", lv2)) /\ fs_loadStack' >= Cardinality(Of("file", lv2))
         /\ Of("file", lv2) \subseteq In("hunk", lv2)
    <3>1. /\ IsFiniteSet(Of("file", live) \cup {p})
          /\ Cardinality(Of("file", live) \cup {p})
                 = IF p \in Of("file", live) THEN Cardinality(Of("file", live))
                                             ELSE Cardinality(Of("file", live)) + 1
      BY <1>1, FS_AddElement
    <3>2. CASE use = "file"
      BY <1>1, <2>9, <3>1, <3>2
    <3>3. CASE use = "scratch"
      BY <1>1, <2>9, <3>3
    <3>4. QED
      BY <3>2, <3>3
  <2>12. QED
    BY <1>3, <2>1, <2>8, <2>9, <2>10, <2>11, HunkStep
<1>6. QED
  BY <1>4, <1>5

\* Hunk_Alloc keeps the invariant, whichever bank it chooses.
LEMMA HunkAllocStep ==
    ASSUME MemoryInv, NEW p \in Pointers, NEW size \in HunkSizes, NEW end,
           Hunk_Alloc(p, size, end)
    PROVE  MemoryInv'
<1> DEFINE h == IF end # hunk.permanent \/ TempInUse(hunk) THEN SwapBanks(hunk) ELSE hunk
           e == h.permanent
           used == h.bank[e].permanent + size
           h2 == [h EXCEPT !.bank[e].permanent = used, !.bank[e].temp = used]
           lv2 == [live EXCEPT ![p] = Piece(e, used, size, "permanent")]
<1>0. /\ Ready /\ Scratch = {} /\ HunkExists /\ live[p] = NULL
      /\ UNCHANGED <<zone, scan, fs_loadStack, com_dedicated>>
  BY DEF Hunk_Alloc, Free
<1>1. /\ PointersOK(live) /\ ZoneUsers(zone, live)
      /\ HunkOK(hunk, live, fs_loadStack) /\ hunk # NoHunk
      /\ IsFiniteSet(Of("file", live)) /\ fs_loadStack \in Nat
      /\ fs_loadStack >= Cardinality(Of("file", live))
      /\ Of("file", live) \subseteq In("hunk", live)
      /\ Of("scratch", live) \subseteq In("hunk", live)
      /\ Of("scratch", live) = {}
  BY <1>0, WhenReady DEF HunkExists
<1>2. HunkOK(h, live, fs_loadStack) /\ h # NoHunk
  BY <1>1, SwapKeeps
<1>3. CASE h.bank["low"].temp + h.bank["high"].temp + size > s_hunkTotal
  <2>1. Com_Error(h)
    BY <1>3 DEF Hunk_Alloc
  <2> HIDE DEF h
  <2>2. QED
    BY <1>0, <1>2, <2>1, ErrorStep
<1>4. CASE ~(h.bank["low"].temp + h.bank["high"].temp + size > s_hunkTotal)
  <2>1. hunk' = h2 /\ live' = lv2
    BY <1>4 DEF Hunk_Alloc
  <2> HIDE DEF h, e, used
  <2>2. BanksOK(h) /\ HunkUsers(h, live) /\ e = h.permanent
    BY <1>2 DEF HunkOK, e
  <2>3. /\ e \in Ends /\ h \in HunkRecord /\ h.bank[e].temp \in Nat /\ h.bank[e].permanent \in Nat
        /\ h.bank[e].temp = h.bank[e].permanent
        /\ h.bank["low"].temp \in Nat /\ h.bank["high"].temp \in Nat
    BY <2>2, BankFacts DEF BanksOK, Ends
  <2>4. size \in Nat \ {0}
    BY HunkAssumption
  <2>5. h.bank["low"].temp + h.bank["high"].temp + size <= s_hunkTotal
    BY <1>4, <2>3, <2>4, HunkAssumption
  <2>6. /\ used = h.bank[e].permanent + size /\ used = h.bank[e].temp + size
        /\ used + h.bank[Opposite(e)].temp <= s_hunkTotal
    BY <2>3, <2>4, <2>5 DEF used, Ends, Opposite
  <2>7. used \in 0 .. s_hunkTotal
    <3>1. h.bank[Opposite(e)].temp \in Nat
      BY <2>3 DEF Ends, Opposite
    <3>2. QED
      BY <2>3, <2>4, <2>6, <3>1, HunkAssumption
  <2>8. Moved(h, h2, e, used, used)
    BY <2>3, <2>7, PermanentRaised
  <2>9. Added(h, live, lv2, e, used, size, p, "permanent")
    <3>1. "permanent" \in {"file", "scratch", "permanent"}
      OBVIOUS
    <3>2. QED
      BY <1>0, <1>1, <2>2, <2>3, <2>4, <2>6, <3>1, PieceAdded
  <2> HIDE DEF h2, lv2
  <2>10. HunkOK(h2, lv2, fs_loadStack) /\ h2 # NoHunk
    BY <1>0, <1>1, <1>2, <2>2, <2>4, <2>5, <2>6, <2>8, <2>9, PermanentKeeps
  <2>11. /\ PointersOK(lv2) /\ In("hunk", lv2) = In("hunk", live) \cup {p} /\ p \notin In("hunk", live)
         /\ In("zone", lv2) = In("zone", live)
         /\ \A q \in Pointers \ {p} : lv2[q] = live[q]
         /\ Of("file", lv2) = Of("file", live)
    BY <2>9 DEF Added
  <2>12. ZoneUsers(zone, lv2)
    <3>1. p \notin In("zone", live)
      BY <1>0 DEF In
    <3>2. \A q \in In("zone", lv2) : lv2[q] = live[q]
      BY <2>11, <3>1 DEF In
    <3>3. QED
      BY <1>1, <2>11, <3>2, ZoneUsersSame
  <2>13. QED
    BY <1>0, <1>1, <2>1, <2>10, <2>11, <2>12, HunkStep
<1>5. QED
  BY <1>3, <1>4

-----------------------------------------------------------------------------
(* The steps of the zone *)

\* The hunk's users are not disturbed by what happens to others.
LEMMA HunkOther ==
    ASSUME NEW h, NEW lv, NEW files, HunkOK(h, lv, files), NEW lv2,
           In("hunk", lv2) = In("hunk", lv), Of("scratch", lv2) = Of("scratch", lv),
           Of("scratch", lv) \subseteq In("hunk", lv),
           \A q \in In("hunk", lv) : lv2[q] = lv[q]
    PROVE  HunkOK(h, lv2, files)
<1>1. CASE h = NoHunk
  BY <1>1 DEF HunkOK
<1>2. CASE h # NoHunk
  <2>1. BanksOK(h) /\ HunkUsers(h, lv) /\ ScratchStack(h, lv, files)
    BY <1>2 DEF HunkOK
  <2>2. HunkUsers(h, lv2)
    <3>1. \A q \in In("hunk", lv2) : Placed(h, lv2[q])
      BY <2>1 DEF HunkUsers
    <3>2. AllApart(lv2)
      BY <2>1 DEF HunkUsers, AllApart
    <3>3. QED
      BY <3>1, <3>2 DEF HunkUsers
  <2>3. ScratchStack(h, lv2, files)
    <3>1. \A q \in Of("scratch", lv) : lv2[q] = lv[q]
      OBVIOUS
    <3>2. QED
      BY <2>1, <3>1 DEF ScratchStack, Reached
  <2>4. QED
    BY <1>2, <2>1, <2>2, <2>3 DEF HunkOK
<1>3. QED
  BY <1>1, <1>2

\* An allocation from the zone begins, for a block or, without a hunk, for a file.
LEMMA ScanBegins ==
    ASSUME MemoryInv, Ready, NEW p \in Pointers, live[p] = NULL, NEW size \in Nat \ {0},
           NEW use \in {"block", "file"}, Z_TagMalloc(p, size, use), UNCHANGED hunk,
           use = "block" => UNCHANGED fs_loadStack,
           use = "file" => ~HunkExists /\ fs_loadStack' = fs_loadStack + 1
    PROVE  MemoryInv'
<1>1. /\ scan = Idle /\ PointersOK(live) /\ ZoneUsers(zone, live) /\ ZoneOK(zone)
      /\ HunkOK(hunk, live, fs_loadStack)
      /\ IsFiniteSet(Of("file", live)) /\ fs_loadStack \in Nat
      /\ fs_loadStack >= Cardinality(Of("file", live)) /\ Cardinality(Of("file", live)) \in Nat
      /\ HunkExists => Of("file", live) \subseteq In("hunk", live)
      /\ ~HunkExists => fs_loadStack = Cardinality(Of("file", live)) /\ In("hunk", live) = {}
  BY WhenReady
<1>2. zone.rover \in DOMAIN zone.block /\ zone.block[zone.rover].prev \in DOMAIN zone.block
  BY <1>1, ZoneFacts, RingFacts
<1>3. size \in Nat \ {0}
  OBVIOUS
<1>4. /\ scan' = [pointer |-> p, size |-> size, use |-> use, base |-> zone.rover,
                  rover |-> zone.rover, start |-> zone.block[zone.rover].prev]
      /\ zone' = zone /\ live' = live
  BY DEF Z_TagMalloc
<1>5. /\ scan' \in ScanRecord(zone) /\ scan'.pointer = p /\ scan'.use = use /\ scan' # Idle
      /\ scan'.rover = zone.rover /\ scan'.base = zone.rover
      /\ scan'.start = zone.block[zone.rover].prev
  <2>1. scan' \in ScanRecord(zone)
    BY <1>2, <1>3, <1>4 DEF ScanRecord
  <2>2. scan'.size # 0 /\ Idle.size = 0
    BY <1>3, <1>4 DEF Idle
  <2>3. QED
    BY <1>4, <2>1, <2>2
<1>6. ScanOK(zone', scan')
  BY <1>4, <1>5 DEF ScanOK
<1>7. HunkOK(hunk', live', fs_loadStack')
  <2>1. CASE use = "block"
    BY <1>1, <1>4, <2>1
  <2>2. CASE use = "file"
    BY <1>1, <1>4, <2>2 DEF HunkOK, HunkExists
  <2>3. QED
    BY <2>1, <2>2
<1>8. FilesOK(scan', hunk', live', fs_loadStack')
  <2>1. Loaded(scan', live') = IF use = "file" THEN Of("file", live) \cup {p} ELSE Of("file", live)
    BY <1>4, <1>5 DEF Loaded
  <2>2. CASE use = "block"
    BY <1>1, <1>4, <1>5, <2>1, <2>2 DEF FilesOK, HunkExists
  <2>3. CASE use = "file"
    <3>1. p \notin Of("file", live)
      BY DEF Of, NULL
    <3>2. /\ IsFiniteSet(Of("file", live) \cup {p})
          /\ Cardinality(Of("file", live) \cup {p}) = Cardinality(Of("file", live)) + 1
      BY <1>1, <3>1, FS_AddElement
    <3>3. QED
      BY <1>1, <2>1, <2>3, <3>2 DEF FilesOK, HunkExists
  <2>4. QED
    BY <2>2, <2>3
<1>9. QED
  BY <1>1, <1>4, <1>5, <1>6, <1>7, <1>8 DEF MemoryInv, PointersOK

\* A turn of an allocation's loop, the one that takes a block included.
LEMMA TurnStep ==
    ASSUME MemoryInv, Z_MallocTurn
    PROVE  MemoryInv'
<1>1. /\ ZoneOK(zone) /\ ScanOK(zone, scan) /\ ScanTurn /\ scan # Idle
      /\ UNCHANGED <<hunk, fs_loadStack>>
      /\ live[scan.pointer] = NULL /\ PointersOK(live) /\ ZoneUsers(zone, live)
      /\ HunkOK(hunk, live, fs_loadStack) /\ FilesOK(scan, hunk, live, fs_loadStack)
  BY DEF MemoryInv, PointersOK, Z_MallocTurn, ScanTurn
<1>2. /\ scan.pointer \in Pointers /\ scan.size \in Nat \ {0} /\ scan.use \in {"block", "file"}
  BY <1>1 DEF ScanOK, ScanRecord
<1>3. CASE /\ ScanOK(zone, scan')
           /\ scan' # Idle /\ scan'.pointer = scan.pointer /\ scan'.use = scan.use
           /\ UNCHANGED <<zone, live>>
  <2>1. Loaded(scan', live') = Loaded(scan, live)
    BY <1>1, <1>3 DEF Loaded
  <2>2. FilesOK(scan', hunk', live', fs_loadStack')
    BY <1>1, <1>3, <2>1 DEF FilesOK
  <2>3. QED
    BY <1>1, <1>3, <2>2 DEF MemoryInv, PointersOK
<1>4. CASE \E base \in DOMAIN zone.block :
              /\ ~zone.block[base].used /\ zone.block[base].size >= scan.size
              /\ Take(base)
  <2>1. PICK base \in DOMAIN zone.block :
              /\ ~zone.block[base].used /\ zone.block[base].size >= scan.size
              /\ Take(base)
    BY <1>4
  <2>2. PICK size \in Nat \ {0} :
              /\ Took(zone, zone', base, size)
              /\ live' = [live EXCEPT ![scan.pointer] =
                             [place |-> "zone", from |-> base, size |-> size,
                              use |-> scan.use, kept |-> FALSE]]
              /\ scan' = Idle
    BY <1>1, <1>2, <2>1, TakeKeepsZone
  <2>3. base \in Nat
    BY <1>1, ZoneFacts, RingFacts
  <2>4. Gained(zone', live, live', scan.pointer, scan.use)
    <3>1. Took(zone, zone', base, size) /\ size \in Nat
      BY <2>2
    <3> DEFINE p == scan.pointer
               use == scan.use
    <3>2. live' = WithPiece(live, p, base, size, use)
      BY <2>2 DEF WithPiece
    <3>3. p \in Pointers /\ live[p] = NULL /\ use \in {"block", "file"}
      BY <1>1, <1>2
    <3> HIDE DEF p, use
    <3>4. Gained(zone', live, WithPiece(live, p, base, size, use), p, use)
      BY <1>1, <2>3, <3>1, <3>3, ZoneGained
    <3>5. QED
      BY <3>2, <3>4 DEF p, use
  <2>5. /\ PointersOK(live') /\ ZoneUsers(zone', live')
        /\ In("hunk", live') = In("hunk", live)
        /\ \A q \in Pointers \ {scan.pointer} : live'[q] = live[q]
        /\ Of("scratch", live') = Of("scratch", live)
        /\ Of("file", live') = IF "file" = scan.use THEN Of("file", live) \cup {scan.pointer}
                                                    ELSE Of("file", live)
    BY <1>2, <2>4 DEF Gained
  <2>6. Loaded(scan', live') = Loaded(scan, live)
    BY <1>1, <2>2, <2>5 DEF Loaded
  <2>7. HunkOK(hunk', live', fs_loadStack')
    <3>1. Of("scratch", live) \subseteq In("hunk", live)
      BY <1>1, Kinds
    <3>2. \A q \in In("hunk", live) : live'[q] = live[q]
      BY <1>1, <2>5 DEF In
    <3>3. QED
      BY <1>1, <2>5, <3>1, <3>2, HunkOther
  <2>8. FilesOK(scan', hunk', live', fs_loadStack')
    <3>1. hunk # NoHunk => scan.use = "block"
      BY <1>1 DEF FilesOK
    <3>2. hunk # NoHunk => Of("file", live') = Of("file", live)
      BY <2>5, <3>1
    <3>3. QED
      BY <1>1, <2>2, <2>5, <2>6, <3>2 DEF FilesOK
  <2>9. ZoneOK(zone') /\ ScanOK(zone', scan')
    BY <2>2 DEF Took, ScanOK
  <2>10. QED
    BY <2>2, <2>5, <2>7, <2>8, <2>9 DEF MemoryInv, PointersOK
<1>5. QED
  BY <1>1, <1>3, <1>4, TurnOfScan

\* A block is freed, or a file that was loaded into the zone.
LEMMA ZoneFreed ==
    ASSUME MemoryInv, Ready, NEW p \in In("zone", live), Z_Free(live[p].from),
           live' = Released({p}), UNCHANGED <<scan, hunk>>,
           live[p].use = "block" => UNCHANGED fs_loadStack,
           live[p].use = "file" => ~HunkExists /\ fs_loadStack' = fs_loadStack - 1
    PROVE  MemoryInv'
<1>1. /\ scan = Idle /\ PointersOK(live) /\ ZoneUsers(zone, live) /\ ZoneOK(zone)
      /\ HunkOK(hunk, live, fs_loadStack)
      /\ IsFiniteSet(Of("file", live)) /\ fs_loadStack \in Nat
      /\ fs_loadStack >= Cardinality(Of("file", live)) /\ Cardinality(Of("file", live)) \in Nat
      /\ HunkExists => Of("file", live) \subseteq In("hunk", live)
      /\ ~HunkExists => fs_loadStack = Cardinality(Of("file", live)) /\ In("hunk", live) = {}
      /\ Of("scratch", live) \subseteq In("hunk", live)
      /\ \A S : Released(S) = Without(live, S)
  BY WhenReady
<1>2. /\ p \in Pointers /\ live[p] \in PieceRecord /\ live[p].use \in {"block", "file"}
      /\ <<live[p].from, live[p].size>> \in UsedBlocks(zone.block)
  BY <1>1 DEF In, PointersOK, ZoneUsers
<1>3. /\ live[p].from \in DOMAIN zone.block \ {Cap} /\ zone.block[live[p].from].used
      /\ zone.block[live[p].from].size = live[p].size
  BY <1>2 DEF UsedBlocks
<1>4. Gave(zone, zone', live[p].from)
  BY <1>1, <1>3, FreeKeepsZone
<1> DEFINE left == Without(live, {p})
<1>5. live' = left
  BY <1>1
<1>6. ZoneUsers(zone', left)
  BY <1>1, <1>3, <1>4, ZoneLost
<1>7. /\ PointersOK(left) /\ \A q \in Pointers \ {p} : left[q] = live[q]
      /\ In("hunk", left) = In("hunk", live) \ {p}
      /\ Of("scratch", left) = Of("scratch", live) \ {p}
      /\ Of("file", left) = Of("file", live) \ {p}
  BY <1>1, WithoutFacts
<1> HIDE DEF left
<1>8. p \notin In("hunk", live)
  BY DEF In
<1>9. In("hunk", left) = In("hunk", live) /\ Of("scratch", left) = Of("scratch", live)
  BY <1>1, <1>7, <1>8
<1>10. HunkOK(hunk, left, fs_loadStack)
  <2>1. \A q \in In("hunk", live) : left[q] = live[q]
    BY <1>7, <1>8 DEF In
  <2>2. QED
    BY <1>1, <1>9, <2>1, HunkOther
<1>11. HunkOK(hunk', left, fs_loadStack')
  <2>1. CASE live[p].use = "block"
    BY <1>10, <2>1
  <2>2. CASE live[p].use = "file"
    BY <1>10, <2>2 DEF HunkOK, HunkExists
  <2>3. QED
    BY <1>2, <2>1, <2>2
<1>12. FilesOK(scan', hunk', left, fs_loadStack')
  <2>1. Loaded(scan', left) = Of("file", live) \ {p}
    BY <1>1, <1>7 DEF Loaded
  <2>2. CASE live[p].use = "block"
    <3>1. Loaded(scan', left) = Of("file", live)
      BY <2>1, <2>2 DEF Of
    <3>2. QED
      BY <1>1, <1>7, <1>9, <2>1, <2>2, <3>1 DEF FilesOK, HunkExists
  <2>3. CASE live[p].use = "file"
    <3>1. p \in Of("file", live)
      BY <1>2, <2>3 DEF Of
    <3>2. /\ IsFiniteSet(Of("file", live) \ {p})
          /\ Cardinality(Of("file", live) \ {p}) = Cardinality(Of("file", live)) - 1
      BY <1>1, <3>1, FS_RemoveElement
    <3>3. Cardinality(Of("file", live) \ {p}) \in Nat
      BY <3>2, FS_CardinalityType
    <3>4. hunk' = NoHunk /\ fs_loadStack' = Cardinality(Of("file", live) \ {p})
      BY <1>1, <2>3, <3>2 DEF HunkExists
    <3>5. fs_loadStack' \in Nat /\ fs_loadStack' >= Cardinality(Of("file", live) \ {p})
      BY <3>3, <3>4
    <3>6. QED
      BY <2>1, <3>2, <3>4, <3>5 DEF FilesOK
  <2>4. QED
    BY <1>2, <2>2, <2>3
<1>13. ZoneOK(zone') /\ ScanOK(zone', scan')
  BY <1>1, <1>4 DEF Gave, ScanOK
<1>14. QED
  BY <1>1, <1>5, <1>6, <1>7, <1>11, <1>12, <1>13 DEF MemoryInv, PointersOK

-----------------------------------------------------------------------------
(* The steps that free memory of the hunk, and the others *)

\* A file that was loaded into the hunk is freed, the last one with all that the
\* others left behind.
LEMMA FileFreed ==
    ASSUME MemoryInv, HunkExists, NEW p \in Pointers, FS_FreeFile(p)
    PROVE  MemoryInv'
<1> DEFINE h == FreeTempMemory(live[p])
           left == Without(live, {p})
<1>1. /\ Ready /\ Scratch = {} /\ live[p].use = "file" /\ fs_loadStack' = fs_loadStack - 1
      /\ live' = Released({p}) /\ UNCHANGED <<zone, scan>>
      /\ hunk' = IF fs_loadStack' = 0 THEN ClearTempMemory(h) ELSE h
  BY DEF FS_FreeFile, Free
<1>2. /\ PointersOK(live) /\ ZoneUsers(zone, live) /\ HunkOK(hunk, live, fs_loadStack)
      /\ IsFiniteSet(Of("file", live)) /\ fs_loadStack \in Nat
      /\ fs_loadStack >= Cardinality(Of("file", live)) /\ Cardinality(Of("file", live)) \in Nat
      /\ Of("file", live) \subseteq In("hunk", live) /\ Of("scratch", live) = {}
      /\ live' = left
  BY <1>1, WhenReady
<1>3. p \in Of("file", live) /\ p \in In("hunk", live)
  BY <1>1, <1>2 DEF Of
<1>4. BanksOK(hunk) /\ HunkUsers(hunk, live)
  BY <1>2 DEF HunkOK, HunkExists
<1>5. Freed(hunk, h, live, p)
  BY <1>1, <1>2, <1>3, <1>4, TempFreed
<1>6. BanksOK(h) /\ HunkUsers(h, left)
  BY <1>5 DEF Freed
<1>7. /\ PointersOK(left) /\ \A q \in Pointers \ {p} : left[q] = live[q]
      /\ In("zone", left) = In("zone", live) \ {p} /\ In("hunk", left) = In("hunk", live) \ {p}
      /\ Of("scratch", left) = {} /\ Of("file", left) = Of("file", live) \ {p}
  <2>1. Of("scratch", left) = Of("scratch", live) \ {p}
    BY <1>2, WithoutFacts
  <2>2. QED
    BY <1>2, <2>1, WithoutFacts
<1> HIDE DEF left, h
<1>8. /\ IsFiniteSet(Of("file", left)) /\ Cardinality(Of("file", left)) \in Nat
      /\ Cardinality(Of("file", left)) = Cardinality(Of("file", live)) - 1
  <2>1. /\ IsFiniteSet(Of("file", live) \ {p})
        /\ Cardinality(Of("file", live) \ {p}) = Cardinality(Of("file", live)) - 1
    BY <1>2, <1>3, FS_RemoveElement
  <2>2. QED
    BY <1>7, <2>1, FS_CardinalityType
<1>9. fs_loadStack' \in Nat /\ fs_loadStack' >= Cardinality(Of("file", left))
  BY <1>1, <1>2, <1>8
<1>10. HunkOK(hunk', left, fs_loadStack') /\ hunk' # NoHunk
  <2>1. CASE fs_loadStack' = 0
    <3>1. Of("file", left) = {}
      <4>1. Cardinality(Of("file", left)) = 0
        BY <1>8, <1>9, <2>1
      <4>2. QED
        BY <1>8, <4>1, FS_EmptySet
    <3>2. QED
      BY <1>1, <1>6, <1>7, <2>1, <3>1, ClearTempKeeps
  <2>2. CASE fs_loadStack' # 0
    <3>1. ScratchStack(h, left, fs_loadStack')
      BY <1>7, <2>2 DEF ScratchStack
    <3>2. h # NoHunk
      BY <1>6, BankFacts
    <3>3. QED
      BY <1>1, <1>6, <2>2, <3>1, <3>2 DEF HunkOK
  <2>3. QED
    BY <2>1, <2>2
<1>11. ZoneUsers(zone, left)
  BY <1>2, <1>7, ZoneUsersSame DEF In
<1>12. Of("file", left) \subseteq In("hunk", left)
  BY <1>2, <1>7
<1>13. QED
  BY <1>1, <1>2, <1>7, <1>8, <1>9, <1>10, <1>11, <1>12, HunkStep

\* Scratch memory is freed.
LEMMA ScratchStep ==
    ASSUME MemoryInv, NEW p \in Pointers, FreeScratch(p)
    PROVE  MemoryInv'
<1> DEFINE left == Without(live, {p})
<1>1. /\ Ready /\ live[p].use = "scratch" /\ hunk' = FreeTempMemory(live[p])
      /\ live' = Released({p}) /\ UNCHANGED <<zone, scan, fs_loadStack>>
      /\ \A q \in Scratch : IF TempEnd(hunk) = "low" THEN live[q].from <= live[p].from
                                                     ELSE live[q].from >= live[p].from
  BY DEF FreeScratch
<1>2. /\ PointersOK(live) /\ ZoneUsers(zone, live) /\ HunkOK(hunk, live, fs_loadStack)
      /\ IsFiniteSet(Of("file", live)) /\ fs_loadStack \in Nat
      /\ fs_loadStack >= Cardinality(Of("file", live))
      /\ HunkExists => Of("file", live) \subseteq In("hunk", live)
      /\ ~HunkExists => In("hunk", live) = {}
      /\ Of("scratch", live) \subseteq In("hunk", live) /\ Scratch = Of("scratch", live)
      /\ live' = left
  BY <1>1, WhenReady
<1>3. p \in Of("scratch", live)
  BY <1>1 DEF Of
<1>4. hunk # NoHunk
  BY <1>2, <1>3 DEF HunkExists
<1>5. HunkOK(hunk', left, fs_loadStack') /\ hunk' # NoHunk
  BY <1>1, <1>2, <1>3, <1>4, ScratchFreed
<1>6. /\ PointersOK(left) /\ \A q \in Pointers \ {p} : left[q] = live[q]
      /\ In("zone", left) = In("zone", live) \ {p} /\ In("hunk", left) = In("hunk", live) \ {p}
      /\ Of("file", left) = Of("file", live) \ {p}
  BY <1>2, WithoutFacts
<1> HIDE DEF left
<1>7. Of("file", left) = Of("file", live)
  BY <1>1, <1>6 DEF Of
<1>8. ZoneUsers(zone, left)
  BY <1>2, <1>6, ZoneUsersSame DEF In
<1>9. Of("file", left) \subseteq In("hunk", left)
  BY <1>2, <1>4, <1>6, <1>7 DEF HunkExists
<1>10. QED
  BY <1>1, <1>2, <1>5, <1>6, <1>7, <1>8, <1>9, HunkStep

\* The hunk comes to be, or is cleared, when there is no temporary memory.
LEMMA ClearStep ==
    ASSUME MemoryInv, Ready, Hunk_Clear, UNCHANGED <<zone, scan, fs_loadStack>>
    PROVE  MemoryInv'
<1> DEFINE S == Of("file", live) \cup Of("scratch", live) \cup Of("permanent", live)
           left == Without(live, S)
<1>1. /\ PointersOK(live) /\ ZoneUsers(zone, live) /\ HunkOK(hunk, live, fs_loadStack)
      /\ fs_loadStack \in Nat /\ hunk' = Cleared /\ live' = left
      /\ ~HunkExists => In("hunk", live) = {}
  BY WhenReady DEF Hunk_Clear
<1>2. In("hunk", live) \subseteq S
  <2>1. CASE HunkExists
    BY <1>1, <2>1 DEF HunkOK, HunkExists, HunkUsers, Placed, In, Of
  <2>2. CASE ~HunkExists
    BY <1>1, <2>2
  <2>3. QED
    BY <2>1, <2>2
<1>3. /\ PointersOK(left) /\ \A q \in Pointers \ S : left[q] = live[q]
      /\ In("zone", left) = In("zone", live) \ S /\ In("hunk", left) = In("hunk", live) \ S
      /\ Of("scratch", left) = Of("scratch", live) \ S /\ Of("file", left) = Of("file", live) \ S
  BY <1>1, WithoutFacts
<1>4. In("hunk", left) = {} /\ Of("scratch", left) = {} /\ Of("file", left) = {}
  BY <1>2, <1>3
<1> HIDE DEF left, S
<1>5. HunkOK(Cleared, left, fs_loadStack') /\ Cleared # NoHunk
  BY <1>4, ClearedOK
<1>6. ZoneUsers(zone, left)
  BY <1>1, <1>3, ZoneUsersSame DEF In
<1>7. IsFiniteSet(Of("file", left)) /\ Cardinality(Of("file", left)) = 0
  BY <1>4, FS_EmptySet
<1>8. QED
  BY <1>1, <1>3, <1>4, <1>5, <1>6, <1>7, HunkStep

\* The mark is made.
LEMMA MarkStep ==
    ASSUME MemoryInv, Hunk_SetMark
    PROVE  MemoryInv'
<1>1. /\ Ready /\ hunk' = Marked(hunk) /\ live' = Kept(live) /\ HunkExists
      /\ UNCHANGED <<zone, scan, fs_loadStack>>
  <2>1. Permanent = Of("permanent", live)
    BY DEF Permanent, Using, Of
  <2>2. QED
    BY <2>1 DEF Hunk_SetMark, Free, Marked, Kept
<1>2. /\ PointersOK(live) /\ ZoneUsers(zone, live) /\ HunkOK(hunk, live, fs_loadStack)
      /\ IsFiniteSet(Of("file", live)) /\ fs_loadStack \in Nat
      /\ fs_loadStack >= Cardinality(Of("file", live))
      /\ Of("file", live) \subseteq In("hunk", live)
      /\ Of("permanent", live) \subseteq In("hunk", live)
      /\ hunk # NoHunk
  BY <1>1, WhenReady DEF HunkExists
<1>3. /\ HunkOK(hunk', live', fs_loadStack') /\ hunk' # NoHunk /\ PointersOK(live')
      /\ \A p \in Pointers : /\ live'[p].use = live[p].use
                             /\ (live'[p] = NULL) <=> (live[p] = NULL)
                             /\ live'[p].place = live[p].place /\ live'[p].from = live[p].from
                             /\ live'[p].size = live[p].size
  BY <1>1, <1>2, MarkKeeps
<1>4. /\ \A place \in {"zone", "hunk"} : In(place, live') = In(place, live)
      /\ Of("file", live') = Of("file", live)
  BY <1>3 DEF In, Of
<1>5. ZoneUsers(zone, live')
  BY <1>2, <1>3, <1>4 DEF ZoneUsers, In
<1>6. QED
  BY <1>1, <1>2, <1>3, <1>4, <1>5, HunkStep

\* What was not kept is cleared.
LEMMA ToMarkStep ==
    ASSUME MemoryInv, Hunk_ClearToMark
    PROVE  MemoryInv'
<1> DEFINE gone == {p \in Of("permanent", live) : ~live[p].kept}
           left == Without(live, gone)
<1>1. /\ Ready /\ hunk' = ToMark(hunk) /\ HunkExists /\ NoTemp
      /\ live' = Released({p \in Permanent : ~live[p].kept})
      /\ UNCHANGED <<zone, scan, fs_loadStack>>
  BY DEF Hunk_ClearToMark, Free, ToMark
<1>2. /\ PointersOK(live) /\ ZoneUsers(zone, live) /\ HunkOK(hunk, live, fs_loadStack)
      /\ fs_loadStack \in Nat /\ fs_loadStack >= Cardinality(Of("file", live))
      /\ Of("file", live) = {} /\ Of("scratch", live) = {}
      /\ hunk # NoHunk
      /\ live' = left
  BY <1>1, WhenReady DEF HunkExists, NoTemp
<1>3. HunkOK(hunk', left, fs_loadStack') /\ hunk' # NoHunk
  BY <1>1, <1>2, ToMarkKeeps
<1>4. /\ PointersOK(left) /\ \A q \in Pointers \ gone : left[q] = live[q]
      /\ In("zone", left) = In("zone", live) \ gone
      /\ Of("file", left) = Of("file", live) \ gone
  BY <1>2, WithoutFacts
<1> HIDE DEF left, gone
<1>5. Of("file", left) = {}
  BY <1>2, <1>4
<1>6. ZoneUsers(zone, left)
  BY <1>2, <1>4, ZoneUsersSame DEF In
<1>7. IsFiniteSet(Of("file", left)) /\ Cardinality(Of("file", left)) = 0
  BY <1>5, FS_EmptySet
<1>8. QED
  BY <1>1, <1>2, <1>3, <1>4, <1>5, <1>6, <1>7, HunkStep

-----------------------------------------------------------------------------
(* The invariant *)

\* It holds at first: one free block, no hunk, and nobody has anything.
LEMMA MemoryStart ==
    ASSUME Init
    PROVE  MemoryInv
<1> DEFINE free == [size |-> ZONE_SIZE, used |-> FALSE, next |-> Cap, prev |-> Cap]
           cap == [size |-> 0, used |-> TRUE, next |-> 0, prev |-> 0]
           block == [a \in {0, Cap} |-> IF a = 0 THEN free ELSE cap]
<1>1. /\ zone = [block |-> block, rover |-> 0, used |-> 0] /\ scan = Idle
      /\ live = [p \in Pointers |-> NULL] /\ hunk = NoHunk /\ fs_loadStack = 0
  BY DEF Init, ZoneInit
<1>2. Cap \in Nat \ {0} /\ Cap = ZONE_SIZE
  BY ZoneAssumption DEF Cap
<1>3. /\ DOMAIN block = {0, Cap} /\ block[0] = free /\ block[Cap] = cap
      /\ block = [a \in DOMAIN block |-> block[a]]
  BY <1>2
<1>4. /\ free.size = Cap /\ ~free.used /\ free.next = Cap /\ free.prev = Cap
      /\ cap.size = 0 /\ cap.used /\ cap.next = 0 /\ cap.prev = 0
      /\ free \in [size : Nat, used : BOOLEAN, next : {0, Cap}, prev : {0, Cap}]
      /\ cap \in [size : Nat, used : BOOLEAN, next : {0, Cap}, prev : {0, Cap}]
  BY <1>2
<1> HIDE DEF free, cap, block
<1>5. RingOK(block)
  <2>1. block \in [DOMAIN block -> Links(block)]
    BY <1>3, <1>4 DEF Links
  <2>2. \A a \in DOMAIN block : block[block[a].next].prev = a /\ block[block[a].prev].next = a
    BY <1>3, <1>4
  <2>3. \A a \in DOMAIN block \ {Cap} :
          /\ block[a].size > 0 /\ block[a].next = a + block[a].size
          /\ \A c \in DOMAIN block : c <= a \/ block[a].next <= c
    BY <1>2, <1>3, <1>4
  <2>4. DOMAIN block \subseteq 0 .. Cap
    BY <1>2, <1>3
  <2>5. QED
    BY <1>3, <1>4, <2>1, <2>2, <2>3, <2>4 DEF RingOK
<1>6. Merged(block)
  BY <1>3, <1>4 DEF Merged
<1>7. UsedBlocks(block) = {}
  BY <1>3, <1>4 DEF UsedBlocks
<1>8. Cardinality(Memory(UsedBlocks(block))) = 0
  BY <1>7, FS_EmptySet DEF Memory
<1>9. ZoneOK(zone)
  BY <1>1, <1>3, <1>5, <1>6, <1>8, ZoneIsOK
<1>10. /\ \A p \in Pointers : live[p] = NULL
       /\ PointersOK(live)
  BY <1>1 DEF PointersOK
<1>11. NULL.use = "none"
  BY DEF NULL
<1>12. In("zone", live) = {} /\ In("hunk", live) = {} /\ Of("file", live) = {}
  BY <1>10, <1>11 DEF In, Of
<1>13. ZoneUsers(zone, live)
  BY <1>12 DEF ZoneUsers
<1>14. FilesOK(scan, hunk, live, fs_loadStack)
  <2>1. Loaded(scan, live) = {}
    BY <1>1, <1>12 DEF Loaded
  <2>2. QED
    BY <1>1, <2>1, FS_EmptySet DEF FilesOK
<1>15. QED
  BY <1>1, <1>9, <1>10, <1>12, <1>13, <1>14 DEF MemoryInv, ScanOK, HunkOK, PointersOK

\* Every step keeps it.
LEMMA MemoryStep ==
    ASSUME MemoryInv, [Next]_vars
    PROVE  MemoryInv'
<1>1. CASE UNCHANGED vars
  <2>1. UNCHANGED <<zone, scan, live, hunk, fs_loadStack>>
    BY <1>1 DEF vars
  <2>2. QED
    BY <2>1 DEF MemoryInv
<1>2. ASSUME NEW p \in Pointers, NEW n \in ZoneSizes, Z_Malloc(p, n)
      PROVE  MemoryInv'
  <2>1. /\ Ready /\ live[p] = NULL /\ Z_TagMalloc(p, n, "block")
        /\ UNCHANGED hunk /\ UNCHANGED fs_loadStack
    BY <1>2 DEF Z_Malloc
  <2>2. "block" \in {"block", "file"} /\ "block" # "file" /\ n \in Nat \ {0}
    BY ZoneAssumption
  <2>3. QED
    BY <2>1, <2>2, ScanBegins
<1>3. CASE Z_MallocTurn
  BY <1>3, TurnStep
<1>4. ASSUME NEW p \in Pointers, FreeBlock(p)
      PROVE  MemoryInv'
  <2>1. /\ Ready /\ live[p].use = "block" /\ Z_Free(live[p].from) /\ live' = Released({p})
        /\ UNCHANGED <<scan, hunk>> /\ UNCHANGED fs_loadStack
    BY <1>4 DEF FreeBlock
  <2>2. /\ PointersOK(live) /\ ZoneUsers(zone, live) /\ HunkOK(hunk, live, fs_loadStack)
        /\ ~HunkExists => In("hunk", live) = {}
    BY <2>1, WhenReady
  <2>3. p \in In("zone", live) \/ p \in In("hunk", live)
    BY <2>1, <2>2, Kinds
  <2>4. p \notin In("hunk", live)
    BY <2>1, <2>2 DEF HunkOK, HunkExists, HunkUsers, Placed
  <2>5. QED
    BY <2>1, <2>3, <2>4, ZoneFreed
<1>5. ASSUME NEW p \in Pointers, FS_FreeFile(p)
      PROVE  MemoryInv'
  <2>1. CASE HunkExists
    BY <1>5, <2>1, FileFreed
  <2>2. CASE ~HunkExists
    <3>1. /\ Ready /\ live[p].use = "file" /\ Z_Free(live[p].from) /\ live' = Released({p})
          /\ UNCHANGED <<scan, hunk>> /\ fs_loadStack' = fs_loadStack - 1
      BY <1>5, <2>2 DEF FS_FreeFile, Free
    <3>2. PointersOK(live) /\ ZoneUsers(zone, live) /\ In("hunk", live) = {}
      BY <2>2, <3>1, WhenReady
    <3>3. p \in In("zone", live)
      BY <3>1, <3>2, Kinds
    <3>4. QED
      BY <2>2, <3>1, <3>3, ZoneFreed
  <2>3. QED
    BY <2>1, <2>2
<1>6. ASSUME NEW p \in Pointers, FreeScratch(p)
      PROVE  MemoryInv'
  BY <1>6, ScratchStep
<1>7. ASSUME NEW p \in Pointers, NEW n \in HunkSizes, FS_ReadFile(p, n)
      PROVE  MemoryInv'
  <2>1. /\ Ready /\ Scratch = {} /\ live[p] = NULL /\ fs_loadStack' = fs_loadStack + 1
        /\ IF HunkExists
           THEN AllocateTempMemory(p, n, "file") /\ UNCHANGED <<zone, scan>>
           ELSE Z_TagMalloc(p, n, "file") /\ UNCHANGED <<hunk, drops>>
    BY <1>7 DEF FS_ReadFile, Free
  <2>2. CASE HunkExists
    <3>1. "file" \in {"file", "scratch"} /\ "file" # "scratch"
      OBVIOUS
    <3>2. QED
      BY <2>1, <2>2, <3>1, TempStep
  <2>3. CASE ~HunkExists
    <3>1. "file" \in {"block", "file"} /\ "file" # "block" /\ n \in Nat \ {0}
      BY HunkAssumption
    <3>2. QED
      BY <2>1, <2>3, <3>1, ScanBegins
  <2>4. QED
    BY <2>2, <2>3
<1>8. ASSUME NEW p \in Pointers, NEW n \in HunkSizes, AllocateScratch(p, n)
      PROVE  MemoryInv'
  <2>1. /\ Ready /\ HunkExists /\ (com_dedicated => Scratch = {}) /\ live[p] = NULL
        /\ AllocateTempMemory(p, n, "scratch")
        /\ UNCHANGED <<zone, scan>> /\ UNCHANGED fs_loadStack
    BY <1>8 DEF AllocateScratch
  <2>2. "scratch" \in {"file", "scratch"} /\ "file" # "scratch"
    OBVIOUS
  <2>3. QED
    BY <2>1, <2>2, TempStep
<1>9. ASSUME NEW p \in Pointers, NEW n \in HunkSizes, NEW end \in Ends \cup {"dontcare"},
             Hunk_Alloc(p, n, end)
      PROVE  MemoryInv'
  BY <1>9, HunkAllocStep
<1>10. CASE Com_InitHunkMemory \/ ClearHunk
  BY <1>10, ClearStep DEF Com_InitHunkMemory, ClearHunk, Free
<1>11. CASE Hunk_SetMark
  BY <1>11, MarkStep
<1>12. CASE Hunk_ClearToMark
  BY <1>12, ToMarkStep
<1>13. CASE Drop
  <2>1. /\ Ready /\ HunkExists /\ (com_dedicated => Scratch = {}) /\ Com_Error(hunk)
        /\ UNCHANGED <<zone, scan>> /\ fs_loadStack' = fs_loadStack
    BY <1>13 DEF Drop
  <2>2. HunkOK(hunk, live, fs_loadStack) /\ hunk # NoHunk
    BY <2>1 DEF MemoryInv, HunkExists
  <2>3. QED
    BY <2>1, <2>2, ErrorStep
<1>14. QED
  BY <1>1, <1>2, <1>3, <1>4, <1>5, <1>6, <1>7, <1>8, <1>9, <1>10, <1>11, <1>12, <1>13 DEF Next

\* So it always holds.
THEOREM MemoryInvariant == Spec => []MemoryInv
<1>1. Init => MemoryInv
  BY MemoryStart
<1>2. MemoryInv /\ [Next]_vars => MemoryInv'
  BY MemoryStep
<1>3. QED
  BY <1>1, <1>2, PTL DEF Spec

-----------------------------------------------------------------------------
(* What follows *)

\* Every size, link and count is in its range.
THEOREM MemoryTypes == Spec => []TypeOK
<1>1. ASSUME MemoryInv PROVE TypeOK
  <2>1. ZoneOK(zone) /\ RingOK(zone.block)
    BY <1>1, ZoneFacts DEF MemoryInv
  <2>2. zone.rover \in DOMAIN zone.block /\ zone.used \in 0 .. ZONE_SIZE
    BY <2>1, ZoneFacts DEF Cap
  <2>3. ASSUME NEW b \in DOMAIN zone.block
        PROVE  zone.block[b] \in [size : 0 .. ZONE_SIZE, used : BOOLEAN,
                                  next : DOMAIN zone.block, prev : DOMAIN zone.block]
    <3>1. zone.block[b].size \in 0 .. Cap
      <4>1. CASE b = Cap
        BY <2>1, <4>1, ZoneAssumption DEF RingOK, Cap
      <4>2. CASE b # Cap
        <5>1. /\ zone.block[b].next = b + zone.block[b].size /\ zone.block[b].next \in DOMAIN zone.block
              /\ zone.block[b].size \in Nat /\ b \in Nat /\ Cap \in Nat
          BY <2>1, <4>2, RingFacts
        <5>2. zone.block[b].next \in 0 .. Cap
          BY <2>1, <5>1, RingFacts
        <5>3. QED
          BY <5>1, <5>2
      <4>3. QED
        BY <4>1, <4>2
    <3>2. /\ zone.block[b].next \in DOMAIN zone.block /\ zone.block[b].prev \in DOMAIN zone.block
          /\ zone.block[b].used \in BOOLEAN
          /\ zone.block[b] = [size |-> zone.block[b].size, used |-> zone.block[b].used,
                              next |-> zone.block[b].next, prev |-> zone.block[b].prev]
      BY <2>1, RingFacts
    <3>3. QED
      BY <3>1, <3>2 DEF Cap
  <2>4. HunkExists => hunk.bank \in [Ends -> BankRecord]
    BY <1>1 DEF MemoryInv, HunkOK, HunkExists, BanksOK, HunkRecord
  <2>5. fs_loadStack \in Nat
    BY <1>1 DEF MemoryInv, FilesOK
  <2>6. QED
    BY <2>2, <2>3, <2>4, <2>5 DEF TypeOK, BankRecord
<1>2. QED
  BY <1>1, MemoryInvariant, PTL

\* The zone is in order whatever is taken and given back: its blocks lie end to
\* end, no two free ones touch, and what it says is in use is.
THEOREM HeapIsSound == Spec => []HeapOK
<1>1. ASSUME MemoryInv PROVE HeapOK
  <2>1. /\ RingOK(zone.block) /\ Merged(zone.block)
        /\ zone.used = Cardinality(Memory(UsedBlocks(zone.block)))
    BY <1>1, ZoneFacts DEF MemoryInv
  <2>2. \A b \in Blocks :
            /\ b + zone.block[b].size = zone.block[b].next
            /\ zone.block[zone.block[b].next].prev = b
            /\ ~zone.block[b].used => zone.block[zone.block[b].next].used
    BY <2>1, RingFacts DEF Blocks, Merged
  <2>3. UsedMemory = Memory(UsedBlocks(zone.block))
    <3>1. ASSUME NEW x PROVE x \in UsedMemory <=> x \in Memory(UsedBlocks(zone.block))
      <4>1. x \in UsedMemory <=> \E b \in Blocks : zone.block[b].used
                                                   /\ x \in b .. b + zone.block[b].size - 1
        BY DEF UsedMemory
      <4>2. x \in Memory(UsedBlocks(zone.block)) <=> \E y \in UsedBlocks(zone.block) : x \in Extent(y)
        BY DEF Memory
      <4>3. \A b : Extent(<<b, zone.block[b].size>>) = b .. b + zone.block[b].size - 1
        BY DEF Extent
      <4>4. (\E y \in UsedBlocks(zone.block) : x \in Extent(y))
                <=> \E b \in Blocks : zone.block[b].used /\ x \in Extent(<<b, zone.block[b].size>>)
        BY DEF UsedBlocks, Blocks
      <4>5. QED
        BY <4>1, <4>2, <4>3, <4>4
    <3>2. QED
      BY <3>1
  <2>4. QED
    BY <2>1, <2>2, <2>3 DEF HeapOK
<1>2. QED
  BY <1>1, MemoryInvariant, PTL

\* Z_TagMalloc fails only when no free block is large enough, though it gives up
\* before the block it began at is come by again.
THEOREM ExhaustedWhenItSaysSo == Spec => []FailsOnlyWhenFull
<1>1. ASSUME MemoryInv PROVE FailsOnlyWhenFull
  BY <1>1, ScanEnds DEF MemoryInv, FailsOnlyWhenFull, Unfit, Blocks
<1>2. QED
  BY <1>1, MemoryInvariant, PTL

\* Temporary memory is at one end of the hunk, and none of it is lost when its last
\* user is gone and the count of files says so.
THEOREM TempMemoryOnOneEnd == Spec => []TempOnOneEnd
<1>1. ASSUME MemoryInv, HunkExists
      PROVE  /\ hunk.bank[hunk.permanent].temp = hunk.bank[hunk.permanent].permanent
             /\ NoTemp /\ fs_loadStack = 0 => ~TempInUse(hunk)
  <2>1. BanksOK(hunk) /\ ScratchStack(hunk, live, fs_loadStack)
    BY <1>1 DEF MemoryInv, HunkOK, HunkExists
  <2>2. hunk.bank[hunk.permanent].temp = hunk.bank[hunk.permanent].permanent
    BY <2>1 DEF BanksOK
  <2>3. ASSUME NoTemp, fs_loadStack = 0 PROVE ~TempInUse(hunk)
    <3>1. Of("scratch", live) = {}
      BY <2>3 DEF NoTemp, Scratch, Using, Of
    <3>2. Reached(hunk, live, hunk.bank[TempEnd(hunk)].temp)
      BY <2>1, <2>3 DEF ScratchStack
    <3>3. QED
      BY <3>1, <3>2 DEF Reached, TempInUse
  <2>4. QED
    BY <2>2, <2>3
<1>2. MemoryInv => TempOnOneEnd
  BY <1>1 DEF TempOnOneEnd
<1>3. QED
  BY <1>2, MemoryInvariant, PTL

-----------------------------------------------------------------------------
(* Nobody else's memory *)

\* All the memory there is.
AllMemory == ({"zone"} \X (0 .. ZONE_SIZE - 1)) \cup ({"hunk"} \X (0 .. s_hunkTotal - 1))

CellsOK ==
    /\ \A p \in Pointers : Cells(live[p]) \subseteq AllMemory
    /\ \A p, q \in Pointers : p # q => Cells(live[p]) \cap Cells(live[q]) = {}

\* The memory of a pointer is memory there is, and no other pointer's.
LEMMA CellsApart ==
    ASSUME MemoryInv
    PROVE  CellsOK
<1>1. /\ PointersOK(live) /\ ZoneUsers(zone, live) /\ RingOK(zone.block)
      /\ HunkOK(hunk, live, fs_loadStack)
  BY ZoneFacts DEF MemoryInv, PointersOK
<1>2. \A p \in Pointers : /\ live[p] = NULL \/ live[p] \in PieceRecord
                          /\ live[p] # NULL => p \in In("zone", live) \/ p \in In("hunk", live)
  BY <1>1, Kinds
<1>3. /\ Cells(NULL) = {}
      /\ \A p \in In("zone", live) : Cells(live[p]) = {"zone"} \X Extent(<<live[p].from, live[p].size>>)
      /\ \A p \in In("hunk", live) : Cells(live[p])
                                         = {"hunk"} \X (live[p].from .. live[p].from + live[p].size - 1)
  BY DEF Cells, In, Extent
<1>4. ASSUME NEW p \in In("zone", live)
      PROVE  /\ live[p].from \in DOMAIN zone.block \ {Cap}
             /\ zone.block[live[p].from].size = live[p].size
    BY <1>1 DEF ZoneUsers, UsedBlocks
<1>5. ASSUME NEW p \in In("hunk", live)
      PROVE  /\ live[p].from \in Int /\ live[p].size \in Nat \ {0}
             /\ 0 <= live[p].from /\ live[p].from + live[p].size <= s_hunkTotal
             /\ HunkUsers(hunk, live)
  <2>1. BanksOK(hunk) /\ HunkUsers(hunk, live) /\ live[p] \in PieceRecord
    BY <1>1, <1>2 DEF HunkOK, In
  <2>2. PICK e \in Ends : 0 <= Start(live[p], e) /\ Depth(live[p], e) <= hunk.bank[e].temp
    BY <1>1, <2>1, InABank
  <2>3. hunk.bank[e].temp \in 0 .. s_hunkTotal
    BY <2>1, BankFacts DEF BankRecord
  <2>4. live[p].from \in Int /\ live[p].size \in Nat \ {0} /\ s_hunkTotal \in Nat
    BY <2>1, HunkAssumption DEF PieceRecord
  <2>5. 0 <= Start(live[p], e) /\ Start(live[p], e) + live[p].size <= s_hunkTotal
    <3>1. Start(live[p], e) \in Int
      BY <2>1, DepthFacts
    <3>2. QED
      BY <2>2, <2>3, <2>4, <3>1 DEF Depth
  <2>6. 0 <= live[p].from /\ live[p].from + live[p].size <= s_hunkTotal
    <3>1. CASE e = "low"
      BY <2>4, <2>5, <3>1 DEF Start
    <3>2. CASE e # "low"
      BY <2>4, <2>5, <3>2 DEF Start
    <3>3. QED
      BY <3>1, <3>2
  <2>7. QED
    BY <2>1, <2>4, <2>6
<1>6. ASSUME NEW p \in Pointers PROVE Cells(live[p]) \subseteq AllMemory
  <2>1. CASE live[p] = NULL
    BY <1>3, <2>1
  <2>2. CASE p \in In("zone", live)
    <3>1. Extent(<<live[p].from, live[p].size>>) \subseteq 0 .. ZONE_SIZE - 1
      BY <1>1, <1>4, <2>2, ExtentFacts DEF Cap
    <3>2. QED
      BY <1>3, <2>2, <3>1 DEF AllMemory
  <2>3. CASE p \in In("hunk", live)
    <3>1. live[p].from .. live[p].from + live[p].size - 1 \subseteq 0 .. s_hunkTotal - 1
      BY <1>5, <2>3, HunkAssumption
    <3>2. QED
      BY <1>3, <2>3, <3>1 DEF AllMemory
  <2>4. QED
    BY <1>2, <2>1, <2>2, <2>3
<1>7. ASSUME NEW p \in Pointers, NEW q \in Pointers, p # q
      PROVE  Cells(live[p]) \cap Cells(live[q]) = {}
  <2>1. CASE live[p] = NULL \/ live[q] = NULL
    BY <1>3, <2>1
  <2>2. CASE p \in In("zone", live) /\ q \in In("zone", live)
    <3>1. live[p].from # live[q].from
      BY <1>1, <1>7, <2>2 DEF ZoneUsers
    <3>2. Extent(<<live[p].from, live[p].size>>) \cap Extent(<<live[q].from, live[q].size>>) = {}
      BY <1>1, <1>4, <2>2, <3>1, ExtentsApart
    <3>3. QED
      BY <1>3, <2>2, <3>2
  <2>3. CASE p \in In("hunk", live) /\ q \in In("hunk", live)
    <3>1. Apart(live[p], live[q])
      BY <1>5, <1>7, <2>3 DEF HunkUsers, AllApart
    <3>2. /\ live[p].from \in Int /\ live[p].size \in Nat /\ live[q].from \in Int
          /\ live[q].size \in Nat
      BY <1>5, <2>3
    <3>3. (live[p].from .. live[p].from + live[p].size - 1)
              \cap (live[q].from .. live[q].from + live[q].size - 1) = {}
      BY <3>1, <3>2 DEF Apart
    <3>4. QED
      BY <1>3, <2>3, <3>3
  <2>4. CASE \/ p \in In("zone", live) /\ q \in In("hunk", live)
             \/ p \in In("hunk", live) /\ q \in In("zone", live)
    <3>1. \A S, T : ({"zone"} \X S) \cap ({"hunk"} \X T) = {}
      OBVIOUS
    <3>2. QED
      BY <1>3, <2>4, <3>1
  <2>5. QED
    BY <1>2, <2>1, <2>2, <2>3, <2>4
<1>8. QED
  BY <1>6, <1>7 DEF CellsOK

\* What a step does to the pointers.
LiveStep(lv, lv2) ==
    \/ lv2 = lv
    \/ \E S \in SUBSET Pointers : lv2 = Without(lv, S)
    \/ \E p \in Pointers : lv[p] = NULL /\ \E r : lv2 = [lv EXCEPT ![p] = r]
    \/ lv2 = Kept(lv)

\* A step gives one pointer memory, takes some pointers', or keeps it all.
LEMMA StepOfPointers ==
    ASSUME MemoryInv, [Next]_vars
    PROVE  LiveStep(live, live')
<1>1. \A S : Released(S) = Without(live, S)
  BY DEF Released, Without
<1>2. /\ Files \subseteq Pointers /\ Scratch \subseteq Pointers /\ Permanent \subseteq Pointers
      /\ Permanent = Of("permanent", live)
  BY DEF Files, Scratch, Permanent, Using, Of
<1>3. ASSUME NEW h, Com_Error(h) PROVE LiveStep(live, live')
  <2>1. \/ live' = Released(Files \cup Scratch)
        \/ live' = Released(Files \cup Scratch \cup Permanent)
    BY <1>3 DEF Com_Error, Hunk_Clear
  <2>2. QED
    BY <1>1, <1>2, <2>1 DEF LiveStep
<1>4. ASSUME NEW p \in Pointers, live[p] = NULL, NEW size, NEW use, AllocateTempMemory(p, size, use)
      PROVE  LiveStep(live, live')
  <2>1. (\E h : Com_Error(h)) \/ (\E r : live' = [live EXCEPT ![p] = r])
    BY <1>4 DEF AllocateTempMemory
  <2>2. QED
    BY <1>3, <1>4, <2>1 DEF LiveStep
<1>5. ASSUME NEW p \in Pointers, live' = Released({p}) PROVE LiveStep(live, live')
  BY <1>1, <1>5 DEF LiveStep
<1>6. CASE UNCHANGED vars
  BY <1>6 DEF vars, LiveStep
<1>7. ASSUME NEW p \in Pointers, NEW n \in ZoneSizes, Z_Malloc(p, n)
      PROVE  LiveStep(live, live')
  BY <1>7 DEF Z_Malloc, Z_TagMalloc, LiveStep
<1>8. CASE Z_MallocTurn
  <2>1. scan # Idle
    BY <1>8 DEF Z_MallocTurn, ScanTurn
  <2>2. scan.pointer \in Pointers /\ live[scan.pointer] = NULL
    BY <2>1 DEF MemoryInv, ScanOK, ScanRecord
  <2>3. \/ UNCHANGED live
        \/ \E base : Take(base)
    BY <1>8 DEF Z_MallocTurn, ScanTurn
  <2>4. \/ UNCHANGED live
        \/ \E r : live' = [live EXCEPT ![scan.pointer] = r]
    BY <2>3 DEF Take
  <2>5. QED
    BY <2>2, <2>4 DEF LiveStep
<1>9. ASSUME NEW p \in Pointers, FreeBlock(p) \/ FS_FreeFile(p) \/ FreeScratch(p)
      PROVE  LiveStep(live, live')
  BY <1>5, <1>9 DEF FreeBlock, FS_FreeFile, FreeScratch
<1>10. ASSUME NEW p \in Pointers, NEW n \in HunkSizes, FS_ReadFile(p, n)
       PROVE  LiveStep(live, live')
  <2>1. /\ live[p] = NULL
        /\ AllocateTempMemory(p, n, "file") \/ UNCHANGED live
    BY <1>10 DEF FS_ReadFile, Z_TagMalloc
  <2>2. QED
    BY <1>4, <2>1 DEF LiveStep
<1>11. ASSUME NEW p \in Pointers, NEW n \in HunkSizes, AllocateScratch(p, n)
       PROVE  LiveStep(live, live')
  BY <1>4, <1>11 DEF AllocateScratch
<1>12. ASSUME NEW p \in Pointers, NEW n \in HunkSizes, NEW end \in Ends \cup {"dontcare"},
              Hunk_Alloc(p, n, end)
       PROVE  LiveStep(live, live')
  <2>1. /\ live[p] = NULL
        /\ (\E h : Com_Error(h)) \/ (\E r : live' = [live EXCEPT ![p] = r])
    BY <1>12 DEF Hunk_Alloc
  <2>2. QED
    BY <1>3, <2>1 DEF LiveStep
<1>13. CASE Com_InitHunkMemory \/ ClearHunk
  BY <1>1, <1>2, <1>13 DEF Com_InitHunkMemory, ClearHunk, Hunk_Clear, LiveStep
<1>14. CASE Hunk_SetMark
  BY <1>2, <1>14 DEF Hunk_SetMark, Kept, LiveStep
<1>15. CASE Hunk_ClearToMark
  BY <1>1, <1>2, <1>15 DEF Hunk_ClearToMark, LiveStep
<1>16. CASE Drop
  BY <1>3, <1>16 DEF Drop
<1>17. QED
  BY <1>6, <1>7, <1>8, <1>9, <1>10, <1>11, <1>12, <1>13, <1>14, <1>15, <1>16 DEF Next

\* To their users it is a step of Allocator, or none.
LEMMA StepRefinesAllocator ==
    ASSUME MemoryInv, CellsOK', [Next]_vars
    PROVE  [Allocation!Next]_([p \in Pointers |-> Cells(live[p])])
<1> DEFINE piece == [p \in Pointers |-> Cells(live[p])]
           piece2 == [p \in Pointers |-> Cells(live'[p])]
<1>1. LiveStep(live, live')
  BY StepOfPointers
<1>2. /\ \A p \in Pointers : Cells(live'[p]) \subseteq AllMemory
      /\ \A p, q \in Pointers : p # q => Cells(live'[p]) \cap Cells(live'[q]) = {}
  BY DEF CellsOK
<1>3. Cells(NULL) = {} /\ live \in [Pointers -> {NULL} \cup PieceRecord]
  BY DEF Cells, MemoryInv
<1>4. CASE live' = live
  BY <1>4
<1>5. ASSUME NEW S \in SUBSET Pointers, live' = Without(live, S)
      PROVE  Allocation!Next
  <2>1. piece2 = [p \in Pointers |-> IF p \in S THEN {} ELSE piece[p]]
    BY <1>3, <1>5 DEF Without
  <2>2. QED
    BY <2>1 DEF Allocation!Next, Allocation!Release
<1>6. ASSUME NEW p \in Pointers, live[p] = NULL, NEW r, live' = [live EXCEPT ![p] = r]
      PROVE  Allocation!Next
  <2>1. \A q \in Pointers \ {p} : live'[q] = live[q]
    BY <1>3, <1>6
  <2>2. piece[p] = {} /\ piece2[p] \subseteq AllMemory
    BY <1>2, <1>3, <1>6
  <2>3. piece2 = [piece EXCEPT ![p] = piece2[p]]
    BY <2>1
  <2>4. \A q \in Pointers \ {p} : piece[q] \cap piece2[p] = {}
    BY <1>2, <2>1
  <2>5. Allocation!Allocate(p)
    BY <2>2, <2>3, <2>4 DEF Allocation!Allocate, AllMemory
  <2>6. QED
    BY <2>5 DEF Allocation!Next
<1>7. ASSUME live' = Kept(live) PROVE piece2 = piece
  <2>1. ASSUME NEW p \in Pointers PROVE Cells(live'[p]) = Cells(live[p])
    <3>1. CASE p \in Of("permanent", live)
      <4>1. live[p] # NULL /\ live[p] \in PieceRecord
        BY <1>3, <3>1 DEF Of, NULL
      <4>2. live'[p] = [live[p] EXCEPT !.kept = TRUE]
        BY <1>7, <3>1 DEF Kept
      <4>3. /\ live'[p].place = live[p].place /\ live'[p].from = live[p].from
            /\ live'[p].size = live[p].size /\ live'[p].use = live[p].use
        BY <4>1, <4>2 DEF PieceRecord
      <4>4. live'[p] # NULL
        BY <3>1, <4>3 DEF Of, NULL
      <4>5. QED
        BY <4>1, <4>3, <4>4 DEF Cells
    <3>2. CASE p \notin Of("permanent", live)
      BY <1>7, <3>2 DEF Kept
    <3>3. QED
      BY <3>1, <3>2
  <2>2. QED
    BY <2>1
<1>8. QED
  BY <1>1, <1>4, <1>5, <1>6, <1>7 DEF LiveStep

\* Whatever is asked for, freed, cleared, exchanged or abandoned between, the
\* allocators keep Allocator's promise: memory belongs to one user at a time, and
\* is memory that there is.
THEOREM MemoryImplementsAllocator == Spec => AllocatorSpec
<1>1. Init => Allocation!Init
  BY DEF Init, ZoneInit, Allocation!Init, Cells
<1>2. MemoryInv /\ CellsOK' /\ [Next]_vars
          => [Allocation!Next]_([p \in Pointers |-> Cells(live[p])])
  BY StepRefinesAllocator
<1>3. MemoryInv => CellsOK
  BY CellsApart
<1>4. QED
  BY <1>1, <1>2, <1>3, MemoryInvariant, PTL DEF Spec, AllocatorSpec, Allocation!Spec
=============================================================================
