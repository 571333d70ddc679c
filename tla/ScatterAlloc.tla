---------------------------- MODULE ScatterAlloc ----------------------------
(***************************************************************************)
(* The device heap behind the frames of particles: the creation policy     *)
(* Scatter of mallocMC, for requests smaller than a page (the only ones    *)
(* PIConGPU makes: a frame has some KiB, a page 2 MiB).  Threads allocate  *)
(* and free at the same time; one action is one atomic or volatile access  *)
(* to the shared page table.                                               *)
(*                                                                         *)
(* A page is formatted with a chunk size by the thread that needs one.     *)
(* The chunks in use are bits of the page table entry's mask or, when the  *)
(* page holds more chunks than a mask has bits, bits of masks at the end   *)
(* of the page itself, one per segment, and then the entry's mask says     *)
(* which segments are full.  The last free of a page unformats it.         *)
(***************************************************************************)
EXTENDS Integers, FiniteSets, FiniteSetsExt

CONSTANTS Threads,
          Lane,          \* lane of a thread in its warp, where its search for a bit begins
          NumPages,      \* pages of the heap
          AccessBlocks,  \* groups of pages, the search begins in one
          RegionSize,    \* pages that share a fill level
          PageSize,      \* bytes of a page
          MaskBits,      \* bits of a mask: 32 in the code
          MaskBytes,     \* bytes of a mask: 4 in the code
          MinChunkSize,  \* smallest size a page is formatted with
          WasteFactor,   \* a chunk may have this many times the bytes asked for
          Sizes,         \* requests, in bytes
          MaxRequests    \* bound: number of calls of malloc

ASSUME ScatterAssumption ==
    /\ {NumPages, AccessBlocks, RegionSize, PageSize, MaskBits, MaskBytes,
        MinChunkSize, WasteFactor} \subseteq Nat \ {0}
    /\ MaxRequests \in Nat
    /\ IsFiniteSet(Threads)
    /\ Sizes \subseteq 1 .. PageSize - 1
    /\ Lane \in [Threads -> 0 .. MaskBits - 1]
    /\ NumPages % RegionSize = 0 /\ NumPages % AccessBlocks = 0

VARIABLES
    chunksize,       \* _ptes[p].chunksize, 0 for a page without format
    count,           \* _ptes[p].count, fill level and lock of a page
    bitmask,         \* _ptes[p].bitmask, as the set of the bits that are 1
    onpage,          \* the masks at the end of a page, counted from its last word
    regions,         \* _regions, how often a search of a region has failed
    firstfreeblock,  \* _firstfreeblock
    th,              \* local variables of the threads
    live,            \* chunks that were handed out and not yet freed
    outstanding,     \* how many times a chunk was handed out and not yet freed
    requests         \* number of calls of malloc so far

heap == <<chunksize, count, bitmask, onpage, regions, firstfreeblock>>
kernels == <<live, outstanding, requests>>
vars == <<heap, th, kernels>>

Pages == 0 .. NumPages - 1
Bits  == 0 .. MaskBits - 1
RegionOf(p) == p \div RegionSize
PagesPerBlock == NumPages \div AccessBlocks

-----------------------------------------------------------------------------
(***************************************************************************)
(* Layout of a formatted page.                                             *)
(***************************************************************************)

HierarchyThreshold == (PageSize - 2 * MaskBytes) \div (MaskBits + 1)
Hierarchical(c) == c <= HierarchyThreshold

SegmentSize(c)  == c * MaskBits + MaskBytes
FullSegments(c) == Min({MaskBits, PageSize \div SegmentSize(c)})

calcAdditionalChunks(c) ==
    IF FullSegments(c) = MaskBits THEN 0
    ELSE Max({0, PageSize - FullSegments(c) * SegmentSize(c) - MaskBytes}) \div c

Segments(c) == FullSegments(c) + (IF calcAdditionalChunks(c) > 0 THEN 1 ELSE 0)

\* Bits of the mask of segment s that stand for a chunk.
SpotsIn(c, s) == IF s < FullSegments(c) THEN MaskBits ELSE calcAdditionalChunks(c)

ChunksInPage(c) ==
    IF Hierarchical(c) THEN FullSegments(c) * MaskBits + calcAdditionalChunks(c)
    ELSE Min({PageSize \div c, MaskBits})

\* Masks a page can hold, and that PAGE::init clears: the last words of it.
MaxOnPageMasks ==
    LET minSegmentSize == MaskBits * MinChunkSize + MaskBytes
        most == (PageSize + minSegmentSize - 1) \div minSegmentSize
    IN  IF MinChunkSize > HierarchyThreshold THEN 0 ELSE Min({MaskBits, most})

\* onPageMasksPosition: segment s of a page formatted with c, as a word from the end.
MaskWord(c, s) == Segments(c) - s
\* The words of the mask area that the bytes of a chunk reach into.
WordsUnder(chunk) ==
    {w \in 1 .. MaxOnPageMasks : chunk.offset + chunk.size > PageSize - w * MaskBytes}

\* The next 0 to the left of spot in a field of so many spots, with wrap around.
nextspot(field, spot, spots) ==
    LET step == CHOOSE k \in 1 .. spots + 1 :
                   /\ k = spots + 1 \/ (spot + k) % spots \notin field
                   /\ \A j \in 1 .. k - 1 : (spot + j) % spots \in field
    IN  (spot + step) % spots

Suits(c, bytes) == c >= bytes /\ c <= Min({PageSize, WasteFactor * bytes})

-----------------------------------------------------------------------------
(***************************************************************************)
(* Local variables of a call: page is ptetry while searching, c the chunk  *)
(* size the thread believes the page has, fill the fill level it saw, spot *)
(* the segment and bit the bit it is at, tries the segments left to try.   *)
(***************************************************************************)
Idle == [pc |-> "idle", bytes |-> 0, finder |-> 0, start |-> 0, block |-> 0,
         page |-> 0, region |-> 0, level |-> 0, c |-> 0, fill |-> 0, mask |-> {}, spot |-> 0,
         bit |-> 0, tries |-> 0]

\* initDeviceFunction
Init ==
    /\ chunksize = [p \in Pages |-> 0]
    /\ count = [p \in Pages |-> 0]
    /\ bitmask = [p \in Pages |-> {}]
    /\ onpage = [p \in Pages |-> [w \in 1 .. MaxOnPageMasks |-> {}]]
    /\ regions = [r \in 0 .. RegionOf(NumPages - 1) |-> 0]
    /\ firstfreeblock = 0
    /\ th = [t \in Threads |-> Idle]
    /\ live = {}
    /\ outstanding = 0
    /\ requests = 0

At(t, label) == th[t].pc = label
\* The local variables of thread t become l.
Becomes(t, l) == th' = [th EXCEPT ![t] = l]
\* The search goes on with the next page.
NextPage(l) ==
    [l EXCEPT !.pc = "page", !.page = @ + 1, !.c = 0, !.fill = 0, !.mask = {},
              !.spot = 0, !.bit = 0, !.tries = 0]

-----------------------------------------------------------------------------
(***************************************************************************)
(* allocChunked: two passes over the pages, the first from a hashed page   *)
(* in the first block with free memory and only through regions that seem  *)
(* to have room, the second through all of them.                           *)
(***************************************************************************)

CheckLevel(finder) == IF finder = 0 THEN (RegionSize * 3) \div 4 ELSE RegionSize + 1

create(t, bytes, startpage) ==
    /\ At(t, "idle") /\ requests < MaxRequests
    /\ requests' = requests + 1
    /\ Becomes(t, [Idle EXCEPT !.pc = "search", !.bytes = bytes,
                               !.start = firstfreeblock, !.block = firstfreeblock,
                               !.page = startpage + firstfreeblock * PagesPerBlock])
    /\ UNCHANGED <<heap, live, outstanding>>

InBlock(l) == l.page < (l.block + 1) * PagesPerBlock

ReadRegion(t) ==
    LET l == th[t]
        level == regions[RegionOf(l.page)]
    IN  /\ At(t, "search") /\ InBlock(l)
        /\ Becomes(t, IF level < CheckLevel(l.finder)
                      THEN [l EXCEPT !.pc = "page", !.region = RegionOf(l.page),
                                     !.level = level]
                      ELSE [l EXCEPT !.page = @ + RegionSize])
        /\ UNCHANGED <<heap, kernels>>

\* The end of a block; after the last one the second pass, after that NULL.
NextBlock(t) ==
    LET l == th[t]
        last == l.block = AccessBlocks - 1
    IN  /\ At(t, "search") /\ ~ InBlock(l)
        /\ firstfreeblock' = IF l.block > l.start THEN l.block ELSE firstfreeblock
        /\ Becomes(t, CASE ~ last -> [l EXCEPT !.block = @ + 1]
                        [] last /\ l.finder = 0 ->
                              [Idle EXCEPT !.pc = "search", !.bytes = l.bytes, !.finder = 1]
                        [] OTHER -> Idle)
        /\ UNCHANGED <<chunksize, count, bitmask, onpage, regions, kernels>>

InRegion(l) == l.page < (l.region + 1) * RegionSize

\* One page of the region: use it when its format suits, open it when it has none.
ReadPage(t) ==
    LET l == th[t]
        c == chunksize[l.page]
    IN  /\ At(t, "page") /\ InRegion(l)
        /\ Becomes(t, CASE Suits(c, l.bytes) -> [l EXCEPT !.pc = "use", !.c = c]
                        [] c = 0 -> [l EXCEPT !.pc = "open"]
                        [] OTHER -> NextPage(l))
        /\ UNCHANGED <<heap, kernels>>

\* The region is searched in vain.
NextRegion(t) ==
    LET l == th[t]
    IN  /\ At(t, "page") /\ ~ InRegion(l)
        /\ regions' = IF l.level + 1 <= RegionSize
                      THEN [regions EXCEPT ![l.region] = Max({@, l.level + 1})]
                      ELSE regions
        /\ Becomes(t, [l EXCEPT !.pc = "search", !.region = 0, !.level = 0])
        /\ UNCHANGED <<chunksize, count, bitmask, onpage, firstfreeblock, kernels>>

\* atomicCAS on the chunk size of a page that had no format when it was read.
OpenPage(t) ==
    LET l == th[t]
        before == chunksize[l.page]
        new == Max({l.bytes, MinChunkSize})
    IN  /\ At(t, "open")
        /\ chunksize' = IF before = 0 THEN [chunksize EXCEPT ![l.page] = new] ELSE chunksize
        /\ Becomes(t, CASE before = 0 -> [l EXCEPT !.pc = "use", !.c = new]
                        [] Suits(before, l.bytes) -> [l EXCEPT !.pc = "use", !.c = before]
                        [] OTHER -> NextPage(l))
        /\ UNCHANGED <<count, bitmask, onpage, regions, firstfreeblock, kernels>>

-----------------------------------------------------------------------------
(***************************************************************************)
(* tryUsePage: count the thread in, look at the format again, take a bit.  *)
(***************************************************************************)

CountIn(t) ==
    /\ At(t, "use")
    /\ count' = [count EXCEPT ![th[t].page] = @ + 1]
    /\ Becomes(t, [th[t] EXCEPT !.pc = "recheck", !.fill = count[th[t].page]])
    /\ UNCHANGED <<chunksize, bitmask, onpage, regions, firstfreeblock, kernels>>

\* The page is still formatted as it was when the search chose it.
StillFormatted(l) == chunksize[l.page] = l.c

Recheck(t) ==
    LET l == th[t]
    IN  /\ At(t, "recheck")
        /\ Becomes(t, IF ~ StillFormatted(l) \/ l.fill >= ChunksInPage(l.c)
                      THEN [l EXCEPT !.pc = "countout"]
                      ELSE IF Hierarchical(l.c) THEN [l EXCEPT !.pc = "segment"]
                      ELSE [l EXCEPT !.pc = "spot", !.bit = Lane[t] % ChunksInPage(l.c)])
        /\ UNCHANGED <<heap, kernels>>

\* addChunkHierarchy: the segments that are not full, as the mask says now.
ReadSegments(t) ==
    LET l == th[t]
        n == Segments(l.c)
        mask == bitmask[l.page]
        first == Lane[t] % n
        spot == IF first \in mask THEN nextspot(mask, first, n) ELSE first
        tries == n - Cardinality(mask)
    IN  /\ At(t, "segment")
        /\ Becomes(t, IF tries = 0 THEN [l EXCEPT !.pc = "countout"]
                      ELSE [l EXCEPT !.pc = "spot", !.mask = mask, !.spot = spot,
                               !.tries = tries, !.bit = Lane[t] % SpotsIn(l.c, spot)])
        /\ UNCHANGED <<heap, kernels>>

\* The mask usespot works on, the number of its bits, and the chunk of a bit.
Field(l) == IF Hierarchical(l.c) THEN onpage[l.page][MaskWord(l.c, l.spot)]
            ELSE bitmask[l.page]
Spots(l) == IF Hierarchical(l.c) THEN SpotsIn(l.c, l.spot) ELSE ChunksInPage(l.c)
\* Variant with an error: the chunk of a bit without the chunks of the segments before.
ChunkAtNoSegment(l) == [page |-> l.page, offset |-> l.bit * l.c, size |-> l.c]
ChunkAt(l) == [page |-> l.page, offset |-> (MaskBits * l.spot + l.bit) * l.c, size |-> l.c]

\* Variant with an error: never give up a mask, as if the test on __popc were missing.
FullNever(old, l) == FALSE
\* All bits of the mask are 1: __popc(old) >= spots.
Full(old, l) == Cardinality(old) >= Spots(l)

\* One atomicOr of usespot: the thread has a chunk when the bit was 0.  The
\* kernel then writes to its chunk: ones, the worst the masks could be read as.
usespot(t) ==
    LET l == th[t]
        old == Field(l)
        won == l.bit \notin old
        taken == IF Hierarchical(l.c)
                 THEN [onpage EXCEPT ![l.page][MaskWord(l.c, l.spot)] = @ \cup {l.bit}]
                 ELSE onpage
    IN  /\ At(t, "spot")
        /\ bitmask' = IF Hierarchical(l.c) THEN bitmask
                      ELSE [bitmask EXCEPT ![l.page] = @ \cup {l.bit}]
        /\ live' = IF won THEN live \cup {ChunkAt(l)} ELSE live
        /\ outstanding' = IF won THEN outstanding + 1 ELSE outstanding
        /\ onpage' = [taken EXCEPT ![l.page] =
                         [w \in DOMAIN @ |-> IF won /\ w \in WordsUnder(ChunkAt(l))
                                             THEN Bits ELSE @[w]]]
        /\ Becomes(t, CASE won -> Idle
                        [] ~ won /\ Full(old, l) ->
                              [l EXCEPT !.pc = IF Hierarchical(l.c) THEN "full" ELSE "countout"]
                        [] OTHER -> [l EXCEPT !.bit = nextspot(old, @, Spots(l))])
        /\ UNCHANGED <<chunksize, count, regions, firstfreeblock, requests>>

\* The segment is full: say so and try the next one of those seen first.
MarkFull(t) ==
    LET l == th[t]
        next == nextspot(l.mask, l.spot, Segments(l.c))
    IN  /\ At(t, "full")
        /\ bitmask' = [bitmask EXCEPT ![l.page] = @ \cup {l.spot}]
        /\ Becomes(t, IF l.tries = 1 THEN [l EXCEPT !.pc = "countout"]
                      ELSE [l EXCEPT !.pc = "spot", !.spot = next, !.tries = @ - 1,
                                     !.bit = Lane[t] % SpotsIn(l.c, next)])
        /\ UNCHANGED <<chunksize, count, onpage, regions, firstfreeblock, kernels>>

\* Variant with an error: a failed attempt leaves the thread counted in.
CountOutForgotten(t) ==
    /\ At(t, "countout")
    /\ Becomes(t, NextPage(th[t]))
    /\ UNCHANGED <<heap, kernels>>

\* No chunk on this page: count the thread out again.
CountOut(t) ==
    /\ At(t, "countout")
    /\ count' = [count EXCEPT ![th[t].page] = @ - 1]
    /\ Becomes(t, NextPage(th[t]))
    /\ UNCHANGED <<chunksize, bitmask, onpage, regions, firstfreeblock, kernels>>

-----------------------------------------------------------------------------
(***************************************************************************)
(* destroy and deallocChunked: any thread frees a chunk.                   *)
(***************************************************************************)

destroy(t, chunk) ==
    LET c == chunksize[chunk.page]
        nr == chunk.offset \div c
    IN  /\ At(t, "idle") /\ chunk \in live
        /\ live' = live \ {chunk}
        /\ outstanding' = outstanding - 1
        /\ Becomes(t, [Idle EXCEPT !.pc = "clear", !.page = chunk.page, !.c = c,
                          !.spot = IF Hierarchical(c) THEN nr \div MaskBits ELSE 0,
                          !.bit = IF Hierarchical(c) THEN nr % MaskBits ELSE nr])
        /\ UNCHANGED <<heap, requests>>

ClearBit(t) ==
    LET l == th[t]
    IN  /\ At(t, "clear")
        /\ IF Hierarchical(l.c)
           THEN /\ onpage' = [onpage EXCEPT ![l.page][MaskWord(l.c, l.spot)] = @ \ {l.bit}]
                /\ Becomes(t, [l EXCEPT !.pc = "notfull"])
                /\ UNCHANGED bitmask
           ELSE /\ bitmask' = [bitmask EXCEPT ![l.page] = @ \ {l.bit}]
                /\ Becomes(t, [l EXCEPT !.pc = "countdown"])
                /\ UNCHANGED onpage
        /\ UNCHANGED <<chunksize, count, regions, firstfreeblock, kernels>>

ClearFull(t) ==
    LET l == th[t]
    IN  /\ At(t, "notfull")
        /\ bitmask' = [bitmask EXCEPT ![l.page] = @ \ {l.spot}]
        /\ Becomes(t, [l EXCEPT !.pc = "countdown"])
        /\ UNCHANGED <<chunksize, count, onpage, regions, firstfreeblock, kernels>>

CountDown(t) ==
    LET l == th[t]
    IN  /\ At(t, "countdown")
        /\ count' = [count EXCEPT ![l.page] = @ - 1]
        /\ Becomes(t, [l EXCEPT !.pc = IF count[l.page] = 1 THEN "lock" ELSE "meta",
                                !.fill = count[l.page], !.spot = 0, !.bit = 0])
        /\ UNCHANGED <<chunksize, bitmask, onpage, regions, firstfreeblock, kernels>>

\* The page seems free: atomicCAS on its count, which no thread may be counted in.
LockPage(t) ==
    LET l == th[t]
        free == count[l.page] = 0
    IN  /\ At(t, "lock")
        /\ count' = IF free THEN [count EXCEPT ![l.page] = PageSize] ELSE count
        /\ Becomes(t, [l EXCEPT !.pc = IF free THEN "clean" ELSE "meta"])
        /\ UNCHANGED <<chunksize, bitmask, onpage, regions, firstfreeblock, kernels>>

\* Variant with an error: the masks are left as the last format of the page left them.
CleanPageSkipped(t) ==
    /\ At(t, "clean")
    /\ Becomes(t, [th[t] EXCEPT !.pc = "unformat"])
    /\ UNCHANGED <<heap, kernels>>

\* PAGE::init clears every word that may hold a mask.
CleanPage(t) ==
    LET l == th[t]
    IN  /\ At(t, "clean")
        /\ onpage' = [onpage EXCEPT ![l.page] = [w \in DOMAIN @ |-> {}]]
        /\ Becomes(t, [l EXCEPT !.pc = "unformat"])
        /\ UNCHANGED <<chunksize, count, bitmask, regions, firstfreeblock, kernels>>

Unformat(t) ==
    LET l == th[t]
    IN  /\ At(t, "unformat")
        /\ chunksize' = [chunksize EXCEPT ![l.page] = 0]
        /\ Becomes(t, [l EXCEPT !.pc = "unlock"])
        /\ UNCHANGED <<count, bitmask, onpage, regions, firstfreeblock, kernels>>

UnlockPage(t) ==
    LET l == th[t]
    IN  /\ At(t, "unlock")
        /\ count' = [count EXCEPT ![l.page] = @ - PageSize]
        /\ Becomes(t, [l EXCEPT !.pc = "meta"])
        /\ UNCHANGED <<chunksize, bitmask, onpage, regions, firstfreeblock, kernels>>

\* The free that finds the page half full forgets the failed searches of the region.
ForgetLevel(t) ==
    LET l == th[t]
        half == l.fill = (PageSize \div 2) \div l.c
    IN  /\ At(t, "meta")
        /\ regions' = IF half THEN [regions EXCEPT ![RegionOf(l.page)] = 0] ELSE regions
        /\ Becomes(t, IF half /\ Lane[t] = 0 THEN [Idle EXCEPT !.pc = "block", !.page = l.page]
                      ELSE Idle)
        /\ UNCHANGED <<chunksize, count, bitmask, onpage, firstfreeblock, kernels>>

LowerFirstBlock(t) ==
    LET block == (RegionOf(th[t].page) * RegionSize * AccessBlocks) \div NumPages
    IN  /\ At(t, "block")
        /\ firstfreeblock' = Min({firstfreeblock, block})
        /\ Becomes(t, Idle)
        /\ UNCHANGED <<chunksize, count, bitmask, onpage, regions, kernels>>

-----------------------------------------------------------------------------
\* The steps of a call under way.
Step(t) ==
    \/ ReadRegion(t) \/ NextBlock(t) \/ ReadPage(t) \/ NextRegion(t) \/ OpenPage(t)
    \/ CountIn(t) \/ Recheck(t) \/ ReadSegments(t) \/ usespot(t) \/ MarkFull(t)
    \/ CountOut(t)
    \/ ClearBit(t) \/ ClearFull(t) \/ CountDown(t) \/ LockPage(t) \/ CleanPage(t)
    \/ Unformat(t) \/ UnlockPage(t) \/ ForgetLevel(t) \/ LowerFirstBlock(t)

Next ==
    \E t \in Threads :
        \/ \E bytes \in Sizes, startpage \in 0 .. PagesPerBlock - 1 : create(t, bytes, startpage)
        \/ \E chunk \in live : destroy(t, chunk)
        \/ Step(t)

Spec == Init /\ [][Next]_vars
FairSpec == Spec /\ \A t \in Threads : WF_vars(Step(t))

-----------------------------------------------------------------------------
(***************************************************************************)
(* Properties                                                              *)
(***************************************************************************)

H == INSTANCE Heap WITH owned <- live, grants <- outstanding

\* ScatterAlloc implements Heap: whatever threads allocate, free, format and
\* unformat at the same time, a chunk is only handed out when no byte of it
\* belongs to a chunk in use, and it is as large as some request.
Implements == H!Spec

\* Threads counted in on page p that own no chunk there, or one they are giving back.
CountedIn(p) ==
    {t \in Threads : th[t].page = p /\ th[t].pc \in
        {"recheck", "segment", "spot", "full", "countout", "clear", "notfull", "countdown"}}
\* Threads that have locked page p to unformat it.
Locks(p) == {t \in Threads : th[t].page = p /\ th[t].pc \in {"clean", "unformat", "unlock"}}
OnPage(p) == {chunk \in live : chunk.page = p}

\* The count of a page is exactly its chunks in use, the threads inside
\* tryUsePage or deallocChunked and the lock, which one thread holds at most
\* and never while a chunk of the page is in use.  The decision to unformat a
\* page, and that it is full, rest on this number alone.
CountExact ==
    \A p \in Pages :
        /\ count[p] = Cardinality(OnPage(p)) + Cardinality(CountedIn(p))
                      + PageSize * Cardinality(Locks(p))
        /\ Cardinality(Locks(p)) <= 1
        /\ Locks(p) # {} => OnPage(p) = {}

\* Chunks a thread is giving back whose bit is still set.
Clearing == {ChunkAt(th[t]) : t \in {u \in Threads : At(u, "clear")}}

\* The masks of a formatted page stand for its chunks in use, and only the
\* bits of those are set in masks on the page: no kernel data, and no mask of
\* an earlier format of the page, is ever read as a mask.
MasksExact ==
    \A p \in {q \in Pages : chunksize[q] # 0 /\ Locks(q) = {}} :
        LET c == chunksize[p]
            used == {chunk \in live \cup Clearing : chunk.page = p}
            Numbers(s, field) == {(MaskBits * s + b) * c : b \in field}
        IN  /\ \A chunk \in used : chunk.size = c
            /\ IF Hierarchical(c)
               THEN {chunk.offset : chunk \in used} =
                    UNION {Numbers(s, onpage[p][MaskWord(c, s)]) : s \in 0 .. Segments(c) - 1}
               ELSE {chunk.offset : chunk \in used} \subseteq Numbers(0, bitmask[p])

\* Every call of malloc and free returns, whatever the other threads do, as
\* long as they make finitely many calls: neither the search for a bit nor
\* the two passes over the pages can go on forever.
CallsEnd == \A t \in Threads : ~ At(t, "idle") ~> At(t, "idle")
=============================================================================
