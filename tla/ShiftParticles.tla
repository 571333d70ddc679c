--------------------------- MODULE ShiftParticles ---------------------------
(***************************************************************************)
(* ParticlesBase::shiftParticles: the particles that have left their       *)
(* supercell are moved to the neighbouring one.                            *)
(*                                                                         *)
(* A supercell owns a list of frames with TileSize slots each; all frames  *)
(* but the last are full, and the supercell knows the size of the last.    *)
(* The mask of a slot is 0 for no particle, 1 for a particle that stays,   *)
(* and 2 + d for one that leaves in direction d.  For each of the offsets  *)
(* of a stride mapping three kernels run one after another, with a block   *)
(* for every stride-th supercell: KernelShiftParticles, KernelFillGaps and *)
(* KernelFillGapsLastFrame.  Blocks run concurrently; the threads of a     *)
(* block meet after every phase of the loop, so that one pass of the loop  *)
(* is one step, up to the order in which threads get their place from an   *)
(* atomic counter.                                                         *)
(*                                                                         *)
(* The supercells are a row: 0 and NumCells + 1 are guards, which take     *)
(* particles but have no block.  A guard on an open side, where the rank   *)
(* has no neighbour, is then emptied by KernelDeleteParticles; the others  *)
(* are sent.                                                               *)
(*                                                                         *)
(* getEmptyFrame allocates MaxTries frames, since the break in its loop is *)
(* commented out, and returns the last: the others are lost.  A pass of    *)
(* the loop waits for a heap that has the frames it needs: what the code   *)
(* does without memory is left out.                                        *)
(*                                                                         *)
(* A full frame that is added at the front to a supercell without frames   *)
(* becomes its last frame, too, but the size of the last frame stays 0.  A *)
(* block that then takes this frame as destination writes over the         *)
(* particles in it.  The variable spoiled keeps the supercells where a     *)
(* block has done so.                                                      *)
(***************************************************************************)
EXTENDS Integers, Sequences, FiniteSets

CONSTANTS
  NumCells,       \* supercells of CORE and BORDER
  TileSize,       \* slots of a frame
  Stride,         \* stride of the mapping, 3 in the code
  Open,           \* guards without a neighbouring rank
  PerCell,        \* bound: PerCell[c], the numbers of particles c may start with
  MaxParticles,   \* bound: particles altogether
  HeapSize,       \* frames of the heap
  MaxTries        \* maxTries of getEmptyFrame, 13 in the code

ASSUME ShiftAssumption ==
  /\ NumCells \in Nat \ {0}
  /\ TileSize \in Nat \ {0}
  /\ Stride \in Nat /\ Stride >= 3
  /\ Open \subseteq {0, NumCells + 1}
  /\ PerCell \in [1 .. NumCells -> SUBSET Nat]
  /\ MaxParticles \in Nat
  /\ HeapSize \in Nat /\ MaxParticles <= HeapSize
  /\ MaxTries \in Nat \ {0}

Area == 1 .. NumCells

Cells == 0 .. NumCells + 1

Slots == 0 .. TileSize - 1

Directions == {0, 1}

Neighbour(c, d) == IF d = 0 THEN c - 1 ELSE c + 1

Frames == 1 .. HeapSize

Null == 0

VARIABLES
  frame,      \* frame[f]: the slots of frame f
  used,       \* frames that are allocated
  list,       \* list[c]: the frames of a supercell, first to last
  size,       \* size[c]: sizeLastFrame
  mustShift,  \* mustShift[c]: set by the particle pusher
  offset,     \* offset of the stride mapping
  kernel,     \* the kernel that runs
  pc,         \* pc[c]: where the block of supercell c is
  local,      \* local[c]: shared memory of the block
  goal,       \* goal[p]: the supercell particle p has to be in
  lost,       \* frames that getEmptyFrame allocated and did not return
  vacant,     \* supercells without a frame at the start
  spoiled     \* those of them where a block wrote over particles

history == <<goal, lost, vacant, spoiled>>   \* for the properties only

vars == <<frame, used, list, size, mustShift, offset, kernel, pc, local, history>>

NoParticle == [id |-> 0, mask |-> 0]

EmptyFrame == [s \in Slots |-> NoParticle]

NoLocal == [cur |-> Null, last |-> Null,
            dest |-> [d \in Directions |-> Null],
            count |-> [d \in Directions |-> 0],
            neighbour |-> [d \in Directions |-> FALSE]]

Last(c) == IF list[c] = <<>> THEN Null ELSE list[c][Len(list[c])]

(* The frame after f in the list of c; Null if there is none.               *)
NextFrame(c, f) ==
  LET k == CHOOSE i \in DOMAIN list[c] : list[c][i] = f
  IN IF k < Len(list[c]) THEN list[c][k + 1] ELSE Null

(* The place of a free frame in the order in which the heap gives them out. *)
Turn(f) == Cardinality({g \in Frames \ used : g <= f})

(* What the k-th call of getEmptyFrame from now on returns, and the frames  *)
(* that the first k calls allocate.                                         *)
EmptyFrameNr(k) == CHOOSE f \in Frames \ used : Turn(f) = k * MaxTries

Allocated(k) == {f \in Frames \ used : Turn(f) <= k * MaxTries}

(* The orders in which the threads of a set may reach an atomic counter.    *)
Orders(S) == {q \in [1 .. Cardinality(S) -> S] : \A i, j \in DOMAIN q : q[i] = q[j] => i = j}

(* Variants of definitions below with an error the code could have had.     *)
(* Nothing uses them but the checks that the properties notice the error.   *)

(* A number of blocks that is rounded down.                                 *)
BlocksRoundedDown ==
  {c \in Area : (c - 1) % Stride = offset /\ (c - 1) \div Stride < (NumCells - offset) \div Stride}

-----------------------------------------------------------------------------
(* What is counted for a destination after full frames are taken away.      *)
RestCount(total, isFull) == IF isFull THEN total - TileSize ELSE total

(* StrideMapping::getSuperCellIndex of all blocks.                          *)
Blocks == {c \in Area : (c - 1) % Stride = offset}

-----------------------------------------------------------------------------
(* Particles are numbered through the supercells: first[c - 1] + 1 ..       *)
(* first[c] are those of c, and mask[p] says where particle p goes.         *)
CellOf(first, p) == CHOOSE c \in Area : p \in first[c - 1] + 1 .. first[c]

FramesOf(n) == (n + TileSize - 1) \div TileSize

(* The frames of c are numbered from first[c - 1] + 1, too.                 *)
FilledFrame(first, mask, f) ==
  LET c == CellOf(first, f) IN
  [s \in Slots |->
     LET p == first[c - 1] + (f - first[c - 1] - 1) * TileSize + s + 1
     IN IF p <= first[c] THEN [id |-> p, mask |-> mask[p]] ELSE NoParticle]

(* Where a particle with mask m in supercell c belongs.                     *)
Aim(c, m) == IF m = 1 THEN c ELSE Neighbour(c, m - 2)

Held == UNION {{list[c][k] : k \in DOMAIN list[c]} : c \in Cells}

(* The frames of the supercells are compact, as the last fillGaps left      *)
(* them; those of the guard were deleted.                                   *)
Init ==
  /\ \E first \in [0 .. NumCells -> 0 .. MaxParticles] :
       /\ first[0] = 0
       /\ \A c \in Area : first[c] - first[c - 1] \in PerCell[c]
       /\ \E mask \in [1 .. first[NumCells] -> {1, 2, 3}] :
            LET frames(c) == FramesOf(first[c] - first[c - 1]) IN
            /\ list = [c \in Cells |->
                 IF c \in Area THEN [k \in 1 .. frames(c) |-> first[c - 1] + k] ELSE <<>>]
            /\ used = Held
            /\ frame = [f \in Frames |->
                 IF f \in used THEN FilledFrame(first, mask, f) ELSE EmptyFrame]
            /\ size = [c \in Cells |->
                 IF c \in Area /\ frames(c) > 0
                 THEN first[c] - first[c - 1] - (frames(c) - 1) * TileSize ELSE 0]
            /\ mustShift = [c \in Cells |->
                 c \in Area /\ \E p \in first[c - 1] + 1 .. first[c] : mask[p] >= 2]
            /\ goal = [p \in DOMAIN mask |-> Aim(CellOf(first, p), mask[p])]
  /\ offset = 0
  /\ kernel = "shift"
  /\ pc = [c \in Cells |-> "start"]
  /\ local = [c \in Cells |-> NoLocal]
  /\ lost = {}
  /\ vacant = {c \in Area : list[c] = <<>>}
  /\ spoiled = {}

(* The supercells with a block of the kernel that runs.                     *)
Launched == IF kernel = "delete" THEN Open ELSE Blocks

At(c, k, l) == kernel = k /\ c \in Launched /\ pc[c] = l

-----------------------------------------------------------------------------
(* KernelShiftParticles.                                                    *)

(* A supercell whose last frame is full and has size 0.                     *)
Unsized(n) == list[n] # <<>> /\ size[n] = 0 /\ \A s \in Slots : frame[Last(n)][s].mask # 0

(* The block starts with the last frame of a neighbour as destination,      *)
(* unless there is none or it is full.                                      *)
ShiftBegin(c) ==
  LET room(d) == list[Neighbour(c, d)] # <<>> /\ size[Neighbour(c, d)] # TileSize IN
  /\ At(c, "shift", "start")
  /\ mustShift' = [mustShift EXCEPT ![c] = FALSE]
  /\ IF mustShift[c] /\ list[c] # <<>>
     THEN /\ pc' = [pc EXCEPT ![c] = "loop"]
          /\ local' = [local EXCEPT ![c] =
               [cur |-> list[c][1], last |-> Null,
                dest |-> [d \in Directions |-> IF room(d) THEN Last(Neighbour(c, d)) ELSE Null],
                count |-> [d \in Directions |-> IF room(d) THEN size[Neighbour(c, d)] ELSE 0],
                neighbour |-> [d \in Directions |-> room(d)]]]
          /\ spoiled' = spoiled \cup {n \in {Neighbour(c, d) : d \in Directions} : Unsized(n)}
     ELSE /\ pc' = [pc EXCEPT ![c] = "done"]
          /\ UNCHANGED <<local, spoiled>>
  /\ UNCHANGED <<frame, used, list, size, offset, kernel, goal, lost, vacant>>

(* A pass of the loop.  The particles that leave get their place by an      *)
(* atomic counter; frames are allocated where one is needed; if a           *)
(* destination overflows, all full destinations are added to their          *)
(* supercells, at the front, and a second flush goes to new frames.         *)
Leaving(c) == {s \in Slots : frame[local[c].cur][s].mask >= 2}

Dir(c, s) == frame[local[c].cur][s].mask - 2

Total(c, d) == local[c].count[d] + Cardinality({s \in Leaving(c) : Dir(c, s) = d})

New1(c) == {d \in Directions : Total(c, d) > 0 /\ local[c].dest[d] = Null}

Dest1(c) ==
  [d \in Directions |->
     IF d \in New1(c) THEN EmptyFrameNr(Cardinality({e \in New1(c) : e <= d}))
     ELSE local[c].dest[d]]

AnyDestFrameFull(c) == \E d \in Directions : Total(c, d) > TileSize

Full(c) == {d \in Directions : AnyDestFrameFull(c) /\ Total(c, d) >= TileSize}

New2(c) == {d \in Full(c) : Total(c, d) > TileSize}

Dest2(c) ==
  [d \in Directions |->
     IF d \in New2(c) THEN EmptyFrameNr(Cardinality(New1(c)) + Cardinality({e \in New2(c) : e <= d}))
     ELSE IF d \in Full(c) THEN Null ELSE Dest1(c)[d]]

(* The full destinations that are not the last frame of the neighbour.      *)
Hung(c) == {d \in Full(c) : ~local[c].neighbour[d]}

(* The calls of getEmptyFrame in the pass, and the frames they return.      *)
Calls(c) == Cardinality(New1(c)) + Cardinality(New2(c))

Returned(c) == {Dest1(c)[d] : d \in New1(c)} \cup {Dest2(c)[d] : d \in New2(c)}

(* Where the k-th particle goes.                                            *)
Target(c, order, k) ==
  LET d == Dir(c, order[k])
      place == local[c].count[d] + Cardinality({j \in 1 .. k - 1 : Dir(c, order[j]) = d})
  IN IF place < TileSize THEN <<Dest1(c)[d], place>> ELSE <<Dest2(c)[d], place - TileSize>>

Flushed(c, order) ==
  LET arrived(f, s) == {k \in DOMAIN order : Target(c, order, k) = <<f, s>>} IN
  [f \in Frames |-> [s \in Slots |->
     IF arrived(f, s) # {}
     THEN [id |-> frame[local[c].cur][order[CHOOSE k \in arrived(f, s) : TRUE]].id, mask |-> 1]
     ELSE IF f = local[c].cur /\ s \in Leaving(c) THEN NoParticle ELSE frame[f][s]]]

ShiftFrame(c) ==
  LET b == local[c]
      next == NextFrame(c, b.cur)
  IN /\ At(c, "shift", "loop")
     /\ Cardinality(Frames \ used) >= Calls(c) * MaxTries
     /\ \E order \in Orders(Leaving(c)) : frame' = Flushed(c, order)
     /\ used' = used \cup Allocated(Calls(c))
     /\ lost' = lost \cup (Allocated(Calls(c)) \ Returned(c))
     /\ list' = [n \in Cells |->
          IF \E d \in Hung(c) : Neighbour(c, d) = n
          THEN <<Dest1(c)[CHOOSE d \in Hung(c) : Neighbour(c, d) = n]>> \o list[n] ELSE list[n]]
     /\ size' = [n \in Cells |->
          IF \E d \in Full(c) \ Hung(c) : Neighbour(c, d) = n THEN TileSize ELSE size[n]]
     /\ local' = [local EXCEPT ![c] =
          [cur |-> next, last |-> Null, dest |-> Dest2(c),
           count |-> [d \in Directions |-> RestCount(Total(c, d), d \in Full(c))],
           neighbour |-> [d \in Directions |-> b.neighbour[d] /\ d \notin Full(c)]]]
     /\ pc' = [pc EXCEPT ![c] = IF next = Null THEN "end" ELSE "loop"]
     /\ UNCHANGED <<mustShift, offset, kernel, goal, vacant, spoiled>>

(* A block that does not tell the neighbour the new size of its last frame. *)
ShiftEndNoSize(c) ==
  LET b == local[c]
      filled == {d \in Directions : b.count[d] > 0}
      to(n) == {d \in filled : Neighbour(c, d) = n}
  IN /\ At(c, "shift", "end")
     /\ list' = [n \in Cells |->
          IF \E d \in to(n) : ~b.neighbour[d]
          THEN Append(list[n], b.dest[CHOOSE d \in to(n) : TRUE]) ELSE list[n]]
     /\ pc' = [pc EXCEPT ![c] = "done"]
     /\ local' = [local EXCEPT ![c] = NoLocal]
     /\ UNCHANGED <<frame, used, size, mustShift, offset, kernel, history>>

(* What is left in destination frames: a new frame becomes the last of the  *)
(* neighbour, whose size is set.                                            *)
ShiftEnd(c) ==
  LET b == local[c]
      filled == {d \in Directions : b.count[d] > 0}
      to(n) == {d \in filled : Neighbour(c, d) = n}
  IN /\ At(c, "shift", "end")
     /\ list' = [n \in Cells |->
          IF \E d \in to(n) : ~b.neighbour[d]
          THEN Append(list[n], b.dest[CHOOSE d \in to(n) : TRUE]) ELSE list[n]]
     /\ size' = [n \in Cells |->
          IF to(n) # {} THEN b.count[CHOOSE d \in to(n) : TRUE] ELSE size[n]]
     /\ used' = used \ {b.dest[d] : d \in {e \in Directions \ filled : ~b.neighbour[e]}}
     /\ pc' = [pc EXCEPT ![c] = "done"]
     /\ local' = [local EXCEPT ![c] = NoLocal]
     /\ UNCHANGED <<frame, mustShift, offset, kernel, history>>

-----------------------------------------------------------------------------
(* KernelFillGaps.                                                          *)

Gaps(f) == {s \in Slots : frame[f][s].mask = 0}

Particles(f) == {s \in Slots : frame[f][s].mask = 1}

GapsBegin(c) ==
  /\ At(c, "gaps", "start")
  /\ IF list[c] = <<>>
     THEN /\ pc' = [pc EXCEPT ![c] = "done"]
          /\ UNCHANGED local
     ELSE /\ pc' = [pc EXCEPT ![c] = "loop"]
          /\ local' = [local EXCEPT ![c].cur = list[c][1], ![c].last = Last(c)]
  /\ UNCHANGED <<frame, used, list, size, mustShift, offset, kernel, history>>

(* A first frame without gaps that is looked at again.                      *)
GapsSkipStays(c) ==
  LET b == local[c] IN
  /\ At(c, "gaps", "loop")
  /\ b.cur = b.last
  /\ pc' = [pc EXCEPT ![c] = "done"]
  /\ local' = [local EXCEPT ![c] = NoLocal]
  /\ UNCHANGED <<frame, used, list, size, mustShift, offset, kernel, history>>

(* The first and the last frame have met, or the first has no gap.          *)
GapsSkip(c) ==
  LET b == local[c] IN
  /\ At(c, "gaps", "loop")
  /\ b.cur = b.last \/ Gaps(b.cur) = {}
  /\ IF b.cur = b.last
     THEN /\ pc' = [pc EXCEPT ![c] = "done"]
          /\ local' = [local EXCEPT ![c] = NoLocal]
     ELSE /\ local' = [local EXCEPT ![c].cur = NextFrame(c, b.cur)]
          /\ UNCHANGED pc
  /\ UNCHANGED <<frame, used, list, size, mustShift, offset, kernel, history>>

(* Particles put from slots of a frame into gaps of another one.            *)
Moved(to, gaps, from, particles) ==
  LET n == {k \in DOMAIN gaps : k \in DOMAIN particles}
      move(f, s) == {k \in n : f = to /\ s = gaps[k]}
  IN [f \in Frames |-> [s \in Slots |->
        IF move(f, s) # {}
        THEN [id |-> frame[from][particles[CHOOSE k \in move(f, s) : TRUE]].id, mask |-> 1]
        ELSE IF f = from /\ \E k \in n : s = particles[k] THEN NoParticle ELSE frame[f][s]]]

(* A last frame that is taken out of the list but not freed.                *)
GapsFillLeaks(c) ==
  LET b == local[c]
      g == Cardinality(Gaps(b.cur))
      p == Cardinality(Particles(b.last))
      rest == SubSeq(list[c], 1, Len(list[c]) - 1)
      previous == rest[Len(rest)]
  IN /\ At(c, "gaps", "loop")
     /\ b.cur # b.last
     /\ g > 0
     /\ \E gaps \in Orders(Gaps(b.cur)), particles \in Orders(Particles(b.last)) :
          frame' = Moved(b.cur, gaps, b.last, particles)
     /\ IF g < p
        THEN /\ local' = [local EXCEPT ![c].cur = NextFrame(c, b.cur)]
             /\ UNCHANGED list
        ELSE /\ list' = [list EXCEPT ![c] = rest]
             /\ local' = [local EXCEPT
                  ![c].last = previous,
                  ![c].cur = IF g = p /\ previous # b.cur THEN NextFrame(c, b.cur) ELSE b.cur]
     /\ UNCHANGED <<used, size, mustShift, offset, kernel, pc, history>>

(* Gaps of the first frame are filled from the last one, which is removed   *)
(* when it has become empty.                                                *)
GapsFill(c) ==
  LET b == local[c]
      g == Cardinality(Gaps(b.cur))
      p == Cardinality(Particles(b.last))
      rest == SubSeq(list[c], 1, Len(list[c]) - 1)
      previous == rest[Len(rest)]
  IN /\ At(c, "gaps", "loop")
     /\ b.cur # b.last
     /\ g > 0
     /\ \E gaps \in Orders(Gaps(b.cur)), particles \in Orders(Particles(b.last)) :
          frame' = Moved(b.cur, gaps, b.last, particles)
     /\ IF g < p
        THEN /\ local' = [local EXCEPT ![c].cur = NextFrame(c, b.cur)]
             /\ UNCHANGED <<list, used>>
        ELSE /\ list' = [list EXCEPT ![c] = rest]
             /\ used' = used \ {b.last}
             /\ local' = [local EXCEPT
                  ![c].last = previous,
                  ![c].cur = IF g = p /\ previous # b.cur THEN NextFrame(c, b.cur) ELSE b.cur]
     /\ UNCHANGED <<size, mustShift, offset, kernel, pc, history>>

(* A last frame whose particles are counted but not moved to the front.     *)
FillLastFrameCounts(c) ==
  /\ At(c, "last", "start")
  /\ size' = [size EXCEPT ![c] =
       IF Last(c) = Null THEN 0 ELSE TileSize - Cardinality(Gaps(Last(c)))]
  /\ pc' = [pc EXCEPT ![c] = "done"]
  /\ UNCHANGED <<frame, used, list, mustShift, offset, kernel, local, history>>

(* KernelFillGapsLastFrame: the particles of the last frame are moved to    *)
(* its front and counted.                                                   *)
FillLastFrame(c) ==
  LET f == Last(c)
      n == Cardinality({s \in Slots : frame[f][s].mask # 0})
      gaps == {s \in Gaps(f) : s < n}
      late == {s \in Slots \ Gaps(f) : s >= n}
  IN /\ At(c, "last", "start")
     /\ IF f = Null
        THEN /\ size' = [size EXCEPT ![c] = 0]
             /\ UNCHANGED frame
        ELSE /\ size' = [size EXCEPT ![c] = n]
             /\ \E to \in Orders(gaps), from \in Orders(late) : frame' = Moved(f, to, f, from)
     /\ pc' = [pc EXCEPT ![c] = "done"]
     /\ UNCHANGED <<used, list, mustShift, offset, kernel, local, history>>

-----------------------------------------------------------------------------
(* KernelDeleteParticles.                                                   *)

(* The particles of the last frame are deleted and the frame is freed.      *)
DeleteFrame(c) ==
  /\ At(c, "delete", "start")
  /\ list[c] # <<>>
  /\ frame' = [frame EXCEPT ![Last(c)] = EmptyFrame]
  /\ used' = used \ {Last(c)}
  /\ list' = [list EXCEPT ![c] = SubSeq(@, 1, Len(@) - 1)]
  /\ UNCHANGED <<size, mustShift, offset, kernel, pc, local, history>>

DeleteEnd(c) ==
  /\ At(c, "delete", "start")
  /\ list[c] = <<>>
  /\ size' = [size EXCEPT ![c] = 0]
  /\ pc' = [pc EXCEPT ![c] = "done"]
  /\ UNCHANGED <<frame, used, list, mustShift, offset, kernel, local, history>>

-----------------------------------------------------------------------------
(* The loop of shiftParticles, and the send task after it: the next kernel  *)
(* starts when all blocks of the one before have ended.                     *)
NextKernel ==
  /\ kernel # "over"
  /\ \A c \in Launched : pc[c] = "done"
  /\ pc' = [c \in Cells |-> "start"]
  /\ CASE kernel = "shift" -> kernel' = "gaps" /\ UNCHANGED offset
       [] kernel = "gaps" -> kernel' = "last" /\ UNCHANGED offset
       [] kernel = "last" /\ offset + 1 < Stride -> kernel' = "shift" /\ offset' = offset + 1
       [] kernel = "last" /\ offset + 1 = Stride -> kernel' = "delete" /\ offset' = 0
       [] kernel = "delete" -> kernel' = "over" /\ UNCHANGED offset
  /\ UNCHANGED <<frame, used, list, size, mustShift, local, history>>

Terminated == kernel = "over" /\ UNCHANGED vars

Work ==
  \/ \E c \in Area :
       \/ ShiftBegin(c)
       \/ ShiftFrame(c)
       \/ ShiftEnd(c)
       \/ GapsBegin(c)
       \/ GapsSkip(c)
       \/ GapsFill(c)
       \/ FillLastFrame(c)
  \/ \E c \in Open : DeleteFrame(c) \/ DeleteEnd(c)
  \/ NextKernel

Next == Work \/ Terminated

Spec == Init /\ [][Next]_vars

(* Kernels run on once they are started.                                    *)
FairSpec == Spec /\ WF_vars(Work)

-----------------------------------------------------------------------------
(* Type invariant.                                                          *)
TypeOK ==
  /\ frame \in [Frames -> [Slots -> [id : 0 .. MaxParticles, mask : 0 .. 3]]]
  /\ used \subseteq Frames
  /\ lost \subseteq Frames
  /\ vacant \subseteq Area
  /\ spoiled \subseteq vacant
  /\ \A c \in Cells : list[c] \in Seq(Frames)
  /\ size \in [Cells -> 0 .. TileSize]
  /\ mustShift \in [Cells -> BOOLEAN]
  /\ offset \in 0 .. Stride - 1
  /\ kernel \in {"shift", "gaps", "last", "delete", "over"}
  /\ pc \in [Cells -> {"start", "loop", "end", "done"}]
  /\ local \in [Cells -> [cur : Frames \cup {Null}, last : Frames \cup {Null},
                         dest : [Directions -> Frames \cup {Null}],
                         count : [Directions -> 0 .. TileSize],
                         neighbour : [Directions -> BOOLEAN]]]

(* No block is in the middle of its kernel.                                 *)
Quiet == \A c \in Cells : pc[c] \in {"start", "done"}

(* Where in the lists of the supercells a particle is.                      *)
Places(p) ==
  {x \in UNION {{c} \X (DOMAIN list[c]) \X Slots : c \in Cells} :
     LET m == frame[list[x[1]][x[2]]][x[3]] IN m.id = p /\ m.mask # 0}

(* Between kernels every particle is in one slot of one supercell: none is  *)
(* duplicated, and none is lost or overwritten but those that have left the *)
(* simulation and are deleted, and those on their way to a supercell that   *)
(* was spoiled.                                                             *)
ParticlesKept ==
  Quiet => \A p \in DOMAIN goal :
    \/ Cardinality(Places(p)) = 1
    \/ /\ Places(p) = {}
       /\ goal[p] \in spoiled \/ (goal[p] \in Open /\ kernel \in {"delete", "over"})

(* Between kernels no particle is lost, whatever supercells were empty.     *)
NoneOverwritten ==
  Quiet => \A p \in DOMAIN goal :
    Places(p) # {} \/ (goal[p] \in Open /\ kernel \in {"delete", "over"})

(* In the end every particle is in the supercell it moved to, those that    *)
(* have left the simulation are gone, and of those that moved to a spoiled  *)
(* supercell none is elsewhere.                                             *)
Arrived ==
  kernel = "over" => \A p \in DOMAIN goal :
    LET cells == {x[1] : x \in Places(p)}
    IN cells = {goal[p]} \ Open \/ (cells = {} /\ goal[p] \in spoiled)

(* In the end the supercells are compact again, and the open guards too:    *)
(* frames but the last are full, the last one is filled from the front, and *)
(* its size is known, 0 if there is none.  The shift of the next step       *)
(* relies on this.  Only a supercell that had no frame at the start may     *)
(* have a full last frame and a wrong size, which is 0 unless it is         *)
(* spoiled.                                                                 *)
Compact ==
  kernel = "over" => \A c \in Area \cup Open :
    /\ \A k \in 1 .. Len(list[c]) - 1 : Gaps(list[c][k]) = {}
    /\ IF list[c] = <<>> THEN size[c] = 0
       ELSE \/ Gaps(Last(c)) = size[c] .. TileSize - 1
            \/ Gaps(Last(c)) = {} /\ c \in vacant /\ (size[c] = 0 \/ c \in spoiled)

(* Between kernels a frame that is allocated is in the list of one          *)
(* supercell, once, or is one that getEmptyFrame has lost: the kernels lose *)
(* no other frame, and never use one of those.                              *)
HeapExact ==
  Quiet =>
    /\ used = Held \cup lost
    /\ Held \cap lost = {}
    /\ \A c, d \in Cells : \A j \in DOMAIN list[c], k \in DOMAIN list[d] :
         list[c][j] = list[d][k] => c = d /\ j = k

(* The kernels end: the loop over the frames that fills gaps always gets to *)
(* where the first and the last frame meet.                                 *)
ShiftEnds == <>(kernel = "over")
=============================================================================
