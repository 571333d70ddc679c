---------------------------- MODULE ExchangeStack ----------------------------
(***************************************************************************)
(* The device stack through which the particles of one guard leave a rank. *)
(*                                                                         *)
(* KernelBashParticles runs one thread block per supercell of the guard.   *)
(* The blocks run concurrently and without a common barrier.  Each walks   *)
(* its own list of frames from the last to the first and reserves room in  *)
(* one shared buffer of MaxSize particles with ExchangePushDataBox::pushN, *)
(* which is an atomic add on the size of the buffer, an atomic exchange    *)
(* when the add went past the end, and an atomic add on the size of the    *)
(* index.  A block that is not granted all the room it asked for keeps its *)
(* remaining particles; TaskSendParticlesExchange starts another round     *)
(* when, and only when, the buffer came back full.                         *)
(*                                                                         *)
(* Only the number of particles of a frame is kept.  The frames belong to  *)
(* one supercell, hence to one block; what blocks share is the two sizes,  *)
(* the buffer and the index.                                               *)
(***************************************************************************)
EXTENDS Integers, Sequences, FiniteSets

CONSTANTS
  Blocks,     \* thread blocks of the kernel: the supercells of the guard
  NoCell,     \* supercell of an index entry that was never written
  MaxSize,    \* particles the exchange buffer holds, entries its index holds
  TileSize,   \* particles a frame holds
  MaxFrames   \* bound: frames a supercell holds at the start

ASSUME NoCellAssumption == NoCell \notin Blocks
ASSUME MaxSizeAssumption == MaxSize \in Nat \ {0}
ASSUME TileSizeAssumption == TileSize \in Nat \ {0}
ASSUME MaxFramesAssumption == MaxFrames \in Nat

VARIABLES
  frames,     \* frames[b][i]: particles with a set multiMask in frame i of b
  pc,         \* where thread 0 of a block stands
  oldSize,    \* value the atomic add on the size returned to the block
  count,      \* particles the block asked for, then was granted
  slot,       \* index entry the block reserved
  size,       \* *currentSizePointer of the buffer
  indexSize,  \* *currentSize of the index (virtualMemory)
  index       \* the index: which supercell owns which range of the buffer

vars == <<frames, pc, oldSize, count, slot, size, indexSize, index>>

Slots == 0 .. MaxSize - 1

Entry == [cell : Blocks \cup {NoCell}, start : Nat, count : Nat]

(* Any list of frames, empty frames included: the kernel relies on no      *)
(* shape of the list and removes an empty frame itself.                     *)
GuardLists == UNION {[1 .. n -> 0 .. TileSize] : n \in 0 .. MaxFrames}

Last(s) == s[Len(s)]

Front(s) == SubSeq(s, 1, Len(s) - 1)

-----------------------------------------------------------------------------
(* Variants of the actions below with an error the code could have had.     *)
(* Nothing uses them but the checks that the properties notice the error.   *)

(* The exchange replaced by undoing the block's own add.                    *)
PushResetUndo(b) ==
  /\ pc[b] = "Exch"
  /\ size' = size - count[b]
  /\ IF oldSize[b] >= MaxSize
     THEN pc' = [pc EXCEPT ![b] = "Done"] /\ UNCHANGED count
     ELSE /\ pc' = [pc EXCEPT ![b] = "Index"]
          /\ count' = [count EXCEPT ![b] = MaxSize - oldSize[b]]
  /\ UNCHANGED <<frames, oldSize, slot, indexSize, index>>

(* A reservation that fits only in part is refused.                         *)
PushResetAllOrNothing(b) ==
  /\ pc[b] = "Exch"
  /\ size' = MaxSize
  /\ pc' = [pc EXCEPT ![b] = "Done"]
  /\ UNCHANGED <<frames, oldSize, count, slot, indexSize, index>>

(* The test oldSize >= maxSize forgotten: an index entry without particles. *)
PushResetNoTest(b) ==
  /\ pc[b] = "Exch"
  /\ size' = MaxSize
  /\ pc' = [pc EXCEPT ![b] = "Index"]
  /\ count' = [count EXCEPT ![b] = IF oldSize[b] < MaxSize THEN MaxSize - oldSize[b] ELSE 0]
  /\ UNCHANGED <<frames, oldSize, slot, indexSize, index>>

(* The test forgotten: room left over is computed where there is none.      *)
PushResetNegative(b) ==
  /\ pc[b] = "Exch"
  /\ size' = MaxSize
  /\ pc' = [pc EXCEPT ![b] = "Index"]
  /\ count' = [count EXCEPT ![b] = MaxSize - oldSize[b]]
  /\ UNCHANGED <<frames, oldSize, slot, indexSize, index>>

(* Another round only when the size exceeds that of the buffer.             *)
NextRoundIfLarger ==
  /\ \A b \in Blocks : pc[b] = "Done"
  /\ size > MaxSize
  /\ size' = 0
  /\ indexSize' = 0
  /\ pc' = [b \in Blocks |-> "Loop"]
  /\ UNCHANGED <<frames, oldSize, count, slot, index>>

(* The size advanced by one entry instead of by the particles of the frame. *)
PushAddOffByFrame(b) ==
  /\ pc[b] = "Loop"
  /\ frames[b] # <<>>
  /\ LET n == Last(frames[b]) IN
     /\ n > 0
     /\ oldSize' = [oldSize EXCEPT ![b] = size]
     /\ count' = [count EXCEPT ![b] = n]
     /\ size' = size + 1
     /\ pc' = [pc EXCEPT ![b] = IF size + n > MaxSize THEN "Exch" ELSE "Index"]
  /\ UNCHANGED <<frames, slot, indexSize, index>>

-----------------------------------------------------------------------------
(* setCurrentSize(0) and the launch of the kernel (bashParticles).          *)

Init ==
  /\ frames \in [Blocks -> GuardLists]
  /\ pc = [b \in Blocks |-> "Loop"]
  /\ oldSize = [b \in Blocks |-> 0]
  /\ count = [b \in Blocks |-> 0]
  /\ slot = [b \in Blocks |-> 0]
  /\ size = 0
  /\ indexSize = 0
  /\ index = [i \in Slots |-> [cell |-> NoCell, start |-> 0, count |-> 0]]

AllDone == \A b \in Blocks : pc[b] = "Done"

(* The kernel has ended and the buffer came back full: the particles are    *)
(* copied out and TaskSendParticlesExchange calls init() for another round. *)
NextRound ==
  /\ AllDone
  /\ size = MaxSize
  /\ size' = 0
  /\ indexSize' = 0
  /\ pc' = [b \in Blocks |-> "Loop"]
  /\ UNCHANGED <<frames, oldSize, count, slot, index>>

(* while (isValid && hasMemory) is left with isValid = false.               *)
NoMoreFrames(b) ==
  /\ pc[b] = "Loop"
  /\ frames[b] = <<>>
  /\ pc' = [pc EXCEPT ![b] = "Done"]
  /\ UNCHANGED <<frames, oldSize, count, slot, size, indexSize, index>>

(* numBashedParticles = 0: the frame is removed, nothing is pushed.         *)
RemoveEmptyFrame(b) ==
  /\ pc[b] = "Loop"
  /\ frames[b] # <<>>
  /\ Last(frames[b]) = 0
  /\ frames' = [frames EXCEPT ![b] = Front(@)]
  /\ UNCHANGED <<pc, oldSize, count, slot, size, indexSize, index>>

(* pushN: the atomic add that reserves room for all particles of the frame. *)
PushAdd(b) ==
  /\ pc[b] = "Loop"
  /\ frames[b] # <<>>
  /\ LET n == Last(frames[b]) IN
     /\ n > 0
     /\ oldSize' = [oldSize EXCEPT ![b] = size]
     /\ count' = [count EXCEPT ![b] = n]
     /\ size' = size + n
     /\ pc' = [pc EXCEPT ![b] = IF size + n > MaxSize THEN "Exch" ELSE "Index"]
  /\ UNCHANGED <<frames, slot, indexSize, index>>

(* pushN: the reservation went past the end.  The size is reset by an       *)
(* atomic exchange; the block gets what was left, or NULL, in which case    *)
(* hasMemory becomes false and the block leaves its loop.                   *)
PushReset(b) ==
  /\ pc[b] = "Exch"
  /\ size' = MaxSize
  /\ IF oldSize[b] >= MaxSize
     THEN /\ pc' = [pc EXCEPT ![b] = "Done"]
          /\ UNCHANGED count
     ELSE /\ pc' = [pc EXCEPT ![b] = "Index"]
          /\ count' = [count EXCEPT ![b] = MaxSize - oldSize[b]]
  /\ UNCHANGED <<frames, oldSize, slot, indexSize, index>>

(* pushN: virtualMemory.pushN(1), the atomic add on the size of the index.  *)
PushIndex(b) ==
  /\ pc[b] = "Index"
  /\ slot' = [slot EXCEPT ![b] = indexSize]
  /\ indexSize' = indexSize + 1
  /\ pc' = [pc EXCEPT ![b] = "Copy"]
  /\ UNCHANGED <<frames, oldSize, count, size, index>>

(* The index entry is filled in, the granted particles are copied and their *)
(* multiMask is cleared.  The frame is removed if all of it was copied;     *)
(* else hasMemory is false and the block leaves its loop.                   *)
CopyParticles(b) ==
  /\ pc[b] = "Copy"
  /\ index' = [index EXCEPT ![slot[b]] =
                 [cell |-> b, start |-> oldSize[b], count |-> count[b]]]
  /\ IF count[b] < Last(frames[b])
     THEN /\ frames' = [frames EXCEPT ![b][Len(frames[b])] = @ - count[b]]
          /\ pc' = [pc EXCEPT ![b] = "Done"]
     ELSE /\ frames' = [frames EXCEPT ![b] = Front(@)]
          /\ pc' = [pc EXCEPT ![b] = "Loop"]
  /\ UNCHANGED <<oldSize, count, slot, size, indexSize>>

BlockStep(b) ==
  \/ NoMoreFrames(b)
  \/ RemoveEmptyFrame(b)
  \/ PushAdd(b)
  \/ PushReset(b)
  \/ PushIndex(b)
  \/ CopyParticles(b)

Next ==
  \/ NextRound
  \/ \E b \in Blocks : BlockStep(b)

Spec == Init /\ [][Next]_vars

(* The device runs every block of a launched kernel to its end, and the     *)
(* task is polled until it has finished.                                    *)
FairSpec ==
  /\ Spec
  /\ WF_vars(NextRound)
  /\ \A b \in Blocks : WF_vars(BlockStep(b))

-----------------------------------------------------------------------------
(* Type invariant.                                                          *)
TypeOK ==
  /\ frames \in [Blocks -> Seq(0 .. TileSize)]
  /\ pc \in [Blocks -> {"Loop", "Exch", "Index", "Copy", "Done"}]
  /\ oldSize \in [Blocks -> Nat]
  /\ count \in [Blocks -> Nat]
  /\ slot \in [Blocks -> Nat]
  /\ size \in Nat
  /\ indexSize \in Nat
  /\ index \in [Slots -> Entry]

(* The range of the buffer a block has reserved and not yet recorded.       *)
Claim(b) ==
  CASE pc[b] \in {"Index", "Copy"} -> oldSize[b] .. (oldSize[b] + count[b] - 1)
    [] pc[b] = "Exch" -> oldSize[b] .. (MaxSize - 1)
    [] OTHER -> {}

(* The index entries that are filled in, and the range each one records.    *)
Recorded ==
  {i \in Slots : i < indexSize /\ \A b \in Blocks : pc[b] = "Copy" => slot[b] # i}

EntryRange(i) == index[i].start .. (index[i].start + index[i].count - 1)

(* No two blocks are ever granted the same place of the buffer, and no      *)
(* grant reaches outside it: no particle of one supercell overwrites one of *)
(* another, whatever the order of the blocks' adds and exchanges.           *)
GrantsDisjoint ==
  /\ \A b \in Blocks : Claim(b) \subseteq Slots
  /\ \A i \in Recorded : EntryRange(i) \subseteq Slots
  /\ \A b, c \in Blocks : b # c => Claim(b) \cap Claim(c) = {}
  /\ \A b \in Blocks, i \in Recorded : Claim(b) \cap EntryRange(i) = {}
  /\ \A i, j \in Recorded : i # j => EntryRange(i) \cap EntryRange(j) = {}

(* When the kernel has ended every place below the size belongs to an index *)
(* entry: the receiver, which follows the index, gets size particles and no *)
(* uninitialised one.                                                       *)
NoHoles ==
  AllDone => \A x \in Slots : x < size => \E i \in Recorded : x \in EntryRange(i)

(* When the kernel has ended the size is that of the buffer at most, though *)
(* it exceeds it while blocks are between their add and their exchange      *)
(* (assert(lastSize <= maxSize) in TaskSendParticlesExchange).              *)
FinalSizeBounded == AllDone => size <= MaxSize

(* The index never outgrows its buffer, which PushDataBox does not check    *)
(* ("todo implement max size").                                             *)
IndexInBounds == indexSize <= MaxSize

(* A kernel that ends with room left has emptied every supercell: this is   *)
(* what allows the sender to stop after a round that was not full, and the  *)
(* receiver to conclude the same from the size it got.                      *)
RoundComplete == AllDone /\ size < MaxSize => \A b \in Blocks : frames[b] = <<>>

(* The invariant the proof is by induction on.  To the properties above it  *)
(* adds what relates the sizes to the blocks that are inside pushN: every   *)
(* granted place lies below the size, so the next add starts beyond it; the *)
(* size is beyond the buffer only while some block still has to reset it;   *)
(* a block that could not empty its frame has left the buffer full.         *)
Sizes ==
  /\ \A b \in Blocks : \A x \in Claim(b) : x < size
  /\ \A i \in Recorded : \A x \in EntryRange(i) : x < size
  /\ \A b \in Blocks : pc[b] = "Exch" => size >= MaxSize
  /\ size > MaxSize => \E b \in Blocks : pc[b] = "Exch"

Grants ==
  /\ \A b \in Blocks : pc[b] \in {"Index", "Copy"} =>
       count[b] > 0 /\ oldSize[b] + count[b] <= MaxSize
  /\ \A b \in Blocks : pc[b] = "Exch" => oldSize[b] + count[b] > MaxSize
  /\ \A i \in Recorded : index[i].count > 0
  /\ \A b \in Blocks : pc[b] = "Copy" => slot[b] < indexSize
  /\ \A b, c \in Blocks :
       pc[b] = "Copy" /\ pc[c] = "Copy" /\ slot[b] = slot[c] => b = c

LeftOver ==
  \A b \in Blocks :
    /\ pc[b] \in {"Exch", "Index", "Copy"} =>
         frames[b] # <<>> /\ count[b] <= Last(frames[b])
    /\ pc[b] \in {"Index", "Copy"} /\ count[b] < Last(frames[b]) => size >= MaxSize
    /\ pc[b] = "Done" /\ frames[b] # <<>> => size >= MaxSize

Covered ==
  \A x \in Slots : x < size =>
    \/ \E b \in Blocks : x \in Claim(b)
    \/ \E i \in Recorded : x \in EntryRange(i)

IInv ==
  /\ TypeOK
  /\ Sizes
  /\ Grants
  /\ GrantsDisjoint
  /\ LeftOver
  /\ Covered
  /\ IndexInBounds

(* Every particle of the guard is sent eventually, in as many rounds as     *)
(* that takes.                                                              *)
GuardEmptied == <>[](\A b \in Blocks : frames[b] = <<>>)

=============================================================================
