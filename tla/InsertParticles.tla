--------------------------- MODULE InsertParticles ---------------------------
(***************************************************************************)
(* KernelInsertParticles: blocks take received frames from the exchange    *)
(* stack and hang them into the lists of the border supercells.            *)
(*                                                                         *)
(* There is one block for every entry of the index stack.  A block pops an *)
(* entry, allocates a frame, copies the particles and appends the frame to *)
(* the list of a supercell, which other blocks do at the same time; only   *)
(* the decrement of the stack and the exchange of the last pointer are     *)
(* atomic.  A step is an access to memory that blocks share.               *)
(***************************************************************************)
EXTENDS Integers, Sequences, FiniteSets

CONSTANTS
  NumEntries,   \* entries of the index stack, and blocks
  Cells,        \* border supercells
  CellOf,       \* CellOf[e]: the supercell of entry e
  HeapSize,     \* frames of the heap
  MaxTries      \* maxTries of getEmptyFrame, 13 in the code

ASSUME InsertAssumption ==
  /\ NumEntries \in Nat
  /\ IsFiniteSet(Cells)
  /\ CellOf \in [1 .. NumEntries -> Cells]
  /\ HeapSize \in Nat
  /\ Cardinality(Cells) <= HeapSize
  /\ MaxTries \in Nat \ {0}

Entries == 1 .. NumEntries

Blocks == 1 .. NumEntries

Frames == 1 .. HeapSize

Null == 0

VARIABLES
  currentSize,  \* of the index stack on the device
  pc,           \* pc[b]: where block b is
  entry,        \* entry[b]: the entry block b has popped
  tries,        \* tries[b]: mallocs of getEmptyFrame that are over
  tmp,          \* tmp[b]: frame of block b
  old,          \* old[b]: the last frame block b has replaced
  heap,         \* frames that are free
  content,      \* content[f]: the entry whose particles are in f
  next,         \* next[f]: nextFrame
  prev,         \* prev[f]: previousFrame
  first,        \* first[c]: firstFramePtr
  last,         \* last[c]: lastFramePtr
  chain         \* chain[c]: frames in the order they became last; for the properties

block == <<entry, tries, tmp, old>>

lists == <<next, prev, first, last, chain>>

vars == <<currentSize, pc, entry, tries, tmp, old, heap, content, next, prev, first, last, chain>>

Init ==
  /\ currentSize = NumEntries
  /\ pc = [b \in Blocks |-> "pop"]
  /\ entry = [b \in Blocks |-> Null]
  /\ tries = [b \in Blocks |-> 0]
  /\ tmp = [b \in Blocks |-> Null]
  /\ old = [b \in Blocks |-> Null]
  /\ content = [f \in Frames |-> Null]
  /\ next = [f \in Frames |-> Null]
  /\ prev = [f \in Frames |-> Null]
  \* a supercell may have a frame already; which one does not matter
  /\ \E start \in [Cells -> 0 .. Cardinality(Cells)] :
       /\ \A c, d \in Cells : start[c] = start[d] /\ start[c] # Null => c = d
       /\ heap = Frames \ {start[c] : c \in Cells}
       /\ first = start
       /\ last = start
       /\ chain = [c \in Cells |-> IF start[c] = Null THEN <<>> ELSE <<start[c]>>]

Goto(b, l) == pc' = [pc EXCEPT ![b] = l]

Cell(b) == CellOf[entry[b]]

-----------------------------------------------------------------------------
(* Variants of definitions below with an error the code could have had.     *)
(* Nothing uses them but the checks that the properties notice the error.   *)

(* A decrement that is not atomic.                                          *)
PopSame(b) ==
  /\ pc[b] = "pop"
  /\ \E seen \in {currentSize, currentSize + 1} \cap Entries :
       entry' = [entry EXCEPT ![b] = seen]
  /\ currentSize' = IF currentSize > 0 THEN currentSize - 1 ELSE 0
  /\ Goto(b, "malloc")
  /\ UNCHANGED <<tries, tmp, old, heap, content, lists>>

(* The previous frame is the one that was last before the exchange.         *)
SetPreviousStale(b) ==
  /\ pc[b] = "setPrevious"
  /\ Goto(b, "setNext")
  /\ UNCHANGED <<currentSize, block, heap, content, lists>>

-----------------------------------------------------------------------------
(* ExchangePopDataBox::pop: an atomic decrement.  A block that finds the    *)
(* stack empty resets it and has nothing to do.                             *)
PopEntry(b) ==
  /\ pc[b] = "pop"
  /\ IF currentSize <= 0
     THEN /\ currentSize' = 0
          /\ Goto(b, "done")
          /\ UNCHANGED entry
     ELSE /\ currentSize' = currentSize - 1
          /\ entry' = [entry EXCEPT ![b] = currentSize]
          /\ Goto(b, "malloc")
  /\ UNCHANGED <<tries, tmp, old, heap, content, lists>>

(* One pass of the loop of getEmptyFrame: every pass allocates, also when   *)
(* one before has found a frame.  What the last pass returns is used, a     *)
(* null pointer too.                                                        *)
Malloc(b) ==
  LET f == IF heap = {} THEN Null ELSE CHOOSE g \in heap : \A h \in heap : g <= h IN
  /\ pc[b] = "malloc"
  /\ heap' = heap \ {f}
  /\ tmp' = [tmp EXCEPT ![b] = f]
  /\ tries' = [tries EXCEPT ![b] = @ + 1]
  /\ Goto(b, IF tries[b] + 1 < MaxTries THEN "malloc"
             ELSE IF f = Null THEN "fault" ELSE "copy")
  /\ UNCHANGED <<currentSize, entry, old, content, lists>>

(* The threads of the block copy the particles; setAsLastFrame clears the   *)
(* next pointer and reads the last frame of the supercell.                  *)
CopyParticles(b) ==
  /\ pc[b] = "copy"
  /\ content' = [content EXCEPT ![tmp[b]] = entry[b]]
  /\ next' = [next EXCEPT ![tmp[b]] = Null]
  /\ prev' = [prev EXCEPT ![tmp[b]] = last[Cell(b)]]
  /\ Goto(b, "exchange")
  /\ UNCHANGED <<currentSize, block, heap, first, last, chain>>

(* The atomic exchange of the last pointer.                                 *)
ExchangeLast(b) ==
  /\ pc[b] = "exchange"
  /\ old' = [old EXCEPT ![b] = last[Cell(b)]]
  /\ last' = [last EXCEPT ![Cell(b)] = tmp[b]]
  /\ chain' = [chain EXCEPT ![Cell(b)] = Append(@, tmp[b])]
  /\ Goto(b, "setPrevious")
  /\ UNCHANGED <<currentSize, entry, tries, tmp, heap, content, next, prev, first>>

SetPrevious(b) ==
  /\ pc[b] = "setPrevious"
  /\ prev' = [prev EXCEPT ![tmp[b]] = old[b]]
  /\ Goto(b, "setNext")
  /\ UNCHANGED <<currentSize, block, heap, content, next, first, last, chain>>

(* The frame becomes the next one of the frame it has replaced, or the      *)
(* first of the supercell.                                                  *)
SetNext(b) ==
  /\ pc[b] = "setNext"
  /\ IF old[b] # Null
     THEN /\ next' = [next EXCEPT ![old[b]] = tmp[b]]
          /\ UNCHANGED first
     ELSE /\ first' = [first EXCEPT ![Cell(b)] = tmp[b]]
          /\ UNCHANGED next
  /\ Goto(b, "done")
  /\ UNCHANGED <<currentSize, block, heap, content, prev, last, chain>>

Terminated == (\A b \in Blocks : pc[b] \in {"done", "fault"}) /\ UNCHANGED vars

Next ==
  \/ \E b \in Blocks :
       \/ PopEntry(b)
       \/ Malloc(b)
       \/ CopyParticles(b)
       \/ ExchangeLast(b)
       \/ SetPrevious(b)
       \/ SetNext(b)
  \/ Terminated

Spec == Init /\ [][Next]_vars

-----------------------------------------------------------------------------
(* Type invariant.                                                          *)
TypeOK ==
  /\ currentSize \in 0 .. NumEntries
  /\ pc \in [Blocks -> {"pop", "malloc", "copy", "exchange", "setPrevious", "setNext",
                        "done", "fault"}]
  /\ entry \in [Blocks -> 0 .. NumEntries]
  /\ tries \in [Blocks -> 0 .. MaxTries]
  /\ tmp \in [Blocks -> 0 .. HeapSize]
  /\ old \in [Blocks -> 0 .. HeapSize]
  /\ heap \subseteq Frames
  /\ content \in [Frames -> 0 .. NumEntries]
  /\ next \in [Frames -> 0 .. HeapSize]
  /\ prev \in [Frames -> 0 .. HeapSize]
  /\ first \in [Cells -> 0 .. HeapSize]
  /\ last \in [Cells -> 0 .. HeapSize]
  /\ chain \in [Cells -> Seq(Frames)]

(* The list of a supercell, once no block works on it, is doubly linked     *)
(* through all frames that were hung into it, in the order of the           *)
(* exchanges: no frame is lost, in whatever order blocks update pointers.   *)
ListLinked ==
  \A c \in Cells :
    (\A b \in Blocks : pc[b] \in {"setPrevious", "setNext"} => Cell(b) # c) =>
      LET q == chain[c]
          n == Len(q)
      IN IF n = 0
         THEN first[c] = Null /\ last[c] = Null
         ELSE /\ first[c] = q[1]
              /\ last[c] = q[n]
              /\ \A i \in 1 .. n : prev[q[i]] = IF i = 1 THEN Null ELSE q[i - 1]
              /\ \A i \in 1 .. n : next[q[i]] = IF i = n THEN Null ELSE q[i + 1]

(* The particles of an entry are in one frame at most, in the list of their *)
(* supercell, and in one when all blocks are done: blocks pop different     *)
(* entries, and together all of them, and none of their frames is lost.     *)
InsertedOnce ==
  \A e \in Entries :
    LET places == {x \in Cells \X Frames :
                     x[2] \in DOMAIN chain[x[1]] /\ content[chain[x[1]][x[2]]] = e}
    IN /\ Cardinality(places) <= 1
       /\ \A x \in places : x[1] = CellOf[e]
       /\ (\A b \in Blocks : pc[b] = "done") => places # {}
=============================================================================
