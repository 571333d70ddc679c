------------------------ MODULE ShiftParticlesProofs ------------------------
(***************************************************************************)
(* Proofs about ShiftParticles, for any row of supercells, any size of a   *)
(* frame, any stride from three on, any open sides, and any numbers of     *)
(* particles, with supercells that are empty at the start.                 *)
(*                                                                         *)
(* A frame is in the list of one supercell, is a private destination of    *)
(* one block, is free or is lost.  Blocks of one launch are three          *)
(* supercells apart, so each has its two neighbours for itself: what a     *)
(* list of a neighbour looks like follows from the shared memory of that   *)
(* one block.                                                              *)
(***************************************************************************)
EXTENDS ShiftParticles, FiniteSetTheorems, FunctionTheorems, SequenceTheorems,
        WellFoundedInduction, TLAPS

-----------------------------------------------------------------------------
(* Shapes of frames and of lists of frames.                                 *)
FullFrame(fr, f) == \A s \in Slots : fr[f][s].mask # 0

FilledTo(fr, f, n) == \A s \in Slots : fr[f][s].mask # 0 <=> s < n

Calm(fr, f) == \A s \in Slots : fr[f][s].mask <= 1

Elems(q) == {q[k] : k \in DOMAIN q}

Distinct(q) == \A j, k \in DOMAIN q : q[j] = q[k] => j = k

AllFull(fr, q) == \A k \in 1 .. Len(q) : FullFrame(fr, q[k])

ButLastFull(fr, q) == \A k \in 1 .. Len(q) - 1 : FullFrame(fr, q[k])

CompactList(fr, q, n) == ButLastFull(fr, q) /\ FilledTo(fr, q[Len(q)], n)

(* How far a supercell is: its block has not begun to shift, or is shifting *)
(* its particles.                                                           *)
Rank(c) == (c - 1) % Stride

Pending(c) ==
  /\ c \in Area
  /\ \/ kernel \in {"shift", "gaps", "last"} /\ Rank(c) > offset
     \/ kernel = "shift" /\ Rank(c) = offset /\ pc[c] = "start"

Shifting(c) == kernel = "shift" /\ pc[c] \in {"loop", "end"}

(* Supercells that are compact: those that no block is at.                  *)
CompactDue(c) ==
  CASE kernel = "shift" -> /\ c \in Blocks => pc[c] = "start"
                           /\ \A b \in Area, d \in Directions : Neighbour(b, d) = c => ~Shifting(b)
    [] kernel = "gaps" -> c \notin Blocks
    [] kernel = "last" -> c \in Blocks => pc[c] = "done"
    [] OTHER -> TRUE

(* Those of which only the last frame may have gaps.                        *)
GapsDone(c) == c \in Blocks /\ ((kernel = "gaps" /\ pc[c] = "done") \/ kernel = "last")

-----------------------------------------------------------------------------
(* The parts of the invariant.                                              *)
Slot == [id : 0 .. MaxParticles, mask : 0 .. 3]

Locals == [cur : Frames \cup {Null}, last : Frames \cup {Null},
           dest : [Directions -> Frames \cup {Null}],
           count : [Directions -> 0 .. TileSize],
           neighbour : [Directions -> BOOLEAN]]

Types ==
  /\ frame \in [Frames -> [Slots -> Slot]]
  /\ used \subseteq Frames
  /\ lost \subseteq Frames
  /\ vacant \subseteq Area
  /\ spoiled \subseteq vacant
  /\ list \in [Cells -> Seq(Frames)]
  /\ size \in [Cells -> 0 .. TileSize]
  /\ mustShift \in [Cells -> BOOLEAN]
  /\ offset \in 0 .. Stride - 1
  /\ kernel \in {"shift", "gaps", "last", "delete", "over"}
  /\ pc \in [Cells -> {"start", "loop", "end", "done"}]
  /\ local \in [Cells -> Locals]

(* A frame a block has for itself.                                          *)
Private(b, d) == local[b].dest[d] # Null /\ ~local[b].neighbour[d]

(* Every frame is in one list, is private to one block, is lost, or is      *)
(* free.                                                                    *)
HeapOK ==
  /\ \A c \in Cells : Distinct(list[c])
  /\ \A c, d \in Cells : c # d => Elems(list[c]) \cap Elems(list[d]) = {}
  /\ \A b, c \in Cells, d \in Directions : Private(b, d) => local[b].dest[d] \notin Elems(list[c])
  /\ \A b, c \in Cells, d, e \in Directions :
       Private(b, d) /\ Private(c, e) /\ local[b].dest[d] = local[c].dest[e] => b = c /\ d = e
  /\ \A f \in Frames :
       f \in used <=> \/ \E c \in Cells : f \in Elems(list[c])
                      \/ \E b \in Cells, d \in Directions : Private(b, d) /\ local[b].dest[d] = f
                      \/ f \in lost
  /\ \A c \in Cells : Elems(list[c]) \cap lost = {}
  /\ \A b \in Cells, d \in Directions : Private(b, d) => local[b].dest[d] \notin lost
  /\ \A f \in Frames \ used : \A s \in Slots : frame[f][s].mask = 0
  /\ \A f \in lost : \A s \in Slots : frame[f][s].mask = 0

(* Every particle is in one slot, unless it was written over or deleted.    *)
OneSlot(fr) ==
  \A f, g \in Frames : \A s, t \in Slots :
    fr[f][s].mask # 0 /\ fr[g][t].mask # 0 /\ fr[f][s].id = fr[g][t].id => f = g /\ s = t

InSlot(fr, p) == \E f \in Frames : \E s \in Slots : fr[f][s].mask # 0 /\ fr[f][s].id = p

ParticlesOK ==
  /\ OneSlot(frame)
  /\ \A f \in Frames : \A s \in Slots : frame[f][s].mask # 0 => frame[f][s].id \in DOMAIN goal
  /\ \A p \in DOMAIN goal :
       InSlot(frame, p) \/ goal[p] \in spoiled \/ (goal[p] \in Open /\ kernel \in {"delete", "over"})

(* And on its way.                                                          *)
GoalsIn(fr, f, c) == \A s \in Slots : fr[f][s].mask # 0 => goal[fr[f][s].id] = Aim(c, fr[f][s].mask)

GoalsOK ==
  /\ \A c \in Cells : \A f \in Elems(list[c]) : GoalsIn(frame, f, c)
  /\ \A b \in Cells, d \in Directions :
       Private(b, d) => Calm(frame, local[b].dest[d])
                        /\ GoalsIn(frame, local[b].dest[d], Neighbour(b, d))

(* Where particles that leave may be.                                       *)
LeaversOK(c) ==
  (~Pending(c) \/ ~mustShift[c]) /\ ~(Shifting(c) /\ pc[c] = "loop")
    => \A f \in Elems(list[c]) : Calm(frame, f)

(* A block and its shared memory.                                           *)
BlockOK(c) ==
  /\ pc[c] # "start" => c \in Launched
  /\ pc[c] \in {"start", "done"} => local[c] = NoLocal
  /\ pc[c] = "loop" =>
       \E i \in 1 .. Len(list[c]) :
         /\ local[c].cur = list[c][i]
         /\ \/ kernel = "shift" /\ \A k \in 1 .. i - 1 : Calm(frame, list[c][k])
            \/ /\ kernel = "gaps"
               /\ \A k \in 1 .. i - 1 : FullFrame(frame, list[c][k])
               /\ local[c].last = list[c][Len(list[c])]
               /\ local[c].dest = NoLocal.dest
  /\ pc[c] = "end" => kernel = "shift"

(* What a block knows of the list of a neighbour.                           *)
DestinationOK(b, d) ==
  LET x == local[b]
      n == Neighbour(b, d)
  IN Shifting(b) =>
       /\ x.dest[d] = Null => x.count[d] = 0 /\ ~x.neighbour[d]
       /\ x.dest[d] # Null => \/ FilledTo(frame, x.dest[d], x.count[d])
                              \/ /\ x.neighbour[d] /\ n \in spoiled
                                 /\ FullFrame(frame, x.dest[d])
       /\ Private(b, d) => x.count[d] > 0
       /\ x.neighbour[d] => /\ n \in Area /\ list[n] # <<>>
                            /\ x.dest[d] = list[n][Len(list[n])]
                            /\ size[n] <= x.count[d]
                            /\ ButLastFull(frame, list[n])
       /\ ~x.neighbour[d] /\ n \in Area =>
            AllFull(frame, list[n]) /\ (size[n] = TileSize \/ (size[n] = 0 /\ n \in vacant))

(* A supercell that was empty has full frames only, and a wrong size of the *)
(* last one.                                                                *)
WrongSize(c) == c \in vacant /\ AllFull(frame, list[c]) /\ (size[c] = 0 \/ c \in spoiled)

CellOK(c) ==
  /\ list[c] = <<>> => size[c] = 0 /\ c \in vacant
  /\ c \in vacant => ~mustShift[c]
  /\ CompactDue(c) => CompactList(frame, list[c], size[c]) \/ WrongSize(c)
  /\ GapsDone(c) => ButLastFull(frame, list[c])

(* Nobody has put particles into a guard before its block has begun, and    *)
(* the open ones are emptied in the end.                                    *)
GuardsOK ==
  /\ \A c \in Area, d \in Directions :
       Pending(c) /\ Neighbour(c, d) \notin Area => list[Neighbour(c, d)] = <<>>
  /\ \A c \in Open :
       kernel = "over" \/ (kernel = "delete" /\ pc[c] = "done") => list[c] = <<>> /\ size[c] = 0

Inv ==
  /\ Types
  /\ HeapOK
  /\ ParticlesOK
  /\ GoalsOK
  /\ \A c \in Cells : LeaversOK(c) /\ BlockOK(c)
  /\ \A b \in Area, d \in Directions : DestinationOK(b, d)
  /\ \A c \in Area : CellOK(c)
  /\ GuardsOK

-----------------------------------------------------------------------------
(* Facts about numbers.                                                     *)

(* A set of naturals that is not empty has a least element.                 *)
LEMMA LeastNatural ==
  ASSUME NEW S \in SUBSET Nat, S # {}
  PROVE  \E m \in S : \A k \in S : m <= k
<1> DEFINE R == {p \in Nat \X Nat : p[1] < p[2]}
<1>1. IsWellFoundedOn(R, Nat)
  BY NatLessThanWellFounded DEF OpToRel
<1> HIDE DEF R
<1>2. PICK m \in S : \A k \in S : <<k, m>> \notin R
  BY <1>1, WFMin
<1>3. \A k \in S : ~(k < m)
  BY <1>2 DEF R
<1> QED
  BY <1>3

(* A function on 1 .. n is a sequence of length n.                           *)
LEMMA ListOf ==
  ASSUME NEW S, NEW n \in Nat, NEW q \in [1 .. n -> S]
  PROVE  q \in Seq(S) /\ Len(q) = n
<1>1. q \in Seq(S)
  BY SeqDef
<1>2. DOMAIN q = 1 .. n
  OBVIOUS
<1>3. Len(q) \in Nat /\ DOMAIN q = 1 .. Len(q)
  BY <1>1, LenProperties
<1> QED
  BY <1>1, <1>2, <1>3

(* Multiplication with a natural keeps an order.                            *)
LEMMA MulMono ==
  ASSUME NEW a \in Int, NEW b \in Int, NEW c \in Nat, a <= b
  PROVE  a * c <= b * c
OBVIOUS

(* Quotient and remainder are determined by their bounds.                   *)
LEMMA DivUnique ==
  ASSUME NEW q \in Int, NEW r \in Int, NEW b \in Nat \ {0}, 0 <= r, r < b
  PROVE  (q * b + r) \div b = q /\ (q * b + r) % b = r
OBVIOUS

(* Division with remainder.                                                 *)
LEMMA DivMod ==
  ASSUME NEW a \in Int, NEW b \in Nat \ {0}
  PROVE  /\ a \div b \in Int
         /\ a % b \in 0 .. b - 1
         /\ a = (a \div b) * b + (a % b)
<1>1. a \div b \in Int /\ (a \div b) * b <= a /\ a < (a \div b) * b + b
  OBVIOUS
<1>2. a % b \in 0 .. b - 1
  OBVIOUS
<1>3. PICK q \in Int, r \in Int : q = a \div b /\ r = a - q * b
  BY <1>1
<1>4. 0 <= r /\ r < b /\ a = q * b + r
  BY <1>1, <1>3
<1>5. a % b = r
  BY <1>4, DivUnique
<1> QED
  BY <1>1, <1>2, <1>3, <1>4, <1>5

(* Two numbers with the same remainder are equal or at least b apart.       *)
LEMMA SameRemainder ==
  ASSUME NEW x \in Int, NEW y \in Int, NEW b \in Nat \ {0}, x % b = y % b, x < y
  PROVE  x + b <= y
<1> DEFINE q == x \div b
<1> DEFINE p == y \div b
<1> DEFINE r == x % b
<1>1. q \in Int /\ r \in 0 .. b - 1 /\ x = q * b + r
  BY DivMod
<1>2. p \in Int /\ y % b \in 0 .. b - 1 /\ y = p * b + (y % b)
  BY DivMod
<1>7. p \in Int /\ y = p * b + r
  BY <1>2
<1> HIDE DEF p, q, r
<1>3. q * b < p * b /\ q * b \in Int /\ p * b \in Int
  BY <1>1, <1>7
<1>4. q < p
  <2>1. CASE p <= q
    <3>1. p * b <= q * b
      BY <1>1, <1>7, <2>1, MulMono
    <3> QED
      BY <1>3, <3>1
  <2> QED
    BY <1>1, <1>7, <2>1
<1>5. (q + 1) * b <= p * b
  BY <1>1, <1>7, <1>4, MulMono
<1>6. (q + 1) * b = q * b + b
  BY <1>1
<1> QED
  BY <1>1, <1>7, <1>3, <1>5, <1>6

(* The constants.                                                           *)
LEMMA Consts ==
  /\ NumCells \in Nat \ {0}
  /\ TileSize \in Nat \ {0}
  /\ Stride \in Nat \ {0}
  /\ MaxParticles \in Nat
  /\ HeapSize \in Nat /\ MaxParticles <= HeapSize
  /\ MaxTries \in Nat \ {0}
  /\ Open \subseteq {0, NumCells + 1}
  /\ Open \subseteq Cells
  /\ Area \subseteq Cells
  /\ Area \subseteq Nat
  /\ \A c \in Cells : c \in Int
  /\ \A c \in Area, d \in Directions : Neighbour(c, d) \in Cells /\ Neighbour(c, d) # c
  /\ \A c \in Area : Rank(c) \in 0 .. Stride - 1
  /\ IsFiniteSet(Slots) /\ Cardinality(Slots) = TileSize
  /\ IsFiniteSet(Frames) /\ Null \notin Frames
<1> USE ShiftAssumption
<1>1. IsFiniteSet(Slots) /\ Cardinality(Slots) = TileSize
  <2>1. IsFiniteSet(0 .. TileSize - 1) /\ Cardinality(0 .. TileSize - 1) = TileSize
    BY FS_Interval
  <2> QED
    BY <2>1 DEF Slots
<1>2. IsFiniteSet(Frames)
  BY FS_Interval DEF Frames
<1>3. \A c \in Area : Rank(c) \in 0 .. Stride - 1
  <2> SUFFICES ASSUME NEW c \in Area PROVE Rank(c) \in 0 .. Stride - 1
    OBVIOUS
  <2>1. c - 1 \in Int
    BY DEF Area
  <2>2. Stride \in Nat \ {0}
    OBVIOUS
  <2> QED
    BY <2>1, <2>2, DivMod DEF Rank
<1> QED
  BY <1>1, <1>2, <1>3 DEF Area, Cells, Directions, Neighbour, Frames, Null

(* The blocks of a launch are three supercells apart.                       *)
LEMMA BlocksApart ==
  ASSUME Stride >= 3, NEW b \in Blocks, NEW c \in Blocks, b # c
  PROVE  b + 3 <= c \/ c + 3 <= b
<1>1. b \in Int /\ c \in Int /\ (b - 1) % Stride = (c - 1) % Stride
  BY DEF Blocks, Area
<1> DEFINE x == b - 1
<1> DEFINE y == c - 1
<1>2. Stride \in Nat \ {0} /\ x \in Int /\ y \in Int /\ x % Stride = y % Stride
  BY <1>1, ShiftAssumption
<1>3. b = x + 1 /\ c = y + 1
  BY <1>1
<1> HIDE DEF x, y
<1>4. x < y => x + Stride <= y
  BY <1>2, SameRemainder
<1>5. y < x => y + Stride <= x
  BY <1>2, SameRemainder
<1> QED
  BY <1>1, <1>2, <1>3, <1>4, <1>5

(* So a block has its neighbours for itself.                                *)
LEMMA OwnNeighbours ==
  ASSUME Stride >= 3, NEW b \in Blocks, NEW c \in Blocks, NEW d \in Directions
  PROVE  /\ Neighbour(b, d) # c
         /\ \A e \in Directions : Neighbour(b, d) = Neighbour(c, e) => b = c /\ d = e
<1>1. b # c => b + 3 <= c \/ c + 3 <= b
  BY BlocksApart
<1>2. b \in Int /\ c \in Int
  BY DEF Blocks, Area
<1> QED
  BY <1>1, <1>2 DEF Neighbour, Directions

-----------------------------------------------------------------------------
(* Sequences of frames.                                                     *)

(* The elements of a sequence.                                              *)
LEMMA ElemsFacts ==
  ASSUME NEW S, NEW q \in Seq(S)
  PROVE  /\ Len(q) \in Nat
         /\ DOMAIN q = 1 .. Len(q)
         /\ \A k \in 1 .. Len(q) : q[k] \in S /\ q[k] \in Elems(q)
         /\ \A x \in Elems(q) : x \in S /\ \E k \in 1 .. Len(q) : q[k] = x
         /\ q # <<>> => Len(q) \in 1 .. Len(q) /\ Len(q) > 0
         /\ q = <<>> => Len(q) = 0 /\ Elems(q) = {}
BY DEF Elems

(* A frame that is hung in at the front.                                    *)
LEMMA PrefixFacts ==
  ASSUME NEW S, NEW q \in Seq(S), NEW x \in S
  PROVE  LET p == <<x>> \o q IN
         /\ p \in Seq(S)
         /\ p # <<>>
         /\ Len(p) = Len(q) + 1
         /\ p[1] = x
         /\ \A k \in 2 .. Len(q) + 1 : p[k] = q[k - 1]
         /\ q # <<>> => p[Len(p)] = q[Len(q)]
         /\ Elems(p) = Elems(q) \cup {x}
         /\ Distinct(q) /\ x \notin Elems(q) => Distinct(p)
<1> DEFINE p == <<x>> \o q
<1>1. <<x>> \in Seq(S) /\ Len(<<x>>) = 1
  OBVIOUS
<1>2. /\ p \in Seq(S) /\ Len(p) = Len(q) + 1
      /\ \A i \in 1 .. Len(q) + 1 : p[i] = IF i <= 1 THEN x ELSE q[i - 1]
  BY <1>1, ConcatProperties
<1>3. /\ Len(q) \in Nat /\ DOMAIN q = 1 .. Len(q) /\ DOMAIN p = 1 .. Len(q) + 1
  BY <1>2
<1> HIDE DEF p
<1>4. Elems(p) = Elems(q) \cup {x}
  <2>1. \A k \in 1 .. Len(q) : k + 1 \in 1 .. Len(q) + 1 /\ p[k + 1] = q[k]
    BY <1>2, <1>3
  <2>2. Elems(q) \cup {x} \subseteq Elems(p)
    <3>1. p[1] = x /\ 1 \in 1 .. Len(q) + 1
      BY <1>2, <1>3
    <3> QED
      BY <1>3, <2>1, <3>1 DEF Elems
  <2>3. Elems(p) \subseteq Elems(q) \cup {x}
    <3> SUFFICES ASSUME NEW k \in 1 .. Len(q) + 1 PROVE p[k] \in Elems(q) \cup {x}
      BY <1>3 DEF Elems
    <3>1. k > 1 => k - 1 \in 1 .. Len(q)
      BY <1>3
    <3> QED
      BY <1>2, <1>3, <3>1 DEF Elems
  <2> QED
    BY <2>2, <2>3
<1>5. Distinct(q) /\ x \notin Elems(q) => Distinct(p)
  <2> SUFFICES ASSUME Distinct(q), x \notin Elems(q),
                      NEW j \in 1 .. Len(q) + 1, NEW k \in 1 .. Len(q) + 1, p[j] = p[k]
               PROVE  j = k
    BY <1>3 DEF Distinct
  <2>0. \A i \in 1 .. Len(q) : q[i] # x
    BY <1>3 DEF Elems
  <2>3. \A i \in 1 .. Len(q) + 1 : i > 1 => i - 1 \in 1 .. Len(q) /\ p[i] = q[i - 1]
    BY <1>2, <1>3
  <2>1. /\ j > 1 => j - 1 \in 1 .. Len(q) /\ p[j] = q[j - 1] /\ q[j - 1] # x
        /\ k > 1 => k - 1 \in 1 .. Len(q) /\ p[k] = q[k - 1] /\ q[k - 1] # x
        /\ p[1] = x
    BY <1>2, <1>3, <2>0, <2>3
  <2>2. j > 1 /\ k > 1 => j - 1 = k - 1
    BY <2>1, <1>3 DEF Distinct
  <2> QED
    BY <2>1, <2>2, <1>3
<1>6. q # <<>> => Len(q) > 0
  OBVIOUS
<1> QED
  BY <1>2, <1>3, <1>4, <1>5, <1>6 DEF p

(* A frame that becomes the last.                                           *)
LEMMA AppendFacts ==
  ASSUME NEW S, NEW q \in Seq(S), NEW x \in S
  PROVE  LET p == Append(q, x) IN
         /\ p \in Seq(S)
         /\ p # <<>>
         /\ Len(p) = Len(q) + 1
         /\ p[Len(p)] = x
         /\ \A k \in 1 .. Len(q) : p[k] = q[k]
         /\ Elems(p) = Elems(q) \cup {x}
         /\ Distinct(q) /\ x \notin Elems(q) => Distinct(p)
<1> DEFINE p == Append(q, x)
<1>2. /\ p \in Seq(S) /\ p # <<>> /\ Len(p) = Len(q) + 1 /\ p[Len(q) + 1] = x
      /\ \A i \in 1 .. Len(q) : p[i] = q[i]
  BY AppendProperties
<1>3. /\ Len(q) \in Nat /\ DOMAIN q = 1 .. Len(q) /\ DOMAIN p = 1 .. Len(q) + 1
  BY <1>2
<1> HIDE DEF p
<1>4. Elems(p) = Elems(q) \cup {x}
  <2>1. \A k \in 1 .. Len(q) + 1 : k \in 1 .. Len(q) \/ k = Len(q) + 1
    BY <1>3
  <2>2. \A k \in 1 .. Len(q) : k \in 1 .. Len(q) + 1
    BY <1>3
  <2>3. Len(q) + 1 \in 1 .. Len(q) + 1
    BY <1>3
  <2> QED
    BY <1>2, <1>3, <2>1, <2>2, <2>3 DEF Elems
<1>5. Distinct(q) /\ x \notin Elems(q) => Distinct(p)
  <2> SUFFICES ASSUME Distinct(q), x \notin Elems(q),
                      NEW j \in 1 .. Len(q) + 1, NEW k \in 1 .. Len(q) + 1, p[j] = p[k]
               PROVE  j = k
    BY <1>3 DEF Distinct
  <2>1. /\ j \in 1 .. Len(q) \/ j = Len(q) + 1
        /\ k \in 1 .. Len(q) \/ k = Len(q) + 1
    BY <1>3
  <2>2. \A i \in 1 .. Len(q) : q[i] # x
    BY <1>3 DEF Elems
  <2> QED
    BY <1>2, <1>3, <2>1, <2>2 DEF Distinct
<1> QED
  BY <1>2, <1>3, <1>4, <1>5 DEF p

(* A last frame that is taken out.                                          *)
LEMMA ChopFacts ==
  ASSUME NEW S, NEW q \in Seq(S), q # <<>>
  PROVE  LET p == SubSeq(q, 1, Len(q) - 1) IN
         /\ p \in Seq(S)
         /\ Len(q) \in Nat /\ Len(q) > 0
         /\ Len(p) = Len(q) - 1
         /\ \A k \in 1 .. Len(q) - 1 : p[k] = q[k]
         /\ Distinct(q) => Elems(p) = Elems(q) \ {q[Len(q)]} /\ Distinct(p)
<1> DEFINE p == SubSeq(q, 1, Len(q) - 1)
<1>1. Len(q) \in Nat /\ Len(q) > 0 /\ DOMAIN q = 1 .. Len(q)
  OBVIOUS
<1>2. /\ p \in Seq(S) /\ Len(p) = Len(q) - 1
      /\ \A i \in 1 .. Len(q) - 1 : p[i] = q[i]
  <2>1. \A i \in 1 .. Len(q) - 1 : q[i] \in S
    BY <1>1
  <2>2. /\ p \in Seq(S)
        /\ Len(p) = IF 1 <= Len(q) - 1 THEN Len(q) - 1 - 1 + 1 ELSE 0
        /\ \A i \in 1 .. Len(q) - 1 - 1 + 1 : p[i] = q[1 + i - 1]
    BY <1>1, <2>1, SubSeqProperties
  <2> QED
    BY <1>1, <2>2
<1>3. DOMAIN p = 1 .. Len(q) - 1
  BY <1>1, <1>2
<1> HIDE DEF p
<1>4. ASSUME Distinct(q) PROVE Elems(p) = Elems(q) \ {q[Len(q)]} /\ Distinct(p)
  <2>0. \A n \in Nat : /\ \A k \in 1 .. n - 1 : k \in 1 .. n /\ k # n
                       /\ \A k \in 1 .. n : k = n \/ k \in 1 .. n - 1
    OBVIOUS
  <2>1. \A k \in 1 .. Len(q) - 1 : k \in 1 .. Len(q) /\ k # Len(q)
    BY <1>1, <2>0, Zenon
  <2>2. \A k \in 1 .. Len(q) : k = Len(q) \/ k \in 1 .. Len(q) - 1
    BY <1>1, <2>0, Zenon
  <2>3. Len(q) \in 1 .. Len(q)
    BY <1>1, SMTT(30)
  <2>4. Distinct(p)
    BY <1>1, <1>2, <1>3, <1>4, <2>1 DEF Distinct
  <2>5. Elems(p) \subseteq Elems(q) \ {q[Len(q)]}
    BY <1>1, <1>2, <1>3, <1>4, <2>1, <2>3 DEF Distinct, Elems
  <2>6. Elems(q) \ {q[Len(q)]} \subseteq Elems(p)
    BY <1>1, <1>2, <1>3, <2>2 DEF Elems
  <2> QED
    BY <2>4, <2>5, <2>6
<1> QED
  BY <1>1, <1>2, <1>4 DEF p

-----------------------------------------------------------------------------
(* Moving particles between slots.                                          *)

(* The particles in slots S of frame from are moved, s to slot ts[s] of     *)
(* frame tf[s].  This is what the three kernels that copy particles do.     *)
Transfer(fr, fr2, from, S, tf, ts) ==
  /\ from \in Frames /\ S \subseteq Slots
  /\ tf \in [S -> Frames] /\ ts \in [S -> Slots]
  /\ \A s, t \in S : tf[s] = tf[t] /\ ts[s] = ts[t] => s = t
  /\ \A s \in S : fr[from][s].mask # 0
  /\ \A s \in S : fr2[tf[s]][ts[s]] = [id |-> fr[from][s].id, mask |-> 1]
  /\ \A s \in S : fr2[from][s] = NoParticle
  /\ \A f \in Frames : \A t \in Slots :
       ~(f = from /\ t \in S) /\ (\A s \in S : ~(tf[s] = f /\ ts[s] = t)) => fr2[f][t] = fr[f][t]

(* A slot with a particle was the target of one or has kept its own.        *)
LEMMA TransferOrigin ==
  ASSUME NEW fr, NEW fr2, NEW from, NEW S, NEW tf, NEW ts, Transfer(fr, fr2, from, S, tf, ts),
         NEW f \in Frames, NEW t \in Slots, fr2[f][t].mask # 0
  PROVE  \/ \E s \in S : tf[s] = f /\ ts[s] = t /\ fr2[f][t] = [id |-> fr[from][s].id, mask |-> 1]
         \/ /\ ~(f = from /\ t \in S)
            /\ fr2[f][t] = fr[f][t]
<1>1. NoParticle.mask = 0
  BY DEF NoParticle
<1>2. ~(f = from /\ t \in S)
  BY <1>1 DEF Transfer
<1>3. CASE \E s \in S : tf[s] = f /\ ts[s] = t
  BY <1>3 DEF Transfer
<1>4. CASE \A s \in S : ~(tf[s] = f /\ ts[s] = t)
  BY <1>2, <1>4 DEF Transfer
<1> QED
  BY <1>3, <1>4

(* Frames that are neither source nor target keep their particles.          *)
LEMMA TransferElsewhere ==
  ASSUME NEW fr, NEW fr2, NEW from, NEW S, NEW tf, NEW ts, Transfer(fr, fr2, from, S, tf, ts),
         NEW f \in Frames, f # from, \A s \in S : tf[s] # f
  PROVE  \A t \in Slots : fr2[f][t] = fr[f][t]
BY DEF Transfer

(* No particle is doubled, or lost but those that are written over.         *)
LEMMA TransferKeeps ==
  ASSUME NEW fr, NEW fr2, NEW from, NEW S, NEW tf, NEW ts, Transfer(fr, fr2, from, S, tf, ts),
         OneSlot(fr)
  PROVE  /\ OneSlot(fr2)
         /\ \A p : InSlot(fr, p) =>
              \/ InSlot(fr2, p)
              \/ \E s \in S : fr[tf[s]][ts[s]].mask # 0 /\ fr[tf[s]][ts[s]].id = p
         /\ \A f \in Frames : \A t \in Slots : fr2[f][t].mask # 0 => InSlot(fr, fr2[f][t].id)
<1> DEFINE Orig(f, t, g, u) ==
      /\ fr[g][u].mask # 0 /\ fr[g][u].id = fr2[f][t].id
      /\ \/ g = from /\ u \in S /\ tf[u] = f /\ ts[u] = t
         \/ g = f /\ u = t /\ ~(f = from /\ t \in S)
<1>1. ASSUME NEW f \in Frames, NEW t \in Slots, fr2[f][t].mask # 0
      PROVE  \E g \in Frames, u \in Slots : Orig(f, t, g, u)
  <2>1. CASE \E s \in S : tf[s] = f /\ ts[s] = t /\ fr2[f][t] = [id |-> fr[from][s].id, mask |-> 1]
    <3>1. PICK s \in S : tf[s] = f /\ ts[s] = t /\ fr2[f][t] = [id |-> fr[from][s].id, mask |-> 1]
      BY <2>1
    <3>2. Orig(f, t, from, s)
      BY <3>1 DEF Transfer
    <3>3. from \in Frames /\ s \in Slots
      BY DEF Transfer
    <3> QED
      BY <3>2, <3>3
  <2>2. CASE ~(f = from /\ t \in S) /\ fr2[f][t] = fr[f][t]
    <3>1. Orig(f, t, f, t)
      BY <1>1, <2>2
    <3> QED
      BY <3>1
  <2> QED
    BY <1>1, <2>1, <2>2, TransferOrigin
<1>2. OneSlot(fr2)
  <2> SUFFICES ASSUME NEW f \in Frames, NEW g \in Frames, NEW s \in Slots, NEW t \in Slots,
                      fr2[f][s].mask # 0, fr2[g][t].mask # 0, fr2[f][s].id = fr2[g][t].id
               PROVE  f = g /\ s = t
    BY DEF OneSlot
  <2>1. PICK f1 \in Frames, s1 \in Slots : Orig(f, s, f1, s1)
    BY <1>1
  <2>2. PICK g1 \in Frames, t1 \in Slots : Orig(g, t, g1, t1)
    BY <1>1
  <2>3. f1 = g1 /\ s1 = t1
    BY <2>1, <2>2 DEF OneSlot
  <2> QED
    BY <2>1, <2>2, <2>3 DEF Transfer
<1>3. ASSUME NEW p, InSlot(fr, p), \A s \in S : ~(fr[tf[s]][ts[s]].mask # 0 /\ fr[tf[s]][ts[s]].id = p)
      PROVE  InSlot(fr2, p)
  <2>1. PICK f \in Frames, t \in Slots : fr[f][t].mask # 0 /\ fr[f][t].id = p
    BY <1>3 DEF InSlot
  <2>2. CASE f = from /\ t \in S
    <3>1. tf[t] \in Frames /\ ts[t] \in Slots /\ fr2[tf[t]][ts[t]] = [id |-> fr[from][t].id, mask |-> 1]
      BY <2>2 DEF Transfer
    <3>2. fr2[tf[t]][ts[t]].mask # 0 /\ fr2[tf[t]][ts[t]].id = p
      BY <2>1, <2>2, <3>1
    <3> QED
      BY <3>1, <3>2 DEF InSlot
  <2>3. CASE ~(f = from /\ t \in S)
    <3>1. \A s \in S : ~(tf[s] = f /\ ts[s] = t)
      BY <1>3, <2>1
    <3>2. fr2[f][t] = fr[f][t]
      BY <2>3, <3>1 DEF Transfer
    <3> QED
      BY <2>1, <3>2 DEF InSlot
  <2> QED
    BY <2>2, <2>3
<1>4. ASSUME NEW f \in Frames, NEW t \in Slots, fr2[f][t].mask # 0 PROVE InSlot(fr, fr2[f][t].id)
  BY <1>1, <1>4 DEF InSlot
<1> QED
  BY <1>2, <1>3, <1>4

(* An order of a set is a bijection.                                        *)
LEMMA OrdersFacts ==
  ASSUME NEW S, IsFiniteSet(S), NEW q \in Orders(S)
  PROVE  /\ Cardinality(S) \in Nat
         /\ q \in [1 .. Cardinality(S) -> S]
         /\ DOMAIN q = 1 .. Cardinality(S)
         /\ \A i, j \in 1 .. Cardinality(S) : q[i] = q[j] => i = j
         /\ \A s \in S : \E i \in 1 .. Cardinality(S) : q[i] = s
<1> DEFINE n == Cardinality(S)
<1>1. n \in Nat
  BY FS_CardinalityType
<1>2. q \in [1 .. n -> S] /\ DOMAIN q = 1 .. n /\ \A i, j \in 1 .. n : q[i] = q[j] => i = j
  BY DEF Orders
<1>3. IsFiniteSet(1 .. n) /\ Cardinality(1 .. n) = n
  BY <1>1, FS_Interval
<1>4. q \in Injection(1 .. n, S)
  BY <1>2, Fun_IsInj
<1>5. q \in Surjection(1 .. n, S)
  BY <1>3, <1>4, FS_Injection
<1> QED
  BY <1>1, <1>2, <1>5, Fun_SurjectionProperties

(* Frames.                                                                  *)
FrameType == [Frames -> [Slots -> Slot]]

(* Particles are moved from slots P of a frame to gaps G of another one, as *)
(* many as there are of the fewer kind.                                     *)
MovesMost(fr, fr2, to, from, G, P) ==
  \E S \in SUBSET P : \E ts \in [S -> G] :
    /\ Transfer(fr, fr2, from, S, [s \in S |-> to], ts)
    /\ \A s \in S : fr[to][ts[s]].mask = 0
    /\ Cardinality(G) <= Cardinality(P) => \A g \in G : \E s \in S : ts[s] = g
    /\ Cardinality(P) <= Cardinality(G) => S = P

(* The same of a set and an order of it, as one predicate.                  *)
OrderOf(q, S) ==
  /\ Cardinality(S) \in Nat
  /\ q \in [1 .. Cardinality(S) -> S]
  /\ DOMAIN q = 1 .. Cardinality(S)
  /\ \A i, j \in 1 .. Cardinality(S) : q[i] = q[j] => i = j
  /\ \A s \in S : \E i \in 1 .. Cardinality(S) : q[i] = s

LEMMA OrdersAre ==
  ASSUME NEW S, IsFiniteSet(S), NEW q \in Orders(S)
  PROVE  OrderOf(q, S)
BY OrdersFacts, Zenon DEF OrderOf

(* That is what Moved does.                                                 *)
LEMMA MovedTransfer ==
  ASSUME frame \in FrameType, NEW to \in Frames, NEW from \in Frames,
         NEW G \in SUBSET Slots, NEW P \in SUBSET Slots,
         NEW gaps \in Orders(G), NEW particles \in Orders(P),
         \A s \in G : frame[to][s].mask = 0,
         \A s \in P : frame[from][s].mask # 0
  PROVE  /\ Moved(to, gaps, from, particles) \in FrameType
         /\ MovesMost(frame, Moved(to, gaps, from, particles), to, from, G, P)
<1> DEFINE g == Cardinality(G)
<1> DEFINE p == Cardinality(P)
<1> DEFINE N == {k \in 1 .. g : k \in 1 .. p}
<1> DEFINE new == Moved(to, gaps, from, particles)
<1> DEFINE move(f, s) == {k \in N : f = to /\ s = gaps[k]}
<1>1. IsFiniteSet(G) /\ IsFiniteSet(P)
  BY Consts, FS_Subset
<1>2. /\ g \in Nat /\ gaps \in [1 .. g -> G] /\ DOMAIN gaps = 1 .. g
      /\ \A i, j \in 1 .. g : gaps[i] = gaps[j] => i = j
      /\ \A s \in G : \E i \in 1 .. g : gaps[i] = s
  <2>1. OrderOf(gaps, G)
    BY <1>1, OrdersAre
  <2> QED
    BY <2>1 DEF OrderOf
<1>3. /\ p \in Nat /\ particles \in [1 .. p -> P] /\ DOMAIN particles = 1 .. p
      /\ \A i, j \in 1 .. p : particles[i] = particles[j] => i = j
      /\ \A s \in P : \E i \in 1 .. p : particles[i] = s
  <2>1. OrderOf(particles, P)
    BY <1>1, OrdersAre
  <2> QED
    BY <2>1 DEF OrderOf
<1> HIDE DEF g, p
<1>4. new = [f \in Frames |-> [s \in Slots |->
        IF move(f, s) # {}
        THEN [id |-> frame[from][particles[CHOOSE k \in move(f, s) : TRUE]].id, mask |-> 1]
        ELSE IF f = from /\ \E k \in N : s = particles[k] THEN NoParticle ELSE frame[f][s]]]
  BY <1>2, <1>3 DEF Moved
<1> HIDE DEF new
<1>5. \A k \in N : /\ gaps[k] \in G /\ particles[k] \in P /\ k \in 1 .. g /\ k \in 1 .. p
                   /\ gaps[k] \in Slots /\ particles[k] \in Slots
  BY <1>2, <1>3
<1>6. \A f \in Frames : \A s \in Slots : new[f][s] =
        IF move(f, s) # {}
        THEN [id |-> frame[from][particles[CHOOSE k \in move(f, s) : TRUE]].id, mask |-> 1]
        ELSE IF f = from /\ \E k \in N : s = particles[k] THEN NoParticle ELSE frame[f][s]
  BY <1>4
<1>7. \A k \in N : new[to][gaps[k]] = [id |-> frame[from][particles[k]].id, mask |-> 1]
  <2> SUFFICES ASSUME NEW k \in N
               PROVE  new[to][gaps[k]] = [id |-> frame[from][particles[k]].id, mask |-> 1]
    OBVIOUS
  <2>1. move(to, gaps[k]) = {k}
    BY <1>2, <1>5
  <2>2. (CHOOSE j \in move(to, gaps[k]) : TRUE) = k
    BY <2>1
  <2> QED
    BY <1>5, <1>6, <2>1, <2>2
<1>8. \A f \in Frames : \A s \in Slots : (\A k \in N : ~(f = to /\ s = gaps[k])) => new[f][s] =
        IF f = from /\ \E k \in N : s = particles[k] THEN NoParticle ELSE frame[f][s]
  <2> SUFFICES ASSUME NEW f \in Frames, NEW s \in Slots, \A k \in N : ~(f = to /\ s = gaps[k])
               PROVE  new[f][s] =
                 IF f = from /\ \E k \in N : s = particles[k] THEN NoParticle ELSE frame[f][s]
    OBVIOUS
  <2>1. move(f, s) = {}
    OBVIOUS
  <2> HIDE DEF move, N
  <2> QED
    BY <1>6, <2>1
<1>9. \A k \in N : new[from][particles[k]] = NoParticle
  <2> SUFFICES ASSUME NEW k \in N PROVE new[from][particles[k]] = NoParticle
    OBVIOUS
  <2>1. \A j \in N : ~(from = to /\ particles[k] = gaps[j])
    BY <1>5
  <2> QED
    BY <1>5, <1>8, <2>1
<1>10. new \in FrameType
  <2>1. NoParticle \in Slot
    BY Consts DEF NoParticle, Slot
  <2>2. \A f \in Frames : \A s \in Slots : new[f][s] \in Slot
    <3> SUFFICES ASSUME NEW f \in Frames, NEW s \in Slots PROVE new[f][s] \in Slot
      OBVIOUS
    <3>1. CASE \E k \in N : f = to /\ s = gaps[k]
      <4>1. PICK k \in N : f = to /\ s = gaps[k]
        BY <3>1
      <4>2. frame[from][particles[k]] \in Slot
        BY <1>5 DEF FrameType
      <4>3. frame[from][particles[k]].id \in 0 .. MaxParticles
        BY <4>2 DEF Slot
      <4>4. [id |-> frame[from][particles[k]].id, mask |-> 1] \in Slot
        BY <4>3 DEF Slot
      <4>5. new[f][s] = [id |-> frame[from][particles[k]].id, mask |-> 1]
        BY <1>7, <4>1
      <4> QED
        BY <4>4, <4>5
    <3>2. CASE \A k \in N : ~(f = to /\ s = gaps[k])
      <4>1. frame[f][s] \in Slot
        BY DEF FrameType
      <4> QED
        BY <1>8, <2>1, <3>2, <4>1
    <3> QED
      BY <3>1, <3>2
  <2>3. new = [f \in Frames |-> [s \in Slots |-> new[f][s]]]
    BY <1>4
  <2> QED
    BY <2>2, <2>3 DEF FrameType
<1> DEFINE S == {particles[k] : k \in N}
<1> DEFINE ts == [s \in S |-> gaps[CHOOSE k \in N : particles[k] = s]]
<1> DEFINE tf == [s \in S |-> to]
<1>11. \A k \in N : (CHOOSE j \in N : particles[j] = particles[k]) = k
  BY <1>3
<1>12. /\ S \in SUBSET P /\ S \subseteq Slots
       /\ \A s \in S : \E k \in N : s = particles[k] /\ ts[s] = gaps[k] /\ tf[s] = to
       /\ \A k \in N : particles[k] \in S /\ ts[particles[k]] = gaps[k]
  <2>1. \A k \in N : particles[k] \in S
    OBVIOUS
  <2>2. \A k \in N : ts[particles[k]] = gaps[k]
    BY <1>11, <2>1
  <2>3. \A s \in S : \E k \in N : s = particles[k]
    OBVIOUS
  <2>4. \A s \in S : tf[s] = to
    OBVIOUS
  <2> HIDE DEF S, ts, tf, N
  <2> QED
    BY <1>5, <2>1, <2>2, <2>3, <2>4
<1>13. ts \in [S -> G] /\ ts \in [S -> Slots] /\ tf \in [S -> Frames]
  <2>1. ts = [s \in S |-> ts[s]]
    OBVIOUS
  <2>2. \A s \in S : ts[s] \in G
    BY <1>5, <1>12
  <2> HIDE DEF ts, S
  <2> QED
    BY <2>1, <2>2
<1>14. Transfer(frame, new, from, S, tf, ts)
  <2> HIDE DEF S, ts, tf, N
  <2>1. \A s, t \in S : tf[s] = tf[t] /\ ts[s] = ts[t] => s = t
    BY <1>2, <1>5, <1>12
  <2>2. \A s \in S : frame[from][s].mask # 0
    BY <1>5, <1>12
  <2>3. \A s \in S : new[tf[s]][ts[s]] = [id |-> frame[from][s].id, mask |-> 1]
    BY <1>7, <1>12
  <2>4. \A s \in S : new[from][s] = NoParticle
    BY <1>9, <1>12
  <2>5. ASSUME NEW f \in Frames, NEW t \in Slots, ~(f = from /\ t \in S),
               \A s \in S : ~(tf[s] = f /\ ts[s] = t)
        PROVE  new[f][t] = frame[f][t]
    <3>1. \A k \in N : ~(f = to /\ t = gaps[k])
      BY <1>12, <2>5 DEF tf
    <3>2. ~(f = from /\ \E k \in N : t = particles[k])
      BY <1>12, <2>5
    <3> QED
      BY <1>8, <3>1, <3>2
  <2> QED
    BY <1>12, <1>13, <2>1, <2>2, <2>3, <2>4, <2>5 DEF Transfer
<1>15. g <= p => \A x \in G : \E s \in S : ts[s] = x
  <2> SUFFICES ASSUME g <= p, NEW x \in G PROVE \E s \in S : ts[s] = x
    OBVIOUS
  <2>1. PICK i \in 1 .. g : gaps[i] = x
    BY <1>2
  <2>2. i \in N
    BY <1>2, <1>3, <2>1
  <2> HIDE DEF S, ts, N
  <2> QED
    BY <1>12, <2>1, <2>2
<1>16. p <= g => S = P
  <2> SUFFICES ASSUME p <= g, NEW x \in P PROVE x \in S
    BY <1>12
  <2>1. PICK i \in 1 .. p : particles[i] = x
    BY <1>3
  <2>2. i \in N
    BY <1>2, <1>3, <2>1
  <2> HIDE DEF S, ts, N
  <2> QED
    BY <1>12, <2>1, <2>2
<1>18. \A s \in S : frame[to][ts[s]].mask = 0
  <2> HIDE DEF S, ts, N
  <2> QED
    BY <1>13
<1>17. MovesMost(frame, new, to, from, G, P)
  <2> HIDE DEF S, ts, N, new
  <2> QED
    BY <1>12, <1>13, <1>14, <1>15, <1>16, <1>18 DEF g, p, MovesMost
<1> QED
  BY <1>10, <1>17 DEF new

-----------------------------------------------------------------------------
(* Frames of the heap and of a list.                                        *)

(* From one element of a finite set of naturals to the next.                *)
LEMMA NthNext ==
  ASSUME NEW F \in SUBSET Nat, IsFiniteSet(F), NEW L \in SUBSET F, Cardinality(L) < Cardinality(F),
         \A g \in L, h \in F \ L : g < h
  PROVE  \E f \in F : /\ Cardinality({g \in F : g <= f}) = Cardinality(L) + 1
                      /\ \A g \in {g \in F : g <= f}, h \in F \ {g \in F : g <= f} : g < h
<1>1. IsFiniteSet(L) /\ Cardinality(L) \in Nat /\ F \ L # {}
  <2>1. IsFiniteSet(L)
    BY FS_Subset
  <2>2. F # L
    BY <2>1, FS_CardinalityType
  <2> QED
    BY <2>1, <2>2, FS_CardinalityType
<1>2. PICK m \in F \ L : \A k \in F \ L : m <= k
  <2>1. F \ L \in SUBSET Nat
    OBVIOUS
  <2> QED
    BY <1>1, <2>1, LeastNatural
<1>3. {g \in F : g <= m} = L \cup {m}
  <2>1. \A g \in L : g \in Nat /\ m \in Nat /\ g < m
    BY <1>2
  <2>2. \A g \in F \ L : g \in Nat /\ m \in Nat /\ (g <= m => g = m)
    BY <1>2
  <2>3. {g \in F : g <= m} \subseteq L \cup {m}
    BY <2>2
  <2>4. L \cup {m} \subseteq {g \in F : g <= m}
    BY <1>2, <2>1
  <2> QED
    BY <2>3, <2>4
<1>4. Cardinality(L \cup {m}) = Cardinality(L) + 1
  BY <1>1, <1>2, FS_AddElement
<1>5. \A g \in {g \in F : g <= m}, h \in F \ {g \in F : g <= m} : g < h
  OBVIOUS
<1> QED
  BY <1>2, <1>3, <1>4, <1>5

(* Every free frame has a turn, and there is one for every turn.            *)
LEMMA FreeFrames ==
  ASSUME NEW k \in Nat, k >= 1, k <= Cardinality(Frames \ used)
  PROVE  \E f \in Frames \ used : Turn(f) = k
<1> DEFINE F == Frames \ used
<1> DEFINE Low(f) == {g \in F : g <= f}
<1> DEFINE Nth(n) == \E f \in F : Cardinality(Low(f)) = n
                                  /\ \A g \in Low(f), h \in F \ Low(f) : g < h
<1>1. IsFiniteSet(F) /\ F \in SUBSET Nat
  <2>1. Frames \in SUBSET Nat
    BY ShiftAssumption DEF Frames
  <2>2. F \in SUBSET Frames
    OBVIOUS
  <2>3. IsFiniteSet(F)
    BY <2>2, Consts, FS_Subset
  <2> QED
    BY <2>1, <2>3
<1>2. Cardinality(F) \in Nat /\ Cardinality({}) = 0
  BY <1>1, FS_CardinalityType, FS_EmptySet
<1>3. Nth(1)
  <2>1. {} \in SUBSET F /\ Cardinality({}) < Cardinality(F)
    BY <1>2
  <2> HIDE DEF F
  <2>2. \A g \in {}, h \in F \ {} : g < h
    OBVIOUS
  <2>3. \E f \in F : /\ Cardinality({g \in F : g <= f}) = Cardinality({}) + 1
                     /\ \A g \in {g \in F : g <= f}, h \in F \ {g \in F : g <= f} : g < h
    BY <1>1, <2>1, <2>2, NthNext
  <2>4. Cardinality({}) + 1 = 1
    BY <1>2
  <2> QED
    BY <2>3, <2>4, Zenon
<1>4. ASSUME NEW n \in Nat, Nth(n), n < Cardinality(F) PROVE Nth(n + 1)
  <2>1. PICK f \in F : Cardinality(Low(f)) = n /\ \A g \in Low(f), h \in F \ Low(f) : g < h
    BY <1>4
  <2>2. Low(f) \in SUBSET F
    OBVIOUS
  <2>3. \E e \in F : /\ Cardinality({g \in F : g <= e}) = Cardinality(Low(f)) + 1
                     /\ \A g \in {g \in F : g <= e}, h \in F \ {g \in F : g <= e} : g < h
    <3> HIDE DEF F, Low
    <3> QED
      BY <1>1, <1>4, <2>1, <2>2, NthNext
  <2> QED
    BY <2>1, <2>3
<1> HIDE DEF Nth
<1> DEFINE Bad == {n \in Nat : n >= 1 /\ n <= Cardinality(F) /\ ~Nth(n)}
<1>5. Bad = {}
  <2> SUFFICES ASSUME Bad # {} PROVE FALSE
    OBVIOUS
  <2>1. PICK m \in Bad : \A n \in Bad : m <= n
    <3>1. Bad \in SUBSET Nat
      OBVIOUS
    <3> HIDE DEF Bad
    <3> QED
      BY <3>1, LeastNatural
  <2>2. m \in Nat /\ m >= 1 /\ m <= Cardinality(F) /\ ~Nth(m)
    OBVIOUS
  <2>3. m # 1
    BY <1>3, <2>2
  <2>4. m - 1 \in Nat /\ m - 1 >= 1 /\ m - 1 < Cardinality(F) /\ ~(m <= m - 1) /\ m - 1 + 1 = m
    <3> HIDE DEF F
    <3> QED
      BY <1>2, <2>2, <2>3
  <2>5. m - 1 \notin Bad
    <3> HIDE DEF Bad
    <3> QED
      BY <2>1, <2>4, Zenon
  <2>6. Nth(m - 1)
    <3> HIDE DEF F
    <3>1. m - 1 <= Cardinality(F)
      BY <1>2, <2>4
    <3> QED
      BY <2>4, <2>5, <3>1
  <2>7. Nth(m - 1 + 1)
    <3> HIDE DEF F
    <3> QED
      BY <1>4, <2>4, <2>6
  <2> QED
    BY <2>2, <2>4, <2>7
<1>6. Nth(k)
  <2> HIDE DEF F
  <2>1. k >= 1 /\ k <= Cardinality(F) /\ k \in Nat
    BY DEF F
  <2> QED
    BY <1>5, <2>1
<1>7. \E f \in F : Cardinality(Low(f)) = k
  BY <1>6 DEF Nth
<1> QED
  BY <1>7 DEF Turn

(* What the calls of getEmptyFrame return are different free frames.        *)
LEMMA EmptyFrames ==
  ASSUME NEW k \in 1 .. 4, NEW n \in 0 .. 4, k <= n, n * MaxTries <= Cardinality(Frames \ used)
  PROVE  /\ EmptyFrameNr(k) \in Allocated(n)
         /\ Turn(EmptyFrameNr(k)) = k * MaxTries
<1>0. MaxTries \in Nat \ {0}
  BY Consts
<1>1. Cardinality(Frames \ used) \in Nat
  <2>1. Frames \ used \in SUBSET Frames
    OBVIOUS
  <2>2. IsFiniteSet(Frames \ used)
    BY <2>1, Consts, FS_Subset
  <2> QED
    BY <2>2, FS_CardinalityType
<1>2. PICK m \in Nat : m = k * MaxTries
  BY <1>0
<1>3. 1 * MaxTries <= k * MaxTries /\ k * MaxTries <= n * MaxTries
  <2>1. MaxTries \in Nat /\ k \in Int /\ n \in Int /\ 1 \in Int /\ 1 <= k
    BY <1>0
  <2> QED
    BY <2>1, MulMono
<1>4. PICK l \in Int : l = n * MaxTries
  BY <1>0
<1>5. m >= 1 /\ m <= Cardinality(Frames \ used) /\ m <= l
  BY <1>0, <1>1, <1>2, <1>3, <1>4
<1>6. \E f \in Frames \ used : Turn(f) = m
  BY <1>5, FreeFrames
<1>7. EmptyFrameNr(k) = CHOOSE f \in Frames \ used : Turn(f) = m
  BY <1>2 DEF EmptyFrameNr
<1>8. EmptyFrameNr(k) \in Frames \ used /\ Turn(EmptyFrameNr(k)) = m
  BY <1>6, <1>7
<1> QED
  BY <1>2, <1>4, <1>5, <1>8 DEF Allocated

(* Counting in a set of directions.                                         *)
LEMMA DirectionCount ==
  ASSUME NEW N \in SUBSET Directions
  PROVE  /\ Cardinality(N) \in 0 .. 2
         /\ \A d \in N : Cardinality({e \in N : e <= d}) = IF d = 0 THEN 1 ELSE Cardinality(N)
         /\ \A d \in N : Cardinality({e \in N : e <= d}) \in 1 .. Cardinality(N)
         /\ \A d, e \in N : Cardinality({x \in N : x <= d}) = Cardinality({x \in N : x <= e}) => d = e
<1>1. Cardinality({}) = 0 /\ Cardinality({0}) = 1 /\ Cardinality({1}) = 1 /\ Cardinality({0, 1}) = 2
  <2>1. IsFiniteSet({0}) /\ Cardinality({0}) = 1 /\ Cardinality({1}) = 1
    BY FS_Singleton
  <2>2. Cardinality({0} \cup {1}) = 2
    BY <2>1, FS_AddElement
  <2>3. {0} \cup {1} = {0, 1}
    OBVIOUS
  <2> QED
    BY <2>1, <2>2, <2>3, FS_EmptySet
<1>2. N = {} \/ N = {0} \/ N = {1} \/ N = {0, 1}
  BY DEF Directions
<1>3. CASE N = {}
  BY <1>1, <1>3
<1>4. CASE N = {0}
  <2>1. {e \in N : e <= 0} = {0}
    BY <1>4
  <2> QED
    BY <1>1, <1>4, <2>1
<1>5. CASE N = {1}
  <2>1. {e \in N : e <= 1} = {1}
    BY <1>5
  <2> QED
    BY <1>1, <1>5, <2>1
<1>6. CASE N = {0, 1}
  <2>1. {e \in N : e <= 0} = {0} /\ {e \in N : e <= 1} = {0, 1}
    BY <1>6
  <2> QED
    BY <1>1, <1>6, <2>1
<1> QED
  BY <1>2, <1>3, <1>4, <1>5, <1>6

(* The frames a pass of the loop allocates.                                 *)
LEMMA NewFrames ==
  ASSUME NEW c, Cardinality(Frames \ used) >= Calls(c) * MaxTries
  PROVE  /\ \A d \in New1(c) : Dest1(c)[d] \in Allocated(Calls(c))
         /\ \A d \in New2(c) : Dest2(c)[d] \in Allocated(Calls(c))
         /\ \A d, e \in New1(c) : Dest1(c)[d] = Dest1(c)[e] => d = e
         /\ \A d, e \in New2(c) : Dest2(c)[d] = Dest2(c)[e] => d = e
         /\ \A d \in New1(c), e \in New2(c) : Dest1(c)[d] # Dest2(c)[e]
<1> DEFINE F == Allocated(Calls(c))
<1> DEFINE N1 == New1(c)
<1> DEFINE N2 == New2(c)
<1> DEFINE k1(d) == Cardinality({e \in N1 : e <= d})
<1> DEFINE k2(d) == Cardinality(N1) + Cardinality({e \in N2 : e <= d})
<1>1. N1 \in SUBSET Directions /\ N2 \in SUBSET Directions
  BY DEF New1, New2, Full
<1>2. /\ \A d \in N1 : Dest1(c)[d] = EmptyFrameNr(k1(d))
      /\ \A d \in N2 : Dest2(c)[d] = EmptyFrameNr(k2(d))
  BY <1>1 DEF Dest1, Dest2
<1>3. /\ Calls(c) = Cardinality(N1) + Cardinality(N2)
      /\ Calls(c) * MaxTries <= Cardinality(Frames \ used)
      /\ MaxTries \in Nat \ {0}
  <2>1. Frames \ used \in SUBSET Frames
    OBVIOUS
  <2>2. IsFiniteSet(Frames \ used)
    BY <2>1, Consts, FS_Subset
  <2>3. Cardinality(Frames \ used) \in Nat
    BY <2>2, FS_CardinalityType
  <2>4. Calls(c) = Cardinality(N1) + Cardinality(N2)
    BY DEF Calls
  <2>5. Calls(c) \in Int
    BY <1>1, <2>4, DirectionCount
  <2>6. PICK l \in Int : l = Calls(c) * MaxTries
    BY <2>5, Consts
  <2> HIDE DEF N1, N2
  <2> QED
    BY <2>3, <2>4, <2>6, Consts
<1> HIDE DEF F, N1, N2
<1>4. /\ Cardinality(N1) \in 0 .. 2 /\ Cardinality(N2) \in 0 .. 2
      /\ \A d \in N1 : k1(d) \in 1 .. Cardinality(N1)
      /\ \A d \in N2 : Cardinality({e \in N2 : e <= d}) \in 1 .. Cardinality(N2)
      /\ \A d, e \in N1 : k1(d) = k1(e) => d = e
      /\ \A d, e \in N2 : Cardinality({x \in N2 : x <= d}) = Cardinality({x \in N2 : x <= e}) => d = e
  BY <1>1, DirectionCount
<1>5. /\ \A d \in N1 : k1(d) \in 1 .. 4 /\ k1(d) <= Calls(c) /\ k1(d) <= Cardinality(N1)
      /\ \A d \in N2 : k2(d) \in 1 .. 4 /\ k2(d) <= Calls(c) /\ k2(d) > Cardinality(N1)
      /\ \A d, e \in N2 : k2(d) = k2(e) => d = e
      /\ Calls(c) \in 0 .. 4
  <2> DEFINE m2(d) == Cardinality({e \in N2 : e <= d})
  <2>1. \A d \in N2 : m2(d) \in 1 .. Cardinality(N2) /\ k2(d) = Cardinality(N1) + m2(d)
    BY <1>4
  <2>2. \A d, e \in N2 : m2(d) = m2(e) => d = e
    BY <1>4
  <2>3. \A d \in N1 : k1(d) \in 1 .. Cardinality(N1)
    BY <1>4
  <2>4. Cardinality(N1) \in 0 .. 2 /\ Cardinality(N2) \in 0 .. 2
    BY <1>4
  <2> HIDE DEF m2, k1, k2
  <2> QED
    BY <1>3, <2>1, <2>2, <2>3, <2>4
<1>6. \A k \in 1 .. 4 : k <= Calls(c) => EmptyFrameNr(k) \in F /\ Turn(EmptyFrameNr(k)) = k * MaxTries
  <2> SUFFICES ASSUME NEW k \in 1 .. 4, k <= Calls(c)
               PROVE  EmptyFrameNr(k) \in F /\ Turn(EmptyFrameNr(k)) = k * MaxTries
    OBVIOUS
  <2>1. PICK n \in 0 .. 4 : n = Calls(c)
    BY <1>5
  <2>2. EmptyFrameNr(k) \in Allocated(n) /\ Turn(EmptyFrameNr(k)) = k * MaxTries
    BY <1>3, <2>1, EmptyFrames
  <2> QED
    BY <2>1, <2>2 DEF F
<1>7. \A j, k \in 1 .. 4 : j <= Calls(c) /\ k <= Calls(c) /\ EmptyFrameNr(j) = EmptyFrameNr(k) => j = k
  <2> SUFFICES ASSUME NEW j \in 1 .. 4, NEW k \in 1 .. 4, j <= Calls(c), k <= Calls(c),
                      EmptyFrameNr(j) = EmptyFrameNr(k)
               PROVE  j = k
    OBVIOUS
  <2>1. j * MaxTries = k * MaxTries
    BY <1>6
  <2>2. PICK x \in Nat \ {0} : x = MaxTries
    BY <1>3
  <2> QED
    BY <2>1, <2>2
<1> HIDE DEF k1, k2
<1>9. /\ \A d \in N1 : Dest1(c)[d] \in F
      /\ \A d \in N2 : Dest2(c)[d] \in F
  BY <1>2, <1>5, <1>6
<1>10. \A d, e \in N1 : Dest1(c)[d] = Dest1(c)[e] => d = e
  BY <1>2, <1>4, <1>5, <1>7
<1>11. \A d, e \in N2 : Dest2(c)[d] = Dest2(c)[e] => d = e
  BY <1>2, <1>5, <1>7
<1>12. \A d \in N1, e \in N2 : Dest1(c)[d] # Dest2(c)[e]
  <2> SUFFICES ASSUME NEW d \in N1, NEW e \in N2, Dest1(c)[d] = Dest2(c)[e] PROVE FALSE
    OBVIOUS
  <2>1. k1(d) = k2(e)
    BY <1>2, <1>5, <1>7
  <2> QED
    BY <1>4, <1>5, <2>1
<1> QED
  BY <1>9, <1>10, <1>11, <1>12 DEF F, N1, N2

(* The frame after the i-th of a list.                                      *)
LEMMA NextOf ==
  ASSUME NEW c, list[c] \in Seq(Frames), Distinct(list[c]), NEW i \in 1 .. Len(list[c])
  PROVE  NextFrame(c, list[c][i]) = IF i < Len(list[c]) THEN list[c][i + 1] ELSE Null
<1>1. DOMAIN list[c] = 1 .. Len(list[c])
  BY ElemsFacts
<1>2. \A k \in DOMAIN list[c] : list[c][k] = list[c][i] => k = i
  BY <1>1 DEF Distinct
<1> DEFINE n == CHOOSE k \in DOMAIN list[c] : list[c][k] = list[c][i]
<1>3. n = i
  BY <1>1, <1>2
<1>4. NextFrame(c, list[c][i]) = IF n < Len(list[c]) THEN list[c][n + 1] ELSE Null
  BY DEF NextFrame
<1> HIDE DEF n
<1> QED
  BY <1>3, <1>4

-----------------------------------------------------------------------------
(* A pass of the loop of KernelShiftParticles.                              *)

(* What threads get from an atomic counter: those of K, in their order, get *)
(* the numbers from 0 on.                                                   *)
LEMMA CounterNumbers ==
  ASSUME NEW n \in Nat, NEW K \in SUBSET (1 .. n)
  PROVE  LET r(k) == Cardinality({j \in 1 .. k - 1 : j \in K}) IN
         /\ Cardinality(K) \in Nat
         /\ \A k \in K : r(k) \in 0 .. Cardinality(K) - 1
         /\ \A j, k \in K : r(j) = r(k) => j = k
         /\ \A m \in 0 .. Cardinality(K) - 1 : \E k \in K : r(k) = m
<1> DEFINE low(k) == {j \in 1 .. k - 1 : j \in K}
<1> DEFINE r(k) == Cardinality(low(k))
<1>1. IsFiniteSet(K) /\ Cardinality(K) \in Nat
  <2>1. IsFiniteSet(1 .. n)
    BY FS_Interval
  <2> QED
    BY <2>1, FS_Subset, FS_CardinalityType
<1>2. \A k \in K : low(k) \in SUBSET K /\ k \notin low(k) /\ k \in Nat
  OBVIOUS
<1>3. \A k \in K : IsFiniteSet(low(k)) /\ r(k) \in Nat /\ Cardinality(low(k) \cup {k}) = r(k) + 1
  <2> SUFFICES ASSUME NEW k \in K
               PROVE  IsFiniteSet(low(k)) /\ r(k) \in Nat /\ Cardinality(low(k) \cup {k}) = r(k) + 1
    OBVIOUS
  <2>1. low(k) \in SUBSET K /\ k \notin low(k)
    BY <1>2
  <2> HIDE DEF low
  <2>2. IsFiniteSet(low(k))
    BY <1>1, <2>1, FS_Subset
  <2> QED
    BY <2>1, <2>2, FS_CardinalityType, FS_AddElement
<1>4. \A k \in K : r(k) \in 0 .. Cardinality(K) - 1
  <2> SUFFICES ASSUME NEW k \in K PROVE r(k) \in 0 .. Cardinality(K) - 1
    OBVIOUS
  <2>1. low(k) \cup {k} \in SUBSET K
    BY <1>2
  <2> HIDE DEF low
  <2>2. Cardinality(low(k) \cup {k}) <= Cardinality(K)
    BY <1>1, <2>1, FS_Subset
  <2> QED
    BY <1>1, <1>3, <2>2
<1>5. ASSUME NEW j \in K, NEW k \in K, j < k PROVE r(j) < r(k)
  <2>1. low(j) \cup {j} \in SUBSET low(k)
    BY <1>2, <1>5
  <2> HIDE DEF low
  <2>2. Cardinality(low(j) \cup {j}) <= r(k)
    BY <1>3, <2>1, FS_Subset
  <2>3. r(j) \in Nat /\ r(k) \in Nat /\ Cardinality(low(j) \cup {j}) = r(j) + 1
    BY <1>3
  <2> HIDE DEF r
  <2> QED
    BY <2>2, <2>3
<1>6. \A j, k \in K : r(j) = r(k) => j = k
  <2> SUFFICES ASSUME NEW j \in K, NEW k \in K, r(j) = r(k) PROVE j = k
    OBVIOUS
  <2>1. j \in Nat /\ k \in Nat /\ r(j) \in Nat /\ r(k) \in Nat
    BY <1>2, <1>3
  <2>2. ~(j < k) /\ ~(k < j)
    <3> HIDE DEF r
    <3> QED
      BY <1>5, <2>1
  <2> QED
    BY <2>1, <2>2
<1> DEFINE N == 0 .. Cardinality(K) - 1
<1> DEFINE h == [k \in K |-> r(k)]
<1>7. IsFiniteSet(N) /\ Cardinality(N) = Cardinality(K)
  <2>1. 0 \in Int /\ Cardinality(K) - 1 \in Int
    BY <1>1
  <2> QED
    BY <1>1, <2>1, FS_Interval
<1> HIDE DEF r
<1>8. h \in [K -> N] /\ \A k \in K : h[k] = r(k)
  BY <1>4
<1> HIDE DEF h, N
<1>9. h \in Injection(K, N)
  BY <1>6, <1>8, Fun_IsInj
<1>10. h \in Surjection(K, N)
  BY <1>7, <1>9, FS_Injection
<1>11. \A m \in N : \E k \in K : h[k] = m
  BY <1>10, Fun_SurjectionProperties
<1>12. \A m \in N : \E k \in K : r(k) = m
  BY <1>8, <1>11
<1> QED
  BY <1>1, <1>4, <1>6, <1>12 DEF N, r

(* What leaves in a direction, in slots and in the order of the threads.    *)
LEMMA LeavingCount ==
  ASSUME NEW S, IsFiniteSet(S), NEW q \in Orders(S), NEW T \in SUBSET S
  PROVE  Cardinality({k \in 1 .. Cardinality(S) : q[k] \in T}) = Cardinality(T)
<1> DEFINE n == Cardinality(S)
<1> DEFINE K == {k \in 1 .. n : q[k] \in T}
<1> DEFINE h == [k \in K |-> q[k]]
<1>1. /\ n \in Nat /\ q \in [1 .. n -> S] /\ \A i, j \in 1 .. n : q[i] = q[j] => i = j
      /\ \A s \in S : \E i \in 1 .. n : q[i] = s
  BY OrdersFacts
<1> HIDE DEF n
<1>2. h \in [K -> T] /\ \A k \in K : h[k] = q[k] /\ k \in 1 .. n
  OBVIOUS
<1>3. \A s \in T : \E k \in K : h[k] = s
  BY <1>1
<1> HIDE DEF h, K
<1>4. h \in Injection(K, T)
  BY <1>1, <1>2, Fun_IsInj
<1>5. h \in Surjection(K, T)
  BY <1>2, <1>3, Fun_IsSurj
<1>6. IsFiniteSet(T)
  BY FS_Subset
<1>7. Cardinality(K) = Cardinality(T)
  BY <1>4, <1>5, <1>6, FS_Injection
<1> QED
  BY <1>7 DEF K, n

(* The counters.                                                            *)
LEMMA TotalFacts ==
  ASSUME frame \in FrameType, NEW c, local[c].cur \in Frames, NEW d \in Directions,
         local[c].count[d] \in 0 .. TileSize
  PROVE  /\ IsFiniteSet(Leaving(c)) /\ Leaving(c) \subseteq Slots
         /\ Cardinality({s \in Leaving(c) : Dir(c, s) = d}) \in 0 .. TileSize
         /\ Total(c, d) \in Nat
         /\ Total(c, d) >= local[c].count[d]
         /\ Total(c, d) <= 2 * TileSize
         /\ Total(c, d) <= local[c].count[d] + TileSize
         /\ Total(c, d) > TileSize => d \in New2(c) /\ d \in Full(c)
         /\ d \in New2(c) => Total(c, d) > TileSize /\ d \in Full(c)
         /\ d \in Full(c) => Total(c, d) >= TileSize
         /\ d \notin Full(c) => Total(c, d) <= TileSize
         /\ \A s \in Leaving(c) : Dir(c, s) \in Directions /\ frame[local[c].cur][s].mask = Dir(c, s) + 2
<1>1. IsFiniteSet(Leaving(c)) /\ Leaving(c) \subseteq Slots /\ TileSize \in Nat
  <2>1. Leaving(c) \in SUBSET Slots
    BY DEF Leaving
  <2> QED
    BY <2>1, Consts, FS_Subset
<1> DEFINE L == {s \in Leaving(c) : Dir(c, s) = d}
<1>2. Cardinality(L) \in 0 .. TileSize
  <2>1. L \in SUBSET Slots
    BY <1>1
  <2> HIDE DEF L
  <2>2. IsFiniteSet(L) /\ Cardinality(L) <= Cardinality(Slots)
    BY <2>1, Consts, FS_Subset
  <2>3. Cardinality(L) \in Nat
    BY <2>2, FS_CardinalityType
  <2> QED
    BY <1>1, <2>2, <2>3, Consts
<1>3. Total(c, d) = local[c].count[d] + Cardinality(L)
  BY DEF Total
<1> HIDE DEF L
<1>4. /\ Total(c, d) \in Nat /\ Total(c, d) >= local[c].count[d]
      /\ Total(c, d) <= 2 * TileSize /\ Total(c, d) <= local[c].count[d] + TileSize
  BY <1>1, <1>2, <1>3
<1>5. /\ Total(c, d) > TileSize => AnyDestFrameFull(c) /\ d \in New2(c) /\ d \in Full(c)
      /\ d \in New2(c) => Total(c, d) > TileSize /\ d \in Full(c)
      /\ d \in Full(c) => Total(c, d) >= TileSize
      /\ d \notin Full(c) => Total(c, d) <= TileSize
  <2>1. Total(c, d) > TileSize => AnyDestFrameFull(c)
    BY DEF AnyDestFrameFull
  <2> HIDE DEF Total
  <2> QED
    BY <1>1, <1>4, <2>1 DEF New2, Full
<1>6. \A s \in Leaving(c) : Dir(c, s) \in Directions /\ frame[local[c].cur][s].mask = Dir(c, s) + 2
  <2> SUFFICES ASSUME NEW s \in Leaving(c)
               PROVE  Dir(c, s) \in Directions /\ frame[local[c].cur][s].mask = Dir(c, s) + 2
    OBVIOUS
  <2>1. s \in Slots /\ frame[local[c].cur][s].mask >= 2
    BY DEF Leaving
  <2>2. frame[local[c].cur][s] \in Slot
    BY <2>1 DEF FrameType
  <2>3. frame[local[c].cur][s].mask \in 0 .. 3
    BY <2>2 DEF Slot
  <2> QED
    BY <2>1, <2>3 DEF Dir, Directions
<1> QED
  BY <1>1, <1>2, <1>4, <1>5, <1>6 DEF L

(* The destinations of a pass: there is one wherever something goes, filled *)
(* from the front or that of a spoiled supercell, a second one where the    *)
(* first overflows, and all are different frames.                           *)
DestReady(c) ==
  /\ local[c].cur \in Frames
  /\ \A d \in Directions : local[c].count[d] \in 0 .. TileSize
  /\ \A d \in Directions : Total(c, d) > 0 =>
       /\ Dest1(c)[d] \in Frames \ {local[c].cur}
       /\ \/ FilledTo(frame, Dest1(c)[d], local[c].count[d])
          \/ /\ local[c].neighbour[d] /\ Neighbour(c, d) \in spoiled
             /\ FullFrame(frame, Dest1(c)[d])
  /\ \A d \in New2(c) : Dest2(c)[d] \in Frames \ {local[c].cur} /\ FilledTo(frame, Dest2(c)[d], 0)
  /\ \A d, e \in Directions :
       Total(c, d) > 0 /\ Total(c, e) > 0 /\ Dest1(c)[d] = Dest1(c)[e] => d = e
  /\ \A d, e \in New2(c) : Dest2(c)[d] = Dest2(c)[e] => d = e
  /\ \A d \in Directions, e \in New2(c) : Total(c, d) > 0 => Dest1(c)[d] # Dest2(c)[e]

(* The places that the particles of a pass get.                             *)
PlacesOf(c, pl) ==
  /\ pl \in [Leaving(c) -> Nat]
  /\ \A s \in Leaving(c) : pl[s] \in local[c].count[Dir(c, s)] .. Total(c, Dir(c, s)) - 1
  /\ \A s, t \in Leaving(c) : Dir(c, s) = Dir(c, t) /\ pl[s] = pl[t] => s = t
  /\ \A d \in Directions : \A m \in local[c].count[d] .. Total(c, d) - 1 :
       \E s \in Leaving(c) : Dir(c, s) = d /\ pl[s] = m

(* Where a place is.                                                        *)
AtPlace(c, d, m) == IF m < TileSize THEN <<Dest1(c)[d], m>> ELSE <<Dest2(c)[d], m - TileSize>>

LEMMA FlushPlaces ==
  ASSUME frame \in FrameType, NEW c, DestReady(c), NEW order \in Orders(Leaving(c))
  PROVE  \E pl : /\ PlacesOf(c, pl)
                 /\ \A k \in DOMAIN order :
                      Target(c, order, k) = AtPlace(c, Dir(c, order[k]), pl[order[k]])
<1> DEFINE L == Leaving(c)
<1> DEFINE n == Cardinality(L)
<1> DEFINE dir(s) == Dir(c, s)
<1> DEFINE cnt(d) == local[c].count[d]
<1> DEFINE K(d) == {k \in 1 .. n : order[k] \in {s \in L : dir(s) = d}}
<1> DEFINE r(d, k) == Cardinality({j \in 1 .. k - 1 : j \in K(d)})
<1>0. /\ local[c].cur \in Frames
      /\ \A d \in Directions : cnt(d) \in 0 .. TileSize
      /\ TileSize \in Nat
  BY Consts DEF DestReady
<1>1. IsFiniteSet(L) /\ \A s \in L : dir(s) \in Directions
  <2>1. 0 \in Directions
    BY DEF Directions
  <2> QED
    BY <1>0, <2>1, TotalFacts
<1>2. /\ n \in Nat /\ order \in [1 .. n -> L] /\ DOMAIN order = 1 .. n
      /\ \A i, j \in 1 .. n : order[i] = order[j] => i = j
      /\ \A s \in L : \E i \in 1 .. n : order[i] = s
  BY <1>1, OrdersFacts
<1>3. \A d \in Directions : Total(c, d) = cnt(d) + Cardinality(K(d))
  <2> SUFFICES ASSUME NEW d \in Directions PROVE Total(c, d) = cnt(d) + Cardinality(K(d))
    OBVIOUS
  <2> DEFINE S == {s \in L : dir(s) = d}
  <2>1. S \in SUBSET L
    OBVIOUS
  <2>2. Total(c, d) = cnt(d) + Cardinality(S)
    BY DEF Total
  <2> HIDE DEF S, L
  <2>3. Cardinality({k \in 1 .. n : order[k] \in S}) = Cardinality(S)
    BY <1>1, <2>1, LeavingCount DEF L
  <2>4. K(d) = {k \in 1 .. n : order[k] \in S}
    BY DEF S
  <2> QED
    BY <2>2, <2>3, <2>4
<1>4. \A d \in Directions : \A k \in 1 .. n : {j \in 1 .. k - 1 : Dir(c, order[j]) = d} = {j \in 1 .. k - 1 : j \in K(d)}
  <2> SUFFICES ASSUME NEW d \in Directions, NEW k \in 1 .. n, NEW j \in 1 .. k - 1
               PROVE  dir(order[j]) = d <=> j \in K(d)
    OBVIOUS
  <2>1. j \in 1 .. n
    BY <1>2
  <2>2. order[j] \in L
    BY <1>2, <2>1
  <2> QED
    BY <2>1, <2>2
<1>5. \A k \in 1 .. n : order[k] \in L /\ dir(order[k]) \in Directions /\ k \in K(dir(order[k]))
  BY <1>1, <1>2
<1>6. \A k \in 1 .. n : Target(c, order, k) =
        AtPlace(c, dir(order[k]), cnt(dir(order[k])) + r(dir(order[k]), k))
  <2> SUFFICES ASSUME NEW k \in 1 .. n
               PROVE  Target(c, order, k) =
                        AtPlace(c, dir(order[k]), cnt(dir(order[k])) + r(dir(order[k]), k))
    OBVIOUS
  <2> DEFINE d == Dir(c, order[k])
  <2> DEFINE a == Cardinality({j \in 1 .. k - 1 : Dir(c, order[j]) = d})
  <2>1. d \in Directions
    BY <1>5
  <2>2. Target(c, order, k) = AtPlace(c, d, local[c].count[d] + a)
    BY DEF Target, AtPlace
  <2>3. a = r(d, k)
    <3> HIDE DEF K, d
    <3> QED
      BY <1>4, <2>1
  <2> HIDE DEF r, a
  <2> QED
    BY <2>2, <2>3
<1>7. \A d \in Directions :
        /\ Cardinality(K(d)) \in Nat
        /\ \A k \in K(d) : r(d, k) \in 0 .. Cardinality(K(d)) - 1
        /\ \A j, k \in K(d) : r(d, j) = r(d, k) => j = k
        /\ \A m \in 0 .. Cardinality(K(d)) - 1 : \E k \in K(d) : r(d, k) = m
  <2> SUFFICES ASSUME NEW d \in Directions
               PROVE  /\ Cardinality(K(d)) \in Nat
                      /\ \A k \in K(d) : r(d, k) \in 0 .. Cardinality(K(d)) - 1
                      /\ \A j, k \in K(d) : r(d, j) = r(d, k) => j = k
                      /\ \A m \in 0 .. Cardinality(K(d)) - 1 : \E k \in K(d) : r(d, k) = m
    OBVIOUS
  <2>1. K(d) \in SUBSET (1 .. n)
    OBVIOUS
  <2> HIDE DEF K
  <2> QED
    BY <1>2, <2>1, CounterNumbers
<1>8. \A d : \A k \in K(d) : k \in 1 .. n /\ order[k] \in L /\ dir(order[k]) = d
  OBVIOUS
<1> HIDE DEF K, r, n
<1> DEFINE nr(s) == CHOOSE k \in 1 .. n : order[k] = s
<1>9. \A k \in 1 .. n : nr(order[k]) = k
  BY <1>2
<1>10. \A s \in L : nr(s) \in 1 .. n /\ order[nr(s)] = s
  BY <1>2
<1> HIDE DEF nr
<1> DEFINE pl == [s \in L |-> cnt(dir(s)) + r(dir(s), nr(s))]
<1>11. \A s \in L : /\ pl[s] = cnt(dir(s)) + r(dir(s), nr(s)) /\ dir(s) \in Directions
                    /\ nr(s) \in K(dir(s))
  BY <1>5, <1>10
<1>12. pl = [s \in L |-> pl[s]]
  OBVIOUS
<1> HIDE DEF pl
<1>13. \A s \in L : pl[s] \in cnt(dir(s)) .. Total(c, dir(s)) - 1 /\ pl[s] \in Nat
  <2> SUFFICES ASSUME NEW s \in L
               PROVE  pl[s] \in cnt(dir(s)) .. Total(c, dir(s)) - 1 /\ pl[s] \in Nat
    OBVIOUS
  <2>1. PICK d \in Directions : d = dir(s)
    BY <1>1
  <2>2. /\ pl[s] = cnt(d) + r(d, nr(s)) /\ cnt(d) \in 0 .. TileSize
        /\ r(d, nr(s)) \in 0 .. Cardinality(K(d)) - 1 /\ Cardinality(K(d)) \in Nat
        /\ Total(c, d) = cnt(d) + Cardinality(K(d))
    BY <1>0, <1>3, <1>7, <1>11, <2>1
  <2>3. pl[s] \in cnt(d) .. Total(c, d) - 1 /\ pl[s] \in Nat
    <3> HIDE DEF cnt
    <3> QED
      BY <1>0, <2>2
  <2> QED
    BY <2>1, <2>3
<1>14. \A s, t \in L : dir(s) = dir(t) /\ pl[s] = pl[t] => s = t
  <2> SUFFICES ASSUME NEW s \in L, NEW t \in L, dir(s) = dir(t), pl[s] = pl[t] PROVE s = t
    OBVIOUS
  <2>1. PICK d \in Directions : d = dir(s)
    BY <1>1
  <2>2. /\ pl[s] = cnt(d) + r(d, nr(s)) /\ pl[t] = cnt(d) + r(d, nr(t)) /\ cnt(d) \in 0 .. TileSize
        /\ r(d, nr(s)) \in 0 .. Cardinality(K(d)) - 1 /\ r(d, nr(t)) \in 0 .. Cardinality(K(d)) - 1
        /\ Cardinality(K(d)) \in Nat /\ nr(s) \in K(d) /\ nr(t) \in K(d)
    BY <1>0, <1>7, <1>11, <2>1
  <2>5. r(d, nr(s)) \in Int /\ r(d, nr(t)) \in Int /\ cnt(d) \in Int
    BY <1>0, <2>2
  <2>6. cnt(d) + r(d, nr(s)) = cnt(d) + r(d, nr(t))
    BY <2>2, Zenon
  <2>3. r(d, nr(s)) = r(d, nr(t))
    <3>1. \A a, x, y \in Int : a + x = a + y => x = y
      OBVIOUS
    <3> QED
      BY <2>5, <2>6, <3>1, Zenon
  <2>4. nr(s) = nr(t)
    BY <1>7, <2>2, <2>3
  <2> QED
    BY <1>10, <2>4
<1>15. \A d \in Directions : \A m \in cnt(d) .. Total(c, d) - 1 : \E s \in L : dir(s) = d /\ pl[s] = m
  <2> SUFFICES ASSUME NEW d \in Directions, NEW m \in cnt(d) .. Total(c, d) - 1
               PROVE  \E s \in L : dir(s) = d /\ pl[s] = m
    OBVIOUS
  <2>1. /\ Cardinality(K(d)) \in Nat /\ Total(c, d) = cnt(d) + Cardinality(K(d))
        /\ cnt(d) \in Nat
    BY <1>0, <1>3, <1>7
  <2>2. m - cnt(d) \in 0 .. Cardinality(K(d)) - 1
    <3> HIDE DEF cnt
    <3> QED
      BY <2>1
  <2>3. PICK k \in K(d) : r(d, k) = m - cnt(d)
    BY <1>7, <2>2
  <2>4. order[k] \in L /\ dir(order[k]) = d /\ nr(order[k]) = k
    BY <1>8, <1>9
  <2>5. pl[order[k]] = cnt(d) + r(d, k)
    BY <1>11, <2>4
  <2>6. pl[order[k]] = m
    <3> HIDE DEF cnt
    <3> QED
      BY <2>1, <2>3, <2>5
  <2> QED
    BY <2>4, <2>6
<1>16. PlacesOf(c, pl)
  BY <1>12, <1>13, <1>14, <1>15 DEF PlacesOf
<1>17. \A k \in 1 .. n : Target(c, order, k) = AtPlace(c, Dir(c, order[k]), pl[order[k]])
  BY <1>5, <1>6, <1>9, <1>11
<1> QED
  BY <1>2, <1>16, <1>17

(* A slot that is neither source nor target keeps its particle, and a       *)
(* target other than the source only gains, if it was empty.                *)
LEMMA TransferGains ==
  ASSUME NEW fr, NEW fr2, NEW from, NEW S, NEW tf, NEW ts, Transfer(fr, fr2, from, S, tf, ts),
         NEW f \in Frames, f # from, NEW t \in Slots
  PROVE  /\ (\A s \in S : fr[tf[s]][ts[s]].mask = 0) => (fr[f][t].mask # 0 => fr2[f][t] = fr[f][t])
         /\ fr2[f][t].mask # 0 <=> fr[f][t].mask # 0 \/ \E s \in S : tf[s] = f /\ ts[s] = t
<1>1. CASE \E s \in S : tf[s] = f /\ ts[s] = t
  <2>1. PICK s \in S : tf[s] = f /\ ts[s] = t
    BY <1>1
  <2>2. fr2[f][t] = [id |-> fr[from][s].id, mask |-> 1]
    BY <2>1 DEF Transfer
  <2> QED
    BY <1>1, <2>1, <2>2
<1>2. CASE \A s \in S : ~(tf[s] = f /\ ts[s] = t)
  <2>1. fr2[f][t] = fr[f][t]
    BY <1>2 DEF Transfer
  <2> QED
    BY <1>2, <2>1
<1> QED
  BY <1>1, <1>2

(* Where each particle of a pass goes.                                      *)
Goes(c, tf, ts, pl) ==
  /\ tf \in [Leaving(c) -> Frames] /\ ts \in [Leaving(c) -> Slots]
  /\ \A s \in Leaving(c) :
       LET d == Dir(c, s) IN
       /\ d \in Directions
       /\ tf[s] # local[c].cur
       /\ Total(c, d) > 0
       /\ pl[s] \in local[c].count[d] .. Total(c, d) - 1
       /\ pl[s] < TileSize => tf[s] = Dest1(c)[d] /\ ts[s] = pl[s]
       /\ pl[s] >= TileSize => d \in New2(c) /\ tf[s] = Dest2(c)[d] /\ ts[s] = pl[s] - TileSize

(* A destination whose particles are written over.                          *)
Overwrites(c, d) ==
  /\ d \in Directions /\ Total(c, d) > 0
  /\ ~FilledTo(frame, Dest1(c)[d], local[c].count[d])

LEMMA FlushGoes ==
  ASSUME frame \in FrameType, NEW c, DestReady(c), NEW pl, PlacesOf(c, pl)
  PROVE  \E tf, ts :
           /\ Goes(c, tf, ts, pl)
           /\ \A s \in Leaving(c) : AtPlace(c, Dir(c, s), pl[s]) = <<tf[s], ts[s]>>
           /\ \A s, t \in Leaving(c) : tf[s] = tf[t] /\ ts[s] = ts[t] => s = t
           /\ \A s \in Leaving(c) : frame[tf[s]][ts[s]].mask # 0 =>
                Overwrites(c, Dir(c, s)) /\ tf[s] = Dest1(c)[Dir(c, s)]
<1> DEFINE L == Leaving(c)
<1> DEFINE x(s) == AtPlace(c, Dir(c, s), pl[s])
<1> DEFINE tf == [s \in L |-> x(s)[1]]
<1> DEFINE ts == [s \in L |-> x(s)[2]]
<1>0. /\ local[c].cur \in Frames
      /\ \A d \in Directions : local[c].count[d] \in 0 .. TileSize
      /\ TileSize \in Nat
  BY Consts DEF DestReady
<1>1. \A s \in L :
        /\ Dir(c, s) \in Directions
        /\ pl[s] \in local[c].count[Dir(c, s)] .. Total(c, Dir(c, s)) - 1 /\ pl[s] \in Nat
        /\ Total(c, Dir(c, s)) \in Nat /\ Total(c, Dir(c, s)) > 0
        /\ Total(c, Dir(c, s)) <= 2 * TileSize
        /\ Total(c, Dir(c, s)) > TileSize => Dir(c, s) \in New2(c)
  <2> SUFFICES ASSUME NEW s \in L
               PROVE  /\ Dir(c, s) \in Directions
                      /\ pl[s] \in local[c].count[Dir(c, s)] .. Total(c, Dir(c, s)) - 1
                      /\ pl[s] \in Nat
                      /\ Total(c, Dir(c, s)) \in Nat /\ Total(c, Dir(c, s)) > 0
                      /\ Total(c, Dir(c, s)) <= 2 * TileSize
                      /\ Total(c, Dir(c, s)) > TileSize => Dir(c, s) \in New2(c)
    OBVIOUS
  <2>0. 0 \in Directions
    BY DEF Directions
  <2>1. PICK d \in Directions : d = Dir(c, s)
    BY <1>0, <2>0, TotalFacts
  <2>2. pl[s] \in local[c].count[d] .. Total(c, d) - 1 /\ pl[s] \in Nat
    BY <2>1 DEF PlacesOf
  <2>3. /\ Total(c, d) \in Nat /\ Total(c, d) <= 2 * TileSize
        /\ Total(c, d) > TileSize => d \in New2(c)
    BY <1>0, TotalFacts
  <2>4. local[c].count[d] \in Nat
    BY <1>0
  <2>5. Total(c, d) > 0
    BY <2>2, <2>3, <2>4
  <2> QED
    BY <2>1, <2>2, <2>3, <2>5
<1>2. \A s \in L :
        /\ pl[s] < TileSize => x(s) = <<Dest1(c)[Dir(c, s)], pl[s]>>
        /\ pl[s] >= TileSize => /\ Dir(c, s) \in New2(c)
                                /\ x(s) = <<Dest2(c)[Dir(c, s)], pl[s] - TileSize>>
                                /\ pl[s] - TileSize \in Slots
        /\ pl[s] < TileSize => pl[s] \in Slots
  <2> SUFFICES ASSUME NEW s \in L
               PROVE  /\ pl[s] < TileSize => x(s) = <<Dest1(c)[Dir(c, s)], pl[s]>>
                      /\ pl[s] >= TileSize => /\ Dir(c, s) \in New2(c)
                                              /\ x(s) = <<Dest2(c)[Dir(c, s)], pl[s] - TileSize>>
                                              /\ pl[s] - TileSize \in Slots
                      /\ pl[s] < TileSize => pl[s] \in Slots
    OBVIOUS
  <2>1. PICK d \in Directions : d = Dir(c, s)
    BY <1>1
  <2>2. /\ pl[s] \in local[c].count[d] .. Total(c, d) - 1 /\ pl[s] \in Nat
        /\ Total(c, d) \in Nat /\ Total(c, d) <= 2 * TileSize /\ local[c].count[d] \in Nat
        /\ Total(c, d) > TileSize => d \in New2(c)
    BY <1>0, <1>1, <2>1
  <2>3. /\ pl[s] >= TileSize => pl[s] - TileSize \in Slots /\ Total(c, d) > TileSize
        /\ pl[s] < TileSize => pl[s] \in Slots
    BY <1>0, <2>2 DEF Slots
  <2>4. /\ pl[s] < TileSize => x(s) = <<Dest1(c)[d], pl[s]>>
        /\ pl[s] >= TileSize => x(s) = <<Dest2(c)[d], pl[s] - TileSize>>
    BY <1>0, <2>1, <2>2 DEF AtPlace
  <2> QED
    BY <2>1, <2>2, <2>3, <2>4
<1>3. \A s \in L : tf[s] = x(s)[1] /\ ts[s] = x(s)[2]
  OBVIOUS
<1>4. tf = [s \in L |-> tf[s]] /\ ts = [s \in L |-> ts[s]]
  OBVIOUS
<1> HIDE DEF x, tf, ts
<1>5. \A s \in L :
        /\ tf[s] \in Frames /\ ts[s] \in Slots /\ tf[s] # local[c].cur
        /\ pl[s] < TileSize => tf[s] = Dest1(c)[Dir(c, s)] /\ ts[s] = pl[s]
        /\ pl[s] >= TileSize => /\ Dir(c, s) \in New2(c) /\ tf[s] = Dest2(c)[Dir(c, s)]
                                /\ ts[s] = pl[s] - TileSize
        /\ x(s) = <<tf[s], ts[s]>>
        /\ frame[tf[s]][ts[s]].mask # 0 => Overwrites(c, Dir(c, s)) /\ tf[s] = Dest1(c)[Dir(c, s)]
  <2> SUFFICES ASSUME NEW s \in L
               PROVE  /\ tf[s] \in Frames /\ ts[s] \in Slots /\ tf[s] # local[c].cur
                      /\ pl[s] < TileSize => tf[s] = Dest1(c)[Dir(c, s)] /\ ts[s] = pl[s]
                      /\ pl[s] >= TileSize => /\ Dir(c, s) \in New2(c)
                                              /\ tf[s] = Dest2(c)[Dir(c, s)]
                                              /\ ts[s] = pl[s] - TileSize
                      /\ x(s) = <<tf[s], ts[s]>>
                      /\ frame[tf[s]][ts[s]].mask # 0 =>
                           Overwrites(c, Dir(c, s)) /\ tf[s] = Dest1(c)[Dir(c, s)]
    OBVIOUS
  <2>1. PICK d \in Directions : d = Dir(c, s)
    BY <1>1
  <2>2. CASE pl[s] < TileSize
    <3>1. x(s) = <<Dest1(c)[d], pl[s]>> /\ pl[s] \in Slots
      BY <1>2, <2>1, <2>2
    <3>2. tf[s] = Dest1(c)[d] /\ ts[s] = pl[s]
      BY <1>3, <3>1
    <3>3. Dest1(c)[d] \in Frames \ {local[c].cur} /\ Total(c, d) > 0
      BY <1>1, <2>1 DEF DestReady
    <3>4. ~(pl[s] < local[c].count[d])
      BY <1>0, <1>1, <2>1
    <3>5. frame[Dest1(c)[d]][pl[s]].mask # 0 => Overwrites(c, d)
      BY <3>1, <3>3, <3>4 DEF FilledTo, Overwrites
    <3>6. pl[s] \in Nat /\ ~(pl[s] >= TileSize)
      BY <1>0, <1>1, <2>2
    <3> QED
      BY <2>1, <2>2, <3>1, <3>2, <3>3, <3>5, <3>6
  <2>3. CASE ~(pl[s] < TileSize)
    <3>0. pl[s] >= TileSize
      BY <1>0, <1>1, <2>3
    <3>1. x(s) = <<Dest2(c)[d], pl[s] - TileSize>> /\ pl[s] - TileSize \in Slots /\ d \in New2(c)
      BY <1>2, <2>1, <3>0
    <3>2. tf[s] = Dest2(c)[d] /\ ts[s] = pl[s] - TileSize
      BY <1>3, <3>1
    <3>3. Dest2(c)[d] \in Frames \ {local[c].cur} /\ FilledTo(frame, Dest2(c)[d], 0)
      BY <3>1 DEF DestReady
    <3>4. ~(pl[s] - TileSize < 0)
      BY <1>0, <1>1, <3>0
    <3>5. frame[Dest2(c)[d]][pl[s] - TileSize].mask = 0
      BY <3>1, <3>3, <3>4 DEF FilledTo
    <3> QED
      BY <2>1, <2>3, <3>0, <3>1, <3>2, <3>3, <3>5
  <2> QED
    BY <2>2, <2>3
<1>6. \A s, t \in L : tf[s] = tf[t] /\ ts[s] = ts[t] => s = t
  <2> SUFFICES ASSUME NEW s \in L, NEW t \in L, tf[s] = tf[t], ts[s] = ts[t] PROVE s = t
    OBVIOUS
  <2>0. PICK d \in Directions, e \in Directions : d = Dir(c, s) /\ e = Dir(c, t)
    BY <1>1
  <2>1. Total(c, d) > 0 /\ Total(c, e) > 0 /\ pl[s] \in Nat /\ pl[t] \in Nat
    BY <1>1, <2>0
  <2>2. CASE pl[s] < TileSize /\ pl[t] < TileSize
    <3>1. Dest1(c)[d] = Dest1(c)[e] /\ pl[s] = pl[t]
      BY <1>5, <2>0, <2>2
    <3>2. d = e
      BY <2>1, <3>1 DEF DestReady
    <3> QED
      BY <2>0, <3>1, <3>2 DEF PlacesOf
  <2>3. CASE pl[s] >= TileSize /\ pl[t] >= TileSize
    <3>1. /\ d \in New2(c) /\ e \in New2(c) /\ Dest2(c)[d] = Dest2(c)[e]
          /\ pl[s] - TileSize = pl[t] - TileSize
      BY <1>5, <2>0, <2>3
    <3>2. d = e
      BY <3>1 DEF DestReady
    <3>3. pl[s] = pl[t]
      BY <1>0, <2>1, <3>1
    <3> QED
      BY <2>0, <3>2, <3>3 DEF PlacesOf
  <2>4. CASE pl[s] < TileSize /\ pl[t] >= TileSize
    <3>1. e \in New2(c) /\ Dest1(c)[d] = Dest2(c)[e]
      BY <1>5, <2>0, <2>4
    <3> QED
      BY <2>1, <3>1 DEF DestReady
  <2>5. CASE pl[s] >= TileSize /\ pl[t] < TileSize
    <3>1. d \in New2(c) /\ Dest1(c)[e] = Dest2(c)[d]
      BY <1>5, <2>0, <2>5
    <3> QED
      BY <2>1, <3>1 DEF DestReady
  <2> QED
    BY <1>0, <2>1, <2>2, <2>3, <2>4, <2>5
<1>7. tf \in [L -> Frames] /\ ts \in [L -> Slots]
  BY <1>4, <1>5
<1>8. Goes(c, tf, ts, pl)
  BY <1>1, <1>5, <1>7 DEF Goes
<1> QED
  BY <1>5, <1>6, <1>8 DEF x

(* Where a pass writes over particles.                                      *)
WritesOver(c, tf, ts) ==
  \A s \in Leaving(c) :
    frame[tf[s]][ts[s]].mask # 0 => Overwrites(c, Dir(c, s)) /\ tf[s] = Dest1(c)[Dir(c, s)]

(* What a pass does to the frames.                                          *)
LEMMA FlushTransfer ==
  ASSUME frame \in FrameType, NEW c, DestReady(c), NEW order \in Orders(Leaving(c))
  PROVE  /\ Flushed(c, order) \in FrameType
         /\ \E tf, ts, pl :
              /\ PlacesOf(c, pl)
              /\ Goes(c, tf, ts, pl)
              /\ Transfer(frame, Flushed(c, order), local[c].cur, Leaving(c), tf, ts)
              /\ WritesOver(c, tf, ts)
<1> DEFINE L == Leaving(c)
<1> DEFINE cur == local[c].cur
<1> DEFINE new == Flushed(c, order)
<1>0. cur \in Frames /\ \A d \in Directions : local[c].count[d] \in 0 .. TileSize
  BY DEF DestReady
<1>1. PICK pl : /\ PlacesOf(c, pl)
                /\ \A k \in DOMAIN order : Target(c, order, k) = AtPlace(c, Dir(c, order[k]), pl[order[k]])
  BY FlushPlaces
<1>2. PICK tf, ts :
           /\ Goes(c, tf, ts, pl)
           /\ \A s \in L : AtPlace(c, Dir(c, s), pl[s]) = <<tf[s], ts[s]>>
           /\ \A s, t \in L : tf[s] = tf[t] /\ ts[s] = ts[t] => s = t
           /\ WritesOver(c, tf, ts)
  BY <1>1, FlushGoes DEF WritesOver
<1>3. IsFiniteSet(L) /\ L \subseteq Slots /\ \A s \in L : frame[cur][s].mask # 0
  <2>1. 0 \in Directions
    BY DEF Directions
  <2>2. IsFiniteSet(L) /\ L \subseteq Slots
    BY <1>0, <2>1, TotalFacts
  <2>3. \A s \in L : frame[cur][s].mask # 0
    BY DEF Leaving
  <2> QED
    BY <2>2, <2>3
<1> DEFINE n == Cardinality(L)
<1>4. /\ n \in Nat /\ order \in [1 .. n -> L] /\ DOMAIN order = 1 .. n
      /\ \A i, j \in 1 .. n : order[i] = order[j] => i = j
      /\ \A s \in L : \E i \in 1 .. n : order[i] = s
  BY <1>3, OrdersFacts
<1> HIDE DEF n
<1>5. \A k \in 1 .. n : Target(c, order, k) = <<tf[order[k]], ts[order[k]]>> /\ order[k] \in L
  BY <1>1, <1>2, <1>4
<1> DEFINE arrived(f, t) == {k \in 1 .. n : Target(c, order, k) = <<f, t>>}
<1>6. new = [f \in Frames |-> [t \in Slots |->
        IF arrived(f, t) # {}
        THEN [id |-> frame[cur][order[CHOOSE k \in arrived(f, t) : TRUE]].id, mask |-> 1]
        ELSE IF f = cur /\ t \in L THEN NoParticle ELSE frame[f][t]]]
  BY <1>4 DEF Flushed
<1> HIDE DEF new
<1>7. \A f \in Frames : \A t \in Slots : new[f][t] =
        IF arrived(f, t) # {}
        THEN [id |-> frame[cur][order[CHOOSE k \in arrived(f, t) : TRUE]].id, mask |-> 1]
        ELSE IF f = cur /\ t \in L THEN NoParticle ELSE frame[f][t]
  BY <1>6
<1>8. \A f, t : arrived(f, t) = {k \in 1 .. n : tf[order[k]] = f /\ ts[order[k]] = t}
  BY <1>5
<1>9. \A s \in L : tf[s] \in Frames /\ ts[s] \in Slots /\ tf[s] # cur
  BY <1>2 DEF Goes
<1>10. \A s \in L : new[tf[s]][ts[s]] = [id |-> frame[cur][s].id, mask |-> 1]
  <2> SUFFICES ASSUME NEW s \in L
               PROVE  new[tf[s]][ts[s]] = [id |-> frame[cur][s].id, mask |-> 1]
    OBVIOUS
  <2>1. PICK k \in 1 .. n : order[k] = s
    BY <1>4
  <2>2. arrived(tf[s], ts[s]) = {k}
    <3>1. \A j \in 1 .. n : order[j] \in L /\ (order[j] = s => j = k)
      BY <1>4, <1>5, <2>1
    <3>2. \A j \in 1 .. n : tf[order[j]] = tf[s] /\ ts[order[j]] = ts[s] <=> j = k
      BY <1>2, <2>1, <3>1
    <3> HIDE DEF arrived
    <3> QED
      BY <1>8, <3>2
  <2>3. (CHOOSE j \in arrived(tf[s], ts[s]) : TRUE) = k
    BY <2>2
  <2> HIDE DEF arrived
  <2> QED
    BY <1>7, <1>9, <2>1, <2>2, <2>3
<1>11. \A f \in Frames : \A t \in Slots : (\A s \in L : ~(tf[s] = f /\ ts[s] = t)) =>
         new[f][t] = IF f = cur /\ t \in L THEN NoParticle ELSE frame[f][t]
  <2> SUFFICES ASSUME NEW f \in Frames, NEW t \in Slots, \A s \in L : ~(tf[s] = f /\ ts[s] = t)
               PROVE  new[f][t] = IF f = cur /\ t \in L THEN NoParticle ELSE frame[f][t]
    OBVIOUS
  <2>1. arrived(f, t) = {}
    BY <1>5, <1>8
  <2> HIDE DEF arrived
  <2> QED
    BY <1>7, <2>1
<1>12. new \in FrameType
  <2>1. NoParticle \in Slot
    BY Consts DEF NoParticle, Slot
  <2>2. \A f \in Frames : \A t \in Slots : new[f][t] \in Slot
    <3> SUFFICES ASSUME NEW f \in Frames, NEW t \in Slots PROVE new[f][t] \in Slot
      OBVIOUS
    <3>1. CASE \E s \in L : tf[s] = f /\ ts[s] = t
      <4>1. PICK s \in L : tf[s] = f /\ ts[s] = t
        BY <3>1
      <4>2. frame[cur][s] \in Slot
        BY <1>0, <1>3 DEF FrameType
      <4>3. frame[cur][s].id \in 0 .. MaxParticles
        BY <4>2 DEF Slot
      <4>4. [id |-> frame[cur][s].id, mask |-> 1] \in Slot
        BY <4>3 DEF Slot
      <4> QED
        BY <1>10, <4>1, <4>4
    <3>2. CASE \A s \in L : ~(tf[s] = f /\ ts[s] = t)
      <4>1. frame[f][t] \in Slot
        BY DEF FrameType
      <4> QED
        BY <1>11, <2>1, <3>2, <4>1
    <3> QED
      BY <3>1, <3>2
  <2>3. new = [f \in Frames |-> [t \in Slots |-> new[f][t]]]
    BY <1>6
  <2> QED
    BY <2>2, <2>3 DEF FrameType
<1>13. Transfer(frame, new, cur, L, tf, ts)
  <2>1. tf \in [L -> Frames] /\ ts \in [L -> Slots]
    BY <1>2 DEF Goes
  <2>2. \A s \in L : new[cur][s] = NoParticle
    BY <1>0, <1>3, <1>9, <1>11
  <2>3. \A f \in Frames : \A t \in Slots :
          ~(f = cur /\ t \in L) /\ (\A s \in L : ~(tf[s] = f /\ ts[s] = t)) => new[f][t] = frame[f][t]
    BY <1>11
  <2> HIDE DEF L, cur
  <2> QED
    BY <1>0, <1>2, <1>3, <1>10, <2>1, <2>2, <2>3 DEF Transfer
<1> QED
  BY <1>1, <1>2, <1>12, <1>13 DEF new

(* How the frames look after a pass.                                        *)
LEMMA FlushShapes ==
  ASSUME frame \in FrameType, NEW c, DestReady(c), NEW new \in FrameType,
         NEW tf, NEW ts, NEW pl, PlacesOf(c, pl), Goes(c, tf, ts, pl),
         Transfer(frame, new, local[c].cur, Leaving(c), tf, ts)
  PROVE  /\ Calm(new, local[c].cur)
         /\ \A d \in Directions : Total(c, d) > 0 /\ ~Overwrites(c, d)
              => FilledTo(new, Dest1(c)[d], Total(c, d))
         /\ \A d \in New2(c) : FilledTo(new, Dest2(c)[d], Total(c, d) - TileSize)
         /\ \A f \in Frames : (\A d \in Directions : Total(c, d) > 0 => f # Dest1(c)[d])
              /\ (\A d \in New2(c) : f # Dest2(c)[d]) /\ f # local[c].cur
              => \A t \in Slots : new[f][t] = frame[f][t]
         /\ \A f \in Frames : FullFrame(frame, f) /\ f # local[c].cur => FullFrame(new, f)
<1> DEFINE L == Leaving(c)
<1> DEFINE cur == local[c].cur
<1>0. /\ cur \in Frames /\ \A d \in Directions : local[c].count[d] \in 0 .. TileSize
      /\ TileSize \in Nat
  BY Consts DEF DestReady
<1>1. /\ tf \in [L -> Frames] /\ ts \in [L -> Slots]
      /\ \A s \in L :
           /\ Dir(c, s) \in Directions
           /\ tf[s] # cur
           /\ Total(c, Dir(c, s)) > 0
           /\ pl[s] \in local[c].count[Dir(c, s)] .. Total(c, Dir(c, s)) - 1
           /\ pl[s] < TileSize => tf[s] = Dest1(c)[Dir(c, s)] /\ ts[s] = pl[s]
           /\ pl[s] >= TileSize =>
                Dir(c, s) \in New2(c) /\ tf[s] = Dest2(c)[Dir(c, s)] /\ ts[s] = pl[s] - TileSize
  BY DEF Goes
<1>2. \A s \in L : pl[s] \in Nat
  BY DEF PlacesOf
<1>3. \A d \in Directions : /\ Total(c, d) \in Nat /\ Total(c, d) >= local[c].count[d]
                            /\ d \in New2(c) => Total(c, d) > TileSize
  BY <1>0, TotalFacts
<1>4. Calm(new, cur)
  <2> SUFFICES ASSUME NEW t \in Slots PROVE new[cur][t].mask <= 1
    BY DEF Calm
  <2>1. CASE t \in L
    BY <2>1 DEF Transfer, NoParticle
  <2>2. CASE t \notin L
    <3>1. new[cur][t] = frame[cur][t]
      BY <1>0, <1>1, <2>2 DEF Transfer
    <3>2. frame[cur][t].mask \in 0 .. 3 /\ ~(frame[cur][t].mask >= 2)
      <4>1. frame[cur][t] \in Slot
        BY <1>0 DEF FrameType
      <4> QED
        BY <2>2, <4>1 DEF Slot, Leaving
    <3> QED
      BY <3>1, <3>2
  <2> QED
    BY <2>1, <2>2
<1>5. ASSUME NEW d \in Directions, Total(c, d) > 0, ~Overwrites(c, d)
      PROVE  FilledTo(new, Dest1(c)[d], Total(c, d))
  <2> DEFINE f == Dest1(c)[d]
  <2>1. f \in Frames /\ f # cur /\ FilledTo(frame, f, local[c].count[d])
    BY <1>5 DEF DestReady, Overwrites
  <2> SUFFICES ASSUME NEW t \in Slots PROVE new[f][t].mask # 0 <=> t < Total(c, d)
    BY DEF FilledTo
  <2>2. new[f][t].mask # 0 <=> t < local[c].count[d] \/ \E s \in L : tf[s] = f /\ ts[s] = t
    BY <2>1, TransferGains DEF FilledTo
  <2>6. t \in Nat /\ t < TileSize
    BY <1>0 DEF Slots
  <2>3. ASSUME NEW s \in L, tf[s] = f, ts[s] = t PROVE t < Total(c, d)
    <3>1. pl[s] < TileSize
      <4>1. CASE pl[s] >= TileSize
        <5>1. Dir(c, s) \in New2(c) /\ Dest2(c)[Dir(c, s)] = f
          BY <1>1, <2>3, <4>1
        <5> QED
          BY <1>5, <5>1 DEF DestReady
      <4> QED
        BY <1>0, <1>2, <4>1
    <3>2. Dest1(c)[Dir(c, s)] = f /\ pl[s] = t
      BY <1>1, <2>3, <3>1
    <3>3. Dir(c, s) = d
      BY <1>1, <1>5, <3>2 DEF DestReady
    <3>4. pl[s] \in local[c].count[d] .. Total(c, d) - 1
      BY <1>1, <3>3
    <3> QED
      BY <1>0, <1>3, <3>2, <3>4
  <2>4. ASSUME t < Total(c, d), ~(t < local[c].count[d]) PROVE \E s \in L : tf[s] = f /\ ts[s] = t
    <3>1. t \in local[c].count[d] .. Total(c, d) - 1
      BY <1>0, <1>3, <2>4, <2>6
    <3>2. PICK s \in L : Dir(c, s) = d /\ pl[s] = t
      BY <3>1 DEF PlacesOf
    <3>3. pl[s] < TileSize
      BY <2>6, <3>2
    <3> QED
      BY <1>1, <3>2, <3>3
  <2>5. t < local[c].count[d] => t < Total(c, d)
    BY <1>0, <1>3, <2>6
  <2> QED
    BY <2>2, <2>3, <2>4, <2>5
<1>6. ASSUME NEW d \in New2(c) PROVE FilledTo(new, Dest2(c)[d], Total(c, d) - TileSize)
  <2> DEFINE f == Dest2(c)[d]
  <2>0. d \in Directions /\ Total(c, d) > TileSize
    <3>1. d \in Directions
      BY DEF New2, Full
    <3> QED
      BY <1>3, <3>1
  <2>1. f \in Frames /\ f # cur /\ FilledTo(frame, f, 0)
    BY DEF DestReady
  <2> SUFFICES ASSUME NEW t \in Slots PROVE new[f][t].mask # 0 <=> t < Total(c, d) - TileSize
    BY DEF FilledTo
  <2>6. t \in Nat /\ t < TileSize /\ ~(t < 0)
    BY <1>0 DEF Slots
  <2>2. new[f][t].mask # 0 <=> \E s \in L : tf[s] = f /\ ts[s] = t
    BY <2>1, <2>6, TransferGains DEF FilledTo
  <2>3. ASSUME NEW s \in L, tf[s] = f, ts[s] = t PROVE t < Total(c, d) - TileSize
    <3>1. pl[s] >= TileSize
      <4>1. CASE pl[s] < TileSize
        <5>1. Dir(c, s) \in Directions /\ Total(c, Dir(c, s)) > 0 /\ Dest1(c)[Dir(c, s)] = f
          BY <1>1, <2>3, <4>1
        <5> QED
          BY <5>1 DEF DestReady
      <4> QED
        BY <1>0, <1>2, <4>1
    <3>2. Dir(c, s) \in New2(c) /\ Dest2(c)[Dir(c, s)] = f /\ pl[s] - TileSize = t
      BY <1>1, <2>3, <3>1
    <3>3. Dir(c, s) = d
      BY <3>2 DEF DestReady
    <3>4. pl[s] \in local[c].count[d] .. Total(c, d) - 1
      BY <1>1, <3>3
    <3>5. local[c].count[d] \in Nat /\ Total(c, d) \in Nat /\ pl[s] \in Nat
      BY <1>0, <1>2, <1>3, <2>0
    <3> QED
      BY <1>0, <3>2, <3>4, <3>5
  <2>4. ASSUME t < Total(c, d) - TileSize PROVE \E s \in L : tf[s] = f /\ ts[s] = t
    <3>0. local[c].count[d] \in 0 .. TileSize /\ Total(c, d) \in Nat
      BY <1>0, <1>3, <2>0
    <3>1. t + TileSize \in local[c].count[d] .. Total(c, d) - 1
      BY <1>0, <2>4, <2>6, <3>0
    <3>2. PICK s \in L : Dir(c, s) = d /\ pl[s] = t + TileSize
      BY <2>0, <3>1 DEF PlacesOf
    <3>3. pl[s] >= TileSize /\ pl[s] - TileSize = t
      BY <1>0, <2>6, <3>2
    <3> QED
      BY <1>1, <3>2, <3>3
  <2> QED
    BY <2>2, <2>3, <2>4
<1>7. ASSUME NEW f \in Frames, \A d \in Directions : Total(c, d) > 0 => f # Dest1(c)[d],
             \A d \in New2(c) : f # Dest2(c)[d], f # cur
      PROVE  \A t \in Slots : new[f][t] = frame[f][t]
  <2>1. \A s \in L : tf[s] # f
    <3> SUFFICES ASSUME NEW s \in L PROVE tf[s] # f
      OBVIOUS
    <3>1. pl[s] < TileSize \/ pl[s] >= TileSize
      BY <1>0, <1>2
    <3> QED
      BY <1>1, <1>7, <3>1
  <2> QED
    BY <1>7, <2>1, TransferElsewhere
<1>8. ASSUME NEW f \in Frames, FullFrame(frame, f), f # cur PROVE FullFrame(new, f)
  BY <1>8, TransferGains DEF FullFrame
<1> QED
  BY <1>4, <1>5, <1>6, <1>7, <1>8

-----------------------------------------------------------------------------
(* Steps that leave the frames and the lists alone.                         *)

SamePrivate ==
  \A b \in Cells, d \in Directions :
    /\ Private(b, d)' <=> Private(b, d)
    /\ Private(b, d) => local'[b].dest[d] = local[b].dest[d]

LEMMA QuietStep ==
  ASSUME HeapOK, ParticlesOK, GoalsOK, SamePrivate,
         frame' = frame, used' = used, list' = list, goal' = goal, lost' = lost,
         spoiled \subseteq spoiled',
         kernel \in {"delete", "over"} => kernel' \in {"delete", "over"}
  PROVE  HeapOK' /\ ParticlesOK' /\ GoalsOK'
<1>1. HeapOK'
  <2>1. /\ \A c \in Cells : Distinct(list'[c])
        /\ \A c, d \in Cells : c # d => Elems(list'[c]) \cap Elems(list'[d]) = {}
    BY DEF HeapOK
  <2>2. \A b, c \in Cells, d \in Directions :
          Private(b, d)' => local'[b].dest[d] \notin Elems(list'[c])
    BY DEF HeapOK, SamePrivate
  <2>3. \A b, c \in Cells, d, e \in Directions :
          Private(b, d)' /\ Private(c, e)' /\ local'[b].dest[d] = local'[c].dest[e] => b = c /\ d = e
    <3> SUFFICES ASSUME NEW b \in Cells, NEW c \in Cells, NEW d \in Directions, NEW e \in Directions,
                        Private(b, d)', Private(c, e)', local'[b].dest[d] = local'[c].dest[e]
                 PROVE  b = c /\ d = e
      OBVIOUS
    <3>1. Private(b, d) /\ Private(c, e) /\ local[b].dest[d] = local[c].dest[e]
      BY DEF SamePrivate
    <3> QED
      BY <3>1 DEF HeapOK
  <2>4. \A f \in Frames :
          f \in used' <=> \/ \E c \in Cells : f \in Elems(list'[c])
                          \/ \E b \in Cells, d \in Directions : Private(b, d)' /\ local'[b].dest[d] = f
                          \/ f \in lost'
    <3> SUFFICES ASSUME NEW f \in Frames
                 PROVE  f \in used' <=>
                          \/ \E c \in Cells : f \in Elems(list'[c])
                          \/ \E b \in Cells, d \in Directions : Private(b, d)' /\ local'[b].dest[d] = f
                          \/ f \in lost'
      OBVIOUS
    <3>1. f \in used <=> \/ \E c \in Cells : f \in Elems(list[c])
                         \/ \E b \in Cells, d \in Directions : Private(b, d) /\ local[b].dest[d] = f
                         \/ f \in lost
      BY DEF HeapOK
    <3>2. (\E b \in Cells, d \in Directions : Private(b, d) /\ local[b].dest[d] = f)
            <=> (\E b \in Cells, d \in Directions : Private(b, d)' /\ local'[b].dest[d] = f)
      BY DEF SamePrivate
    <3> QED
      BY <3>1, <3>2
  <2>5. \A f \in Frames \ used' : \A s \in Slots : frame'[f][s].mask = 0
    BY DEF HeapOK
  <2>6. \A c \in Cells : Elems(list'[c]) \cap lost' = {}
    BY DEF HeapOK
  <2>7. \A b \in Cells, d \in Directions : Private(b, d)' => local'[b].dest[d] \notin lost'
    BY DEF HeapOK, SamePrivate
  <2>8. \A f \in lost' : \A s \in Slots : frame'[f][s].mask = 0
    BY DEF HeapOK
  <2> QED
    BY <2>1, <2>2, <2>3, <2>4, <2>5, <2>6, <2>7, <2>8 DEF HeapOK
<1>2. ParticlesOK'
  BY DEF ParticlesOK, OneSlot, InSlot
<1>3. GoalsOK'
  <2>1. \A c \in Cells : \A f \in Elems(list'[c]) : GoalsIn(frame, f, c)'
    BY DEF GoalsOK, GoalsIn
  <2>2. \A b \in Cells, d \in Directions : Private(b, d)' =>
          Calm(frame', local'[b].dest[d]) /\ GoalsIn(frame, local[b].dest[d], Neighbour(b, d))'
    <3> SUFFICES ASSUME NEW b \in Cells, NEW d \in Directions, Private(b, d)'
                 PROVE  /\ Calm(frame', local'[b].dest[d])
                        /\ GoalsIn(frame, local[b].dest[d], Neighbour(b, d))'
      OBVIOUS
    <3>1. Private(b, d) /\ local'[b].dest[d] = local[b].dest[d]
      BY DEF SamePrivate
    <3>2. Calm(frame, local[b].dest[d]) /\ GoalsIn(frame, local[b].dest[d], Neighbour(b, d))
      BY <3>1 DEF GoalsOK
    <3> QED
      BY <3>1, <3>2 DEF Calm, GoalsIn
  <2> QED
    BY <2>1, <2>2 DEF GoalsOK
<1> QED
  BY <1>1, <1>2, <1>3

(* A block that has no shared memory has no private frame.                  *)
LEMMA NoPrivate ==
  ASSUME NEW b, NEW d \in Directions, local[b] = NoLocal
  PROVE  ~Private(b, d)
BY DEF Private, NoLocal

(* Where a kernel has come to when all its blocks have ended.               *)
LEMMA AllDone ==
  ASSUME Inv, \A c \in Launched : pc[c] = "done"
  PROVE  \A c \in Cells : pc[c] \in {"start", "done"} /\ local[c] = NoLocal /\ ~Shifting(c)
<1> SUFFICES ASSUME NEW c \in Cells
             PROVE  pc[c] \in {"start", "done"} /\ local[c] = NoLocal /\ ~Shifting(c)
  OBVIOUS
<1>1. pc[c] \in {"start", "loop", "end", "done"} /\ BlockOK(c)
  BY DEF Inv, Types
<1>2. pc[c] \in {"start", "done"}
  BY <1>1 DEF BlockOK
<1> QED
  BY <1>1, <1>2 DEF BlockOK, Shifting

(* The ranks of the supercells.                                             *)
LEMMA PendingFacts ==
  ASSUME Inv, NEW c \in Cells
  PROVE  /\ Pending(c) => c \in Area /\ (c \in Blocks => kernel = "shift" /\ pc[c] = "start")
         /\ c \in Blocks => c \in Area /\ Rank(c) = offset
         /\ c \in Area /\ c \notin Blocks => Rank(c) # offset
         /\ c \in Area => Rank(c) \in 0 .. Stride - 1 /\ offset \in 0 .. Stride - 1 /\ Stride \in Nat
<1>1. c \in Area => Rank(c) \in 0 .. Stride - 1 /\ Stride \in Nat
  BY Consts
<1>2. offset \in 0 .. Stride - 1
  BY DEF Inv, Types
<1>3. c \in Blocks <=> c \in Area /\ Rank(c) = offset
  BY DEF Blocks, Rank
<1>4. c \in Area /\ Rank(c) = offset => ~(Rank(c) > offset)
  BY <1>1, <1>2
<1> QED
  BY <1>1, <1>2, <1>3, <1>4 DEF Pending

LEMMA NextKernelInv ==
  ASSUME Inv, NextKernel
  PROVE  Inv'
<1>0. /\ frame' = frame /\ used' = used /\ list' = list /\ size' = size /\ mustShift' = mustShift
      /\ local' = local /\ goal' = goal /\ lost' = lost /\ vacant' = vacant /\ spoiled' = spoiled
      /\ pc' = [c \in Cells |-> "start"]
      /\ kernel # "over" /\ \A c \in Launched : pc[c] = "done"
  BY DEF NextKernel, history
<1>1. \/ kernel = "shift" /\ kernel' = "gaps" /\ offset' = offset
      \/ kernel = "gaps" /\ kernel' = "last" /\ offset' = offset
      \/ kernel = "last" /\ offset + 1 < Stride /\ kernel' = "shift" /\ offset' = offset + 1
      \/ kernel = "last" /\ offset + 1 = Stride /\ kernel' = "delete" /\ offset' = 0
      \/ kernel = "delete" /\ kernel' = "over" /\ offset' = offset
  <2>1. /\ kernel \in {"shift", "gaps", "last", "delete", "over"} /\ offset \in 0 .. Stride - 1
        /\ Stride \in Nat \ {0}
    BY Consts DEF Inv, Types
  <2>2. offset + 1 < Stride \/ offset + 1 = Stride
    BY <2>1
  <2> QED
    BY <2>1, <2>2 DEF NextKernel
<1>2. \A c \in Cells : pc[c] \in {"start", "done"} /\ local[c] = NoLocal /\ ~Shifting(c)
  BY <1>0, AllDone
<1>3. \A c \in Cells : pc'[c] = "start"
  BY <1>0
<1>4. Types'
  <2>1. Types /\ Stride \in Nat \ {0} /\ offset \in 0 .. Stride - 1
    BY Consts DEF Inv, Types
  <2>2. offset' \in 0 .. Stride - 1 /\ kernel' \in {"shift", "gaps", "last", "delete", "over"}
    BY <1>1, <2>1
  <2>3. pc' \in [Cells -> {"start", "loop", "end", "done"}]
    BY <1>0
  <2> QED
    BY <1>0, <2>1, <2>2, <2>3 DEF Types
<1>5. HeapOK' /\ ParticlesOK' /\ GoalsOK'
  <2>1. SamePrivate
    BY <1>0 DEF SamePrivate, Private
  <2>2. kernel \in {"delete", "over"} => kernel' \in {"delete", "over"}
    BY <1>1
  <2> QED
    BY <1>0, <2>1, <2>2, QuietStep DEF Inv
<1>6. \A c \in Cells : ~Shifting(c)'
  BY <1>3 DEF Shifting
<1>7. ASSUME NEW c \in Area PROVE Pending(c)' <=> Pending(c)
  <2>1. c \in Cells
    BY Consts
  <2>2. PICK r : r = Rank(c)
    OBVIOUS
  <2>3. r \in 0 .. Stride - 1 /\ offset \in 0 .. Stride - 1 /\ Stride \in Nat
    BY <2>1, <2>2, PendingFacts
  <2>4. c \in Blocks <=> r = offset
    BY <2>1, <2>2, PendingFacts
  <2>5. Pending(c) <=> \/ kernel \in {"shift", "gaps", "last"} /\ r > offset
                       \/ kernel = "shift" /\ r = offset /\ pc[c] = "start"
    BY <2>2 DEF Pending
  <2>6. Pending(c)' <=> \/ kernel' \in {"shift", "gaps", "last"} /\ r > offset'
                        \/ kernel' = "shift" /\ r = offset'
    BY <1>3, <2>1, <2>2 DEF Pending, Rank
  <2>7. kernel = "shift" /\ r = offset => pc[c] # "start"
    BY <1>0, <2>4 DEF Launched
  <2> QED
    BY <1>1, <2>3, <2>5, <2>6, <2>7
<1>8. ASSUME NEW c \in Cells PROVE LeaversOK(c)'
  <2>1. Pending(c)' <=> Pending(c)
    BY <1>7 DEF Pending
  <2>2. (~Pending(c) \/ ~mustShift[c]) => \A f \in Elems(list[c]) : Calm(frame, f)
    BY <1>2 DEF Inv, LeaversOK
  <2> QED
    BY <1>0, <2>1, <2>2 DEF LeaversOK
<1>9. ASSUME NEW c \in Cells PROVE BlockOK(c)'
  BY <1>0, <1>2, <1>3 DEF BlockOK
<1>10. ASSUME NEW b \in Area, NEW d \in Directions PROVE DestinationOK(b, d)'
  <2>1. ~Shifting(b)'
    BY <1>6, Consts
  <2> QED
    BY <2>1 DEF DestinationOK
<1>11. ASSUME NEW c \in Area PROVE CellOK(c)'
  <2>0. c \in Cells
    BY Consts
  <2>1. /\ list[c] = <<>> => size[c] = 0 /\ c \in vacant
        /\ c \in vacant => ~mustShift[c]
        /\ CompactDue(c) => CompactList(frame, list[c], size[c]) \/ WrongSize(c)
        /\ GapsDone(c) => ButLastFull(frame, list[c])
    BY DEF Inv, CellOK
  <2>2. c \in Blocks /\ kernel \in {"shift", "gaps", "last"} => pc[c] = "done"
    BY <1>0 DEF Launched
  <2>3. CompactDue(c)' => CompactDue(c)
    <3>1. \A b \in Area : ~Shifting(b)
      BY <1>2, Consts
    <3>2. offset' = offset => (c \in Blocks' <=> c \in Blocks)
      BY DEF Blocks
    <3>3. pc'[c] = "start"
      BY <1>3, <2>0
    <3>4. CASE kernel = "shift" /\ kernel' = "gaps" /\ offset' = offset
      BY <3>1, <3>2, <3>4 DEF CompactDue
    <3>5. CASE kernel = "gaps" /\ kernel' = "last" /\ offset' = offset
      BY <3>2, <3>3, <3>5 DEF CompactDue
    <3>6. CASE kernel = "last"
      BY <2>2, <3>6 DEF CompactDue
    <3>7. CASE kernel = "delete"
      BY <3>7 DEF CompactDue
    <3> QED
      BY <1>1, <3>4, <3>5, <3>6, <3>7
  <2>4. GapsDone(c)' => GapsDone(c)
    <3>1. offset' = offset => (c \in Blocks' <=> c \in Blocks)
      BY DEF Blocks
    <3>2. pc'[c] # "done"
      BY <1>3, <2>0
    <3> QED
      BY <1>1, <2>2, <3>1, <3>2 DEF GapsDone
  <2> QED
    BY <1>0, <2>1, <2>3, <2>4
    DEF CellOK, CompactList, ButLastFull, FilledTo, FullFrame, WrongSize, AllFull
<1>12. GuardsOK'
  <2>1. \A c \in Area, d \in Directions :
          Pending(c)' /\ Neighbour(c, d) \notin Area => list'[Neighbour(c, d)] = <<>>
    BY <1>0, <1>7 DEF Inv, GuardsOK
  <2>2. \A c \in Open :
          kernel' = "over" \/ (kernel' = "delete" /\ pc'[c] = "done") => list'[c] = <<>> /\ size'[c] = 0
    <3> SUFFICES ASSUME NEW c \in Open, kernel' = "over" \/ (kernel' = "delete" /\ pc'[c] = "done")
                 PROVE  list'[c] = <<>> /\ size'[c] = 0
      OBVIOUS
    <3>1. pc'[c] # "done"
      BY <1>3, Consts
    <3>2. kernel = "delete"
      BY <1>1, <3>1
    <3>3. pc[c] = "done"
      BY <1>0, <3>2 DEF Launched
    <3> QED
      BY <1>0, <3>2, <3>3 DEF Inv, GuardsOK
  <2> QED
    BY <2>1, <2>2 DEF GuardsOK
<1> QED
  BY <1>4, <1>5, <1>8, <1>9, <1>10, <1>11, <1>12 DEF Inv

-----------------------------------------------------------------------------
(* KernelShiftParticles.                                                    *)

(* A block that shifts is one of the launch.                                *)
LEMMA ShiftingBlocks ==
  ASSUME Inv, NEW b \in Cells, Shifting(b)
  PROVE  b \in Blocks /\ kernel = "shift" /\ b \in Area
<1>1. kernel = "shift" /\ pc[b] # "start"
  BY DEF Shifting
<1>2. b \in Launched
  BY <1>1 DEF Inv, BlockOK
<1> QED
  BY <1>1, <1>2 DEF Launched, Blocks

(* The neighbours of a block that has not begun are compact.                *)
LEMMA NeighboursCompact ==
  ASSUME Inv, Stride >= 3, NEW c \in Blocks, kernel = "shift", pc[c] = "start",
         NEW d \in Directions, Neighbour(c, d) \in Area
  PROVE  CompactDue(Neighbour(c, d))
<1>1. Neighbour(c, d) \notin Blocks
  BY OwnNeighbours
<1>2. ASSUME NEW b \in Area, NEW e \in Directions, Neighbour(b, e) = Neighbour(c, d) PROVE ~Shifting(b)
  <2> SUFFICES ASSUME Shifting(b) PROVE FALSE
    OBVIOUS
  <2>1. b \in Blocks
    BY ShiftingBlocks, Consts
  <2>2. b = c
    BY <1>2, <2>1, OwnNeighbours
  <2> QED
    BY <2>2 DEF Shifting
<1> QED
  BY <1>1, <1>2 DEF CompactDue

LEMMA ShiftBeginInv ==
  ASSUME Inv, Stride >= 3, NEW c \in Area, ShiftBegin(c)
  PROVE  Inv'
<1> DEFINE room(d) == list[Neighbour(c, d)] # <<>> /\ size[Neighbour(c, d)] # TileSize
<1> DEFINE x == [cur |-> list[c][1], last |-> Null,
                 dest |-> [d \in Directions |-> IF room(d) THEN Last(Neighbour(c, d)) ELSE Null],
                 count |-> [d \in Directions |-> IF room(d) THEN size[Neighbour(c, d)] ELSE 0],
                 neighbour |-> [d \in Directions |-> room(d)]]
<1> USE Consts
<1>0. /\ frame' = frame /\ used' = used /\ list' = list /\ size' = size
      /\ offset' = offset /\ kernel' = kernel /\ goal' = goal /\ lost' = lost /\ vacant' = vacant
      /\ kernel = "shift" /\ c \in Blocks /\ pc[c] = "start"
      /\ mustShift' = [mustShift EXCEPT ![c] = FALSE]
      /\ \/ /\ mustShift[c] /\ list[c] # <<>>
            /\ pc' = [pc EXCEPT ![c] = "loop"] /\ local' = [local EXCEPT ![c] = x]
            /\ spoiled' = spoiled \cup {n \in {Neighbour(c, d) : d \in Directions} : Unsized(n)}
         \/ /\ ~mustShift[c] /\ pc' = [pc EXCEPT ![c] = "done"] /\ local' = local
            /\ spoiled' = spoiled
  <2>1. mustShift[c] => list[c] # <<>>
    BY DEF Inv, CellOK
  <2> QED
    BY <2>1 DEF ShiftBegin, At, Launched
<1>1. /\ c \in Cells /\ Types /\ local[c] = NoLocal
      /\ pc \in [Cells -> {"start", "loop", "end", "done"}]
      /\ mustShift \in [Cells -> BOOLEAN] /\ local \in [Cells -> Locals]
      /\ list \in [Cells -> Seq(Frames)] /\ size \in [Cells -> 0 .. TileSize]
  <2>1. c \in Cells
    OBVIOUS
  <2> QED
    BY <1>0, <2>1 DEF Inv, Types, BlockOK
<1>2. ASSUME NEW d \in Directions, NEW n \in Cells, n = Neighbour(c, d)
      PROVE  /\ room(d) => /\ n \in Area /\ Last(n) = list[n][Len(list[n])] /\ Last(n) \in Frames
                           /\ list[n] # <<>> /\ ButLastFull(frame, list[n])
                           /\ \/ FilledTo(frame, Last(n), size[n])
                              \/ FullFrame(frame, Last(n)) /\ (n \in spoiled \/ Unsized(n))
             /\ ~room(d) /\ n \in Area =>
                  AllFull(frame, list[n]) /\ (size[n] = TileSize \/ (size[n] = 0 /\ n \in vacant))
             /\ Unsized(n) => n \in vacant
  <2>1. Pending(c)
    BY <1>0, <1>1, PendingFacts DEF Pending
  <2>2. room(d) => n \in Area
    BY <1>2, <2>1 DEF Inv, GuardsOK
  <2>3. n \in Area => /\ CompactList(frame, list[n], size[n]) \/ WrongSize(n)
                      /\ list[n] = <<>> => size[n] = 0 /\ n \in vacant
    BY <1>0, <1>2, NeighboursCompact DEF Inv, CellOK
  <2>4. list[n] \in Seq(Frames)
    BY <1>1
  <2>5. list[n] # <<>> => Last(n) = list[n][Len(list[n])] /\ Last(n) \in Frames
    BY <1>2, <2>4, ElemsFacts DEF Last
  <2>6. list[n] # <<>> => Len(list[n]) \in 1 .. Len(list[n]) /\ Len(list[n]) \in Nat
    BY <2>4, ElemsFacts
  <2>7. \A s \in Slots : s < TileSize
    BY DEF Slots
  <2>8. ASSUME room(d)
        PROVE  /\ n \in Area /\ Last(n) = list[n][Len(list[n])] /\ Last(n) \in Frames
               /\ list[n] # <<>> /\ ButLastFull(frame, list[n])
               /\ \/ FilledTo(frame, Last(n), size[n])
                  \/ FullFrame(frame, Last(n)) /\ (n \in spoiled \/ Unsized(n))
    <3>1. n \in Area /\ list[n] # <<>> /\ Last(n) = list[n][Len(list[n])] /\ Last(n) \in Frames
      BY <1>2, <2>2, <2>5, <2>8
    <3>2. CASE CompactList(frame, list[n], size[n])
      BY <3>1, <3>2 DEF CompactList
    <3>3. CASE WrongSize(n)
      <4>1. \A k \in 1 .. Len(list[n]) - 1 : k \in 1 .. Len(list[n])
        BY <2>6, <3>1
      <4>2. ButLastFull(frame, list[n]) /\ FullFrame(frame, Last(n))
        BY <2>6, <3>1, <3>3, <4>1 DEF WrongSize, AllFull, ButLastFull
      <4>3. n \in spoiled \/ Unsized(n)
        BY <3>1, <3>3, <4>2 DEF WrongSize, Unsized, FullFrame
      <4> QED
        BY <3>1, <4>2, <4>3
    <3> QED
      BY <2>3, <3>1, <3>2, <3>3
  <2>9. ASSUME ~room(d), n \in Area
        PROVE  AllFull(frame, list[n]) /\ (size[n] = TileSize \/ (size[n] = 0 /\ n \in vacant))
    <3>0. list[n] = <<>> \/ size[n] = TileSize
      BY <1>2, <2>9
    <3>1. CASE list[n] = <<>>
      <4>1. \A k \in 1 .. Len(list[n]) : FALSE
        BY <3>1
      <4> QED
        BY <2>3, <2>9, <3>1, <4>1 DEF AllFull
    <3>2. CASE list[n] # <<>> /\ size[n] = TileSize
      <4>1. CASE WrongSize(n)
        BY <3>2, <4>1 DEF WrongSize
      <4>2. CASE CompactList(frame, list[n], size[n])
        <5>1. FullFrame(frame, list[n][Len(list[n])])
          BY <2>7, <3>2, <4>2 DEF CompactList, FilledTo, FullFrame
        <5>2. \A k \in 1 .. Len(list[n]) : k \in 1 .. Len(list[n]) - 1 \/ k = Len(list[n])
          BY <2>6, <3>2
        <5>3. AllFull(frame, list[n])
          BY <4>2, <5>1, <5>2 DEF CompactList, ButLastFull, AllFull
        <5> QED
          BY <3>2, <5>3
      <4> QED
        BY <2>3, <2>9, <4>1, <4>2
    <3> QED
      BY <3>0, <3>1, <3>2
  <2>10. ASSUME Unsized(n) PROVE n \in vacant
    <3>1. /\ list[n] # <<>> /\ size[n] = 0
          /\ \A s \in Slots : frame[Last(n)][s].mask # 0
      BY <2>10 DEF Unsized
    <3>2. n \in Area
      BY <1>2, <2>1, <3>1 DEF Inv, GuardsOK
    <3>3. ASSUME CompactList(frame, list[n], size[n]) PROVE FALSE
      <4>1. 0 \in Slots /\ ~(0 < 0)
        BY DEF Slots
      <4> QED
        BY <2>5, <3>1, <3>3, <4>1 DEF CompactList, FilledTo
    <3> QED
      BY <2>3, <3>2, <3>3 DEF WrongSize
  <2> QED
    BY <2>8, <2>9, <2>10
<1>3. \A d \in Directions : Neighbour(c, d) \in Cells
  BY <1>1
<1>4. /\ \A d \in Directions : x.dest[d] = IF room(d) THEN Last(Neighbour(c, d)) ELSE Null
      /\ \A d \in Directions : x.count[d] = IF room(d) THEN size[Neighbour(c, d)] ELSE 0
      /\ \A d \in Directions : x.neighbour[d] = room(d)
      /\ x.cur = list[c][1]
  OBVIOUS
<1>5. list[c] # <<>> => x \in Locals
  <2> SUFFICES ASSUME list[c] # <<>> PROVE x \in Locals
    OBVIOUS
  <2>1. list[c][1] \in Frames
    BY <1>1, ElemsFacts
  <2>2. \A d \in Directions : x.dest[d] \in Frames \cup {Null}
    BY <1>2, <1>3, <1>4
  <2>3. \A d \in Directions : x.count[d] \in 0 .. TileSize
    <3>1. ASSUME NEW d \in Directions PROVE x.count[d] = 0 \/ x.count[d] = size[Neighbour(c, d)]
      BY <1>4
    <3>2. \A d \in Directions : size[Neighbour(c, d)] \in 0 .. TileSize
      BY <1>1, <1>3
    <3>3. 0 \in 0 .. TileSize
      OBVIOUS
    <3> QED
      BY <3>1, <3>2, <3>3
  <2>4. \A d \in Directions : x.neighbour[d] \in BOOLEAN
    BY <1>4
  <2> HIDE DEF room
  <2>5. /\ x.dest \in [Directions -> Frames \cup {Null}]
        /\ x.count \in [Directions -> 0 .. TileSize]
        /\ x.neighbour \in [Directions -> BOOLEAN]
    BY <2>2, <2>3, <2>4
  <2> QED
    BY <2>1, <2>5 DEF Locals
<1> HIDE DEF x
<1>6. /\ \A b \in Cells : b # c => pc'[b] = pc[b] /\ local'[b] = local[b] /\ mustShift'[b] = mustShift[b]
      /\ \/ mustShift[c] /\ pc'[c] = "loop" /\ local'[c] = x
         \/ ~mustShift[c] /\ pc'[c] = "done" /\ local'[c] = NoLocal
      /\ \A b \in Cells : ~mustShift[b] => ~mustShift'[b]
      /\ spoiled \subseteq spoiled'
  BY <1>0, <1>1
<1>7. Types'
  <2>1. /\ pc' \in [Cells -> {"start", "loop", "end", "done"}]
        /\ mustShift' \in [Cells -> BOOLEAN] /\ local' \in [Cells -> Locals]
    <3>1. mustShift' = [mustShift EXCEPT ![c] = FALSE]
      BY <1>0
    <3>2. \/ pc' = [pc EXCEPT ![c] = "loop"] /\ local' = [local EXCEPT ![c] = x] /\ x \in Locals
          \/ pc' = [pc EXCEPT ![c] = "done"] /\ local' = local
      BY <1>0, <1>5
    <3> QED
      BY <1>1, <3>1, <3>2
  <2>2. \A d \in Directions : Unsized(Neighbour(c, d)) => Neighbour(c, d) \in vacant
    BY <1>2, <1>3
  <2>3. spoiled \subseteq vacant /\ vacant \subseteq Area
    BY <1>1 DEF Types
  <2>4. spoiled' \subseteq vacant
    <3>1. ASSUME NEW n \in spoiled' PROVE n \in vacant
      <4>1. n \in spoiled \/ \E d \in Directions : n = Neighbour(c, d) /\ Unsized(n)
        BY <1>0, <3>1
      <4> QED
        BY <2>2, <2>3, <4>1
    <3> QED
      BY <3>1
  <2> QED
    BY <1>0, <1>1, <2>1, <2>3, <2>4 DEF Types
<1>8. HeapOK' /\ ParticlesOK' /\ GoalsOK'
  <2>1. SamePrivate
    <3>1. \A d \in Directions : ~Private(c, d)
      BY <1>1, NoPrivate
    <3>2. \A d \in Directions : ~Private(c, d)'
      BY <1>4, <1>6, <1>1 DEF Private, NoLocal
    <3> QED
      BY <1>6, <3>1, <3>2 DEF SamePrivate, Private
  <2> QED
    BY <1>0, <1>6, <2>1, QuietStep DEF Inv
<1>9. ASSUME NEW b \in Cells PROVE LeaversOK(b)'
  <2>1. CASE b = c
    <3>1. ~mustShift[c] => \A f \in Elems(list[c]) : Calm(frame, f)
      BY <1>0, <1>1 DEF Inv, LeaversOK, Shifting
    <3> QED
      BY <1>0, <1>6, <2>1, <3>1 DEF LeaversOK, Shifting
  <2>2. CASE b # c
    <3>1. Pending(b)' <=> Pending(b)
      BY <1>0, <1>6, <2>2 DEF Pending, Rank
    <3> QED
      BY <1>0, <1>6, <2>2, <3>1 DEF Inv, LeaversOK, Shifting
  <2> QED
    BY <2>1, <2>2
<1>10. ASSUME NEW b \in Cells PROVE BlockOK(b)'
  <2>0. Launched' = Launched /\ c \in Launched
    BY <1>0 DEF Launched, Blocks
  <2>1. CASE b = c
    <3>1. pc'[c] = "loop" => list[c] # <<>> /\ local'[c] = x
      BY <1>0, <1>6 DEF Inv, CellOK
    <3>2. list[c] # <<>> => 1 \in 1 .. Len(list[c])
      BY <1>1, ElemsFacts
    <3>3. \A k \in 1 .. 1 - 1 : FALSE
      OBVIOUS
    <3> QED
      BY <1>0, <1>4, <1>6, <2>0, <2>1, <3>1, <3>2, <3>3 DEF BlockOK
  <2>2. CASE b # c
    <3>1. BlockOK(b)
      BY DEF Inv
    <3> QED
      BY <1>0, <1>6, <2>0, <2>2, <3>1 DEF BlockOK, Calm
  <2> QED
    BY <2>1, <2>2
<1>11. ASSUME NEW b \in Area, NEW d \in Directions PROVE DestinationOK(b, d)'
  <2>1. CASE b = c
    <3> SUFFICES ASSUME Shifting(c)' PROVE DestinationOK(c, d)'
      BY <2>1 DEF DestinationOK
    <3>1. local'[c] = x
      BY <1>6 DEF Shifting
    <3>2. PICK n \in Cells : n = Neighbour(c, d)
      BY <1>3
    <3>3. size[n] <= size[n]
      BY <1>1
    <3>4. CASE room(d)
      <4>1. /\ n \in Area /\ Last(n) = list[n][Len(list[n])] /\ Last(n) \in Frames
            /\ list[n] # <<>> /\ ButLastFull(frame, list[n])
            /\ \/ FilledTo(frame, Last(n), size[n])
               \/ FullFrame(frame, Last(n)) /\ (n \in spoiled \/ Unsized(n))
        BY <1>2, <3>2, <3>4
      <4>2. x.dest[d] = Last(n) /\ x.count[d] = size[n] /\ x.neighbour[d]
        BY <1>4, <3>2, <3>4
      <4>3. x.dest[d] # Null
        BY <4>1, <4>2
      <4>4. pc'[c] # "done"
        BY DEF Shifting
      <4>5. n \in spoiled \/ Unsized(n) => n \in spoiled'
        BY <1>0, <1>1, <3>2, <4>4
      <4> HIDE DEF room
      <4>6. ButLastFull(frame, list[n])' /\ list'[n] # <<>>
        BY <1>0, <4>1 DEF ButLastFull, FullFrame
      <4>7. \/ FilledTo(frame', Last(n), size[n])
            \/ FullFrame(frame', Last(n)) /\ n \in spoiled'
        BY <1>0, <4>1, <4>5
      <4> QED
        BY <1>0, <3>1, <3>2, <3>3, <4>1, <4>2, <4>3, <4>6, <4>7 DEF DestinationOK, Private
    <3>5. CASE ~room(d)
      <4>1. n \in Area =>
              AllFull(frame, list[n]) /\ (size[n] = TileSize \/ (size[n] = 0 /\ n \in vacant))
        BY <1>2, <3>2, <3>5
      <4>2. x.dest[d] = Null /\ x.count[d] = 0 /\ ~x.neighbour[d]
        BY <1>4, <3>2, <3>5
      <4> HIDE DEF room
      <4> QED
        BY <1>0, <3>1, <3>2, <4>1, <4>2 DEF DestinationOK, Private, AllFull, FullFrame
    <3> QED
      BY <3>4, <3>5
  <2>2. CASE b # c
    <3>1. DestinationOK(b, d) /\ b \in Cells
      BY DEF Inv
    <3>2. local'[b] = local[b] /\ (Shifting(b)' <=> Shifting(b))
      BY <1>0, <1>6, <2>2, <3>1 DEF Shifting
    <3> QED
      BY <1>0, <1>6, <3>1, <3>2 DEF DestinationOK, Private, FilledTo, AllFull, FullFrame, ButLastFull
  <2> QED
    BY <2>1, <2>2
<1>12. ASSUME NEW m \in Area PROVE CellOK(m)'
  <2>1. CellOK(m) /\ Blocks' = Blocks
    BY <1>0 DEF Inv, Blocks
  <2>2. CompactDue(m)' => CompactDue(m)
    <3> SUFFICES ASSUME CompactDue(m)' PROVE CompactDue(m)
      OBVIOUS
    <3>1. m \in Blocks => pc'[m] = "start"
      BY <1>0, <2>1 DEF CompactDue
    <3>2. m \in Blocks => pc[m] = "start"
      BY <1>6, <3>1
    <3>3. ASSUME NEW b \in Area, NEW d \in Directions, Neighbour(b, d) = m PROVE ~Shifting(b)
      <4>1. ~Shifting(b)'
        BY <1>0, <3>3 DEF CompactDue
      <4> QED
        BY <1>0, <1>6, <4>1 DEF Shifting
    <3> QED
      BY <1>0, <3>2, <3>3 DEF CompactDue
  <2> QED
    BY <1>0, <1>6, <2>1, <2>2
    DEF CellOK, CompactList, GapsDone, ButLastFull, FullFrame, FilledTo, WrongSize, AllFull
<1>13. GuardsOK'
  <2>1. \A m \in Area : Pending(m)' => Pending(m)
    BY <1>0, <1>6 DEF Pending, Rank
  <2> QED
    BY <1>0, <2>1 DEF Inv, GuardsOK
<1> QED
  BY <1>7, <1>8, <1>9, <1>10, <1>11, <1>12, <1>13 DEF Inv

(* What a pass of the loop starts from: the destination of a direction is   *)
(* the last frame of the neighbour, or is private, or comes from the heap.  *)
PassOwn(c) ==
  /\ local[c].cur \in Elems(list[c]) /\ local[c].cur \in Frames
  /\ \A d \in Directions :
       local[c].neighbour[d] =>
         /\ Neighbour(c, d) \in Area /\ Dest1(c)[d] = local[c].dest[d] /\ d \notin New1(c)
         /\ Dest1(c)[d] \in Elems(list[Neighbour(c, d)])
  /\ \A d \in Directions :
       Total(c, d) > 0 /\ ~local[c].neighbour[d] =>
         \/ d \in New1(c) /\ Dest1(c)[d] \in Frames \ used
         \/ d \notin New1(c) /\ Dest1(c)[d] = local[c].dest[d] /\ Private(c, d)
  /\ \A d \in Directions :
       Private(c, d) => Total(c, d) > 0 /\ d \notin New1(c) /\ Dest1(c)[d] = local[c].dest[d]
  /\ \A d \in New2(c) : Dest2(c)[d] \in Frames \ used
  /\ \A d \in New1(c) : Dest1(c)[d] \in Allocated(Calls(c))
  /\ \A d \in New2(c) : Dest2(c)[d] \in Allocated(Calls(c))
  /\ Allocated(Calls(c)) \subseteq Frames \ used

LEMMA UsedFacts ==
  ASSUME Inv
  PROVE  /\ \A m \in Cells : \A f \in Elems(list[m]) : f \in Frames /\ f \in used
         /\ \A b \in Cells, d \in Directions :
              Private(b, d) => local[b].dest[d] \in Frames /\ local[b].dest[d] \in used
<1>1. \A m \in Cells : list[m] \in Seq(Frames)
  BY DEF Inv, Types
<1>2. ASSUME NEW m \in Cells, NEW f \in Elems(list[m]) PROVE f \in Frames /\ f \in used
  <2>1. f \in Frames
    BY <1>1, ElemsFacts
  <2> QED
    BY <2>1 DEF Inv, HeapOK
<1>3. ASSUME NEW b \in Cells, NEW d \in Directions, Private(b, d)
      PROVE  local[b].dest[d] \in Frames /\ local[b].dest[d] \in used
  <2>1. local[b] \in Locals
    BY DEF Inv, Types
  <2>2. local[b].dest[d] \in Frames \cup {Null}
    BY <2>1 DEF Locals
  <2>3. local[b].dest[d] \in Frames
    BY <1>3, <2>2 DEF Private
  <2> QED
    BY <1>3, <2>3 DEF Inv, HeapOK
<1> QED
  BY <1>2, <1>3

(* A frame without particles.                                               *)
LEMMA EmptyIsFilledTo ==
  ASSUME Inv, NEW f \in Frames \ used
  PROVE  FilledTo(frame, f, 0)
<1>1. \A s \in Slots : ~(s < 0)
  BY DEF Slots
<1> QED
  BY <1>1 DEF Inv, HeapOK, FilledTo

LEMMA PassFacts ==
  ASSUME Inv, Stride >= 3, NEW c \in Area, At(c, "shift", "loop"),
         Cardinality(Frames \ used) >= Calls(c) * MaxTries
  PROVE  PassOwn(c) /\ DestReady(c)
<1> USE Consts
<1>0. /\ c \in Cells /\ c \in Blocks /\ kernel = "shift" /\ pc[c] = "loop" /\ Shifting(c)
      /\ frame \in FrameType
  BY DEF At, Launched, Shifting, Inv, Types, FrameType
<1>1. local[c].cur \in Elems(list[c])
  <2>1. PICK i \in 1 .. Len(list[c]) : local[c].cur = list[c][i]
    BY <1>0 DEF Inv, BlockOK
  <2>2. list[c] \in Seq(Frames)
    BY <1>0 DEF Inv, Types
  <2> QED
    BY <2>1, <2>2, ElemsFacts
<1>2. local[c].cur \in Frames /\ local[c].cur \in used
  BY <1>0, <1>1, UsedFacts
<1>3. \A d \in Directions : /\ local[c].count[d] \in 0 .. TileSize
                            /\ local[c].dest[d] \in Frames \cup {Null}
                            /\ local[c].neighbour[d] \in BOOLEAN
  BY <1>0 DEF Inv, Types, Locals
<1>4. \A d \in Directions : Total(c, d) \in Nat /\ Total(c, d) >= local[c].count[d]
  BY <1>0, <1>2, <1>3, TotalFacts
<1>5. \A d \in Directions :
        /\ d \in New1(c) <=> Total(c, d) > 0 /\ local[c].dest[d] = Null
        /\ d \notin New1(c) => Dest1(c)[d] = local[c].dest[d]
  BY DEF New1, Dest1
<1>6. \A d \in Directions :
        /\ local[c].dest[d] = Null => local[c].count[d] = 0 /\ ~local[c].neighbour[d]
        /\ local[c].dest[d] # Null =>
             \/ FilledTo(frame, local[c].dest[d], local[c].count[d])
             \/ /\ local[c].neighbour[d] /\ Neighbour(c, d) \in spoiled
                /\ FullFrame(frame, local[c].dest[d])
        /\ Private(c, d) => local[c].count[d] > 0
        /\ local[c].neighbour[d] => /\ Neighbour(c, d) \in Area /\ list[Neighbour(c, d)] # <<>>
                                    /\ local[c].dest[d] = list[Neighbour(c, d)][Len(list[Neighbour(c, d)])]
  BY <1>0 DEF Inv, DestinationOK
<1>7. ASSUME NEW d \in Directions, local[c].neighbour[d]
      PROVE  /\ Neighbour(c, d) \in Area /\ Dest1(c)[d] = local[c].dest[d] /\ d \notin New1(c)
             /\ Dest1(c)[d] \in Elems(list[Neighbour(c, d)])
             /\ local[c].dest[d] # Null
  <2>1. PICK n \in Cells : n = Neighbour(c, d)
    BY <1>0
  <2>2. n \in Area /\ local[c].dest[d] = list[n][Len(list[n])] /\ list[n] # <<>>
    BY <1>6, <1>7, <2>1
  <2>3. list[n] \in Seq(Frames)
    BY <2>2 DEF Inv, Types
  <2>4. local[c].dest[d] \in Elems(list[n]) /\ local[c].dest[d] \in Frames
    BY <2>2, <2>3, ElemsFacts
  <2> QED
    BY <1>5, <2>1, <2>2, <2>4
<1>8. /\ \A d \in New1(c) : Dest1(c)[d] \in Frames \ used
      /\ \A d \in New2(c) : Dest2(c)[d] \in Frames \ used
      /\ \A d, e \in New1(c) : Dest1(c)[d] = Dest1(c)[e] => d = e
      /\ \A d, e \in New2(c) : Dest2(c)[d] = Dest2(c)[e] => d = e
      /\ \A d \in New1(c), e \in New2(c) : Dest1(c)[d] # Dest2(c)[e]
      /\ \A d \in New1(c) : Dest1(c)[d] \in Allocated(Calls(c))
      /\ \A d \in New2(c) : Dest2(c)[d] \in Allocated(Calls(c))
      /\ Allocated(Calls(c)) \subseteq Frames \ used
  <2>1. Allocated(Calls(c)) \subseteq Frames \ used
    BY DEF Allocated
  <2> QED
    BY <2>1, NewFrames
<1>9. ASSUME NEW d \in Directions, Total(c, d) > 0, ~local[c].neighbour[d]
      PROVE  \/ d \in New1(c) /\ Dest1(c)[d] \in Frames \ used
             \/ d \notin New1(c) /\ Dest1(c)[d] = local[c].dest[d] /\ Private(c, d)
  BY <1>5, <1>8, <1>9 DEF Private
<1>10. ASSUME NEW d \in Directions, Private(c, d)
       PROVE  Total(c, d) > 0 /\ d \notin New1(c) /\ Dest1(c)[d] = local[c].dest[d]
  <2>1. local[c].count[d] > 0 /\ local[c].dest[d] # Null
    BY <1>6, <1>10 DEF Private
  <2>2. local[c].count[d] \in Nat
    BY <1>3
  <2> QED
    BY <1>4, <1>5, <2>1, <2>2
<1>11. PassOwn(c)
  BY <1>1, <1>2, <1>7, <1>8, <1>9, <1>10 DEF PassOwn
<1>12. \A d \in Directions : Total(c, d) > 0 /\ d \notin New1(c) =>
         /\ Dest1(c)[d] \in used /\ Dest1(c)[d] # local[c].cur
         /\ local[c].dest[d] # Null /\ Dest1(c)[d] = local[c].dest[d]
  <2> SUFFICES ASSUME NEW d \in Directions, Total(c, d) > 0, d \notin New1(c)
               PROVE  /\ Dest1(c)[d] \in used /\ Dest1(c)[d] # local[c].cur
                      /\ local[c].dest[d] # Null /\ Dest1(c)[d] = local[c].dest[d]
    OBVIOUS
  <2>1. CASE local[c].neighbour[d]
    <3>1. PICK n \in Cells : n = Neighbour(c, d) /\ n # c
      BY <1>0
    <3>2. Dest1(c)[d] \in Elems(list[n])
      BY <1>7, <2>1, <3>1
    <3>3. Dest1(c)[d] \in used
      BY <3>1, <3>2, UsedFacts
    <3>4. Elems(list[n]) \cap Elems(list[c]) = {}
      <4>1. \A a, b \in Cells : a # b => Elems(list[a]) \cap Elems(list[b]) = {}
        BY DEF Inv, HeapOK
      <4> QED
        BY <1>0, <3>1, <4>1
    <3>5. Dest1(c)[d] # local[c].cur
      BY <1>1, <3>2, <3>4
    <3> QED
      BY <1>5, <1>7, <2>1, <3>3, <3>5
  <2>2. CASE ~local[c].neighbour[d]
    <3>1. Private(c, d) /\ Dest1(c)[d] = local[c].dest[d]
      BY <1>9, <2>2
    <3>2. Dest1(c)[d] \in used
      BY <1>0, <3>1, UsedFacts
    <3>3. local[c].dest[d] \notin Elems(list[c])
      <4>1. \A a, b \in Cells, e \in Directions : Private(a, e) => local[a].dest[e] \notin Elems(list[b])
        BY DEF Inv, HeapOK
      <4> QED
        BY <1>0, <3>1, <4>1
    <3> QED
      BY <1>1, <3>1, <3>2, <3>3 DEF Private
  <2> QED
    BY <2>1, <2>2
<1>13. ASSUME NEW d \in Directions, Total(c, d) > 0
       PROVE  /\ Dest1(c)[d] \in Frames \ {local[c].cur}
              /\ \/ FilledTo(frame, Dest1(c)[d], local[c].count[d])
                 \/ /\ local[c].neighbour[d] /\ Neighbour(c, d) \in spoiled
                    /\ FullFrame(frame, Dest1(c)[d])
  <2>1. CASE d \in New1(c)
    <3>1. Dest1(c)[d] \in Frames \ used /\ local[c].count[d] = 0
      BY <1>5, <1>6, <1>8, <2>1
    <3> QED
      BY <1>2, <3>1, EmptyIsFilledTo
  <2>2. CASE d \notin New1(c)
    BY <1>3, <1>6, <1>12, <1>13, <2>2
  <2> QED
    BY <2>1, <2>2
<1>14. ASSUME NEW d \in New2(c)
       PROVE  Dest2(c)[d] \in Frames \ {local[c].cur} /\ FilledTo(frame, Dest2(c)[d], 0)
  BY <1>2, <1>8, EmptyIsFilledTo
<1>15. ASSUME NEW d \in Directions, NEW e \in Directions, Total(c, d) > 0, Total(c, e) > 0,
              Dest1(c)[d] = Dest1(c)[e], d # e
       PROVE  FALSE
  <2>1. CASE d \in New1(c) \/ e \in New1(c)
    BY <1>8, <1>12, <1>15, <2>1
  <2>2. CASE d \notin New1(c) /\ e \notin New1(c)
    <3>1. Dest1(c)[d] = local[c].dest[d] /\ Dest1(c)[e] = local[c].dest[e]
      BY <1>5, <2>2
    <3>2. /\ local[c].neighbour[d] \/ Private(c, d)
          /\ local[c].neighbour[e] \/ Private(c, e)
      BY <1>9, <1>15, <2>2
    <3>3. /\ Neighbour(c, d) \in Cells /\ Neighbour(c, e) \in Cells
          /\ Neighbour(c, d) # Neighbour(c, e)
      BY <1>0, <1>15, OwnNeighbours
    <3>4. /\ local[c].neighbour[d] => Dest1(c)[d] \in Elems(list[Neighbour(c, d)])
          /\ local[c].neighbour[e] => Dest1(c)[e] \in Elems(list[Neighbour(c, e)])
      BY <1>7
    <3>5. /\ \A m, n \in Cells : m # n => Elems(list[m]) \cap Elems(list[n]) = {}
          /\ \A m \in Cells : \A x \in Directions : Private(c, x) => local[c].dest[x] \notin Elems(list[m])
          /\ Private(c, d) /\ Private(c, e) /\ local[c].dest[d] = local[c].dest[e] => d = e
      <4>1. HeapOK
        BY DEF Inv
      <4>2. \A m, n \in Cells : m # n => Elems(list[m]) \cap Elems(list[n]) = {}
        BY <4>1 DEF HeapOK
      <4>3. \A m \in Cells : \A x \in Directions : Private(c, x) => local[c].dest[x] \notin Elems(list[m])
        BY <1>0, <4>1 DEF HeapOK
      <4>4. Private(c, d) /\ Private(c, e) /\ local[c].dest[d] = local[c].dest[e] => d = e
        BY <1>0, <4>1 DEF HeapOK
      <4> QED
        BY <4>2, <4>3, <4>4
    <3>10. local[c].dest[d] = local[c].dest[e]
      BY <1>15, <3>1
    <3>6. CASE local[c].neighbour[d] /\ local[c].neighbour[e]
      BY <1>15, <3>3, <3>4, <3>5, <3>6
    <3>7. CASE local[c].neighbour[d] /\ Private(c, e)
      BY <1>15, <3>1, <3>3, <3>4, <3>5, <3>7
    <3>8. CASE Private(c, d) /\ local[c].neighbour[e]
      BY <1>15, <3>1, <3>3, <3>4, <3>5, <3>8
    <3>9. CASE Private(c, d) /\ Private(c, e)
      BY <1>15, <3>5, <3>9, <3>10
    <3> QED
      BY <3>2, <3>6, <3>7, <3>8, <3>9
  <2> QED
    BY <2>1, <2>2
<1>16. ASSUME NEW d \in Directions, NEW e \in New2(c), Total(c, d) > 0 PROVE Dest1(c)[d] # Dest2(c)[e]
  BY <1>8, <1>12, <1>16
<1>17. DestReady(c)
  BY <1>2, <1>3, <1>8, <1>13, <1>14, <1>15, <1>16 DEF DestReady
<1> QED
  BY <1>11, <1>17

(* A pass of the loop, as the proofs below use it.                          *)
Pass(c) ==
  /\ kernel = "shift" /\ c \in Blocks /\ pc[c] = "loop"
  /\ kernel' = kernel /\ offset' = offset /\ mustShift' = mustShift /\ goal' = goal
  /\ vacant' = vacant /\ spoiled' = spoiled
  /\ frame' \in FrameType
  /\ \E tf, ts, pl :
       /\ PlacesOf(c, pl)
       /\ Goes(c, tf, ts, pl)
       /\ Transfer(frame, frame', local[c].cur, Leaving(c), tf, ts)
       /\ WritesOver(c, tf, ts)
  /\ used' = used \cup Allocated(Calls(c))
  /\ lost' = lost \cup (Allocated(Calls(c)) \ Returned(c))
  /\ \A m \in Cells : (\A d \in Directions : Neighbour(c, d) # m) =>
       list'[m] = list[m] /\ size'[m] = size[m]
  /\ \A d \in Directions :
       /\ list'[Neighbour(c, d)] = IF d \in Hung(c) THEN <<Dest1(c)[d]>> \o list[Neighbour(c, d)]
                                   ELSE list[Neighbour(c, d)]
       /\ size'[Neighbour(c, d)] = IF d \in Full(c) \ Hung(c) THEN TileSize
                                   ELSE size[Neighbour(c, d)]
  /\ \A b \in Cells : b # c => pc'[b] = pc[b] /\ local'[b] = local[b]
  /\ \E i \in 1 .. Len(list[c]) :
       /\ local[c].cur = list[c][i]
       /\ \A k \in 1 .. i - 1 : Calm(frame, list[c][k])
       /\ IF i < Len(list[c]) THEN pc'[c] = "loop" /\ local'[c].cur = list[c][i + 1]
          ELSE pc'[c] = "end" /\ local'[c].cur = Null
  /\ local'[c].last = Null
  /\ \A d \in Directions :
       /\ local'[c].dest[d] = Dest2(c)[d]
       /\ local'[c].count[d] = RestCount(Total(c, d), d \in Full(c))
       /\ local'[c].neighbour[d] = (local[c].neighbour[d] /\ d \notin Full(c))

LEMMA PassStep ==
  ASSUME Inv, Stride >= 3, NEW c \in Area, ShiftFrame(c)
  PROVE  Pass(c) /\ PassOwn(c) /\ DestReady(c)
<1> USE Consts
<1> DEFINE next == NextFrame(c, local[c].cur)
<1>0. /\ At(c, "shift", "loop")
      /\ Cardinality(Frames \ used) >= Calls(c) * MaxTries
      /\ c \in Cells /\ c \in Blocks /\ kernel = "shift" /\ pc[c] = "loop"
      /\ kernel' = kernel /\ offset' = offset /\ mustShift' = mustShift /\ goal' = goal
      /\ vacant' = vacant /\ spoiled' = spoiled
      /\ used' = used \cup Allocated(Calls(c))
      /\ lost' = lost \cup (Allocated(Calls(c)) \ Returned(c))
  BY DEF ShiftFrame, At, Launched
<1>1. PassOwn(c) /\ DestReady(c)
  BY <1>0, PassFacts
<1>2. /\ frame \in FrameType /\ list \in [Cells -> Seq(Frames)] /\ local \in [Cells -> Locals]
      /\ pc \in [Cells -> {"start", "loop", "end", "done"}] /\ Distinct(list[c])
  BY <1>0 DEF Inv, Types, FrameType, HeapOK
<1>3. PICK order \in Orders(Leaving(c)) : frame' = Flushed(c, order)
  BY DEF ShiftFrame
<1>4. /\ frame' \in FrameType
      /\ \E tf, ts, pl :
           /\ PlacesOf(c, pl)
           /\ Goes(c, tf, ts, pl)
           /\ Transfer(frame, frame', local[c].cur, Leaving(c), tf, ts)
           /\ WritesOver(c, tf, ts)
  <2>1. PICK new : new = Flushed(c, order)
    OBVIOUS
  <2>2. /\ new \in FrameType
        /\ \E tf, ts, pl :
             /\ PlacesOf(c, pl)
             /\ Goes(c, tf, ts, pl)
             /\ Transfer(frame, new, local[c].cur, Leaving(c), tf, ts)
             /\ WritesOver(c, tf, ts)
    BY <1>1, <1>2, <2>1, FlushTransfer
  <2>3. frame' = new
    BY <1>3, <2>1
  <2> QED
    BY <2>2, <2>3, Zenon
<1>5. \A d, e \in Directions : Neighbour(c, d) = Neighbour(c, e) => d = e
  BY <1>0, OwnNeighbours
<1>6. \A m \in Cells :
        /\ list'[m] = IF \E d \in Hung(c) : Neighbour(c, d) = m
                      THEN <<Dest1(c)[CHOOSE d \in Hung(c) : Neighbour(c, d) = m]>> \o list[m] ELSE list[m]
        /\ size'[m] = IF \E d \in Full(c) \ Hung(c) : Neighbour(c, d) = m THEN TileSize ELSE size[m]
  BY DEF ShiftFrame
<1>7. Hung(c) \subseteq Directions /\ Full(c) \subseteq Directions
  BY DEF Hung, Full
<1>8. ASSUME NEW m \in Cells, \A d \in Directions : Neighbour(c, d) # m
      PROVE  list'[m] = list[m] /\ size'[m] = size[m]
  BY <1>6, <1>7, <1>8
<1>9. ASSUME NEW d \in Directions
      PROVE  /\ list'[Neighbour(c, d)] = IF d \in Hung(c) THEN <<Dest1(c)[d]>> \o list[Neighbour(c, d)]
                                         ELSE list[Neighbour(c, d)]
             /\ size'[Neighbour(c, d)] = IF d \in Full(c) \ Hung(c) THEN TileSize
                                         ELSE size[Neighbour(c, d)]
  <2>1. PICK m \in Cells : m = Neighbour(c, d)
    OBVIOUS
  <2>2. \A e \in Directions : Neighbour(c, e) = m <=> e = d
    BY <1>5, <2>1
  <2>3. (\E e \in Hung(c) : Neighbour(c, e) = m) <=> d \in Hung(c)
    BY <1>7, <2>2
  <2>4. (\E e \in Full(c) \ Hung(c) : Neighbour(c, e) = m) <=> d \in Full(c) \ Hung(c)
    BY <1>7, <2>2
  <2>5. d \in Hung(c) => (CHOOSE e \in Hung(c) : Neighbour(c, e) = m) = d
    BY <1>7, <2>2
  <2>6. /\ list'[m] = IF d \in Hung(c) THEN <<Dest1(c)[d]>> \o list[m] ELSE list[m]
        /\ size'[m] = IF d \in Full(c) \ Hung(c) THEN TileSize ELSE size[m]
    BY <1>6, <2>3, <2>4, <2>5
  <2> QED
    BY <2>1, <2>6
<1>10. PICK i \in 1 .. Len(list[c]) :
         local[c].cur = list[c][i] /\ \A k \in 1 .. i - 1 : Calm(frame, list[c][k])
  BY <1>0 DEF Inv, BlockOK
<1>11. list[c] \in Seq(Frames) /\ Len(list[c]) \in Nat /\ \A k \in 1 .. Len(list[c]) : list[c][k] \in Frames
  BY <1>0, <1>2, ElemsFacts
<1>12. next = IF i < Len(list[c]) THEN list[c][i + 1] ELSE Null
  BY <1>2, <1>10, <1>11, NextOf
<1>13. next = Null <=> ~(i < Len(list[c]))
  <2>1. i < Len(list[c]) => i + 1 \in 1 .. Len(list[c])
    BY <1>11
  <2>2. i < Len(list[c]) => list[c][i + 1] \in Frames
    BY <1>11, <2>1
  <2> QED
    BY <1>12, <2>2
<1>14. /\ pc' = [pc EXCEPT ![c] = IF next = Null THEN "end" ELSE "loop"]
       /\ local' = [local EXCEPT ![c] =
            [cur |-> next, last |-> Null, dest |-> Dest2(c),
             count |-> [d \in Directions |-> RestCount(Total(c, d), d \in Full(c))],
             neighbour |-> [d \in Directions |-> local[c].neighbour[d] /\ d \notin Full(c)]]]
  BY DEF ShiftFrame
<1> HIDE DEF next
<1>15. /\ \A b \in Cells : b # c => pc'[b] = pc[b] /\ local'[b] = local[b]
       /\ pc'[c] = IF next = Null THEN "end" ELSE "loop"
       /\ local'[c] = [cur |-> next, last |-> Null, dest |-> Dest2(c),
             count |-> [d \in Directions |-> RestCount(Total(c, d), d \in Full(c))],
             neighbour |-> [d \in Directions |-> local[c].neighbour[d] /\ d \notin Full(c)]]
  BY <1>0, <1>2, <1>14
<1>16. /\ local'[c].cur = next /\ local'[c].last = Null
       /\ \A d \in Directions :
            /\ local'[c].dest[d] = Dest2(c)[d]
            /\ local'[c].count[d] = RestCount(Total(c, d), d \in Full(c))
            /\ local'[c].neighbour[d] = (local[c].neighbour[d] /\ d \notin Full(c))
  BY <1>15
<1>17. \E k \in 1 .. Len(list[c]) :
         /\ local[c].cur = list[c][k]
         /\ \A j \in 1 .. k - 1 : Calm(frame, list[c][j])
         /\ IF k < Len(list[c]) THEN pc'[c] = "loop" /\ local'[c].cur = list[c][k + 1]
            ELSE pc'[c] = "end" /\ local'[c].cur = Null
  BY <1>10, <1>12, <1>13, <1>15, <1>16
<1>18. Pass(c)
  BY <1>0, <1>4, <1>8, <1>9, <1>15, <1>16, <1>17 DEF Pass
<1> QED
  BY <1>1, <1>18

(* The frames a pass fills that are in no list.                             *)
Loose(c, f, d) ==
  \/ Total(c, d) > 0 /\ ~local[c].neighbour[d] /\ f = Dest1(c)[d]
  \/ d \in New2(c) /\ f = Dest2(c)[d]

LEMMA LooseFacts ==
  ASSUME Inv, NEW c \in Area, PassOwn(c), DestReady(c), NEW d \in Directions, NEW f, Loose(c, f, d)
  PROVE  /\ f \in Frames
         /\ \A m \in Cells : f \notin Elems(list[m])
         /\ \A b \in Cells, e \in Directions : Private(b, e) /\ local[b].dest[e] = f => b = c /\ e = d
         /\ \A e \in Directions : Loose(c, f, e) => e = d
         /\ f \in Frames \ used \/ (Private(c, d) /\ f = local[c].dest[d])
<1>1. c \in Cells
  BY Consts
<1>2. f \in Frames
  BY DEF Loose, DestReady
<1>3. f \in Frames \ used \/ (Private(c, d) /\ f = local[c].dest[d])
  BY DEF Loose, PassOwn
<1>4. \A m \in Cells : f \notin Elems(list[m])
  BY <1>1, <1>3, UsedFacts DEF Inv, HeapOK
<1>5. ASSUME NEW b \in Cells, NEW e \in Directions, Private(b, e), local[b].dest[e] = f
      PROVE  b = c /\ e = d
  <2>1. f \in used
    BY <1>5, UsedFacts
  <2>2. Private(c, d) /\ local[c].dest[d] = local[b].dest[e]
    BY <1>3, <1>5, <2>1
  <2>3. HeapOK
    BY DEF Inv
  <2> QED
    BY <1>1, <1>5, <2>2, <2>3 DEF HeapOK
<1>6. ASSUME NEW e \in Directions, Loose(c, f, e) PROVE e = d
  BY <1>6 DEF Loose, DestReady
<1> QED
  BY <1>2, <1>3, <1>4, <1>5, <1>6

(* The frames that a pass loses were free, and nobody gets them.            *)
LEMMA PassLost ==
  ASSUME Inv, NEW c \in Area, Pass(c), PassOwn(c), DestReady(c)
  PROVE  /\ lost' \subseteq Frames
         /\ \A f : f \in used' <=> \/ f \in used \/ f \in lost'
                                   \/ \E d \in Directions : Loose(c, f, d)
         /\ \A f \in used : f \in lost' <=> f \in lost
         /\ \A d \in Directions : \A f : Loose(c, f, d) => f \notin lost'
<1>1. /\ used' = used \cup Allocated(Calls(c))
      /\ lost' = lost \cup (Allocated(Calls(c)) \ Returned(c))
  BY DEF Pass
<1>2. Allocated(Calls(c)) \subseteq Frames \ used
  BY DEF PassOwn
<1>3. lost \subseteq Frames /\ lost \subseteq used
  <2>1. lost \subseteq Frames
    BY DEF Inv, Types
  <2> QED
    BY <2>1 DEF Inv, HeapOK
<1>4. ASSUME NEW f \in Returned(c)
      PROVE  \E d \in Directions : Loose(c, f, d)
  <2>1. ASSUME NEW d \in New1(c), f = Dest1(c)[d] PROVE d \in Directions /\ Loose(c, f, d)
    <3>1. d \in Directions /\ Total(c, d) > 0
      BY DEF New1
    <3>2. ~local[c].neighbour[d]
      BY <3>1 DEF PassOwn
    <3> QED
      BY <2>1, <3>1, <3>2 DEF Loose
  <2>2. ASSUME NEW d \in New2(c), f = Dest2(c)[d] PROVE d \in Directions /\ Loose(c, f, d)
    BY <2>2 DEF Loose, New2, Full
  <2> QED
    BY <2>1, <2>2 DEF Returned
<1>5. ASSUME NEW d \in Directions, NEW f, Loose(c, f, d)
      PROVE  \/ f \in Returned(c) /\ f \in Allocated(Calls(c))
             \/ f \in used /\ f \notin lost
  <2>1. CASE d \in New2(c) /\ f = Dest2(c)[d]
    BY <2>1 DEF Returned, PassOwn
  <2>2. CASE Total(c, d) > 0 /\ ~local[c].neighbour[d] /\ f = Dest1(c)[d] /\ d \in New1(c)
    BY <2>2 DEF Returned, PassOwn
  <2>3. CASE Total(c, d) > 0 /\ ~local[c].neighbour[d] /\ f = Dest1(c)[d] /\ d \notin New1(c)
    <3>1. Private(c, d) /\ f = local[c].dest[d]
      BY <2>3 DEF PassOwn
    <3>2. c \in Cells
      BY Consts
    <3>3. f \in used
      BY <3>1, <3>2, UsedFacts
    <3>4. f \notin lost
      BY <3>1, <3>2 DEF Inv, HeapOK
    <3> QED
      BY <3>3, <3>4
  <2> QED
    BY <1>5, <2>1, <2>2, <2>3 DEF Loose
<1>6. \A f : f \in used' <=> f \in used \/ f \in lost' \/ \E d \in Directions : Loose(c, f, d)
  BY <1>1, <1>2, <1>3, <1>4, <1>5
<1>7. \A d \in Directions : \A f : Loose(c, f, d) => f \notin lost'
  BY <1>1, <1>2, <1>3, <1>5
<1> QED
  BY <1>1, <1>2, <1>3, <1>6, <1>7

(* Who has which frame after a pass.                                        *)
LEMMA PassOwners ==
  ASSUME Inv, Stride >= 3, NEW c \in Area, Pass(c), PassOwn(c), DestReady(c)
  PROVE  /\ \A d \in Hung(c) : d \in Directions /\ Loose(c, Dest1(c)[d], d)
         /\ \A m \in Cells : /\ list'[m] \in Seq(Frames)
                             /\ Distinct(list'[m])
                             /\ Len(list'[m]) >= Len(list[m])
         /\ \A m \in Cells : \A f : f \in Elems(list'[m]) <=>
              f \in Elems(list[m]) \/ \E d \in Hung(c) : Neighbour(c, d) = m /\ f = Dest1(c)[d]
         /\ \A d \in Directions : Private(c, d)' => Loose(c, local'[c].dest[d], d)
                                    /\ ~(d \in Hung(c) /\ local'[c].dest[d] = Dest1(c)[d])
         /\ \A d \in Directions : \A f : Loose(c, f, d) =>
              (d \in Hung(c) /\ f = Dest1(c)[d]) \/ (Private(c, d)' /\ local'[c].dest[d] = f)
         /\ \A f : f \in used' <=> \/ f \in used \/ f \in lost'
                                   \/ \E d \in Directions : Loose(c, f, d)
<1> USE Consts
<1>0. c \in Cells /\ c \in Blocks
  BY DEF Pass
<1>1. /\ \A d \in Directions : local[c].count[d] \in 0 .. TileSize
      /\ \A d \in Directions : local[c].neighbour[d] \in BOOLEAN
      /\ frame \in FrameType /\ local[c].cur \in Frames
      /\ \A m \in Cells : list[m] \in Seq(Frames) /\ Distinct(list[m])
  <2>1. local[c] \in Locals /\ frame \in FrameType /\ \A m \in Cells : list[m] \in Seq(Frames)
    BY <1>0 DEF Inv, Types, FrameType
  <2>2. \A m \in Cells : Distinct(list[m])
    BY DEF Inv, HeapOK
  <2>3. local[c].cur \in Frames
    BY DEF PassOwn
  <2> QED
    BY <2>1, <2>2, <2>3 DEF Locals
<1>2. \A d \in Directions :
        /\ Total(c, d) \in Nat /\ TileSize \in Nat \ {0}
        /\ d \in Full(c) => Total(c, d) > 0
        /\ d \in New2(c) => Total(c, d) > 0 /\ d \in Full(c)
        /\ d \in New1(c) => Total(c, d) > 0
  <2> SUFFICES ASSUME NEW d \in Directions
               PROVE  /\ Total(c, d) \in Nat /\ TileSize \in Nat \ {0}
                      /\ d \in Full(c) => Total(c, d) > 0
                      /\ d \in New2(c) => Total(c, d) > 0 /\ d \in Full(c)
                      /\ d \in New1(c) => Total(c, d) > 0
    OBVIOUS
  <2>1. /\ Total(c, d) \in Nat
        /\ d \in New2(c) => d \in Full(c)
        /\ d \in Full(c) => Total(c, d) >= TileSize
    BY <1>1, TotalFacts
  <2> QED
    BY <2>1 DEF New1
<1>3. ASSUME NEW d \in Hung(c) PROVE d \in Directions /\ d \in Full(c) /\ Loose(c, Dest1(c)[d], d)
  BY <1>2 DEF Hung, Full, Loose
<1>4. ASSUME NEW m \in Cells
      PROVE  /\ list'[m] \in Seq(Frames)
             /\ Distinct(list'[m])
             /\ Len(list'[m]) >= Len(list[m])
             /\ \A f : f \in Elems(list'[m]) <=>
                  f \in Elems(list[m]) \/ \E d \in Hung(c) : Neighbour(c, d) = m /\ f = Dest1(c)[d]
  <2>0. list[m] \in Seq(Frames) /\ Distinct(list[m]) /\ Len(list[m]) \in Nat
    BY <1>1, ElemsFacts
  <2>1. CASE \A d \in Hung(c) : Neighbour(c, d) # m
    <3>1. list'[m] = list[m]
      <4>1. CASE \A d \in Directions : Neighbour(c, d) # m
        BY <4>1 DEF Pass
      <4>2. CASE \E d \in Directions : Neighbour(c, d) = m
        <5>1. PICK d \in Directions : Neighbour(c, d) = m
          BY <4>2
        <5> QED
          BY <2>1, <5>1 DEF Pass
      <4> QED
        BY <4>1, <4>2
    <3> QED
      BY <2>0, <2>1, <3>1
  <2>2. CASE \E d \in Hung(c) : Neighbour(c, d) = m
    <3>1. PICK d \in Hung(c) : Neighbour(c, d) = m
      BY <2>2
    <3>2. d \in Directions /\ Loose(c, Dest1(c)[d], d)
      BY <1>3
    <3>3. PICK x : x = Dest1(c)[d]
      OBVIOUS
    <3>4. x \in Frames /\ x \notin Elems(list[m])
      BY <3>2, <3>3, LooseFacts
    <3>5. list'[m] = <<x>> \o list[m]
      BY <3>1, <3>2, <3>3 DEF Pass
    <3>6. \A e \in Hung(c) : Neighbour(c, e) = m => e = d
      BY <1>0, <1>3, <3>1, <3>2, OwnNeighbours
    <3>7. PICK q : q = <<x>> \o list[m]
      OBVIOUS
    <3>8. /\ q \in Seq(Frames) /\ Len(q) = Len(list[m]) + 1
          /\ Elems(q) = Elems(list[m]) \cup {x} /\ Distinct(q)
      BY <2>0, <3>4, <3>7, PrefixFacts
    <3>9. Len(q) >= Len(list[m])
      BY <2>0, <3>8
    <3>10. list'[m] = q
      BY <3>5, <3>7
    <3> QED
      BY <3>1, <3>3, <3>6, <3>8, <3>9, <3>10
  <2> QED
    BY <2>1, <2>2
<1>5. \A d \in Directions :
        Dest2(c)[d] = IF d \in New2(c) THEN Dest2(c)[d] ELSE IF d \in Full(c) THEN Null ELSE Dest1(c)[d]
  BY DEF Dest2
<1>6. ASSUME NEW d \in Directions, Private(c, d)'
      PROVE  /\ Loose(c, local'[c].dest[d], d)
             /\ ~(d \in Hung(c) /\ local'[c].dest[d] = Dest1(c)[d])
  <2>1. /\ local'[c].dest[d] = Dest2(c)[d] /\ Dest2(c)[d] # Null
        /\ ~(local[c].neighbour[d] /\ d \notin Full(c))
    BY <1>6 DEF Pass, Private
  <2>2. CASE d \in New2(c)
    <3>1. Dest1(c)[d] # Dest2(c)[d]
      BY <1>2, <2>2 DEF DestReady
    <3> QED
      BY <2>1, <2>2, <3>1 DEF Loose
  <2>3. CASE d \notin New2(c)
    <3>1. d \notin Full(c) /\ Dest2(c)[d] = Dest1(c)[d] /\ ~local[c].neighbour[d]
      BY <1>5, <2>1, <2>3
    <3>2. Total(c, d) > 0
      <4>1. CASE d \in New1(c)
        BY <1>2, <4>1
      <4>2. CASE d \notin New1(c)
        <5>1. Dest1(c)[d] = local[c].dest[d]
          BY <4>2 DEF Dest1
        <5>2. Private(c, d)
          BY <2>1, <3>1, <5>1 DEF Private
        <5> QED
          BY <5>2 DEF PassOwn
      <4> QED
        BY <4>1, <4>2
    <3> QED
      BY <1>3, <2>1, <3>1, <3>2 DEF Loose
  <2> QED
    BY <2>2, <2>3
<1>7. ASSUME NEW d \in Directions, NEW f, Loose(c, f, d)
      PROVE  (d \in Hung(c) /\ f = Dest1(c)[d]) \/ (Private(c, d)' /\ local'[c].dest[d] = f)
  <2>0. f # Null
    BY <1>7, LooseFacts
  <2>3. /\ local'[c].dest[d] = Dest2(c)[d]
        /\ local'[c].neighbour[d] = (local[c].neighbour[d] /\ d \notin Full(c))
    BY DEF Pass
  <2>1. CASE d \in New2(c) /\ f = Dest2(c)[d]
    BY <1>2, <2>0, <2>1, <2>3 DEF Private
  <2>2. CASE Total(c, d) > 0 /\ ~local[c].neighbour[d] /\ f = Dest1(c)[d]
    <3>1. CASE d \in Full(c)
      BY <2>2, <3>1 DEF Hung
    <3>2. CASE d \notin Full(c)
      <4>1. Dest2(c)[d] = Dest1(c)[d]
        BY <1>2, <1>5, <3>2
      <4> QED
        BY <2>0, <2>2, <2>3, <4>1 DEF Private
    <3> QED
      BY <3>1, <3>2
  <2> QED
    BY <1>7, <2>1, <2>2 DEF Loose
<1>8. \A f : f \in used' <=> f \in used \/ f \in lost' \/ \E d \in Directions : Loose(c, f, d)
  BY PassLost
<1> QED
  BY <1>3, <1>4, <1>6, <1>7, <1>8

LEMMA PassTypes ==
  ASSUME Inv, Stride >= 3, NEW c \in Area, ShiftFrame(c), Pass(c), PassOwn(c), DestReady(c)
  PROVE  Types'
<1> USE Consts
<1>0. /\ Types /\ c \in Cells /\ frame' \in FrameType /\ frame \in FrameType
      /\ kernel' = kernel /\ offset' = offset /\ mustShift' = mustShift
      /\ vacant' = vacant /\ spoiled' = spoiled
  BY DEF Inv, Pass, Types, FrameType
<1>1. frame' \in [Frames -> [Slots -> Slot]]
  BY <1>0 DEF FrameType
<1>2. used' \subseteq Frames /\ lost' \subseteq Frames
  <2>1. used' = used \cup Allocated(Calls(c)) /\ Allocated(Calls(c)) \subseteq Frames
    BY DEF Pass, PassOwn
  <2>2. used' \subseteq Frames
    BY <1>0, <2>1 DEF Types
  <2> QED
    BY <2>2, PassLost
<1>3. list' \in [Cells -> Seq(Frames)]
  <2>1. \A m \in Cells : list'[m] \in Seq(Frames)
    BY PassOwners
  <2>2. list' = [m \in Cells |-> list'[m]]
    BY DEF ShiftFrame
  <2> QED
    BY <2>1, <2>2
<1>4. size' \in [Cells -> 0 .. TileSize]
  BY <1>0 DEF ShiftFrame, Types
<1>5. pc' \in [Cells -> {"start", "loop", "end", "done"}]
  BY <1>0 DEF ShiftFrame, Types
<1>6. local' \in [Cells -> Locals]
  <2> DEFINE next == NextFrame(c, local[c].cur)
  <2> DEFINE x == [cur |-> next, last |-> Null, dest |-> Dest2(c),
                   count |-> [d \in Directions |-> RestCount(Total(c, d), d \in Full(c))],
                   neighbour |-> [d \in Directions |-> local[c].neighbour[d] /\ d \notin Full(c)]]
  <2>1. local' = [local EXCEPT ![c] = x]
    BY DEF ShiftFrame
  <2>2. next \in Frames \cup {Null}
    <3>1. local'[c].cur = next
      BY <1>0, <2>1 DEF Types
    <3>2. list[c] \in Seq(Frames)
      BY <1>0 DEF Types
    <3>3. PICK i \in 1 .. Len(list[c]) : IF i < Len(list[c]) THEN local'[c].cur = list[c][i + 1]
                                         ELSE local'[c].cur = Null
      BY DEF Pass
    <3>4. i < Len(list[c]) => i + 1 \in 1 .. Len(list[c])
      BY <3>2, ElemsFacts
    <3>5. i < Len(list[c]) => list[c][i + 1] \in Frames
      BY <3>2, <3>4, ElemsFacts
    <3> HIDE DEF next
    <3> QED
      BY <3>1, <3>3, <3>5
  <2>3. Dest2(c) \in [Directions -> Frames \cup {Null}]
    <3>1. \A d \in Directions : Dest1(c)[d] \in Frames \cup {Null}
      <4>1. \A d \in New1(c) : d \in Directions /\ Total(c, d) > 0
        BY DEF New1
      <4>2. \A d \in New1(c) : Dest1(c)[d] \in Frames
        BY <4>1 DEF DestReady
      <4>3. \A d \in Directions : d \notin New1(c) => Dest1(c)[d] = local[c].dest[d]
        BY DEF Dest1
      <4>4. \A d \in Directions : local[c].dest[d] \in Frames \cup {Null}
        BY <1>0 DEF Types, Locals
      <4> QED
        BY <4>2, <4>3, <4>4
    <3>2. \A d \in New2(c) : Dest2(c)[d] \in Frames
      BY DEF DestReady
    <3>3. \A d \in Directions : d \notin New2(c) =>
            Dest2(c)[d] = IF d \in Full(c) THEN Null ELSE Dest1(c)[d]
      BY DEF Dest2
    <3>4. Dest2(c) = [d \in Directions |-> Dest2(c)[d]]
      BY DEF Dest2
    <3>5. \A d \in Directions : Dest2(c)[d] \in Frames \cup {Null}
      BY <3>1, <3>2, <3>3
    <3> QED
      BY <3>4, <3>5
  <2>4. \A d \in Directions : RestCount(Total(c, d), d \in Full(c)) \in 0 .. TileSize
    <3> SUFFICES ASSUME NEW d \in Directions
                 PROVE  RestCount(Total(c, d), d \in Full(c)) \in 0 .. TileSize
      OBVIOUS
    <3>1. local[c].count[d] \in 0 .. TileSize /\ local[c].cur \in Frames
      BY DEF DestReady
    <3>2. /\ Total(c, d) \in Nat /\ Total(c, d) <= 2 * TileSize
          /\ d \in Full(c) => Total(c, d) >= TileSize
          /\ d \notin Full(c) => Total(c, d) <= TileSize
      BY <1>0, <3>1, TotalFacts
    <3> QED
      BY <3>2 DEF RestCount
  <2>5. \A d \in Directions : local[c].neighbour[d] \in BOOLEAN
    BY <1>0 DEF Types, Locals
  <2> HIDE DEF next
  <2>6. x \in Locals
    BY <2>2, <2>3, <2>4, <2>5 DEF Locals
  <2> HIDE DEF x
  <2> QED
    BY <1>0, <2>1, <2>6 DEF Types
<1> QED
  BY <1>0, <1>1, <1>2, <1>3, <1>4, <1>5, <1>6 DEF Types

(* Frames that a pass does not touch.                                       *)
LEMMA PassElsewhere ==
  ASSUME Inv, NEW c \in Area, Pass(c), PassOwn(c), DestReady(c), NEW f \in Frames,
         f # local[c].cur, \A d \in Directions : ~Loose(c, f, d),
         \A d \in Directions : Neighbour(c, d) \in Area => f \notin Elems(list[Neighbour(c, d)])
  PROVE  \A t \in Slots : frame'[f][t] = frame[f][t]
<1>1. frame \in FrameType /\ frame' \in FrameType
  BY DEF Inv, Types, FrameType, Pass
<1>2. PICK new : new = frame'
  OBVIOUS
<1>3. PICK tf, ts, pl : /\ PlacesOf(c, pl) /\ Goes(c, tf, ts, pl)
                        /\ Transfer(frame, new, local[c].cur, Leaving(c), tf, ts)
  BY <1>2 DEF Pass
<1>4. \A d \in Directions : Total(c, d) > 0 => f # Dest1(c)[d]
  BY DEF Loose, PassOwn
<1>5. \A d \in New2(c) : f # Dest2(c)[d]
  <2>1. New2(c) \subseteq Directions
    BY DEF New2, Full
  <2> QED
    BY <2>1 DEF Loose
<1>6. new \in FrameType
  BY <1>1, <1>2
<1>7. \A t \in Slots : new[f][t] = frame[f][t]
  BY <1>1, <1>3, <1>4, <1>5, <1>6, FlushShapes
<1> QED
  BY <1>2, <1>7

LEMMA PassHeap ==
  ASSUME Inv, Stride >= 3, NEW c \in Area, Pass(c), PassOwn(c), DestReady(c)
  PROVE  HeapOK'
<1> USE Consts
<1>0. /\ c \in Cells /\ HeapOK
      /\ \A b \in Cells : b # c => local'[b] = local[b]
  BY DEF Inv, Pass
<1>1. \A b \in Cells, d \in Directions : b # c =>
        (Private(b, d)' <=> Private(b, d)) /\ local'[b].dest[d] = local[b].dest[d]
  BY <1>0 DEF Private
<1>2. /\ \A d \in Hung(c) : d \in Directions /\ Loose(c, Dest1(c)[d], d)
      /\ \A m \in Cells : \A f : f \in Elems(list'[m]) <=>
           f \in Elems(list[m]) \/ \E d \in Hung(c) : Neighbour(c, d) = m /\ f = Dest1(c)[d]
      /\ \A m \in Cells : Distinct(list'[m])
  BY PassOwners
<1>3. \A d \in Directions : Private(c, d)' =>
        /\ Loose(c, local'[c].dest[d], d)
        /\ ~(d \in Hung(c) /\ local'[c].dest[d] = Dest1(c)[d])
  BY PassOwners
<1>4. \A d \in Directions : \A f : Loose(c, f, d) =>
        (d \in Hung(c) /\ f = Dest1(c)[d]) \/ (Private(c, d)' /\ local'[c].dest[d] = f)
  BY PassOwners
<1>5. /\ \A f : f \in used' <=> f \in used \/ f \in lost' \/ \E d \in Directions : Loose(c, f, d)
      /\ \A f \in used : f \in lost' <=> f \in lost
      /\ \A d \in Directions : \A f : Loose(c, f, d) => f \notin lost'
      /\ lost' \subseteq Frames
  BY PassLost
<1>6. \A d \in Directions : \A f : Loose(c, f, d) =>
         /\ f \in Frames
         /\ \A m \in Cells : f \notin Elems(list[m])
         /\ \A b \in Cells, e \in Directions : Private(b, e) /\ local[b].dest[e] = f => b = c /\ e = d
         /\ \A e \in Directions : Loose(c, f, e) => e = d
  BY LooseFacts
<1>7. \A m, n \in Cells : m # n => Elems(list'[m]) \cap Elems(list'[n]) = {}
  <2> SUFFICES ASSUME NEW m \in Cells, NEW n \in Cells, m # n,
                      NEW f, f \in Elems(list'[m]), f \in Elems(list'[n])
               PROVE  FALSE
    OBVIOUS
  <2>1. CASE f \in Elems(list[m]) /\ f \in Elems(list[n])
    BY <1>0, <2>1 DEF HeapOK
  <2>2. ASSUME NEW d \in Hung(c), f = Dest1(c)[d] PROVE f \notin Elems(list[m]) /\ f \notin Elems(list[n])
    BY <1>2, <1>6, <2>2
  <2>3. PICK d \in Hung(c), e \in Hung(c) : /\ Neighbour(c, d) = m /\ f = Dest1(c)[d]
                                            /\ Neighbour(c, e) = n /\ f = Dest1(c)[e]
    BY <1>2, <2>1, <2>2
  <2>4. d = e
    BY <1>2, <1>6, <2>3
  <2> QED
    BY <2>3, <2>4
<1>8. ASSUME NEW b \in Cells, NEW m \in Cells, NEW d \in Directions, Private(b, d)'
      PROVE  local'[b].dest[d] \notin Elems(list'[m])
  <2> SUFFICES ASSUME local'[b].dest[d] \in Elems(list'[m]) PROVE FALSE
    OBVIOUS
  <2>1. PICK f : f = local'[b].dest[d]
    OBVIOUS
  <2>2. CASE b # c
    <3>1. Private(b, d) /\ local[b].dest[d] = f
      BY <1>1, <1>8, <2>1, <2>2
    <3>2. f \notin Elems(list[m])
      BY <1>0, <3>1 DEF HeapOK
    <3>3. PICK e \in Hung(c) : f = Dest1(c)[e]
      BY <1>2, <2>1, <3>2
    <3> QED
      BY <1>2, <1>6, <2>2, <3>1, <3>3
  <2>3. CASE b = c
    <3>1. Loose(c, f, d) /\ ~(d \in Hung(c) /\ f = Dest1(c)[d])
      BY <1>3, <1>8, <2>1, <2>3
    <3>2. f \notin Elems(list[m])
      BY <1>6, <3>1
    <3>3. PICK e \in Hung(c) : f = Dest1(c)[e]
      BY <1>2, <2>1, <3>2
    <3>4. e = d
      BY <1>2, <1>6, <3>1, <3>3
    <3> QED
      BY <3>1, <3>3, <3>4
  <2> QED
    BY <2>2, <2>3
<1>9. ASSUME NEW b \in Cells, NEW a \in Cells, NEW d \in Directions, NEW e \in Directions,
             Private(b, d)', Private(a, e)', local'[b].dest[d] = local'[a].dest[e]
      PROVE  b = a /\ d = e
  <2>1. PICK f : f = local'[b].dest[d] /\ f = local'[a].dest[e]
    BY <1>9
  <2>2. CASE b # c /\ a # c
    <3>1. Private(b, d) /\ Private(a, e) /\ local[b].dest[d] = local[a].dest[e]
      BY <1>1, <1>9, <2>2
    <3> QED
      BY <1>0, <3>1 DEF HeapOK
  <2>3. CASE b = c /\ a # c
    <3>1. Loose(c, f, d) /\ Private(a, e) /\ local[a].dest[e] = f
      BY <1>1, <1>3, <1>9, <2>1, <2>3
    <3> QED
      BY <1>6, <2>3, <3>1
  <2>4. CASE b # c /\ a = c
    <3>1. Loose(c, f, e) /\ Private(b, d) /\ local[b].dest[d] = f
      BY <1>1, <1>3, <1>9, <2>1, <2>4
    <3> QED
      BY <1>6, <2>4, <3>1
  <2>5. CASE b = c /\ a = c
    <3>1. Loose(c, f, d) /\ Loose(c, f, e)
      BY <1>3, <1>9, <2>1, <2>5
    <3> QED
      BY <1>6, <2>5, <3>1
  <2> QED
    BY <2>2, <2>3, <2>4, <2>5
<1>10. ASSUME NEW f \in Frames
       PROVE  f \in used' <=> \/ \E m \in Cells : f \in Elems(list'[m])
                              \/ \E b \in Cells, d \in Directions : Private(b, d)' /\ local'[b].dest[d] = f
                              \/ f \in lost'
  <2>1. f \in used <=> \/ \E m \in Cells : f \in Elems(list[m])
                       \/ \E b \in Cells, d \in Directions : Private(b, d) /\ local[b].dest[d] = f
                       \/ f \in lost
    BY <1>0 DEF HeapOK
  <2>2. ASSUME NEW d \in Directions, Loose(c, f, d)
        PROVE  \/ \E m \in Cells : f \in Elems(list'[m])
               \/ \E b \in Cells, e \in Directions : Private(b, e)' /\ local'[b].dest[e] = f
    <3>1. CASE d \in Hung(c) /\ f = Dest1(c)[d]
      <4>1. Neighbour(c, d) \in Cells
        BY <1>0
      <4>2. f \in Elems(list'[Neighbour(c, d)])
        BY <1>2, <3>1, <4>1
      <4> QED
        BY <4>1, <4>2
    <3>2. CASE Private(c, d)' /\ local'[c].dest[d] = f
      BY <1>0, <3>2
    <3> QED
      BY <1>4, <2>2, <3>1, <3>2
  <2>3. ASSUME NEW m \in Cells, f \in Elems(list[m]) PROVE f \in Elems(list'[m])
    BY <1>2, <2>3
  <2>4. ASSUME NEW b \in Cells, NEW d \in Directions, Private(b, d), local[b].dest[d] = f
        PROVE  \/ \E m \in Cells : f \in Elems(list'[m])
               \/ \E a \in Cells, e \in Directions : Private(a, e)' /\ local'[a].dest[e] = f
    <3>1. CASE b # c
      BY <1>1, <2>4, <3>1
    <3>2. CASE b = c
      <4>1. Loose(c, f, d)
        BY <2>4, <3>2 DEF PassOwn, Loose, Private
      <4> QED
        BY <2>2, <4>1
    <3> QED
      BY <3>1, <3>2
  <2>5. ASSUME NEW m \in Cells, f \in Elems(list'[m]) PROVE f \in used'
    <3>1. CASE f \in Elems(list[m])
      BY <1>5, <2>1, <3>1
    <3>2. CASE \E d \in Hung(c) : f = Dest1(c)[d]
      BY <1>2, <1>5, <3>2
    <3> QED
      BY <1>2, <2>5, <3>1, <3>2
  <2>6. ASSUME NEW b \in Cells, NEW d \in Directions, Private(b, d)', local'[b].dest[d] = f
        PROVE  f \in used'
    <3>1. CASE b # c
      <4>1. Private(b, d) /\ local[b].dest[d] = f
        BY <1>1, <2>6, <3>1
      <4> QED
        BY <1>5, <2>1, <4>1
    <3>2. CASE b = c
      BY <1>3, <1>5, <2>6, <3>2
    <3> QED
      BY <3>1, <3>2
  <2>7. f \in used' => \/ \E m \in Cells : f \in Elems(list'[m])
                       \/ \E b \in Cells, d \in Directions : Private(b, d)' /\ local'[b].dest[d] = f
                       \/ f \in lost'
    BY <1>5, <2>1, <2>2, <2>3, <2>4
  <2>8. f \in lost' => f \in used'
    BY <1>5
  <2> QED
    BY <2>5, <2>6, <2>7, <2>8
<1>11. \A f \in Frames \ used' : \A s \in Slots : frame'[f][s].mask = 0
  <2> SUFFICES ASSUME NEW f \in Frames \ used' PROVE \A s \in Slots : frame'[f][s].mask = 0
    OBVIOUS
  <2>1. f \notin used /\ \A d \in Directions : ~Loose(c, f, d)
    BY <1>5
  <2>2. \A m \in Cells : f \notin Elems(list[m])
    BY <2>1, UsedFacts
  <2>3. f # local[c].cur
    BY <1>0, <2>2 DEF PassOwn
  <2>4. \A s \in Slots : frame'[f][s] = frame[f][s]
    BY <2>1, <2>2, <2>3, PassElsewhere
  <2> QED
    BY <1>0, <2>1, <2>4 DEF HeapOK
<1>12. ASSUME NEW m \in Cells PROVE Elems(list'[m]) \cap lost' = {}
  <2> SUFFICES ASSUME NEW f, f \in Elems(list'[m]) PROVE f \notin lost'
    OBVIOUS
  <2>1. CASE f \in Elems(list[m])
    <3>1. f \in used
      BY <2>1, UsedFacts
    <3>2. f \notin lost
      BY <1>0, <2>1 DEF HeapOK
    <3> QED
      BY <1>5, <3>1, <3>2
  <2>2. CASE \E d \in Hung(c) : f = Dest1(c)[d]
    BY <1>2, <1>5, <2>2
  <2> QED
    BY <1>2, <2>1, <2>2
<1>13. ASSUME NEW b \in Cells, NEW d \in Directions, Private(b, d)'
       PROVE  local'[b].dest[d] \notin lost'
  <2>1. CASE b # c
    <3>1. Private(b, d) /\ local'[b].dest[d] = local[b].dest[d]
      BY <1>1, <1>13, <2>1
    <3>2. local[b].dest[d] \in used
      BY <3>1, UsedFacts
    <3>3. local[b].dest[d] \notin lost
      BY <1>0, <3>1 DEF HeapOK
    <3> QED
      BY <1>5, <3>1, <3>2, <3>3
  <2>2. CASE b = c
    BY <1>3, <1>5, <1>13, <2>2
  <2> QED
    BY <2>1, <2>2
<1>14. \A f \in lost' : \A s \in Slots : frame'[f][s].mask = 0
  <2> SUFFICES ASSUME NEW f \in lost' PROVE \A s \in Slots : frame'[f][s].mask = 0
    OBVIOUS
  <2>1. f \in Frames /\ \A d \in Directions : ~Loose(c, f, d)
    BY <1>5
  <2>2. f \in lost \/ f \notin used
    BY <1>5
  <2>3. \A m \in Cells : f \notin Elems(list[m])
    BY <1>0, <2>2, UsedFacts DEF HeapOK
  <2>4. f # local[c].cur
    BY <1>0, <2>3 DEF PassOwn
  <2>5. \A s \in Slots : frame'[f][s] = frame[f][s]
    BY <2>1, <2>3, <2>4, PassElsewhere
  <2>6. \A s \in Slots : frame[f][s].mask = 0
    BY <1>0, <2>1, <2>2 DEF HeapOK
  <2> QED
    BY <2>5, <2>6
<1> QED
  BY <1>2, <1>7, <1>8, <1>9, <1>10, <1>11, <1>12, <1>13, <1>14 DEF HeapOK

(* Moving particles keeps them, but for those on their way to a spoiled     *)
(* supercell that are written over.                                         *)
LEMMA TransferParticles ==
  ASSUME ParticlesOK, NEW from, NEW S, NEW tf, NEW ts, Transfer(frame, frame', from, S, tf, ts),
         goal' = goal, kernel' = kernel, spoiled' = spoiled,
         \A s \in S : frame[tf[s]][ts[s]].mask # 0 => goal[frame[tf[s]][ts[s]].id] \in spoiled
  PROVE  ParticlesOK'
<1>1. PICK new : new = frame'
  OBVIOUS
<1>2. Transfer(frame, new, from, S, tf, ts) /\ OneSlot(frame)
  BY <1>1 DEF ParticlesOK
<1>3. /\ OneSlot(new)
      /\ \A p : InSlot(frame, p) =>
           \/ InSlot(new, p)
           \/ \E s \in S : frame[tf[s]][ts[s]].mask # 0 /\ frame[tf[s]][ts[s]].id = p
      /\ \A f \in Frames : \A t \in Slots : new[f][t].mask # 0 => InSlot(frame, new[f][t].id)
  BY <1>2, TransferKeeps
<1>4. \A p : InSlot(frame, p) => p \in DOMAIN goal
  BY DEF InSlot, ParticlesOK
<1>5. \A f \in Frames : \A s \in Slots : frame'[f][s].mask # 0 => frame'[f][s].id \in DOMAIN goal'
  BY <1>1, <1>3, <1>4
<1>8. \A p : InSlot(frame, p) => InSlot(new, p) \/ goal[p] \in spoiled
  BY <1>3
<1>6. \A p \in DOMAIN goal' :
        \/ InSlot(frame', p) \/ goal'[p] \in spoiled'
        \/ goal'[p] \in Open /\ kernel' \in {"delete", "over"}
  BY <1>1, <1>8 DEF ParticlesOK
<1>7. OneSlot(frame')
  BY <1>1, <1>3
<1> QED
  BY <1>5, <1>6, <1>7 DEF ParticlesOK, OneSlot, InSlot

(* A particle that is moved stays from then on.                             *)
LEMMA TransferCalm ==
  ASSUME NEW fr, NEW fr2, NEW from, NEW S, NEW tf, NEW ts, Transfer(fr, fr2, from, S, tf, ts),
         NEW f \in Frames, Calm(fr, f)
  PROVE  Calm(fr2, f)
<1> SUFFICES ASSUME NEW t \in Slots PROVE fr2[f][t].mask <= 1
  BY DEF Calm
<1>1. CASE fr2[f][t].mask = 0
  BY <1>1
<1>2. CASE fr2[f][t].mask # 0
  <2>1. \/ \E s \in S : tf[s] = f /\ ts[s] = t /\ fr2[f][t] = [id |-> fr[from][s].id, mask |-> 1]
        \/ ~(f = from /\ t \in S) /\ fr2[f][t] = fr[f][t]
    BY <1>2, TransferOrigin
  <2>2. ASSUME NEW s \in S, fr2[f][t] = [id |-> fr[from][s].id, mask |-> 1] PROVE fr2[f][t].mask = 1
    BY <2>2
  <2>3. fr2[f][t].mask = 1 \/ fr2[f][t] = fr[f][t]
    BY <2>1, <2>2
  <2> QED
    BY <2>3 DEF Calm
<1> QED
  BY <1>1, <1>2

LEMMA PassGoals ==
  ASSUME Inv, Stride >= 3, NEW c \in Area, Pass(c), PassOwn(c), DestReady(c)
  PROVE  GoalsOK' /\ \A d \in Directions : \A f : Loose(c, f, d) => Calm(frame', f)
<1> USE Consts
<1>0. c \in Cells /\ c \in Blocks /\ goal' = goal /\ frame \in FrameType
  BY DEF Pass, Inv, Types, FrameType
<1>1. PICK new : new = frame'
  OBVIOUS
<1>2. PICK tf, ts, pl : /\ PlacesOf(c, pl) /\ Goes(c, tf, ts, pl)
                        /\ Transfer(frame, new, local[c].cur, Leaving(c), tf, ts)
  BY <1>1 DEF Pass
<1>3. ASSUME NEW s \in Leaving(c)
      PROVE  /\ goal[frame[local[c].cur][s].id] = Neighbour(c, Dir(c, s))
             /\ Dir(c, s) \in Directions
             /\ \/ Loose(c, tf[s], Dir(c, s))
                \/ tf[s] \in Elems(list[Neighbour(c, Dir(c, s))])
  <2>1. GoalsIn(frame, local[c].cur, c)
    BY <1>0 DEF Inv, GoalsOK, PassOwn
  <2>2. s \in Slots /\ frame[local[c].cur][s].mask >= 2
    BY DEF Leaving
  <2>3. frame[local[c].cur][s] \in Slot
    BY <1>0, <2>2 DEF FrameType, PassOwn
  <2>4. frame[local[c].cur][s].mask # 0 /\ frame[local[c].cur][s].mask # 1
    BY <2>2
  <2>5. goal[frame[local[c].cur][s].id] = Neighbour(c, Dir(c, s))
    BY <2>1, <2>2, <2>4 DEF GoalsIn, Aim, Dir
  <2>6. PICK d \in Directions : d = Dir(c, s) /\ Total(c, d) > 0
    BY <1>2 DEF Goes
  <2>7. tf[s] = Dest1(c)[d] \/ (d \in New2(c) /\ tf[s] = Dest2(c)[d])
    <3>1. pl[s] \in Nat
      BY <1>2 DEF PlacesOf
    <3>2. pl[s] < TileSize \/ pl[s] >= TileSize
      BY <3>1
    <3> QED
      BY <1>2, <2>6, <3>2 DEF Goes
  <2>8. Loose(c, tf[s], d) \/ tf[s] \in Elems(list[Neighbour(c, d)])
    BY <2>6, <2>7 DEF Loose, PassOwn
  <2> QED
    BY <2>5, <2>6, <2>8
<1>4. ASSUME NEW m \in Cells, NEW f \in Elems(list[m]) PROVE GoalsIn(new, f, m)
  <2>0. f \in Frames
    BY UsedFacts
  <2> SUFFICES ASSUME NEW t \in Slots, new[f][t].mask # 0
               PROVE  goal[new[f][t].id] = Aim(m, new[f][t].mask)
    BY DEF GoalsIn
  <2>1. CASE new[f][t] = frame[f][t]
    BY <2>1 DEF Inv, GoalsOK, GoalsIn
  <2>2. CASE \E s \in Leaving(c) : /\ tf[s] = f
                                   /\ new[f][t] = [id |-> frame[local[c].cur][s].id, mask |-> 1]
    <3>1. PICK s \in Leaving(c) : /\ tf[s] = f
                                  /\ new[f][t] = [id |-> frame[local[c].cur][s].id, mask |-> 1]
      BY <2>2
    <3>2. PICK d \in Directions : d = Dir(c, s)
      BY <1>3
    <3>3. f \in Elems(list[Neighbour(c, d)])
      BY <1>3, <3>1, <3>2, LooseFacts
    <3>4. Neighbour(c, d) = m
      <4>1. HeapOK /\ Neighbour(c, d) \in Cells
        BY DEF Inv
      <4> QED
        BY <3>3, <4>1 DEF HeapOK
    <3>5. goal[new[f][t].id] = m /\ new[f][t].mask = 1
      BY <1>3, <3>1, <3>2, <3>4
    <3> QED
      BY <3>5 DEF Aim
  <2> QED
    BY <1>2, <2>0, <2>1, <2>2, TransferOrigin
<1>5. ASSUME NEW d \in Directions, NEW f, Loose(c, f, d)
      PROVE  GoalsIn(new, f, Neighbour(c, d)) /\ Calm(new, f)
  <2>0. /\ f \in Frames
        /\ \A m \in Cells : f \notin Elems(list[m])
        /\ \A e \in Directions : Loose(c, f, e) => e = d
        /\ f \in Frames \ used \/ (Private(c, d) /\ f = local[c].dest[d])
    BY <1>5, LooseFacts
  <2>1. (\A t \in Slots : frame[f][t].mask = 0) \/ (Private(c, d) /\ f = local[c].dest[d])
    BY <2>0 DEF Inv, HeapOK
  <2>2. Calm(frame, f) /\ GoalsIn(frame, f, Neighbour(c, d))
    <3>1. CASE \A t \in Slots : frame[f][t].mask = 0
      <4>1. \A t \in Slots : frame[f][t].mask <= 1
        BY <3>1
      <4> QED
        BY <3>1, <4>1 DEF Calm, GoalsIn
    <3>2. CASE Private(c, d) /\ f = local[c].dest[d]
      BY <1>0, <3>2 DEF Inv, GoalsOK
    <3> QED
      BY <2>1, <3>1, <3>2
  <2>3. Calm(new, f)
    BY <1>2, <2>0, <2>2, TransferCalm
  <2>4. GoalsIn(new, f, Neighbour(c, d))
    <3> SUFFICES ASSUME NEW t \in Slots, new[f][t].mask # 0
                 PROVE  goal[new[f][t].id] = Aim(Neighbour(c, d), new[f][t].mask)
      BY DEF GoalsIn
    <3>1. CASE new[f][t] = frame[f][t]
      BY <2>2, <3>1 DEF GoalsIn
    <3>2. CASE \E s \in Leaving(c) : /\ tf[s] = f
                                     /\ new[f][t] = [id |-> frame[local[c].cur][s].id, mask |-> 1]
      <4>1. PICK s \in Leaving(c) : /\ tf[s] = f
                                    /\ new[f][t] = [id |-> frame[local[c].cur][s].id, mask |-> 1]
        BY <3>2
      <4>2. PICK e \in Directions : e = Dir(c, s)
        BY <1>3
      <4>3. e = d
        BY <1>0, <1>3, <2>0, <4>1, <4>2
      <4>5. new[f][t].id = frame[local[c].cur][s].id /\ new[f][t].mask = 1
        BY <4>1
      <4>6. goal[frame[local[c].cur][s].id] = Neighbour(c, d)
        BY <1>3, <4>2, <4>3
      <4>4. goal[new[f][t].id] = Neighbour(c, d) /\ new[f][t].mask = 1
        BY <4>5, <4>6, Zenon
      <4> QED
        BY <4>4 DEF Aim
    <3> QED
      BY <1>2, <2>0, <3>1, <3>2, TransferOrigin
  <2> QED
    BY <2>3, <2>4
<1>6. ASSUME NEW m \in Cells, NEW f \in Elems(list'[m]) PROVE GoalsIn(frame, f, m)'
  <2>0. \A n \in Cells : \A g : g \in Elems(list'[n]) <=>
          g \in Elems(list[n]) \/ \E d \in Hung(c) : Neighbour(c, d) = n /\ g = Dest1(c)[d]
    BY PassOwners
  <2>1. f \in Elems(list[m]) \/ \E d \in Hung(c) : Neighbour(c, d) = m /\ f = Dest1(c)[d]
    BY <2>0
  <2>2. CASE f \in Elems(list[m])
    BY <1>0, <1>1, <1>4, <2>2 DEF GoalsIn
  <2>3. CASE \E d \in Hung(c) : Neighbour(c, d) = m /\ f = Dest1(c)[d]
    <3>1. PICK d \in Hung(c) : Neighbour(c, d) = m /\ f = Dest1(c)[d]
      BY <2>3
    <3>2. d \in Directions /\ Loose(c, f, d)
      BY <3>1, PassOwners
    <3>3. GoalsIn(new, f, m)
      BY <1>5, <3>1, <3>2
    <3> QED
      BY <1>0, <1>1, <3>3 DEF GoalsIn
  <2> QED
    BY <2>1, <2>2, <2>3
<1>7. ASSUME NEW b \in Cells, NEW e \in Directions, Private(b, e)'
      PROVE  /\ Calm(frame', local'[b].dest[e])
             /\ GoalsIn(frame, local[b].dest[e], Neighbour(b, e))'
  <2>1. PICK f : f = local'[b].dest[e]
    OBVIOUS
  <2>2. CASE b = c
    <3>1. Loose(c, f, e)
      BY <1>7, <2>1, <2>2, PassOwners
    <3>2. GoalsIn(new, f, Neighbour(b, e)) /\ Calm(new, f)
      BY <1>5, <2>2, <3>1
    <3> QED
      BY <1>0, <1>1, <2>1, <3>2 DEF GoalsIn
  <2>3. CASE b # c
    <3>1. local'[b] = local[b] /\ Private(b, e) /\ f = local[b].dest[e]
      BY <1>7, <2>1, <2>3 DEF Pass, Private
    <3>2. f \in Frames /\ \A m \in Cells : f \notin Elems(list[m])
      BY <3>1, UsedFacts DEF Inv, HeapOK
    <3>3. \A d \in Directions : ~Loose(c, f, d)
      BY <2>3, <3>1, LooseFacts
    <3>4. f # local[c].cur
      BY <1>0, <3>2 DEF PassOwn
    <3>5. \A t \in Slots : frame'[f][t] = frame[f][t]
      BY <3>2, <3>3, <3>4, PassElsewhere
    <3>6. Calm(frame, f) /\ GoalsIn(frame, f, Neighbour(b, e))
      BY <3>1 DEF Inv, GoalsOK
    <3> QED
      BY <1>0, <2>1, <3>5, <3>6 DEF Calm, GoalsIn
  <2> QED
    BY <2>2, <2>3
<1>8. GoalsOK'
  BY <1>6, <1>7 DEF GoalsOK
<1> QED
  BY <1>1, <1>5, <1>8

(* What a pass does to the shapes of frames, with frame' for the new ones.  *)
LEMMA PassShapes ==
  ASSUME Inv, NEW c \in Area, Pass(c), PassOwn(c), DestReady(c)
  PROVE  /\ Calm(frame', local[c].cur)
         /\ \A d \in Directions : Total(c, d) > 0 =>
              \/ FilledTo(frame', Dest1(c)[d], Total(c, d))
              \/ /\ local[c].neighbour[d] /\ Neighbour(c, d) \in spoiled
                 /\ FullFrame(frame', Dest1(c)[d])
         /\ \A d \in New2(c) : FilledTo(frame', Dest2(c)[d], Total(c, d) - TileSize)
         /\ \A f \in Frames : (\A d \in Directions : Total(c, d) > 0 => f # Dest1(c)[d])
              /\ (\A d \in New2(c) : f # Dest2(c)[d]) /\ f # local[c].cur
              => \A t \in Slots : frame'[f][t] = frame[f][t]
         /\ \A f \in Frames : FullFrame(frame, f) /\ f # local[c].cur => FullFrame(frame', f)
         /\ \A f \in Frames : Calm(frame, f) => Calm(frame', f)
<1>1. frame \in FrameType /\ frame' \in FrameType
  BY DEF Inv, Types, FrameType, Pass
<1>2. PICK new : new = frame'
  OBVIOUS
<1>3. PICK tf, ts, pl : /\ PlacesOf(c, pl) /\ Goes(c, tf, ts, pl)
                        /\ Transfer(frame, new, local[c].cur, Leaving(c), tf, ts)
  BY <1>2 DEF Pass
<1>4. new \in FrameType
  BY <1>1, <1>2
<1>5. \A f \in Frames : Calm(frame, f) => Calm(new, f)
  BY <1>3, TransferCalm
<1>6. /\ Calm(new, local[c].cur)
      /\ \A d \in Directions : Total(c, d) > 0 /\ ~Overwrites(c, d)
           => FilledTo(new, Dest1(c)[d], Total(c, d))
      /\ \A d \in New2(c) : FilledTo(new, Dest2(c)[d], Total(c, d) - TileSize)
      /\ \A f \in Frames : (\A d \in Directions : Total(c, d) > 0 => f # Dest1(c)[d])
           /\ (\A d \in New2(c) : f # Dest2(c)[d]) /\ f # local[c].cur
           => \A t \in Slots : new[f][t] = frame[f][t]
      /\ \A f \in Frames : FullFrame(frame, f) /\ f # local[c].cur => FullFrame(new, f)
  BY <1>1, <1>3, <1>4, FlushShapes
<1>7. ASSUME NEW d \in Directions, Total(c, d) > 0
      PROVE  \/ FilledTo(new, Dest1(c)[d], Total(c, d))
             \/ /\ local[c].neighbour[d] /\ Neighbour(c, d) \in spoiled
                /\ FullFrame(new, Dest1(c)[d])
  <2>1. CASE ~Overwrites(c, d)
    BY <1>6, <1>7, <2>1
  <2>2. CASE Overwrites(c, d)
    <3>1. /\ local[c].neighbour[d] /\ Neighbour(c, d) \in spoiled
          /\ FullFrame(frame, Dest1(c)[d]) /\ Dest1(c)[d] \in Frames /\ Dest1(c)[d] # local[c].cur
      BY <1>7, <2>2 DEF Overwrites, DestReady
    <3> QED
      BY <1>6, <3>1
  <2> QED
    BY <2>1, <2>2
<1> QED
  BY <1>2, <1>5, <1>6, <1>7, Zenon

(* Supercells and blocks at some distance.                                  *)
LEMMA PassOther ==
  ASSUME Inv, NEW c \in Area, Pass(c), PassOwn(c), DestReady(c)
  PROVE  /\ \A m \in Cells : m # c /\ (\A d \in Directions : Neighbour(c, d) # m) =>
              /\ list'[m] = list[m] /\ size'[m] = size[m]
              /\ \A f \in Elems(list[m]) : \A t \in Slots : frame'[f][t] = frame[f][t]
         /\ \A b \in Cells, e \in Directions : b # c /\ Private(b, e) =>
              \A t \in Slots : frame'[local[b].dest[e]][t] = frame[local[b].dest[e]][t]
<1> USE Consts
<1>0. c \in Cells
  OBVIOUS
<1>1. ASSUME NEW m \in Cells, m # c, \A d \in Directions : Neighbour(c, d) # m
      PROVE  /\ list'[m] = list[m] /\ size'[m] = size[m]
             /\ \A f \in Elems(list[m]) : \A t \in Slots : frame'[f][t] = frame[f][t]
  <2>1. list'[m] = list[m] /\ size'[m] = size[m]
    BY <1>1 DEF Pass
  <2>2. ASSUME NEW f \in Elems(list[m]) PROVE \A t \in Slots : frame'[f][t] = frame[f][t]
    <3>1. f \in Frames
      BY UsedFacts
    <3>2. \A n \in Cells : n # m => f \notin Elems(list[n])
      BY DEF Inv, HeapOK
    <3>3. f # local[c].cur
      BY <1>0, <1>1, <3>2 DEF PassOwn
    <3>4. \A d \in Directions : ~Loose(c, f, d)
      BY LooseFacts
    <3>5. \A d \in Directions : f \notin Elems(list[Neighbour(c, d)])
      BY <1>0, <1>1, <3>2
    <3> QED
      BY <3>1, <3>3, <3>4, <3>5, PassElsewhere
  <2> QED
    BY <2>1, <2>2
<1>2. ASSUME NEW b \in Cells, NEW e \in Directions, b # c, Private(b, e)
      PROVE  \A t \in Slots : frame'[local[b].dest[e]][t] = frame[local[b].dest[e]][t]
  <2>1. PICK f : f = local[b].dest[e]
    OBVIOUS
  <2>2. f \in Frames /\ \A m \in Cells : f \notin Elems(list[m])
    BY <1>2, <2>1, UsedFacts DEF Inv, HeapOK
  <2>3. \A d \in Directions : ~Loose(c, f, d)
    BY <1>2, <2>1, LooseFacts
  <2>4. f # local[c].cur
    BY <1>0, <2>2 DEF PassOwn
  <2>5. \A t \in Slots : frame'[f][t] = frame[f][t]
    BY <2>2, <2>3, <2>4, PassElsewhere
  <2> QED
    BY <2>1, <2>5
<1> QED
  BY <1>1, <1>2

(* The destinations of the block itself.                                    *)
LEMMA PassDestination ==
  ASSUME Inv, Stride >= 3, NEW c \in Area, Pass(c), PassOwn(c), DestReady(c), NEW d \in Directions
  PROVE  DestinationOK(c, d)'
<1> USE Consts
<1>0. c \in Cells /\ c \in Blocks /\ Shifting(c)
  BY DEF Pass, Shifting
<1>1. PICK n \in Cells : n = Neighbour(c, d)
  BY <1>0
<1>2. /\ list[n] \in Seq(Frames) /\ Len(list[n]) \in Nat /\ size[n] \in 0 .. TileSize
      /\ local[c].count[d] \in 0 .. TileSize /\ local[c].neighbour[d] \in BOOLEAN
      /\ frame \in FrameType /\ local[c].cur \in Frames
      /\ \A f \in Elems(list[n]) : f \in Frames /\ f # local[c].cur
  <2>1. list[n] \in Seq(Frames) /\ n # c
    BY <1>0, <1>1 DEF Inv, Types
  <2>2. Len(list[n]) \in Nat
    BY <2>1, ElemsFacts
  <2>3. \A f \in Elems(list[n]) : f \in Frames /\ f # local[c].cur
    <3>1. \A f \in Elems(list[n]) : f \in Frames
      BY UsedFacts
    <3>2. HeapOK /\ local[c].cur \in Elems(list[c])
      BY DEF Inv, PassOwn
    <3>3. Elems(list[n]) \cap Elems(list[c]) = {}
      BY <1>0, <2>1, <3>2 DEF HeapOK
    <3> QED
      BY <3>1, <3>2, <3>3
  <2> QED
    BY <1>0, <2>1, <2>2, <2>3 DEF Inv, Types, Locals, FrameType, PassOwn
<1>3. /\ local[c].dest[d] = Null => local[c].count[d] = 0 /\ ~local[c].neighbour[d]
      /\ local[c].dest[d] # Null => \/ FilledTo(frame, local[c].dest[d], local[c].count[d])
                                    \/ /\ local[c].neighbour[d] /\ n \in spoiled
                                       /\ FullFrame(frame, local[c].dest[d])
      /\ local[c].neighbour[d] => /\ n \in Area /\ list[n] # <<>>
                                  /\ local[c].dest[d] = list[n][Len(list[n])]
                                  /\ size[n] <= local[c].count[d]
                                  /\ ButLastFull(frame, list[n])
      /\ ~local[c].neighbour[d] /\ n \in Area =>
           AllFull(frame, list[n]) /\ (size[n] = TileSize \/ (size[n] = 0 /\ n \in vacant))
      /\ spoiled' = spoiled /\ vacant' = vacant
  BY <1>0, <1>1 DEF Inv, DestinationOK, Pass
<1>4. /\ Total(c, d) \in Nat /\ Total(c, d) >= local[c].count[d]
      /\ d \in New2(c) => Total(c, d) > TileSize /\ d \in Full(c)
      /\ d \in Full(c) => Total(c, d) >= TileSize
      /\ d \notin Full(c) => Total(c, d) <= TileSize
      /\ Total(c, d) > TileSize => d \in New2(c)
  BY <1>2, TotalFacts
<1>5. /\ d \in Hung(c) <=> d \in Full(c) /\ ~local[c].neighbour[d]
      /\ d \in New1(c) <=> Total(c, d) > 0 /\ local[c].dest[d] = Null
      /\ d \notin New1(c) => Dest1(c)[d] = local[c].dest[d]
      /\ d \notin New2(c) => Dest2(c)[d] = IF d \in Full(c) THEN Null ELSE Dest1(c)[d]
  BY DEF Hung, New1, Dest1, Dest2
<1>6. /\ list'[n] = IF d \in Hung(c) THEN <<Dest1(c)[d]>> \o list[n] ELSE list[n]
      /\ size'[n] = IF d \in Full(c) \ Hung(c) THEN TileSize ELSE size[n]
  BY <1>1 DEF Pass
<1>7. /\ local'[c].dest[d] = Dest2(c)[d]
      /\ local'[c].count[d] = IF d \in Full(c) THEN Total(c, d) - TileSize ELSE Total(c, d)
      /\ local'[c].neighbour[d] = (local[c].neighbour[d] /\ d \notin Full(c))
  BY DEF Pass, RestCount
<1>8. /\ Total(c, d) > 0 => \/ FilledTo(frame', Dest1(c)[d], Total(c, d))
                            \/ /\ local[c].neighbour[d] /\ n \in spoiled
                               /\ FullFrame(frame', Dest1(c)[d])
      /\ d \in New2(c) => FilledTo(frame', Dest2(c)[d], Total(c, d) - TileSize)
      /\ \A f \in Frames : FullFrame(frame, f) /\ f # local[c].cur => FullFrame(frame', f)
  BY <1>1, PassShapes
<1>9. \A k \in 1 .. Len(list[n]) : FullFrame(frame, list[n][k]) => FullFrame(frame', list[n][k])
  BY <1>2, <1>8, ElemsFacts
<1>10. Dest2(c)[d] = Null => local'[c].count[d] = 0 /\ ~local'[c].neighbour[d]
  <2> SUFFICES ASSUME Dest2(c)[d] = Null PROVE local'[c].count[d] = 0 /\ ~local'[c].neighbour[d]
    OBVIOUS
  <2>1. d \notin New2(c)
    BY DEF DestReady
  <2>2. CASE d \in Full(c)
    <3>1. Total(c, d) = TileSize
      BY <1>4, <2>1, <2>2
    <3>2. Total(c, d) - TileSize = 0
      BY <3>1
    <3> QED
      BY <1>7, <2>2, <3>2
  <2>3. CASE d \notin Full(c)
    <3>1. Dest1(c)[d] = Null
      BY <1>5, <2>1, <2>3
    <3>2. d \notin New1(c)
      BY <3>1 DEF DestReady, New1
    <3>3. local[c].dest[d] = Null
      BY <1>5, <3>1, <3>2
    <3>4. Total(c, d) = 0
      BY <1>4, <1>5, <3>2, <3>3
    <3> QED
      BY <1>3, <1>7, <2>3, <3>3, <3>4
  <2> QED
    BY <2>2, <2>3
<1>11. Dest2(c)[d] # Null => \/ FilledTo(frame', Dest2(c)[d], local'[c].count[d])
                             \/ /\ local'[c].neighbour[d] /\ n \in spoiled
                                /\ FullFrame(frame', Dest2(c)[d])
  <2> SUFFICES ASSUME Dest2(c)[d] # Null
               PROVE  \/ FilledTo(frame', Dest2(c)[d], local'[c].count[d])
                      \/ /\ local'[c].neighbour[d] /\ n \in spoiled
                         /\ FullFrame(frame', Dest2(c)[d])
    OBVIOUS
  <2>1. CASE d \in New2(c)
    BY <1>4, <1>7, <1>8, <2>1
  <2>2. CASE d \notin New2(c)
    <3>1. d \notin Full(c) /\ Dest2(c)[d] = Dest1(c)[d] /\ local'[c].count[d] = Total(c, d)
      BY <1>5, <1>7, <2>2
    <3>2. CASE Total(c, d) > 0
      BY <1>7, <1>8, <3>1, <3>2
    <3>3. CASE ~(Total(c, d) > 0)
      <4>1. Total(c, d) = 0 /\ local[c].count[d] = 0
        BY <1>2, <1>4, <3>3
      <4>2. PICK f : f = local[c].dest[d]
        OBVIOUS
      <4>3. Dest1(c)[d] = f /\ f # Null /\ (FilledTo(frame, f, 0) \/ (n \in spoiled /\ FullFrame(frame, f)))
        BY <1>3, <1>5, <3>1, <3>3, <4>1, <4>2
      <4>4. local[c].neighbour[d]
        BY <3>3, <4>2, <4>3 DEF PassOwn, Private
      <4>5. f \in Elems(list[n]) /\ f \in Frames /\ f # local[c].cur
        BY <1>1, <1>2, <4>3, <4>4 DEF PassOwn
      <4>6. ASSUME NEW e \in Directions, Total(c, e) > 0 PROVE f # Dest1(c)[e]
        <5>1. e # d
          BY <3>3, <4>6
        <5>2. CASE local[c].neighbour[e]
          <6>1. Neighbour(c, e) \in Cells /\ Neighbour(c, e) # n
            BY <1>0, <1>1, <5>1, OwnNeighbours
          <6>2. Dest1(c)[e] \in Elems(list[Neighbour(c, e)])
            BY <5>2 DEF PassOwn
          <6>3. HeapOK
            BY DEF Inv
          <6>4. Elems(list[n]) \cap Elems(list[Neighbour(c, e)]) = {}
            BY <6>1, <6>3 DEF HeapOK
          <6> QED
            BY <4>5, <6>2, <6>4
        <5>3. CASE ~local[c].neighbour[e]
          <6>1. Loose(c, Dest1(c)[e], e)
            BY <4>6, <5>3 DEF Loose
          <6> QED
            BY <4>5, <6>1, LooseFacts
        <5> QED
          BY <5>2, <5>3
      <4>7. ASSUME NEW e \in New2(c) PROVE f # Dest2(c)[e]
        <5>1. e \in Directions /\ Loose(c, Dest2(c)[e], e)
          BY DEF Loose, New2, Full
        <5> QED
          BY <4>5, <5>1, LooseFacts
      <4>8. \A t \in Slots : frame'[f][t] = frame[f][t]
        BY <4>5, <4>6, <4>7, PassShapes
      <4>9. CASE FilledTo(frame, f, 0)
        BY <3>1, <4>1, <4>3, <4>8, <4>9 DEF FilledTo
      <4>10. CASE n \in spoiled /\ FullFrame(frame, f)
        BY <1>7, <1>8, <3>1, <4>3, <4>4, <4>5, <4>10
      <4> QED
        BY <4>3, <4>9, <4>10
    <3> QED
      BY <3>2, <3>3
  <2> QED
    BY <2>1, <2>2
<1>12. Private(c, d)' => local'[c].count[d] > 0
  <2> SUFFICES ASSUME Private(c, d)' PROVE local'[c].count[d] > 0
    OBVIOUS
  <2>1. Loose(c, local'[c].dest[d], d)
    BY PassOwners
  <2>2. CASE d \in New2(c)
    BY <1>4, <1>7, <2>2
  <2>3. CASE d \notin New2(c)
    <3>1. Total(c, d) > 0
      BY <2>1, <2>3 DEF Loose
    <3>2. d \notin Full(c)
      BY <1>5, <1>7, <2>3 DEF Private
    <3> QED
      BY <1>7, <3>1, <3>2
  <2> QED
    BY <2>2, <2>3
<1>13. local'[c].neighbour[d] => /\ n \in Area /\ list'[n] # <<>>
                                 /\ Dest2(c)[d] = list'[n][Len(list'[n])]
                                 /\ size'[n] <= local'[c].count[d]
                                 /\ ButLastFull(frame', list'[n])
  <2> SUFFICES ASSUME local'[c].neighbour[d]
               PROVE  /\ n \in Area /\ list'[n] # <<>>
                      /\ Dest2(c)[d] = list'[n][Len(list'[n])]
                      /\ size'[n] <= local'[c].count[d]
                      /\ ButLastFull(frame', list'[n])
    OBVIOUS
  <2>1. local[c].neighbour[d] /\ d \notin Full(c)
    BY <1>7
  <2>2. list'[n] = list[n] /\ size'[n] = size[n] /\ local'[c].count[d] = Total(c, d)
    BY <1>5, <1>6, <1>7, <2>1
  <2>3. Dest2(c)[d] = local[c].dest[d]
    BY <1>4, <1>5, <2>1 DEF PassOwn
  <2>4. size[n] <= Total(c, d)
    BY <1>2, <1>3, <1>4, <2>1
  <2>5. \A k \in 1 .. Len(list[n]) - 1 : k \in 1 .. Len(list[n])
    BY <1>2
  <2>6. ButLastFull(frame', list[n])
    BY <1>3, <1>9, <2>1, <2>5 DEF ButLastFull
  <2> QED
    BY <1>3, <2>1, <2>2, <2>3, <2>4, <2>6
<1>14. ~local'[c].neighbour[d] /\ n \in Area =>
         AllFull(frame', list'[n]) /\ (size'[n] = TileSize \/ (size'[n] = 0 /\ n \in vacant))
  <2> SUFFICES ASSUME ~local'[c].neighbour[d], n \in Area
               PROVE  /\ AllFull(frame', list'[n])
                      /\ size'[n] = TileSize \/ (size'[n] = 0 /\ n \in vacant)
    OBVIOUS
  <2>0. d \in Full(c) => FullFrame(frame', Dest1(c)[d])
    <3> SUFFICES ASSUME d \in Full(c), NEW t \in Slots PROVE frame'[Dest1(c)[d]][t].mask # 0
      BY DEF FullFrame
    <3>1. Total(c, d) >= TileSize /\ Total(c, d) > 0
      BY <1>4
    <3>2. t < Total(c, d)
      BY <1>4, <3>1 DEF Slots
    <3> QED
      BY <1>8, <3>1, <3>2 DEF FilledTo, FullFrame
  <2>1. CASE ~local[c].neighbour[d]
    <3>1. AllFull(frame, list[n]) /\ (size[n] = TileSize \/ (size[n] = 0 /\ n \in vacant))
      BY <1>3, <2>1
    <3>2. AllFull(frame', list[n])
      BY <1>9, <3>1 DEF AllFull
    <3>3. size'[n] = TileSize \/ (size'[n] = 0 /\ n \in vacant)
      BY <1>5, <1>6, <2>1, <3>1
    <3>4. CASE d \notin Hung(c)
      BY <1>6, <3>2, <3>3, <3>4
    <3>5. CASE d \in Hung(c)
      <4>1. PICK x : x = Dest1(c)[d]
        OBVIOUS
      <4>2. x \in Frames
        BY <3>5, <4>1, PassOwners, LooseFacts
      <4>3. PICK q : q = <<x>> \o list[n]
        OBVIOUS
      <4>4. /\ Len(q) = Len(list[n]) + 1 /\ q[1] = x
            /\ \A k \in 2 .. Len(list[n]) + 1 : q[k] = list[n][k - 1]
        BY <1>2, <4>2, <4>3, PrefixFacts, SMTT(30)
      <4>5. ASSUME NEW k \in 1 .. Len(list[n]) + 1 PROVE FullFrame(frame', q[k])
        <5>1. CASE k = 1
          BY <1>5, <2>0, <3>5, <4>1, <4>4, <5>1
        <5>2. CASE k # 1
          <6>1. k \in 2 .. Len(list[n]) + 1 /\ k - 1 \in 1 .. Len(list[n])
            BY <1>2, <5>2
          <6> QED
            BY <3>2, <4>4, <6>1 DEF AllFull
        <5> QED
          BY <5>1, <5>2
      <4>6. AllFull(frame', q)
        BY <4>4, <4>5 DEF AllFull
      <4>7. list'[n] = q
        BY <1>6, <3>5, <4>1, <4>3
      <4> QED
        BY <3>3, <4>6, <4>7
    <3> QED
      BY <3>4, <3>5
  <2>2. CASE local[c].neighbour[d]
    <3>1. d \in Full(c) /\ d \notin Hung(c)
      BY <1>5, <1>7, <2>2
    <3>2. list'[n] = list[n] /\ size'[n] = TileSize
      BY <1>6, <3>1
    <3>3. Dest1(c)[d] = list[n][Len(list[n])]
      BY <1>3, <2>2 DEF PassOwn
    <3>4. \A k \in 1 .. Len(list[n]) : k \in 1 .. Len(list[n]) - 1 \/ k = Len(list[n])
      BY <1>2
    <3>5. AllFull(frame', list[n])
      BY <1>3, <1>9, <2>0, <2>2, <3>1, <3>3, <3>4 DEF AllFull, ButLastFull
    <3> QED
      BY <3>2, <3>5
  <2> QED
    BY <2>1, <2>2
<1> QED
  BY <1>1, <1>3, <1>7, <1>10, <1>11, <1>12, <1>13, <1>14 DEF DestinationOK

LEMMA ShiftFrameInv ==
  ASSUME Inv, Stride >= 3, NEW c \in Area, ShiftFrame(c)
  PROVE  Inv'
<1> USE Consts
<1>0. Pass(c) /\ PassOwn(c) /\ DestReady(c)
  BY PassStep
<1>1. /\ c \in Cells /\ c \in Blocks /\ kernel = "shift" /\ pc[c] = "loop"
      /\ kernel' = kernel /\ offset' = offset /\ mustShift' = mustShift /\ goal' = goal
      /\ \A b \in Cells : b # c => pc'[b] = pc[b] /\ local'[b] = local[b]
      /\ pc'[c] \in {"loop", "end"} /\ vacant' = vacant /\ spoiled' = spoiled
  BY <1>0 DEF Pass
<1>2. Types' /\ HeapOK'
  BY <1>0, PassTypes, PassHeap
<1>3. ParticlesOK'
  <2>1. PICK tf, ts : /\ Transfer(frame, frame', local[c].cur, Leaving(c), tf, ts)
                      /\ WritesOver(c, tf, ts)
    BY <1>0 DEF Pass
  <2>2. ASSUME NEW s \in Leaving(c), frame[tf[s]][ts[s]].mask # 0
        PROVE  goal[frame[tf[s]][ts[s]].id] \in spoiled
    <3>1. ts[s] \in Slots /\ tf[s] \in Frames
      BY <2>1 DEF Transfer
    <3>2. PICK d : d = Dir(c, s) /\ Overwrites(c, d) /\ tf[s] = Dest1(c)[d]
      BY <2>1, <2>2 DEF WritesOver
    <3>3. d \in Directions /\ local[c].neighbour[d] /\ Neighbour(c, d) \in spoiled
      BY <1>0, <3>2 DEF Overwrites, DestReady
    <3>4. PICK n \in Area : n = Neighbour(c, d) /\ tf[s] \in Elems(list[n])
      BY <1>0, <3>2, <3>3 DEF PassOwn
    <3>5. n \in vacant /\ n \in spoiled /\ n \in Cells
      BY <3>3, <3>4 DEF Inv, Types
    <3>6. ~mustShift[n]
      BY <3>5 DEF Inv, CellOK
    <3>7. ~Shifting(n)
      <4>1. n \notin Blocks
        BY <1>1, <3>3, <3>4, OwnNeighbours
      <4> QED
        BY <3>5, <4>1, ShiftingBlocks
    <3>8. Calm(frame, tf[s]) /\ GoalsIn(frame, tf[s], n)
      BY <3>4, <3>5, <3>6, <3>7 DEF Inv, LeaversOK, GoalsOK
    <3>9. frame[tf[s]][ts[s]].mask \in 0 .. 3
      <4>1. frame[tf[s]][ts[s]] \in Slot
        BY <3>1 DEF Inv, Types
      <4> QED
        BY <4>1 DEF Slot
    <3>10. frame[tf[s]][ts[s]].mask = 1
      BY <2>2, <3>1, <3>8, <3>9 DEF Calm
    <3>11. goal[frame[tf[s]][ts[s]].id] = n
      BY <3>1, <3>8, <3>10 DEF GoalsIn, Aim
    <3> QED
      BY <3>5, <3>11
  <2> QED
    BY <1>1, <2>1, <2>2, TransferParticles DEF Inv
<1>4. GoalsOK' /\ \A d \in Directions : \A f : Loose(c, f, d) => Calm(frame', f)
  BY <1>0, PassGoals
<1>5. /\ \A f \in Frames : Calm(frame, f) => Calm(frame', f)
      /\ Calm(frame', local[c].cur)
  BY <1>0, PassShapes
<1>6. /\ \A m \in Cells : \A f : f \in Elems(list'[m]) <=>
           f \in Elems(list[m]) \/ \E d \in Hung(c) : Neighbour(c, d) = m /\ f = Dest1(c)[d]
      /\ \A d \in Hung(c) : d \in Directions /\ Loose(c, Dest1(c)[d], d)
      /\ \A m \in Cells : list'[m] \in Seq(Frames) /\ Len(list'[m]) >= Len(list[m])
  BY <1>0, PassOwners
<1>7. /\ \A m \in Cells : m # c /\ (\A d \in Directions : Neighbour(c, d) # m) =>
           /\ list'[m] = list[m] /\ size'[m] = size[m]
           /\ \A f \in Elems(list[m]) : \A t \in Slots : frame'[f][t] = frame[f][t]
      /\ \A b \in Cells, e \in Directions : b # c /\ Private(b, e) =>
           \A t \in Slots : frame'[local[b].dest[e]][t] = frame[local[b].dest[e]][t]
  BY <1>0, PassOther
<1>8. list'[c] = list[c] /\ list[c] \in Seq(Frames) /\ Len(list[c]) \in Nat
  <2>1. \A d \in Directions : Neighbour(c, d) # c
    OBVIOUS
  <2>2. list[c] \in Seq(Frames)
    BY <1>1 DEF Inv, Types
  <2> QED
    BY <1>0, <1>1, <2>1, <2>2, ElemsFacts DEF Pass
<1>9. \A b \in Cells : Pending(b)' <=> Pending(b)
  BY <1>1 DEF Pending, Rank
<1>10. \A b \in Cells : Shifting(b)' <=> Shifting(b)
  BY <1>1 DEF Shifting
<1>11. PICK i \in 1 .. Len(list[c]) :
         /\ local[c].cur = list[c][i]
         /\ \A k \in 1 .. i - 1 : Calm(frame, list[c][k])
         /\ IF i < Len(list[c]) THEN pc'[c] = "loop" /\ local'[c].cur = list[c][i + 1]
            ELSE pc'[c] = "end" /\ local'[c].cur = Null
  BY <1>0 DEF Pass
<1>12. \A k \in 1 .. i : Calm(frame', list[c][k])
  <2> SUFFICES ASSUME NEW k \in 1 .. i PROVE Calm(frame', list[c][k])
    OBVIOUS
  <2>1. k \in 1 .. Len(list[c]) /\ (k \in 1 .. i - 1 \/ k = i)
    BY <1>8, <1>11
  <2>2. list[c][k] \in Frames
    BY <1>8, <2>1, ElemsFacts
  <2> QED
    BY <1>5, <1>11, <2>1, <2>2
<1>13. ASSUME NEW b \in Cells PROVE LeaversOK(b)'
  <2>1. CASE b = c
    <3> SUFFICES ASSUME pc'[c] = "end" PROVE \A f \in Elems(list'[c]) : Calm(frame', f)
      BY <1>1, <2>1 DEF LeaversOK, Shifting
    <3>1. ~(i < Len(list[c]))
      BY <1>11
    <3>2. i = Len(list[c])
      BY <1>8, <1>11, <3>1
    <3> QED
      BY <1>8, <1>12, <3>2, ElemsFacts
  <2>2. CASE b # c
    <3> SUFFICES ASSUME ~Pending(b)' \/ ~mustShift'[b], ~(Shifting(b)' /\ pc'[b] = "loop"),
                        NEW f \in Elems(list'[b])
                 PROVE  Calm(frame', f)
      BY DEF LeaversOK
    <3>1. f \in Elems(list[b]) => Calm(frame, f) /\ f \in Frames
      BY <1>1, <1>9, <1>10, <2>2, UsedFacts DEF Inv, LeaversOK
    <3>2. CASE f \in Elems(list[b])
      BY <1>5, <3>1, <3>2
    <3>3. CASE \E d \in Hung(c) : f = Dest1(c)[d]
      BY <1>4, <1>6, <3>3
    <3> QED
      BY <1>6, <3>2, <3>3
  <2> QED
    BY <2>1, <2>2
<1>14. ASSUME NEW b \in Cells PROVE BlockOK(b)'
  <2>0. Launched' = Launched /\ c \in Launched /\ Launched = Blocks
    BY <1>1 DEF Launched, Blocks
  <2>1. CASE b = c
    <3>1. pc'[c] = "loop" => i + 1 \in 1 .. Len(list[c]) /\ local'[c].cur = list[c][i + 1]
      BY <1>8, <1>11
    <3>2. (i + 1) - 1 = i
      BY <1>11
    <3>3. pc'[c] = "loop" =>
            \E j \in 1 .. Len(list'[c]) :
              /\ local'[c].cur = list'[c][j]
              /\ kernel' = "shift" /\ \A k \in 1 .. j - 1 : Calm(frame', list'[c][k])
      BY <1>1, <1>8, <1>12, <3>1, <3>2
    <3> QED
      BY <1>1, <2>0, <2>1, <3>3 DEF BlockOK
  <2>2. CASE b # c
    <3>1. BlockOK(b) /\ pc'[b] = pc[b] /\ local'[b] = local[b]
      BY <1>1, <2>2 DEF Inv
    <3>2. CASE pc[b] = "loop"
      <4>1. b \in Blocks
        BY <2>0, <3>1, <3>2 DEF BlockOK
      <4>2. \A d \in Directions : Neighbour(c, d) # b
        BY <1>1, <4>1, OwnNeighbours
      <4>3. list'[b] = list[b]
        BY <1>7, <2>2, <4>2
      <4>4. list[b] \in Seq(Frames)
        BY DEF Inv, Types
      <4>5. PICK j \in 1 .. Len(list[b]) :
              local[b].cur = list[b][j] /\ \A k \in 1 .. j - 1 : Calm(frame, list[b][k])
        BY <1>1, <3>1, <3>2 DEF BlockOK
      <4>6. \A k \in 1 .. j - 1 : list[b][k] \in Frames
        <5>1. \A k \in 1 .. j - 1 : k \in 1 .. Len(list[b])
          BY <4>4, <4>5, ElemsFacts
        <5> QED
          BY <4>4, <5>1, ElemsFacts
      <4>7. \A k \in 1 .. j - 1 : Calm(frame', list[b][k])
        BY <1>5, <4>5, <4>6
      <4> QED
        BY <1>1, <2>0, <3>1, <3>2, <4>1, <4>3, <4>5, <4>7 DEF BlockOK
    <3>3. CASE pc[b] # "loop"
      BY <1>1, <2>0, <3>1, <3>3 DEF BlockOK
    <3> QED
      BY <3>2, <3>3
  <2> QED
    BY <2>1, <2>2
<1>15. ASSUME NEW b \in Area, NEW d \in Directions PROVE DestinationOK(b, d)'
  <2>1. CASE b = c
    BY <1>0, <2>1, PassDestination
  <2>2. CASE b # c
    <3> SUFFICES ASSUME Shifting(b)' PROVE DestinationOK(b, d)'
      BY DEF DestinationOK
    <3>1. Shifting(b) /\ b \in Blocks /\ local'[b] = local[b] /\ b \in Cells
      BY <1>1, <1>10, <2>2, ShiftingBlocks
    <3>2. PICK n \in Cells : n = Neighbour(b, d)
      OBVIOUS
    <3>3. n # c /\ \A e \in Directions : Neighbour(c, e) # n
      <4>1. n \notin Blocks
        BY <3>1, <3>2, OwnNeighbours
      <4>2. \A e \in Directions : Neighbour(c, e) # Neighbour(b, d)
        BY <1>1, <2>2, <3>1, OwnNeighbours
      <4> QED
        BY <1>1, <3>2, <4>1, <4>2, Zenon
    <3>4. /\ list'[n] = list[n] /\ size'[n] = size[n]
          /\ \A f \in Elems(list[n]) : \A t \in Slots : frame'[f][t] = frame[f][t]
      BY <1>7, <3>3
    <3>5. list[n] \in Seq(Frames) /\ Len(list[n]) \in Nat
          /\ \A k \in 1 .. Len(list[n]) : list[n][k] \in Elems(list[n])
      <4>1. list[n] \in Seq(Frames)
        BY DEF Inv, Types
      <4> QED
        BY <4>1, ElemsFacts
    <3>6. PICK x : x = local[b]
      OBVIOUS
    <3>7. /\ x.dest[d] = Null => x.count[d] = 0 /\ ~x.neighbour[d]
          /\ x.dest[d] # Null => \/ FilledTo(frame, x.dest[d], x.count[d])
                                 \/ /\ x.neighbour[d] /\ n \in spoiled
                                    /\ FullFrame(frame, x.dest[d])
          /\ Private(b, d) => x.count[d] > 0
          /\ x.neighbour[d] => /\ n \in Area /\ list[n] # <<>>
                               /\ x.dest[d] = list[n][Len(list[n])]
                               /\ size[n] <= x.count[d]
                               /\ ButLastFull(frame, list[n])
          /\ ~x.neighbour[d] /\ n \in Area =>
               AllFull(frame, list[n]) /\ (size[n] = TileSize \/ (size[n] = 0 /\ n \in vacant))
      BY <3>1, <3>2, <3>6 DEF Inv, DestinationOK
    <3>8. \A k \in 1 .. Len(list[n]) : FullFrame(frame, list[n][k]) => FullFrame(frame', list[n][k])
      BY <3>4, <3>5 DEF FullFrame
    <3>9. ButLastFull(frame, list[n]) => ButLastFull(frame', list[n])
      <4>1. \A k \in 1 .. Len(list[n]) - 1 : k \in 1 .. Len(list[n])
        BY <3>5
      <4> QED
        BY <3>8, <4>1 DEF ButLastFull
    <3>10. AllFull(frame, list[n]) => AllFull(frame', list[n])
      BY <3>8 DEF AllFull
    <3>11. x.dest[d] # Null => \/ FilledTo(frame', x.dest[d], x.count[d])
                               \/ x.neighbour[d] /\ n \in spoiled /\ FullFrame(frame', x.dest[d])
      <4> SUFFICES ASSUME x.dest[d] # Null
                   PROVE  \/ FilledTo(frame', x.dest[d], x.count[d])
                          \/ x.neighbour[d] /\ n \in spoiled /\ FullFrame(frame', x.dest[d])
        OBVIOUS
      <4>1. \A t \in Slots : frame'[x.dest[d]][t] = frame[x.dest[d]][t]
        <5>1. CASE x.neighbour[d]
          <6>1. list[n] # <<>>
            BY <3>7, <5>1
          <6>2. x.dest[d] \in Elems(list[n])
            BY <3>5, <3>7, <5>1, <6>1, ElemsFacts, SMTT(30)
          <6> QED
            BY <3>4, <6>2
        <5>2. CASE ~x.neighbour[d]
          <6>1. Private(b, d)
            BY <3>6, <5>2 DEF Private
          <6> QED
            BY <1>7, <2>2, <3>1, <3>6, <6>1
        <5> QED
          BY <5>1, <5>2
      <4> QED
        BY <3>7, <4>1 DEF FilledTo, FullFrame
    <3>12. Private(b, d)' <=> Private(b, d)
      BY <3>1 DEF Private
    <3>13. local'[b] = x
      BY <3>1, <3>6
    <3> QED
      BY <1>1, <3>2, <3>4, <3>7, <3>9, <3>10, <3>11, <3>12, <3>13 DEF DestinationOK
  <2> QED
    BY <2>1, <2>2
<1>16. ASSUME NEW m \in Area PROVE CellOK(m)'
  <2>0. m \in Cells /\ CellOK(m) /\ Blocks' = Blocks
    BY <1>1 DEF Inv, Blocks
  <2>1. list[m] \in Seq(Frames) /\ (list[m] = <<>> => size[m] = 0 /\ m \in vacant)
    BY <2>0 DEF Inv, Types, CellOK
  <2>2. list'[m] = <<>> => size'[m] = 0 /\ m \in vacant
    <3> SUFFICES ASSUME list'[m] = <<>> PROVE size'[m] = 0 /\ m \in vacant
      OBVIOUS
    <3>1. list[m] = <<>>
      <4>1. Len(list'[m]) >= Len(list[m]) /\ Len(list'[m]) = 0 /\ Len(list[m]) \in Nat
        BY <1>6, <2>0, <2>1, ElemsFacts
      <4>2. ~(Len(list[m]) > 0)
        BY <4>1
      <4> QED
        BY <2>1, <4>2, ElemsFacts
    <3>2. \A f : f \notin Elems(list[m])
      BY <3>1 DEF Elems
    <3>3. ASSUME NEW d \in Directions, Neighbour(c, d) = m PROVE size'[m] = size[m]
      <4>1. ~local[c].neighbour[d]
        BY <1>0, <3>2, <3>3 DEF PassOwn
      <4>2. d \notin Full(c) \ Hung(c)
        BY <4>1 DEF Hung
      <4> QED
        BY <1>0, <3>3, <4>2 DEF Pass
    <3>4. size'[m] = size[m]
      BY <1>0, <2>0, <3>3 DEF Pass
    <3> QED
      BY <2>1, <3>1, <3>4
  <2>3. ~GapsDone(m)'
    BY <1>1 DEF GapsDone
  <2>4. ASSUME CompactDue(m)' PROVE CompactList(frame', list'[m], size'[m]) \/ WrongSize(m)'
    <3>1. m # c
      BY <1>1, <2>0, <2>4 DEF CompactDue
    <3>2. ASSUME NEW d \in Directions, Neighbour(c, d) = m PROVE FALSE
      <4>1. ~Shifting(c)'
        BY <1>1, <2>4, <3>2 DEF CompactDue
      <4> QED
        BY <1>1, <4>1 DEF Shifting
    <3>3. CompactDue(m)
      <4>1. m \in Blocks => pc[m] = "start"
        BY <1>1, <2>0, <2>4, <3>1 DEF CompactDue
      <4>2. ASSUME NEW b \in Area, NEW d \in Directions, Neighbour(b, d) = m PROVE ~Shifting(b)
        <5>1. ~Shifting(b)'
          BY <1>1, <2>4, <4>2 DEF CompactDue
        <5> QED
          BY <1>10, <5>1
      <4> QED
        BY <1>1, <4>1, <4>2 DEF CompactDue
    <3>4. CompactList(frame, list[m], size[m]) \/ WrongSize(m)
      BY <2>0, <3>3 DEF CellOK
    <3>5. /\ list'[m] = list[m] /\ size'[m] = size[m]
          /\ \A f \in Elems(list[m]) : \A t \in Slots : frame'[f][t] = frame[f][t]
      BY <1>7, <2>0, <3>1, <3>2
    <3>6. /\ \A k \in 1 .. Len(list[m]) : list[m][k] \in Elems(list[m])
          /\ list[m] # <<>> => Len(list[m]) \in 1 .. Len(list[m])
          /\ \A k \in 1 .. Len(list[m]) - 1 : k \in 1 .. Len(list[m])
      BY <2>1, ElemsFacts
    <3>7. \A k \in 1 .. Len(list[m]) : \A t \in Slots : frame'[list[m][k]][t] = frame[list[m][k]][t]
      BY <3>5, <3>6
    <3>8. CASE CompactList(frame, list[m], size[m]) /\ list[m] # <<>>
      <4>1. ButLastFull(frame', list[m])
        BY <3>6, <3>7, <3>8 DEF CompactList, ButLastFull, FullFrame
      <4>2. FilledTo(frame', list[m][Len(list[m])], size[m])
        BY <3>6, <3>7, <3>8 DEF CompactList, FilledTo
      <4> QED
        BY <3>5, <4>1, <4>2 DEF CompactList
    <3>9. CASE WrongSize(m) \/ list[m] = <<>>
      <4>1. m \in vacant /\ (size[m] = 0 \/ m \in spoiled)
        BY <2>1, <3>9 DEF WrongSize
      <4>2. AllFull(frame', list[m])
        <5>1. CASE WrongSize(m)
          BY <3>7, <5>1 DEF WrongSize, AllFull, FullFrame
        <5>2. CASE list[m] = <<>>
          <6>1. \A k \in 1 .. Len(list[m]) : FALSE
            BY <5>2
          <6> QED
            BY <6>1 DEF AllFull
        <5> QED
          BY <3>9, <5>1, <5>2
      <4> QED
        BY <1>1, <3>5, <4>1, <4>2 DEF WrongSize
    <3> QED
      BY <3>4, <3>8, <3>9
  <2>5. m \in vacant' => ~mustShift'[m]
    BY <1>1, <2>0 DEF CellOK
  <2> QED
    BY <1>1, <2>2, <2>3, <2>4, <2>5 DEF CellOK
<1>17. GuardsOK'
  <2>1. ASSUME NEW b \in Area, NEW d \in Directions, Pending(b)', Neighbour(b, d) \notin Area
        PROVE  list'[Neighbour(b, d)] = <<>>
    <3>1. Pending(b) /\ b # c
      <4>1. Pending(b) /\ b \in Cells
        BY <1>9, <2>1
      <4>2. b = c => pc[b] = "start"
        BY <1>1, <4>1, PendingFacts
      <4> QED
        BY <1>1, <4>1, <4>2
    <3>2. PICK n \in Cells : n = Neighbour(b, d)
      OBVIOUS
    <3>3. list[n] = <<>>
      BY <2>1, <3>1, <3>2 DEF Inv, GuardsOK
    <3>4. n # c /\ \A e \in Directions : Neighbour(c, e) # n
      BY <2>1, <3>1, <3>2 DEF Area, Neighbour, Directions
    <3>5. list'[n] = list[n]
      BY <1>7, <3>4
    <3> QED
      BY <3>2, <3>3, <3>5
  <2> QED
    BY <1>1, <2>1 DEF GuardsOK
<1> QED
  BY <1>2, <1>3, <1>4, <1>13, <1>14, <1>15, <1>16, <1>17 DEF Inv

(* The end of a block, as the proof below uses it: private frames become    *)
(* the last ones of the neighbours.                                         *)
Ends(c) ==
  /\ kernel = "shift" /\ c \in Blocks /\ pc[c] = "end"
  /\ kernel' = kernel /\ offset' = offset /\ mustShift' = mustShift /\ goal' = goal
  /\ frame' = frame /\ used' = used /\ lost' = lost /\ vacant' = vacant /\ spoiled' = spoiled
  /\ \A m \in Cells : (\A d \in Directions : Neighbour(c, d) # m) =>
       list'[m] = list[m] /\ size'[m] = size[m]
  /\ \A d \in Directions :
       /\ list'[Neighbour(c, d)] = IF Private(c, d) THEN Append(list[Neighbour(c, d)], local[c].dest[d])
                                   ELSE list[Neighbour(c, d)]
       /\ size'[Neighbour(c, d)] = IF local[c].count[d] > 0 THEN local[c].count[d]
                                   ELSE size[Neighbour(c, d)]
  /\ \A b \in Cells : b # c => pc'[b] = pc[b] /\ local'[b] = local[b]
  /\ pc'[c] = "done" /\ local'[c] = NoLocal

LEMMA EndStep ==
  ASSUME Inv, Stride >= 3, NEW c \in Area, ShiftEnd(c)
  PROVE  Ends(c) /\ Types'
<1> USE Consts
<1> DEFINE x == local[c]
<1> DEFINE filled == {d \in Directions : x.count[d] > 0}
<1> DEFINE to(n) == {d \in filled : Neighbour(c, d) = n}
<1>0. /\ c \in Cells /\ c \in Blocks /\ kernel = "shift" /\ pc[c] = "end"
      /\ kernel' = kernel /\ offset' = offset /\ mustShift' = mustShift /\ goal' = goal
      /\ frame' = frame /\ lost' = lost /\ vacant' = vacant /\ spoiled' = spoiled
      /\ Types /\ Shifting(c)
  BY DEF ShiftEnd, At, Launched, Inv, Shifting, history
<1>1. /\ pc' = [pc EXCEPT ![c] = "done"] /\ local' = [local EXCEPT ![c] = NoLocal]
      /\ list' = [n \in Cells |->
           IF \E d \in to(n) : ~x.neighbour[d]
           THEN Append(list[n], x.dest[CHOOSE d \in to(n) : TRUE]) ELSE list[n]]
      /\ size' = [n \in Cells |-> IF to(n) # {} THEN x.count[CHOOSE d \in to(n) : TRUE] ELSE size[n]]
      /\ used' = used \ {x.dest[d] : d \in {e \in Directions \ filled : ~x.neighbour[e]}}
  BY DEF ShiftEnd
<1>2. /\ pc \in [Cells -> {"start", "loop", "end", "done"}] /\ local \in [Cells -> Locals]
      /\ list \in [Cells -> Seq(Frames)] /\ size \in [Cells -> 0 .. TileSize] /\ used \subseteq Frames
  BY <1>0 DEF Types
<1>3. \A d \in Directions :
        /\ x.count[d] \in 0 .. TileSize /\ x.neighbour[d] \in BOOLEAN /\ x.dest[d] \in Frames \cup {Null}
        /\ x.dest[d] = Null => x.count[d] = 0
        /\ Private(c, d) => x.count[d] > 0
  <2>1. x \in Locals
    BY <1>0, <1>2
  <2> QED
    BY <1>0, <2>1 DEF Inv, DestinationOK, Locals
<1>4. \A d \in Directions : Private(c, d) <=> d \in filled /\ ~x.neighbour[d]
  BY <1>3 DEF Private
<1>5. used' = used
  <2>1. \A d \in Directions \ filled : ~x.neighbour[d] => x.dest[d] = Null
    BY <1>4 DEF Private
  <2> HIDE DEF filled, x
  <2> QED
    BY <1>1, <1>2, <2>1
<1>6. \A d, e \in Directions : Neighbour(c, d) = Neighbour(c, e) => d = e
  BY <1>0, OwnNeighbours
<1>7. \A m \in Cells :
        /\ list'[m] = IF \E d \in to(m) : ~x.neighbour[d]
                      THEN Append(list[m], x.dest[CHOOSE d \in to(m) : TRUE]) ELSE list[m]
        /\ size'[m] = IF to(m) # {} THEN x.count[CHOOSE d \in to(m) : TRUE] ELSE size[m]
  BY <1>1
<1>8. ASSUME NEW m \in Cells, \A d \in Directions : Neighbour(c, d) # m
      PROVE  list'[m] = list[m] /\ size'[m] = size[m]
  <2>1. to(m) = {}
    BY <1>8
  <2> QED
    BY <1>7, <2>1
<1>9. ASSUME NEW d \in Directions
      PROVE  /\ list'[Neighbour(c, d)] = IF Private(c, d) THEN Append(list[Neighbour(c, d)], x.dest[d])
                                         ELSE list[Neighbour(c, d)]
             /\ size'[Neighbour(c, d)] = IF x.count[d] > 0 THEN x.count[d]
                                         ELSE size[Neighbour(c, d)]
  <2>1. PICK m \in Cells : m = Neighbour(c, d)
    BY <1>0
  <2>2. to(m) = IF d \in filled THEN {d} ELSE {}
    BY <1>6, <2>1
  <2>3. d \in filled => (CHOOSE e \in to(m) : TRUE) = d
    BY <2>2
  <2>4. d \in filled <=> x.count[d] > 0
    OBVIOUS
  <2> HIDE DEF to, filled, x
  <2>5. /\ list'[m] = IF d \in filled /\ ~x.neighbour[d] THEN Append(list[m], x.dest[d]) ELSE list[m]
        /\ size'[m] = IF d \in filled THEN x.count[d] ELSE size[m]
    BY <1>7, <2>2, <2>3
  <2> QED
    BY <1>4, <2>1, <2>4, <2>5
<1>10. /\ \A b \in Cells : b # c => pc'[b] = pc[b] /\ local'[b] = local[b]
       /\ pc'[c] = "done" /\ local'[c] = NoLocal
  BY <1>0, <1>1, <1>2
<1>11. Ends(c)
  BY <1>0, <1>5, <1>8, <1>9, <1>10 DEF Ends
<1>12. \A m \in Cells : list'[m] \in Seq(Frames) /\ size'[m] \in 0 .. TileSize
  <2> SUFFICES ASSUME NEW m \in Cells PROVE list'[m] \in Seq(Frames) /\ size'[m] \in 0 .. TileSize
    OBVIOUS
  <2>1. CASE \A d \in Directions : Neighbour(c, d) # m
    BY <1>2, <1>8, <2>1
  <2>2. CASE \E d \in Directions : Neighbour(c, d) = m
    <3>1. PICK d \in Directions : Neighbour(c, d) = m
      BY <2>2
    <3>2. Private(c, d) => x.dest[d] \in Frames
      BY <1>3 DEF Private
    <3>3. list[m] \in Seq(Frames) /\ size[m] \in 0 .. TileSize
      BY <1>2
    <3>4. Private(c, d) => Append(list[m], x.dest[d]) \in Seq(Frames)
      BY <3>2, <3>3, AppendProperties
    <3> HIDE DEF x
    <3> QED
      BY <1>3, <1>9, <3>1, <3>3, <3>4
  <2> QED
    BY <2>1, <2>2
<1>13. list' \in [Cells -> Seq(Frames)] /\ size' \in [Cells -> 0 .. TileSize]
  <2>1. list' = [m \in Cells |-> list'[m]] /\ size' = [m \in Cells |-> size'[m]]
    BY <1>1
  <2> QED
    BY <1>12, <2>1
<1>14. NoLocal \in Locals
  <2>1. 0 \in 0 .. TileSize
    OBVIOUS
  <2> QED
    BY <2>1 DEF NoLocal, Locals
<1>15. /\ local' \in [Cells -> Locals]
       /\ pc' \in [Cells -> {"start", "loop", "end", "done"}]
  BY <1>0, <1>1, <1>2, <1>14
<1> QED
  BY <1>0, <1>5, <1>11, <1>13, <1>15 DEF Types

LEMMA ShiftEndInv ==
  ASSUME Inv, Stride >= 3, NEW c \in Area, ShiftEnd(c)
  PROVE  Inv'
<1> USE Consts
<1>0. Ends(c) /\ Types'
  BY EndStep
<1>1. /\ c \in Cells /\ c \in Blocks /\ kernel = "shift" /\ pc[c] = "end" /\ Shifting(c)
      /\ kernel' = kernel /\ offset' = offset /\ mustShift' = mustShift /\ goal' = goal
      /\ frame' = frame /\ used' = used /\ lost' = lost /\ vacant' = vacant /\ spoiled' = spoiled
      /\ \A b \in Cells : b # c => pc'[b] = pc[b] /\ local'[b] = local[b]
      /\ pc'[c] = "done" /\ local'[c] = NoLocal
  BY <1>0 DEF Ends, Shifting
<1>2. \A d \in Directions : ~Private(c, d)'
  BY <1>1 DEF Private, NoLocal
<1>3. \A b \in Cells, d \in Directions : b # c =>
        (Private(b, d)' <=> Private(b, d)) /\ local'[b].dest[d] = local[b].dest[d]
  BY <1>1 DEF Private
<1>4. \A d, e \in Directions : Neighbour(c, d) = Neighbour(c, e) => d = e
  BY <1>1, OwnNeighbours
<1>5. \A m \in Cells : list[m] \in Seq(Frames) /\ Distinct(list[m]) /\ Len(list[m]) \in Nat
  <2>1. \A m \in Cells : list[m] \in Seq(Frames) /\ Distinct(list[m])
    BY DEF Inv, Types, HeapOK
  <2> QED
    BY <2>1, ElemsFacts
<1>6. \A d \in Directions : Private(c, d) =>
        local[c].dest[d] \in Frames /\ \A m \in Cells : local[c].dest[d] \notin Elems(list[m])
  BY <1>1, UsedFacts DEF Inv, HeapOK
<1>7. ASSUME NEW m \in Cells
      PROVE  /\ Distinct(list'[m])
             /\ \A f : f \in Elems(list'[m]) <=> \/ f \in Elems(list[m])
                  \/ \E d \in Directions : Private(c, d) /\ Neighbour(c, d) = m /\ f = local[c].dest[d]
             /\ list[m] # <<>> => list'[m] # <<>>
  <2>1. CASE \A d \in Directions : Private(c, d) => Neighbour(c, d) # m
    <3>1. list'[m] = list[m]
      <4>1. CASE \A d \in Directions : Neighbour(c, d) # m
        BY <1>0, <4>1 DEF Ends
      <4>2. CASE \E d \in Directions : Neighbour(c, d) = m
        <5>1. PICK d \in Directions : Neighbour(c, d) = m
          BY <4>2
        <5> QED
          BY <1>0, <2>1, <5>1 DEF Ends
      <4> QED
        BY <4>1, <4>2
    <3> QED
      BY <1>5, <2>1, <3>1
  <2>2. CASE \E d \in Directions : Private(c, d) /\ Neighbour(c, d) = m
    <3>1. PICK d \in Directions : Private(c, d) /\ Neighbour(c, d) = m
      BY <2>2
    <3>2. PICK y : y = local[c].dest[d]
      OBVIOUS
    <3>3. PICK q : q = Append(list[m], y)
      OBVIOUS
    <3>4. y \in Frames /\ y \notin Elems(list[m])
      BY <1>6, <3>1, <3>2
    <3>5. q # <<>> /\ Elems(q) = Elems(list[m]) \cup {y} /\ Distinct(q)
      BY <1>5, <3>3, <3>4, AppendFacts
    <3>6. list'[m] = q
      BY <1>0, <3>1, <3>2, <3>3 DEF Ends
    <3>7. \A e \in Directions : Neighbour(c, e) = m => e = d
      BY <1>4, <3>1
    <3> QED
      BY <3>1, <3>2, <3>5, <3>6, <3>7
  <2> QED
    BY <2>1, <2>2
<1>8. \A m, n \in Cells : m # n => Elems(list[m]) \cap Elems(list[n]) = {}
  BY DEF Inv, HeapOK
<1>9. \A b, a \in Cells, d, e \in Directions :
        Private(b, d) /\ Private(a, e) /\ local[b].dest[d] = local[a].dest[e] => b = a /\ d = e
  BY DEF Inv, HeapOK
<1>10. HeapOK'
  <2>1. \A m, n \in Cells : m # n => Elems(list'[m]) \cap Elems(list'[n]) = {}
    <3> SUFFICES ASSUME NEW m \in Cells, NEW n \in Cells, m # n,
                        NEW f, f \in Elems(list'[m]), f \in Elems(list'[n])
                 PROVE  FALSE
      OBVIOUS
    <3>1. CASE f \in Elems(list[m]) /\ f \in Elems(list[n])
      BY <1>8, <3>1
    <3>2. CASE f \notin Elems(list[m]) \/ f \notin Elems(list[n])
      <4>1. PICK d \in Directions : Private(c, d) /\ f = local[c].dest[d]
        BY <1>7, <3>2
      <4>2. f \notin Elems(list[m]) /\ f \notin Elems(list[n])
        BY <1>6, <4>1
      <4>3. PICK e \in Directions : Private(c, e) /\ Neighbour(c, e) = m /\ f = local[c].dest[e]
        BY <1>7, <4>2
      <4>4. PICK g \in Directions : Private(c, g) /\ Neighbour(c, g) = n /\ f = local[c].dest[g]
        BY <1>7, <4>2
      <4>5. e = g
        BY <1>1, <1>9, <4>3, <4>4
      <4> QED
        BY <4>3, <4>4, <4>5
    <3> QED
      BY <3>1, <3>2
  <2>2. \A b, m \in Cells, d \in Directions : Private(b, d)' => local'[b].dest[d] \notin Elems(list'[m])
    <3> SUFFICES ASSUME NEW b \in Cells, NEW m \in Cells, NEW d \in Directions, Private(b, d)',
                        local'[b].dest[d] \in Elems(list'[m])
                 PROVE  FALSE
      OBVIOUS
    <3>1. b # c /\ Private(b, d) /\ local'[b].dest[d] = local[b].dest[d]
      BY <1>2, <1>3
    <3>2. local[b].dest[d] \notin Elems(list[m])
      BY <3>1 DEF Inv, HeapOK
    <3>3. PICK e \in Directions : Private(c, e) /\ local[b].dest[d] = local[c].dest[e]
      BY <1>7, <3>1, <3>2
    <3> QED
      BY <1>1, <1>9, <3>1, <3>3
  <2>3. \A b, a \in Cells, d, e \in Directions :
          Private(b, d)' /\ Private(a, e)' /\ local'[b].dest[d] = local'[a].dest[e] => b = a /\ d = e
    <3> SUFFICES ASSUME NEW b \in Cells, NEW a \in Cells, NEW d \in Directions, NEW e \in Directions,
                        Private(b, d)', Private(a, e)', local'[b].dest[d] = local'[a].dest[e]
                 PROVE  b = a /\ d = e
      OBVIOUS
    <3>1. b # c /\ a # c
      BY <1>2
    <3>2. Private(b, d) /\ Private(a, e) /\ local[b].dest[d] = local[a].dest[e]
      BY <1>3, <3>1
    <3> QED
      BY <1>9, <3>2
  <2>4. ASSUME NEW f \in Frames
        PROVE  f \in used' <=> \/ \E m \in Cells : f \in Elems(list'[m])
                               \/ \E b \in Cells, d \in Directions : Private(b, d)' /\ local'[b].dest[d] = f
                               \/ f \in lost'
    <3>1. f \in used <=> \/ \E m \in Cells : f \in Elems(list[m])
                         \/ \E b \in Cells, d \in Directions : Private(b, d) /\ local[b].dest[d] = f
                         \/ f \in lost
      BY DEF Inv, HeapOK
    <3>2. ASSUME NEW m \in Cells, f \in Elems(list[m]) PROVE f \in Elems(list'[m])
      BY <1>7, <3>2
    <3>3. ASSUME NEW b \in Cells, NEW d \in Directions, Private(b, d), local[b].dest[d] = f
          PROVE  \/ \E m \in Cells : f \in Elems(list'[m])
                 \/ Private(b, d)' /\ local'[b].dest[d] = f
      <4>1. CASE b # c
        BY <1>3, <3>3, <4>1
      <4>2. CASE b = c
        <5>1. PICK m \in Cells : m = Neighbour(c, d)
          BY <1>1
        <5>2. f \in Elems(list'[m])
          BY <1>7, <3>3, <4>2, <5>1
        <5> QED
          BY <5>2
      <4> QED
        BY <4>1, <4>2
    <3>4. ASSUME NEW m \in Cells, f \in Elems(list'[m]) PROVE f \in used
      <4>1. CASE f \in Elems(list[m])
        BY <3>1, <4>1
      <4>2. CASE \E d \in Directions : Private(c, d) /\ f = local[c].dest[d]
        BY <1>1, <3>1, <4>2
      <4> QED
        BY <1>7, <3>4, <4>1, <4>2
    <3>5. ASSUME NEW b \in Cells, NEW d \in Directions, Private(b, d)', local'[b].dest[d] = f
          PROVE  f \in used
      <4>1. b # c
        BY <1>2, <3>5
      <4>2. Private(b, d) /\ local[b].dest[d] = f
        BY <1>3, <3>5, <4>1
      <4> QED
        BY <3>1, <4>2
    <3>6. f \in used => \/ \E m \in Cells : f \in Elems(list'[m])
                        \/ \E b \in Cells, d \in Directions : Private(b, d)' /\ local'[b].dest[d] = f
                        \/ f \in lost
      BY <3>1, <3>2, <3>3
    <3>7. f \in lost => f \in used
      BY <3>1
    <3> QED
      BY <1>1, <3>4, <3>5, <3>6, <3>7
  <2>5. \A f \in Frames \ used' : \A s \in Slots : frame'[f][s].mask = 0
    BY <1>1 DEF Inv, HeapOK
  <2>6. \A m \in Cells : Distinct(list'[m])
    BY <1>7
  <2>7. ASSUME NEW m \in Cells PROVE Elems(list'[m]) \cap lost' = {}
    <3>1. \A f \in Elems(list[m]) : f \notin lost
      BY DEF Inv, HeapOK
    <3>2. \A d \in Directions : Private(c, d) => local[c].dest[d] \notin lost
      BY <1>1 DEF Inv, HeapOK
    <3> QED
      BY <1>1, <1>7, <3>1, <3>2
  <2>8. ASSUME NEW b \in Cells, NEW d \in Directions, Private(b, d)'
        PROVE  local'[b].dest[d] \notin lost'
    <3>1. b # c
      BY <1>2, <2>8
    <3>2. Private(b, d) /\ local'[b].dest[d] = local[b].dest[d]
      BY <1>3, <2>8, <3>1
    <3> QED
      BY <1>1, <3>2 DEF Inv, HeapOK
  <2>9. \A f \in lost' : \A s \in Slots : frame'[f][s].mask = 0
    BY <1>1 DEF Inv, HeapOK
  <2> QED
    BY <2>1, <2>2, <2>3, <2>4, <2>5, <2>6, <2>7, <2>8, <2>9 DEF HeapOK
<1>11. ParticlesOK'
  BY <1>1 DEF Inv, ParticlesOK, OneSlot, InSlot
<1>12. \A d \in Directions : Private(c, d) =>
         Calm(frame, local[c].dest[d]) /\ GoalsIn(frame, local[c].dest[d], Neighbour(c, d))
  BY <1>1 DEF Inv, GoalsOK
<1>13. GoalsOK'
  <2>1. ASSUME NEW m \in Cells, NEW f \in Elems(list'[m]) PROVE GoalsIn(frame, f, m)'
    <3>1. GoalsIn(frame, f, m)
      BY <1>7, <1>12 DEF Inv, GoalsOK
    <3> QED
      BY <1>1, <3>1 DEF GoalsIn
  <2>2. ASSUME NEW b \in Cells, NEW e \in Directions, Private(b, e)'
        PROVE  /\ Calm(frame', local'[b].dest[e])
               /\ GoalsIn(frame, local[b].dest[e], Neighbour(b, e))'
    <3>1. b # c
      BY <1>2, <2>2
    <3>2. Private(b, e) /\ local'[b].dest[e] = local[b].dest[e]
      BY <1>3, <2>2, <3>1
    <3>3. Calm(frame, local[b].dest[e]) /\ GoalsIn(frame, local[b].dest[e], Neighbour(b, e))
      BY <3>2 DEF Inv, GoalsOK
    <3> QED
      BY <1>1, <3>2, <3>3 DEF GoalsIn, Calm
  <2> QED
    BY <2>1, <2>2 DEF GoalsOK
<1>14. \A b \in Cells : Pending(b)' <=> Pending(b)
  BY <1>1 DEF Pending, Rank
<1>15. ASSUME NEW b \in Cells PROVE LeaversOK(b)'
  <2> SUFFICES ASSUME ~Pending(b)' \/ ~mustShift'[b], ~(Shifting(b)' /\ pc'[b] = "loop"),
                      NEW f \in Elems(list'[b])
               PROVE  Calm(frame', f)
    BY DEF LeaversOK
  <2>1. ~(Shifting(b) /\ pc[b] = "loop")
    BY <1>1 DEF Shifting
  <2>2. f \in Elems(list[b]) => Calm(frame, f)
    BY <1>1, <1>14, <2>1 DEF Inv, LeaversOK
  <2>3. Calm(frame, f)
    BY <1>7, <1>12, <2>2
  <2> QED
    BY <1>1, <2>3
<1>16. ASSUME NEW b \in Cells PROVE BlockOK(b)'
  <2>0. Launched' = Launched /\ c \in Launched /\ Launched = Blocks
    BY <1>1 DEF Launched, Blocks
  <2>1. CASE b = c
    BY <1>1, <2>0, <2>1 DEF BlockOK
  <2>2. CASE b # c
    <3>1. BlockOK(b) /\ pc'[b] = pc[b] /\ local'[b] = local[b]
      BY <1>1, <2>2 DEF Inv
    <3>2. b \in Blocks => list'[b] = list[b]
      <4> SUFFICES ASSUME b \in Blocks PROVE list'[b] = list[b]
        OBVIOUS
      <4>1. \A d \in Directions : Neighbour(c, d) # b
        BY <1>1, OwnNeighbours
      <4> QED
        BY <1>0, <4>1 DEF Ends
    <3>3. pc[b] = "loop" => list'[b] = list[b]
      BY <2>0, <3>1, <3>2 DEF BlockOK
    <3> QED
      BY <1>1, <2>0, <3>1, <3>3 DEF BlockOK
  <2> QED
    BY <2>1, <2>2
<1>17. ASSUME NEW b \in Area, NEW d \in Directions PROVE DestinationOK(b, d)'
  <2>1. CASE b = c
    BY <1>1, <2>1 DEF DestinationOK, Shifting
  <2>2. CASE b # c
    <3> SUFFICES ASSUME Shifting(b)' PROVE DestinationOK(b, d)'
      BY DEF DestinationOK
    <3>1. Shifting(b) /\ b \in Blocks /\ local'[b] = local[b] /\ b \in Cells
      <4>1. b \in Cells /\ Shifting(b) /\ local'[b] = local[b]
        BY <1>1, <2>2 DEF Shifting
      <4> QED
        BY <4>1, ShiftingBlocks
    <3>2. PICK n \in Cells : n = Neighbour(b, d)
      OBVIOUS
    <3>3. \A e \in Directions : Neighbour(c, e) # n
      BY <1>1, <2>2, <3>1, <3>2, OwnNeighbours
    <3>4. list'[n] = list[n] /\ size'[n] = size[n]
      BY <1>0, <3>3 DEF Ends
    <3>5. DestinationOK(b, d)
      BY DEF Inv
    <3>6. Private(b, d)' <=> Private(b, d)
      BY <3>1 DEF Private
    <3> QED
      BY <1>1, <3>1, <3>2, <3>4, <3>5, <3>6 DEF DestinationOK
  <2> QED
    BY <2>1, <2>2
<1>18. ASSUME NEW m \in Area PROVE CellOK(m)'
  <2>0. /\ m \in Cells /\ CellOK(m) /\ Blocks' = Blocks /\ list[m] \in Seq(Frames)
        /\ list[m] = <<>> => size[m] = 0 /\ m \in vacant
        /\ m \in spoiled => m \in vacant
    BY <1>1 DEF Inv, Blocks, CellOK, Types
  <2>1. list'[m] = <<>> => size'[m] = 0 /\ m \in vacant
    <3> SUFFICES ASSUME list'[m] = <<>> PROVE size'[m] = 0 /\ m \in vacant
      OBVIOUS
    <3>1. list[m] = <<>>
      BY <1>7, <2>0
    <3>2. \A f : f \notin Elems(list'[m])
      BY DEF Elems
    <3>3. ASSUME NEW d \in Directions, Neighbour(c, d) = m PROVE size'[m] = size[m]
      <4>1. ~Private(c, d)
        BY <1>7, <2>0, <3>2, <3>3
      <4>2. ~local[c].neighbour[d]
        BY <1>1, <3>1, <3>3 DEF Inv, DestinationOK
      <4>3. local[c].count[d] = 0
        BY <1>1, <4>1, <4>2 DEF Inv, DestinationOK, Private
      <4> QED
        BY <1>0, <3>3, <4>3 DEF Ends
    <3>4. size'[m] = size[m]
      BY <1>0, <2>0, <3>3 DEF Ends
    <3> QED
      BY <2>0, <3>1, <3>4
  <2>2. ~GapsDone(m)'
    BY <1>1 DEF GapsDone
  <2>3. ASSUME CompactDue(m)' PROVE CompactList(frame, list'[m], size'[m]) \/ WrongSize(m)'
    <3>1. m # c
      BY <1>1, <2>0, <2>3 DEF CompactDue
    <3>2. CASE \A d \in Directions : Neighbour(c, d) # m
      <4>1. list'[m] = list[m] /\ size'[m] = size[m]
        BY <1>0, <2>0, <3>2 DEF Ends
      <4>2. m \in Blocks => pc[m] = "start"
        BY <1>1, <2>0, <2>3, <3>1 DEF CompactDue
      <4>3. ASSUME NEW b \in Area, NEW d \in Directions, Neighbour(b, d) = m PROVE ~Shifting(b)
        <5>1. ~Shifting(b)' /\ b # c
          BY <1>1, <2>3, <3>2, <4>3 DEF CompactDue
        <5> QED
          BY <1>1, <5>1 DEF Shifting
      <4>4. CompactDue(m)
        BY <1>1, <4>2, <4>3 DEF CompactDue
      <4> QED
        BY <1>1, <2>0, <4>1, <4>4 DEF CellOK, WrongSize
    <3>3. CASE \E d \in Directions : Neighbour(c, d) = m
      <4>1. PICK d \in Directions : Neighbour(c, d) = m
        BY <3>3
      <4>2. PICK x : x = local[c]
        OBVIOUS
      <4>3. /\ x.dest[d] = Null => x.count[d] = 0 /\ ~x.neighbour[d]
            /\ x.dest[d] # Null => \/ FilledTo(frame, x.dest[d], x.count[d])
                                   \/ /\ x.neighbour[d] /\ m \in spoiled
                                      /\ FullFrame(frame, x.dest[d])
            /\ Private(c, d) => x.count[d] > 0
            /\ x.neighbour[d] => /\ list[m] # <<>> /\ x.dest[d] = list[m][Len(list[m])]
                                 /\ size[m] <= x.count[d]
                                 /\ ButLastFull(frame, list[m])
            /\ ~x.neighbour[d] =>
                 AllFull(frame, list[m]) /\ (size[m] = TileSize \/ (size[m] = 0 /\ m \in vacant))
        BY <1>1, <4>1, <4>2 DEF Inv, DestinationOK
      <4>4. /\ list'[m] = IF Private(c, d) THEN Append(list[m], x.dest[d]) ELSE list[m]
            /\ size'[m] = IF x.count[d] > 0 THEN x.count[d] ELSE size[m]
        BY <1>0, <4>1, <4>2 DEF Ends
      <4>5. x.count[d] \in 0 .. TileSize /\ size[m] \in 0 .. TileSize /\ Len(list[m]) \in Nat
        BY <1>1, <1>5, <2>0, <4>2 DEF Inv, Types, Locals
      <4>6. CASE Private(c, d)
        <5>0. x.dest[d] # Null /\ ~x.neighbour[d] /\ x.dest[d] \in Frames
          BY <1>6, <4>2, <4>6 DEF Private
        <5>1. PICK q : q = Append(list[m], x.dest[d])
          OBVIOUS
        <5>2. Len(q) = Len(list[m]) + 1 /\ q[Len(q)] = x.dest[d] /\ \A k \in 1 .. Len(list[m]) : q[k] = list[m][k]
          BY <2>0, <5>0, <5>1, AppendFacts
        <5>3. Len(q) - 1 = Len(list[m])
          BY <4>5, <5>2
        <5>4. ButLastFull(frame, q)
          BY <4>3, <5>0, <5>2, <5>3 DEF ButLastFull, AllFull
        <5>5. FilledTo(frame, q[Len(q)], x.count[d])
          BY <4>3, <5>0, <5>2
        <5> QED
          BY <4>3, <4>4, <4>6, <5>1, <5>4, <5>5 DEF CompactList
      <4>7. CASE ~Private(c, d) /\ x.neighbour[d]
        <5>1. x.dest[d] # Null
          BY <4>3, <4>7
        <5>2. size'[m] = x.count[d]
          BY <4>3, <4>4, <4>5, <4>7
        <5>3. CASE FilledTo(frame, x.dest[d], x.count[d])
          BY <4>3, <4>4, <4>7, <5>1, <5>2, <5>3 DEF CompactList
        <5>4. CASE m \in spoiled /\ FullFrame(frame, x.dest[d])
          <6>1. \A k \in 1 .. Len(list[m]) : k \in 1 .. Len(list[m]) - 1 \/ k = Len(list[m])
            BY <4>5
          <6>2. AllFull(frame, list[m])
            BY <4>3, <4>7, <5>4, <6>1 DEF AllFull, ButLastFull
          <6> QED
            BY <1>1, <2>0, <4>4, <4>7, <5>4, <6>2 DEF WrongSize
        <5> QED
          BY <4>3, <5>1, <5>3, <5>4
      <4>8. CASE ~Private(c, d) /\ ~x.neighbour[d]
        <5>1. x.dest[d] = Null
          BY <4>2, <4>8 DEF Private
        <5>2. /\ size'[m] = size[m] /\ list'[m] = list[m] /\ AllFull(frame, list[m])
              /\ size[m] = TileSize \/ (size[m] = 0 /\ m \in vacant)
          BY <4>3, <4>4, <4>8, <5>1
        <5>3. CASE size[m] = 0 /\ m \in vacant
          BY <1>1, <5>2, <5>3 DEF WrongSize
        <5>4. CASE size[m] = TileSize
          <6>1. list[m] # <<>>
            BY <2>0, <5>4
          <6>2. /\ Len(list[m]) \in 1 .. Len(list[m])
                /\ \A k \in 1 .. Len(list[m]) - 1 : k \in 1 .. Len(list[m])
                /\ \A s \in Slots : s < TileSize
            BY <2>0, <6>1, ElemsFacts DEF Slots
          <6>3. ButLastFull(frame, list[m]) /\ FilledTo(frame, list[m][Len(list[m])], TileSize)
            BY <5>2, <6>2 DEF AllFull, ButLastFull, FullFrame, FilledTo
          <6> QED
            BY <5>2, <5>4, <6>3 DEF CompactList
        <5> QED
          BY <5>2, <5>3, <5>4
      <4> QED
        BY <4>6, <4>7, <4>8
    <3> QED
      BY <3>2, <3>3
  <2> QED
    BY <1>1, <2>0, <2>1, <2>2, <2>3 DEF CellOK
<1>19. GuardsOK'
  <2>1. ASSUME NEW b \in Area, NEW d \in Directions, Pending(b)', Neighbour(b, d) \notin Area
        PROVE  list'[Neighbour(b, d)] = <<>>
    <3>1. Pending(b) /\ b # c
      <4>1. Pending(b) /\ b \in Cells
        BY <1>14, <2>1
      <4>2. b = c => pc[b] = "start"
        BY <1>1, <4>1, PendingFacts
      <4> QED
        BY <1>1, <4>1, <4>2
    <3>2. PICK n \in Cells : n = Neighbour(b, d)
      OBVIOUS
    <3>3. list[n] = <<>>
      BY <2>1, <3>1, <3>2 DEF Inv, GuardsOK
    <3>4. \A e \in Directions : Neighbour(c, e) # n
      BY <2>1, <3>1, <3>2 DEF Area, Neighbour, Directions
    <3>5. list'[n] = list[n]
      BY <1>0, <3>4 DEF Ends
    <3> QED
      BY <3>2, <3>3, <3>5
  <2> QED
    BY <1>1, <2>1 DEF GuardsOK
<1> QED
  BY <1>0, <1>10, <1>11, <1>13, <1>15, <1>16, <1>17, <1>18, <1>19 DEF Inv

-----------------------------------------------------------------------------
(* KernelFillGaps, KernelFillGapsLastFrame and KernelDeleteParticles.       *)

(* After the shift no block has a private frame, and the supercells of the  *)
(* launch have no particle that leaves.                                     *)
LEMMA TidyFacts ==
  ASSUME Inv, kernel # "shift", NEW b \in Cells
  PROVE  /\ local[b].dest = NoLocal.dest
         /\ \A d \in Directions : ~Private(b, d)
         /\ ~Shifting(b)
         /\ b \in Launched => ~Pending(b) /\ \A f \in Elems(list[b]) : Calm(frame, f)
<1>1. pc[b] \in {"start", "loop", "end", "done"} /\ BlockOK(b)
  BY DEF Inv, Types
<1>2. pc[b] # "end"
  BY <1>1 DEF BlockOK
<1>3. local[b].dest = NoLocal.dest
  <2>1. CASE pc[b] = "loop"
    BY <1>1, <2>1 DEF BlockOK
  <2>2. CASE pc[b] \in {"start", "done"}
    BY <1>1, <2>2 DEF BlockOK
  <2> QED
    BY <1>1, <1>2, <2>1, <2>2
<1>4. \A d \in Directions : ~Private(b, d)
  BY <1>3 DEF Private, NoLocal
<1>5. ~Shifting(b)
  BY DEF Shifting
<1>6. b \in Launched => ~Pending(b)
  <2>1. CASE kernel = "delete"
    BY <2>1 DEF Pending
  <2>2. CASE kernel # "delete"
    BY <2>2, PendingFacts DEF Launched
  <2> QED
    BY <2>1, <2>2
<1>7. b \in Launched => \A f \in Elems(list[b]) : Calm(frame, f)
  BY <1>5, <1>6 DEF Inv, LeaversOK
<1> QED
  BY <1>3, <1>4, <1>5, <1>6, <1>7

(* What a block of these kernels does: it works on frames of its own list   *)
(* and may take some out that have become empty.                            *)
Tidies(c) ==
  /\ kernel \in {"gaps", "last", "delete"} /\ c \in Launched /\ c \in Cells
  /\ kernel' = kernel /\ offset' = offset /\ mustShift' = mustShift /\ goal' = goal
  /\ lost' = lost /\ vacant' = vacant /\ spoiled' = spoiled
  /\ \A b \in Cells : b # c =>
       pc'[b] = pc[b] /\ local'[b] = local[b] /\ list'[b] = list[b] /\ size'[b] = size[b]
  /\ \A f \in Frames : f \notin Elems(list[c]) => \A s \in Slots : frame'[f][s] = frame[f][s]
  /\ Elems(list'[c]) \subseteq Elems(list[c]) /\ Distinct(list'[c])
  /\ used' = used \ (Elems(list[c]) \ Elems(list'[c]))
  /\ \A f \in Elems(list[c]) \ Elems(list'[c]) : \A s \in Slots : frame'[f][s].mask = 0
  /\ \A f \in Elems(list'[c]) : Calm(frame', f) /\ GoalsIn(frame, f, c)'
  /\ local'[c].dest = NoLocal.dest

LEMMA TidyStep ==
  ASSUME Inv, NEW c, Tidies(c), Types', ParticlesOK', BlockOK(c)',
         c \in Area => CellOK(c)',
         kernel = "delete" /\ pc'[c] = "done" => list'[c] = <<>> /\ size'[c] = 0
  PROVE  Inv'
<1> USE Consts
<1>1. /\ kernel \in {"gaps", "last", "delete"} /\ c \in Launched /\ c \in Cells
      /\ kernel' = kernel /\ offset' = offset /\ mustShift' = mustShift /\ goal' = goal
      /\ lost' = lost /\ vacant' = vacant /\ spoiled' = spoiled
      /\ \A b \in Cells : b # c =>
           pc'[b] = pc[b] /\ local'[b] = local[b] /\ list'[b] = list[b] /\ size'[b] = size[b]
      /\ \A f \in Frames : f \notin Elems(list[c]) => \A s \in Slots : frame'[f][s] = frame[f][s]
      /\ Elems(list'[c]) \subseteq Elems(list[c]) /\ Distinct(list'[c])
      /\ used' = used \ (Elems(list[c]) \ Elems(list'[c]))
      /\ \A f \in Elems(list[c]) \ Elems(list'[c]) : \A s \in Slots : frame'[f][s].mask = 0
      /\ \A f \in Elems(list'[c]) : Calm(frame', f) /\ GoalsIn(frame, f, c)'
      /\ local'[c].dest = NoLocal.dest
  BY DEF Tidies
<1>2. \A b \in Cells : /\ local[b].dest = NoLocal.dest
                       /\ \A d \in Directions : ~Private(b, d)
                       /\ ~Shifting(b)
  BY <1>1, TidyFacts
<1>3. \A b \in Cells, d \in Directions : ~Private(b, d)'
  <2>1. \A b \in Cells : local'[b].dest = NoLocal.dest
    BY <1>1, <1>2
  <2> QED
    BY <2>1 DEF Private, NoLocal
<1>4. \A b \in Cells : ~Shifting(b)'
  BY <1>1 DEF Shifting
<1>5. \A b, m \in Cells : b # m => Elems(list[b]) \cap Elems(list[m]) = {}
  BY DEF Inv, HeapOK
<1>6. \A b \in Cells : \A f \in Elems(list[b]) : f \in Frames /\ f \in used
  BY UsedFacts
<1>7. \A b \in Cells : b # c => \A f \in Elems(list[b]) : \A s \in Slots : frame'[f][s] = frame[f][s]
  BY <1>1, <1>5, <1>6
<1>8. HeapOK'
  <2>1. \A b \in Cells : Distinct(list'[b])
    BY <1>1 DEF Inv, HeapOK
  <2>2. \A b, m \in Cells : b # m => Elems(list'[b]) \cap Elems(list'[m]) = {}
    <3>1. \A b \in Cells : Elems(list'[b]) \subseteq Elems(list[b])
      BY <1>1
    <3> QED
      BY <1>5, <3>1
  <2>0. lost \subseteq Frames /\ \A b \in Cells : Elems(list[b]) \cap lost = {}
    BY DEF Inv, HeapOK, Types
  <2>3. ASSUME NEW f \in Frames
        PROVE  f \in used' <=> (\E m \in Cells : f \in Elems(list'[m])) \/ f \in lost'
    <3>1. f \in used <=> (\E m \in Cells : f \in Elems(list[m])) \/ f \in lost
      BY <1>2 DEF Inv, HeapOK
    <3>2. ASSUME f \in used', f \notin lost PROVE \E m \in Cells : f \in Elems(list'[m])
      <4>1. PICK m \in Cells : f \in Elems(list[m])
        BY <1>1, <3>1, <3>2
      <4>2. CASE m = c
        BY <1>1, <3>2, <4>1, <4>2
      <4>3. CASE m # c
        BY <1>1, <4>1, <4>3
      <4> QED
        BY <4>2, <4>3
    <3>3. ASSUME NEW m \in Cells, f \in Elems(list'[m]) PROVE f \in used'
      <4>1. CASE m = c
        BY <1>1, <1>6, <3>3, <4>1
      <4>2. CASE m # c
        <5>1. f \in Elems(list[m])
          BY <1>1, <3>3, <4>2
        <5>2. f \notin Elems(list[c]) /\ f \in used
          BY <1>1, <1>5, <1>6, <4>2, <5>1
        <5> QED
          BY <1>1, <5>2
      <4> QED
        BY <4>1, <4>2
    <3>4. f \in lost => f \in used'
      BY <1>1, <2>0, <3>1
    <3> QED
      BY <1>1, <3>2, <3>3, <3>4
  <2>4. ASSUME NEW f \in Frames \ used', NEW s \in Slots PROVE frame'[f][s].mask = 0
    <3>1. CASE f \in Elems(list[c])
      <4>1. f \notin Elems(list'[c])
        BY <1>1, <1>6, <3>1
      <4> QED
        BY <1>1, <3>1, <4>1
    <3>2. CASE f \notin Elems(list[c])
      <4>1. f \notin used
        BY <1>1, <3>2
      <4>2. frame[f][s].mask = 0
        BY <4>1 DEF Inv, HeapOK
      <4> QED
        BY <1>1, <3>2, <4>2
    <3> QED
      BY <3>1, <3>2
  <2>5. \A b \in Cells : Elems(list'[b]) \cap lost' = {}
    <3>1. \A b \in Cells : Elems(list'[b]) \subseteq Elems(list[b])
      BY <1>1
    <3> QED
      BY <1>1, <2>0, <3>1
  <2>6. ASSUME NEW f \in lost', NEW s \in Slots PROVE frame'[f][s].mask = 0
    <3>1. f \in Frames /\ f \notin Elems(list[c])
      BY <1>1, <2>0
    <3>2. frame[f][s].mask = 0
      BY <1>1 DEF Inv, HeapOK
    <3> QED
      BY <1>1, <3>1, <3>2
  <2> QED
    BY <1>3, <2>1, <2>2, <2>3, <2>4, <2>5, <2>6 DEF HeapOK
<1>9. GoalsOK'
  <2>1. ASSUME NEW m \in Cells, NEW f \in Elems(list'[m]) PROVE GoalsIn(frame, f, m)'
    <3>1. CASE m = c
      BY <1>1, <3>1
    <3>2. CASE m # c
      <4>1. f \in Elems(list[m])
        BY <1>1, <3>2
      <4>2. GoalsIn(frame, f, m)
        BY <4>1 DEF Inv, GoalsOK
      <4>3. \A s \in Slots : frame'[f][s] = frame[f][s]
        BY <1>7, <3>2, <4>1
      <4> QED
        BY <1>1, <4>2, <4>3 DEF GoalsIn
    <3> QED
      BY <3>1, <3>2
  <2> QED
    BY <1>3, <2>1 DEF GoalsOK
<1>10. Blocks' = Blocks /\ Launched' = Launched
  BY <1>1 DEF Blocks, Launched
<1>11. \A b \in Cells : Pending(b)' <=> Pending(b)
  BY <1>1 DEF Pending, Rank
<1>12. ASSUME NEW b \in Cells PROVE LeaversOK(b)' /\ BlockOK(b)'
  <2>1. CASE b = c
    BY <1>1, <2>1 DEF LeaversOK
  <2>2. CASE b # c
    <3>1. LeaversOK(b) /\ BlockOK(b) /\ list[b] \in Seq(Frames)
      BY DEF Inv, Types
    <3>2. \A f \in Elems(list[b]) : \A s \in Slots : frame'[f][s] = frame[f][s]
      BY <1>7, <2>2
    <3>3. \A f \in Elems(list[b]) : Calm(frame, f) => Calm(frame', f)
      BY <3>2 DEF Calm
    <3>4. LeaversOK(b)'
      BY <1>1, <1>2, <1>11, <2>2, <3>1, <3>3 DEF LeaversOK
    <3>5. \A k \in 1 .. Len(list[b]) : list[b][k] \in Elems(list[b])
      BY <3>1, ElemsFacts
    <3>6. \A k \in 1 .. Len(list[b]) : FullFrame(frame, list[b][k]) => FullFrame(frame', list[b][k])
      BY <3>2, <3>5 DEF FullFrame
    <3>7. pc[b] = "loop" =>
            \E i \in 1 .. Len(list[b]) :
              /\ local[b].cur = list[b][i]
              /\ kernel = "gaps"
              /\ \A k \in 1 .. i - 1 : FullFrame(frame, list[b][k])
              /\ local[b].last = list[b][Len(list[b])]
              /\ local[b].dest = NoLocal.dest
      BY <1>1, <3>1 DEF BlockOK
    <3>8. \A i \in 1 .. Len(list[b]) : \A k \in 1 .. i - 1 : k \in 1 .. Len(list[b])
      BY <3>1, ElemsFacts
    <3>9. pc[b] = "loop" =>
            \E i \in 1 .. Len(list[b]) :
              /\ local[b].cur = list[b][i]
              /\ kernel = "gaps"
              /\ \A k \in 1 .. i - 1 : FullFrame(frame', list[b][k])
              /\ local[b].last = list[b][Len(list[b])]
              /\ local[b].dest = NoLocal.dest
      BY <3>6, <3>7, <3>8
    <3>10. /\ pc[b] # "start" => b \in Launched
           /\ pc[b] \in {"start", "done"} => local[b] = NoLocal
           /\ pc[b] = "end" => kernel = "shift"
      BY <3>1 DEF BlockOK
    <3>11. BlockOK(b)'
      BY <1>1, <1>10, <2>2, <3>9, <3>10 DEF BlockOK
    <3> QED
      BY <3>4, <3>11
  <2> QED
    BY <2>1, <2>2
<1>13. ASSUME NEW b \in Area, NEW d \in Directions PROVE DestinationOK(b, d)'
  <2>1. ~Shifting(b)'
    BY <1>4
  <2> QED
    BY <2>1 DEF DestinationOK
<1>14. ASSUME NEW m \in Area PROVE CellOK(m)'
  <2>1. CASE m = c
    BY <2>1
  <2>2. CASE m # c
    <3>1. CellOK(m) /\ list[m] \in Seq(Frames) /\ m \in Cells
      BY DEF Inv, Types
    <3>2. list'[m] = list[m] /\ size'[m] = size[m] /\ pc'[m] = pc[m]
      BY <1>1, <2>2, <3>1
    <3>3. (CompactDue(m)' <=> CompactDue(m)) /\ (GapsDone(m)' <=> GapsDone(m))
      BY <1>1, <1>10, <3>2 DEF CompactDue, GapsDone
    <3>4. \A k \in 1 .. Len(list[m]) : \A s \in Slots : frame'[list[m][k]][s] = frame[list[m][k]][s]
      BY <1>7, <2>2, <3>1, ElemsFacts
    <3>5. /\ list[m] # <<>> => Len(list[m]) \in 1 .. Len(list[m])
          /\ \A k \in 1 .. Len(list[m]) - 1 : k \in 1 .. Len(list[m])
      BY <3>1, ElemsFacts
    <3>6. ButLastFull(frame, list[m]) => ButLastFull(frame', list[m])
      <4>1. \A k \in 1 .. Len(list[m]) - 1 : FullFrame(frame, list[m][k]) => FullFrame(frame', list[m][k])
        BY <3>4, <3>5 DEF FullFrame
      <4> QED
        BY <4>1 DEF ButLastFull
    <3>7. CompactList(frame, list[m], size[m]) /\ list[m] # <<>> => CompactList(frame', list[m], size[m])
      BY <3>4, <3>5, <3>6 DEF CompactList, FilledTo
    <3>8. AllFull(frame, list[m]) => AllFull(frame', list[m])
      BY <3>4 DEF AllFull, FullFrame
    <3>9. list[m] = <<>> => AllFull(frame', list[m])
      <4> SUFFICES ASSUME list[m] = <<>> PROVE AllFull(frame', list[m])
        OBVIOUS
      <4>1. \A k \in 1 .. Len(list[m]) : FALSE
        OBVIOUS
      <4> QED
        BY <4>1 DEF AllFull
    <3>10. list[m] = <<>> => size[m] = 0 /\ m \in vacant
      BY <3>1 DEF CellOK
    <3>11. WrongSize(m) \/ list[m] = <<>> => WrongSize(m)'
      BY <1>1, <3>2, <3>8, <3>9, <3>10 DEF WrongSize
    <3>12. CompactDue(m)' => CompactList(frame', list'[m], size'[m]) \/ WrongSize(m)'
      <4>1. CompactDue(m) => CompactList(frame, list[m], size[m]) \/ WrongSize(m)
        BY <3>1 DEF CellOK
      <4> QED
        BY <3>2, <3>3, <3>7, <3>11, <4>1
    <3>13. (m \in vacant => ~mustShift[m]) /\ (GapsDone(m) => ButLastFull(frame, list[m]))
      BY <3>1 DEF CellOK
    <3> QED
      BY <1>1, <3>2, <3>3, <3>6, <3>10, <3>12, <3>13 DEF CellOK
  <2> QED
    BY <2>1, <2>2
<1>15. GuardsOK'
  <2>1. ASSUME NEW b \in Area, NEW d \in Directions, Pending(b)', Neighbour(b, d) \notin Area
        PROVE  list'[Neighbour(b, d)] = <<>>
    <3>1. Pending(b) /\ b \in Cells
      BY <1>11, <2>1
    <3>2. c \in Area
      BY <1>1, <3>1 DEF Pending, Launched, Blocks
    <3>3. PICK n \in Cells : n = Neighbour(b, d)
      OBVIOUS
    <3>4. list[n] = <<>>
      BY <2>1, <3>1, <3>3 DEF Inv, GuardsOK
    <3> QED
      BY <1>1, <2>1, <3>2, <3>3, <3>4
  <2>2. ASSUME NEW m \in Open, kernel' = "over" \/ (kernel' = "delete" /\ pc'[m] = "done")
        PROVE  list'[m] = <<>> /\ size'[m] = 0
    <3>1. kernel = "delete" /\ pc'[m] = "done" /\ m \in Cells
      BY <1>1, <2>2
    <3>2. CASE m = c
      BY <3>1, <3>2
    <3>3. CASE m # c
      <4>1. pc[m] = "done"
        BY <1>1, <3>1, <3>3
      <4>2. list[m] = <<>> /\ size[m] = 0
        BY <3>1, <4>1 DEF Inv, GuardsOK
      <4> QED
        BY <1>1, <3>1, <3>3, <4>2
    <3> QED
      BY <3>2, <3>3
  <2> QED
    BY <2>1, <2>2 DEF GuardsOK
<1> QED
  BY <1>8, <1>9, <1>12, <1>13, <1>14, <1>15 DEF Inv

(* A block that leaves the frames alone.                                    *)
LEMMA TidyStill ==
  ASSUME Inv, NEW c \in Cells, c \in Launched, kernel \in {"gaps", "last", "delete"},
         frame' = frame, used' = used, list' = list,
         kernel' = kernel, offset' = offset, mustShift' = mustShift, goal' = goal,
         lost' = lost, vacant' = vacant, spoiled' = spoiled,
         \A b \in Cells : b # c => pc'[b] = pc[b] /\ local'[b] = local[b] /\ size'[b] = size[b],
         local'[c].dest = NoLocal.dest
  PROVE  Tidies(c) /\ ParticlesOK'
<1>1. \A f \in Elems(list[c]) : Calm(frame, f)
  BY TidyFacts
<1>2. \A f \in Elems(list[c]) : GoalsIn(frame, f, c)'
  <2>1. \A f \in Elems(list[c]) : GoalsIn(frame, f, c)
    BY DEF Inv, GoalsOK
  <2> QED
    BY <2>1 DEF GoalsIn
<1>3. Distinct(list[c])
  BY DEF Inv, HeapOK
<1>4. used' = used \ (Elems(list[c]) \ Elems(list'[c]))
  OBVIOUS
<1>5. Tidies(c)
  BY <1>1, <1>2, <1>3, <1>4 DEF Tidies
<1>6. ParticlesOK'
  BY DEF Inv, ParticlesOK, OneSlot, InSlot
<1> QED
  BY <1>5, <1>6

LEMMA GapsBeginInv ==
  ASSUME Inv, NEW c \in Area, GapsBegin(c)
  PROVE  Inv'
<1> USE Consts
<1>0. /\ frame' = frame /\ used' = used /\ list' = list /\ size' = size /\ mustShift' = mustShift
      /\ offset' = offset /\ kernel' = kernel /\ goal' = goal
      /\ lost' = lost /\ vacant' = vacant /\ spoiled' = spoiled
      /\ kernel = "gaps" /\ c \in Launched /\ pc[c] = "start" /\ c \in Cells /\ c \in Blocks
      /\ \/ /\ list[c] = <<>> /\ pc' = [pc EXCEPT ![c] = "done"] /\ local' = local
         \/ /\ list[c] # <<>> /\ pc' = [pc EXCEPT ![c] = "loop"]
            /\ local' = [local EXCEPT ![c].cur = list[c][1], ![c].last = Last(c)]
  BY DEF GapsBegin, At, Launched, history
<1>1. /\ Types /\ local[c] = NoLocal /\ CellOK(c)
      /\ pc \in [Cells -> {"start", "loop", "end", "done"}]
      /\ local \in [Cells -> Locals]
      /\ list[c] \in Seq(Frames)
  BY <1>0 DEF Inv, Types, BlockOK
<1>2. Blocks' = Blocks /\ Launched' = Launched
  BY <1>0 DEF Launched, Blocks
<1>3. ~CompactDue(c)'
  BY <1>0, <1>2 DEF CompactDue
<1>4. (list[c] = <<>> => size[c] = 0 /\ c \in vacant) /\ (c \in vacant => ~mustShift[c])
  BY <1>1 DEF CellOK
<1>5. CASE list[c] = <<>>
  <2>1. pc' = [pc EXCEPT ![c] = "done"] /\ local' = local
    BY <1>0, <1>5
  <2>2. /\ \A b \in Cells : b # c => pc'[b] = pc[b] /\ local'[b] = local[b]
        /\ pc'[c] = "done" /\ local'[c] = NoLocal
    BY <1>0, <1>1, <2>1
  <2>3. Types'
    <3>1. pc' \in [Cells -> {"start", "loop", "end", "done"}]
      BY <1>0, <1>1, <2>1
    <3> QED
      BY <1>0, <1>1, <2>1, <3>1 DEF Types
  <2>4. Tidies(c) /\ ParticlesOK'
    BY <1>0, <2>2, TidyStill
  <2>5. BlockOK(c)'
    BY <1>0, <1>2, <2>2 DEF BlockOK
  <2>6. ButLastFull(frame', list'[c])
    <3>1. \A k \in 1 .. Len(list[c]) - 1 : FALSE
      BY <1>5
    <3> QED
      BY <1>0, <3>1 DEF ButLastFull
  <2>7. CellOK(c)'
    BY <1>0, <1>3, <1>4, <2>6 DEF CellOK
  <2> QED
    BY <1>0, <2>3, <2>4, <2>5, <2>7, TidyStep
<1>6. CASE list[c] # <<>>
  <2>0. pc' = [pc EXCEPT ![c] = "loop"] /\ local' = [local EXCEPT ![c].cur = list[c][1], ![c].last = Last(c)]
    BY <1>0, <1>6
  <2>1. /\ Last(c) = list[c][Len(list[c])] /\ Last(c) \in Frames /\ list[c][1] \in Frames
        /\ 1 \in 1 .. Len(list[c])
    BY <1>1, <1>6, ElemsFacts DEF Last
  <2>2. PICK x : x = [local[c] EXCEPT !.cur = list[c][1], !.last = Last(c)]
    OBVIOUS
  <2>3. local[c] \in Locals
    BY <1>0, <1>1
  <2>4. x \in Locals /\ x.cur = list[c][1] /\ x.last = Last(c) /\ x.dest = NoLocal.dest
    BY <1>1, <2>1, <2>2, <2>3 DEF Locals
  <2>5. local' = [local EXCEPT ![c] = x]
    BY <1>1, <2>0, <2>2
  <2>6. /\ \A b \in Cells : b # c => pc'[b] = pc[b] /\ local'[b] = local[b]
        /\ pc'[c] = "loop" /\ local'[c] = x
    BY <1>0, <1>1, <2>0, <2>5
  <2>7. Types'
    <3>1. local' \in [Cells -> Locals]
      BY <1>1, <2>4, <2>5
    <3>2. pc' \in [Cells -> {"start", "loop", "end", "done"}]
      BY <1>0, <1>1, <2>0
    <3> QED
      BY <1>0, <1>1, <3>1, <3>2 DEF Types
  <2>8. Tidies(c) /\ ParticlesOK'
    BY <1>0, <2>4, <2>6, TidyStill
  <2>9. BlockOK(c)'
    <3>1. \A k \in 1 .. 1 - 1 : FALSE
      OBVIOUS
    <3> QED
      BY <1>0, <1>2, <2>1, <2>4, <2>6, <3>1 DEF BlockOK
  <2>10. CellOK(c)'
    <3>1. ~GapsDone(c)'
      BY <1>0, <2>6 DEF GapsDone
    <3> QED
      BY <1>0, <1>3, <1>4, <3>1 DEF CellOK
  <2> QED
    BY <1>0, <2>7, <2>8, <2>9, <2>10, TidyStep
<1> QED
  BY <1>5, <1>6

(* Where a block of KernelFillGaps is.                                      *)
LEMMA GapsAt ==
  ASSUME Inv, NEW c \in Area, At(c, "gaps", "loop")
  PROVE  /\ kernel = "gaps" /\ c \in Launched /\ c \in Cells /\ c \in Blocks /\ pc[c] = "loop"
         /\ list[c] \in Seq(Frames) /\ list[c] # <<>> /\ Distinct(list[c]) /\ Len(list[c]) \in Nat
         /\ Len(list[c]) \in 1 .. Len(list[c])
         /\ local[c] \in Locals
         /\ local[c].last = list[c][Len(list[c])]
         /\ local[c].dest = NoLocal.dest
         /\ \E i \in 1 .. Len(list[c]) :
              /\ local[c].cur = list[c][i]
              /\ local[c].cur = local[c].last => i = Len(list[c])
              /\ NextFrame(c, local[c].cur) = IF i < Len(list[c]) THEN list[c][i + 1] ELSE Null
              /\ \A k \in 1 .. i - 1 : FullFrame(frame, list[c][k])
<1> USE Consts
<1>1. kernel = "gaps" /\ c \in Launched /\ c \in Cells /\ c \in Blocks /\ pc[c] = "loop"
  BY DEF At, Launched
<1>2. list[c] \in Seq(Frames) /\ list[c] # <<>> /\ Distinct(list[c]) /\ local[c] \in Locals
  <2>1. list[c] \in Seq(Frames) /\ Distinct(list[c]) /\ local[c] \in Locals
    BY <1>1 DEF Inv, Types, HeapOK
  <2>2. \E i \in 1 .. Len(list[c]) : local[c].cur = list[c][i]
    BY <1>1 DEF Inv, BlockOK
  <2> QED
    BY <2>1, <2>2
<1>3. Len(list[c]) \in Nat /\ Len(list[c]) \in 1 .. Len(list[c]) /\ DOMAIN list[c] = 1 .. Len(list[c])
  BY <1>2, ElemsFacts
<1>4. PICK i \in 1 .. Len(list[c]) :
         /\ local[c].cur = list[c][i]
         /\ \A k \in 1 .. i - 1 : FullFrame(frame, list[c][k])
         /\ local[c].last = list[c][Len(list[c])]
         /\ local[c].dest = NoLocal.dest
  BY <1>1 DEF Inv, BlockOK
<1>5. local[c].cur = local[c].last => i = Len(list[c])
  BY <1>2, <1>3, <1>4 DEF Distinct
<1>6. NextFrame(c, local[c].cur) = IF i < Len(list[c]) THEN list[c][i + 1] ELSE Null
  BY <1>2, <1>4, NextOf
<1> QED
  BY <1>1, <1>2, <1>3, <1>4, <1>5, <1>6

LEMMA GapsSkipInv ==
  ASSUME Inv, NEW c \in Area, GapsSkip(c)
  PROVE  Inv'
<1> USE Consts
<1>0. /\ frame' = frame /\ used' = used /\ list' = list /\ size' = size /\ mustShift' = mustShift
      /\ offset' = offset /\ kernel' = kernel /\ goal' = goal /\ At(c, "gaps", "loop")
      /\ lost' = lost /\ vacant' = vacant /\ spoiled' = spoiled
      /\ \/ /\ local[c].cur = local[c].last
            /\ pc' = [pc EXCEPT ![c] = "done"] /\ local' = [local EXCEPT ![c] = NoLocal]
         \/ /\ local[c].cur # local[c].last /\ Gaps(local[c].cur) = {}
            /\ local' = [local EXCEPT ![c].cur = NextFrame(c, local[c].cur)] /\ pc' = pc
  BY DEF GapsSkip, history
<1>1. /\ kernel = "gaps" /\ c \in Launched /\ c \in Cells /\ c \in Blocks /\ pc[c] = "loop"
      /\ list[c] \in Seq(Frames) /\ list[c] # <<>> /\ Len(list[c]) \in Nat
      /\ local[c] \in Locals
      /\ local[c].last = list[c][Len(list[c])]
      /\ local[c].dest = NoLocal.dest
  BY <1>0, GapsAt
<1>2. PICK i \in 1 .. Len(list[c]) :
        /\ local[c].cur = list[c][i]
        /\ local[c].cur = local[c].last => i = Len(list[c])
        /\ NextFrame(c, local[c].cur) = IF i < Len(list[c]) THEN list[c][i + 1] ELSE Null
        /\ \A k \in 1 .. i - 1 : FullFrame(frame, list[c][k])
  BY <1>0, GapsAt
<1>3. Types /\ pc \in [Cells -> {"start", "loop", "end", "done"}] /\ local \in [Cells -> Locals]
  BY DEF Inv, Types
<1>4. Blocks' = Blocks /\ Launched' = Launched
  BY <1>0 DEF Blocks, Launched
<1>7. ~CompactDue(c)' /\ (c \in vacant => ~mustShift[c])
  <2>1. ~CompactDue(c)'
    BY <1>0, <1>1, <1>4 DEF CompactDue
  <2>2. CellOK(c)
    BY DEF Inv
  <2> QED
    BY <2>1, <2>2 DEF CellOK
<1>5. CASE local[c].cur = local[c].last
  <2>1. pc' = [pc EXCEPT ![c] = "done"] /\ local' = [local EXCEPT ![c] = NoLocal]
    BY <1>0, <1>5
  <2>2. /\ \A b \in Cells : b # c => pc'[b] = pc[b] /\ local'[b] = local[b]
        /\ pc'[c] = "done" /\ local'[c] = NoLocal
    BY <1>1, <1>3, <2>1
  <2>3. NoLocal \in Locals
    <3>1. 0 \in 0 .. TileSize
      OBVIOUS
    <3> QED
      BY <3>1 DEF NoLocal, Locals
  <2>4. Types'
    <3>1. pc' \in [Cells -> {"start", "loop", "end", "done"}] /\ local' \in [Cells -> Locals]
      BY <1>1, <1>3, <2>1, <2>3
    <3> QED
      BY <1>0, <1>3, <3>1 DEF Types
  <2>5. Tidies(c) /\ ParticlesOK'
    BY <1>0, <1>1, <2>2, TidyStill
  <2>6. BlockOK(c)'
    BY <1>1, <1>4, <2>2 DEF BlockOK
  <2>7. CellOK(c)'
    <3>1. ButLastFull(frame, list[c])
      BY <1>2, <1>5 DEF ButLastFull
    <3> QED
      BY <1>0, <1>1, <1>7, <3>1 DEF CellOK
  <2> QED
    BY <1>0, <1>1, <2>4, <2>5, <2>6, <2>7, TidyStep
<1>6. CASE local[c].cur # local[c].last
  <2>1. i < Len(list[c]) /\ i + 1 \in 1 .. Len(list[c]) /\ \A k \in 1 .. (i + 1) - 1 : k \in 1 .. i - 1 \/ k = i
    BY <1>1, <1>2, <1>6
  <2>2. PICK x : x = [local[c] EXCEPT !.cur = list[c][i + 1]]
    OBVIOUS
  <2>3. local' = [local EXCEPT ![c] = x] /\ pc' = pc /\ Gaps(local[c].cur) = {}
    BY <1>0, <1>2, <1>6, <2>1, <2>2
  <2>4. list[c][i + 1] \in Frames
    BY <1>1, <2>1, ElemsFacts
  <2>5. x \in Locals /\ x.cur = list[c][i + 1] /\ x.last = local[c].last /\ x.dest = NoLocal.dest
    BY <1>1, <2>2, <2>4 DEF Locals
  <2>6. /\ \A b \in Cells : b # c => pc'[b] = pc[b] /\ local'[b] = local[b]
        /\ pc'[c] = "loop" /\ local'[c] = x
    BY <1>1, <1>3, <2>3
  <2>7. Types'
    <3>1. local' \in [Cells -> Locals]
      BY <1>1, <1>3, <2>3, <2>5
    <3> QED
      BY <1>0, <1>3, <2>3, <3>1 DEF Types
  <2>8. Tidies(c) /\ ParticlesOK'
    BY <1>0, <1>1, <2>5, <2>6, TidyStill
  <2>9. FullFrame(frame, list[c][i])
    BY <1>2, <2>3 DEF FullFrame, Gaps
  <2>10. \A k \in 1 .. (i + 1) - 1 : FullFrame(frame, list[c][k])
    BY <1>2, <2>1, <2>9
  <2>11. BlockOK(c)'
    BY <1>0, <1>1, <1>4, <2>1, <2>5, <2>6, <2>10 DEF BlockOK
  <2>12. CellOK(c)'
    <3>1. ~GapsDone(c)'
      BY <1>0, <1>1, <2>6 DEF GapsDone
    <3> QED
      BY <1>0, <1>1, <1>7, <3>1 DEF CellOK
  <2> QED
    BY <1>0, <1>1, <2>7, <2>8, <2>11, <2>12, TidyStep
<1> QED
  BY <1>5, <1>6

LEMMA DeleteEndInv ==
  ASSUME Inv, NEW c \in Open, DeleteEnd(c)
  PROVE  Inv'
<1> USE Consts
<1>0. /\ frame' = frame /\ used' = used /\ list' = list /\ mustShift' = mustShift
      /\ offset' = offset /\ kernel' = kernel /\ goal' = goal /\ local' = local
      /\ lost' = lost /\ vacant' = vacant /\ spoiled' = spoiled
      /\ kernel = "delete" /\ c \in Launched /\ pc[c] = "start" /\ c \in Cells /\ c \notin Area
      /\ pc' = [pc EXCEPT ![c] = "done"] /\ size' = [size EXCEPT ![c] = 0] /\ list[c] = <<>>
  BY DEF DeleteEnd, At, Area, history
<1>1. /\ Types /\ local[c] = NoLocal /\ size \in [Cells -> 0 .. TileSize]
      /\ pc \in [Cells -> {"start", "loop", "end", "done"}]
  BY <1>0 DEF Inv, Types, BlockOK
<1>2. /\ \A b \in Cells : b # c => pc'[b] = pc[b] /\ size'[b] = size[b]
      /\ pc'[c] = "done" /\ size'[c] = 0
  BY <1>0, <1>1
<1>3. Types'
  <2>1. pc' \in [Cells -> {"start", "loop", "end", "done"}] /\ size' \in [Cells -> 0 .. TileSize]
    BY <1>0, <1>1
  <2> QED
    BY <1>0, <1>1, <2>1 DEF Types
<1>4. Tidies(c) /\ ParticlesOK'
  BY <1>0, <1>1, <1>2, TidyStill
<1>5. BlockOK(c)'
  <2>1. Launched' = Launched
    BY <1>0 DEF Launched
  <2> QED
    BY <1>0, <1>1, <1>2, <2>1 DEF BlockOK
<1> QED
  BY <1>0, <1>2, <1>3, <1>4, <1>5, TidyStep

LEMMA DeleteFrameInv ==
  ASSUME Inv, NEW c \in Open, DeleteFrame(c)
  PROVE  Inv'
<1> USE Consts
<1>0. /\ mustShift' = mustShift /\ size' = size /\ pc' = pc
      /\ offset' = offset /\ kernel' = kernel /\ goal' = goal /\ local' = local
      /\ lost' = lost /\ vacant' = vacant /\ spoiled' = spoiled
      /\ kernel = "delete" /\ c \in Launched /\ pc[c] = "start" /\ c \in Cells /\ c \notin Area
      /\ list[c] # <<>> /\ frame' = [frame EXCEPT ![Last(c)] = EmptyFrame]
      /\ used' = used \ {Last(c)} /\ list' = [list EXCEPT ![c] = SubSeq(@, 1, Len(@) - 1)]
  BY DEF DeleteFrame, At, Area, history
<1>1. /\ Types /\ local[c] = NoLocal /\ list[c] \in Seq(Frames) /\ list \in [Cells -> Seq(Frames)]
      /\ Distinct(list[c]) /\ frame \in FrameType /\ used \subseteq Frames
  BY <1>0 DEF Inv, Types, BlockOK, HeapOK, FrameType
<1>2. PICK f \in Frames : f = Last(c) /\ f = list[c][Len(list[c])] /\ f \in Elems(list[c])
  BY <1>0, <1>1, ElemsFacts DEF Last
<1>3. PICK q : q = SubSeq(list[c], 1, Len(list[c]) - 1)
  OBVIOUS
<1>4. q \in Seq(Frames) /\ Elems(q) = Elems(list[c]) \ {f} /\ Distinct(q)
  BY <1>0, <1>1, <1>2, <1>3, ChopFacts
<1>5. list' = [list EXCEPT ![c] = q] /\ frame' = [frame EXCEPT ![f] = EmptyFrame] /\ used' = used \ {f}
  BY <1>0, <1>2, <1>3
<1>6. /\ \A b \in Cells : b # c => list'[b] = list[b]
      /\ list'[c] = q
      /\ \A g \in Frames : g # f => frame'[g] = frame[g]
      /\ frame'[f] = EmptyFrame
  BY <1>0, <1>1, <1>5 DEF FrameType
<1>7. \A s \in Slots : frame'[f][s] = NoParticle /\ frame'[f][s].mask = 0
  BY <1>6 DEF EmptyFrame, NoParticle
<1>8. Types'
  <2>1. EmptyFrame \in [Slots -> Slot]
    BY DEF EmptyFrame, NoParticle, Slot
  <2>2. frame' \in [Frames -> [Slots -> Slot]] /\ list' \in [Cells -> Seq(Frames)] /\ used' \subseteq Frames
    BY <1>1, <1>4, <1>5, <2>1 DEF FrameType
  <2> QED
    BY <1>0, <1>1, <2>2 DEF Types
<1>9. /\ \A g \in Elems(list[c]) : Calm(frame, g) /\ g \in Frames
      /\ \A g \in Elems(list[c]) : GoalsIn(frame, g, c)
  <2>1. \A g \in Elems(list[c]) : Calm(frame, g)
    BY <1>0, TidyFacts
  <2>2. \A g \in Elems(list[c]) : GoalsIn(frame, g, c)
    BY <1>0 DEF Inv, GoalsOK
  <2> QED
    BY <1>1, <2>1, <2>2, ElemsFacts
<1>10. \A g \in Elems(q) : Calm(frame', g) /\ GoalsIn(frame, g, c)'
  <2> SUFFICES ASSUME NEW g \in Elems(q) PROVE Calm(frame', g) /\ GoalsIn(frame, g, c)'
    OBVIOUS
  <2>1. g \in Frames /\ Calm(frame, g) /\ GoalsIn(frame, g, c) /\ frame'[g] = frame[g]
    BY <1>4, <1>6, <1>9
  <2> QED
    BY <1>0, <2>1 DEF Calm, GoalsIn
<1>11. Tidies(c)
  <2>1. Elems(list[c]) \ Elems(list'[c]) = {f}
    BY <1>2, <1>4, <1>6
  <2>2. local'[c].dest = NoLocal.dest
    BY <1>0, <1>1
  <2>3. \A g \in Frames : g \notin Elems(list[c]) => \A s \in Slots : frame'[g][s] = frame[g][s]
    BY <1>2, <1>6
  <2> QED
    BY <1>0, <1>4, <1>5, <1>6, <1>7, <1>10, <2>1, <2>2, <2>3 DEF Tidies
<1>12. ParticlesOK'
  <2>0. PICK new : new = frame'
    OBVIOUS
  <2>1. \A g \in Frames : \A s \in Slots : new[g][s].mask # 0 => g # f /\ new[g][s] = frame[g][s]
    BY <1>6, <1>7, <2>0
  <2>2. ParticlesOK
    BY DEF Inv
  <2>3. OneSlot(new)
    BY <2>1, <2>2 DEF ParticlesOK, OneSlot
  <2>4. \A g \in Frames : \A s \in Slots : new[g][s].mask # 0 => new[g][s].id \in DOMAIN goal
    BY <2>1, <2>2 DEF ParticlesOK
  <2>5. ASSUME NEW p \in DOMAIN goal, goal[p] \notin Open, goal[p] \notin spoiled PROVE InSlot(new, p)
    <3>1. PICK g \in Frames : \E s \in Slots : frame[g][s].mask # 0 /\ frame[g][s].id = p
      BY <2>2, <2>5 DEF ParticlesOK, InSlot
    <3>2. PICK s \in Slots : frame[g][s].mask # 0 /\ frame[g][s].id = p
      BY <3>1
    <3>3. g # f
      <4> SUFFICES ASSUME g = f PROVE FALSE
        OBVIOUS
      <4>1. frame[f][s].mask <= 1 /\ frame[f][s].mask \in 0 .. 3
        BY <1>1, <1>2, <1>9 DEF Calm, FrameType, Slot
      <4>2. frame[f][s].mask = 1
        BY <3>2, <4>1
      <4>3. goal[p] = Aim(c, 1)
        BY <1>2, <1>9, <3>2, <4>2 DEF GoalsIn
      <4> QED
        BY <2>5, <4>3 DEF Aim
    <3>4. new[g][s] = frame[g][s]
      BY <1>6, <2>0, <3>3
    <3> QED
      BY <3>2, <3>4 DEF InSlot
  <2> QED
    BY <1>0, <2>0, <2>3, <2>4, <2>5 DEF ParticlesOK, OneSlot, InSlot
<1>13. BlockOK(c)'
  <2>1. Launched' = Launched
    BY <1>0 DEF Launched
  <2> QED
    BY <1>0, <1>1, <2>1 DEF BlockOK
<1> QED
  BY <1>0, <1>8, <1>11, <1>12, <1>13, TidyStep

(* Particles that are moved within the frames of a supercell.               *)
OwnMove(c, to, from, G, P) ==
  /\ frame' \in FrameType
  /\ ParticlesOK'
  /\ \A f \in Elems(list[c]) : Calm(frame', f) /\ GoalsIn(frame, f, c)'
  /\ \A f \in Frames : f # to /\ f # from => \A s \in Slots : frame'[f][s] = frame[f][s]
  /\ MovesMost(frame, frame', to, from, G, P)

LEMMA OwnTransfer ==
  ASSUME Inv, NEW c \in Cells, c \in Launched, kernel \in {"gaps", "last", "delete"},
         goal' = goal, kernel' = kernel, spoiled' = spoiled,
         NEW to \in Elems(list[c]), NEW from \in Elems(list[c]),
         NEW G \in SUBSET Slots, NEW P \in SUBSET Slots,
         NEW gaps \in Orders(G), NEW particles \in Orders(P),
         \A s \in G : frame[to][s].mask = 0,
         \A s \in P : frame[from][s].mask # 0,
         frame' = Moved(to, gaps, from, particles)
  PROVE  OwnMove(c, to, from, G, P)
<1>1. to \in Frames /\ from \in Frames /\ \A f \in Elems(list[c]) : f \in Frames
  BY UsedFacts
<1>2. PICK new : new = frame'
  OBVIOUS
<1>3. frame \in FrameType
  BY DEF Inv, Types, FrameType
<1>4. new \in FrameType /\ MovesMost(frame, new, to, from, G, P)
  BY <1>1, <1>2, <1>3, MovedTransfer
<1>5. PICK S \in SUBSET P : \E ts \in [S -> G] :
         Transfer(frame, new, from, S, [s \in S |-> to], ts) /\ \A s \in S : frame[to][ts[s]].mask = 0
  BY <1>4 DEF MovesMost
<1>6. PICK ts \in [S -> G] :
         Transfer(frame, new, from, S, [s \in S |-> to], ts) /\ \A s \in S : frame[to][ts[s]].mask = 0
  BY <1>5
<1>7. ParticlesOK'
  <2>1. Transfer(frame, frame', from, S, [s \in S |-> to], ts)
    BY <1>2, <1>6
  <2>2. \A s \in S : frame[[t \in S |-> to][s]][ts[s]].mask = 0
    BY <1>6
  <2>3. ParticlesOK
    BY DEF Inv
  <2> QED
    BY <2>1, <2>2, <2>3, TransferParticles
<1>8. \A f \in Elems(list[c]) : Calm(frame, f) /\ GoalsIn(frame, f, c)
  BY TidyFacts DEF Inv, GoalsOK
<1>9. \A f \in Elems(list[c]) : Calm(new, f)
  BY <1>1, <1>6, <1>8, TransferCalm
<1>10. \A f \in Frames : f # to /\ f # from => \A s \in Slots : new[f][s] = frame[f][s]
  <2>1. \A s \in S : [t \in S |-> to][s] = to
    OBVIOUS
  <2> QED
    BY <1>6, <2>1, TransferElsewhere
<1>11. ASSUME NEW f \in Elems(list[c]), NEW t \in Slots, new[f][t].mask # 0
       PROVE  goal[new[f][t].id] = Aim(c, new[f][t].mask)
  <2>1. \/ \E s \in S : new[f][t] = [id |-> frame[from][s].id, mask |-> 1]
        \/ new[f][t] = frame[f][t]
    BY <1>1, <1>6, <1>11, TransferOrigin
  <2>2. CASE \E s \in S : new[f][t] = [id |-> frame[from][s].id, mask |-> 1]
    <3>1. PICK s \in S : new[f][t] = [id |-> frame[from][s].id, mask |-> 1]
      BY <2>2
    <3>2. new[f][t].id = frame[from][s].id /\ new[f][t].mask = 1
      BY <3>1
    <3>3. s \in Slots /\ frame[from][s].mask # 0 /\ frame[from][s].mask \in 0 .. 3
      BY <1>1, <1>3 DEF FrameType, Slot
    <3>4. frame[from][s].mask = 1
      BY <1>8, <3>3 DEF Calm
    <3>5. goal[frame[from][s].id] = Aim(c, 1)
      BY <1>8, <3>3, <3>4 DEF GoalsIn
    <3> QED
      BY <3>2, <3>5
  <2>3. CASE new[f][t] = frame[f][t]
    BY <1>8, <1>11, <2>3 DEF GoalsIn
  <2> QED
    BY <2>1, <2>2, <2>3
<1>12. \A f \in Elems(list[c]) : GoalsIn(frame, f, c)'
  BY <1>2, <1>11 DEF GoalsIn
<1> QED
  BY <1>2, <1>4, <1>7, <1>9, <1>10, <1>12 DEF OwnMove

(* Slots of a frame without leaving particles.                              *)
LEMMA CalmSlots ==
  ASSUME frame \in FrameType, NEW f \in Frames, Calm(frame, f)
  PROVE  /\ \A s \in Slots : frame[f][s].mask = 0 \/ frame[f][s].mask = 1
         /\ \A s \in Slots : s \in Particles(f) <=> frame[f][s].mask # 0
         /\ \A s \in Slots : s \in Gaps(f) <=> frame[f][s].mask = 0
         /\ Gaps(f) \subseteq Slots /\ Particles(f) \subseteq Slots
         /\ IsFiniteSet(Gaps(f)) /\ Cardinality(Gaps(f)) \in Nat
         /\ IsFiniteSet(Particles(f)) /\ Cardinality(Particles(f)) \in Nat
<1>1. \A s \in Slots : frame[f][s].mask = 0 \/ frame[f][s].mask = 1
  <2> SUFFICES ASSUME NEW s \in Slots PROVE frame[f][s].mask = 0 \/ frame[f][s].mask = 1
    OBVIOUS
  <2>1. frame[f][s].mask \in 0 .. 3 /\ frame[f][s].mask <= 1
    BY DEF FrameType, Slot, Calm
  <2> QED
    BY <2>1
<1>2. Gaps(f) \subseteq Slots /\ Particles(f) \subseteq Slots
  BY DEF Gaps, Particles
<1>3. IsFiniteSet(Gaps(f)) /\ IsFiniteSet(Particles(f))
  BY <1>2, Consts, FS_Subset
<1>4. Cardinality(Gaps(f)) \in Nat /\ Cardinality(Particles(f)) \in Nat
  BY <1>3, FS_CardinalityType
<1> QED
  BY <1>1, <1>2, <1>3, <1>4 DEF Gaps, Particles

LEMMA GapsFillInv ==
  ASSUME Inv, NEW c \in Area, GapsFill(c)
  PROVE  Inv'
<1> USE Consts
<1> DEFINE q == list[c]
<1> DEFINE n == Len(list[c])
<1> DEFINE cur == local[c].cur
<1> DEFINE last == local[c].last
<1> DEFINE g == Cardinality(Gaps(local[c].cur))
<1> DEFINE p == Cardinality(Particles(local[c].last))
<1> DEFINE rest == SubSeq(list[c], 1, Len(list[c]) - 1)
<1> DEFINE previous == rest[Len(rest)]
<1>0. /\ At(c, "gaps", "loop") /\ cur # last /\ g > 0
      /\ size' = size /\ mustShift' = mustShift /\ offset' = offset /\ kernel' = kernel
      /\ pc' = pc /\ goal' = goal /\ lost' = lost /\ vacant' = vacant /\ spoiled' = spoiled
      /\ \E gaps \in Orders(Gaps(cur)), particles \in Orders(Particles(last)) :
           frame' = Moved(cur, gaps, last, particles)
      /\ \/ /\ g < p
            /\ local' = [local EXCEPT ![c].cur = NextFrame(c, cur)] /\ list' = list /\ used' = used
         \/ /\ ~(g < p)
            /\ list' = [list EXCEPT ![c] = rest] /\ used' = used \ {last}
            /\ local' = [local EXCEPT
                  ![c].last = previous,
                  ![c].cur = IF g = p /\ previous # cur THEN NextFrame(c, cur) ELSE cur]
  BY DEF GapsFill, history
<1>1. /\ kernel = "gaps" /\ c \in Launched /\ c \in Cells /\ c \in Blocks /\ pc[c] = "loop"
      /\ q \in Seq(Frames) /\ q # <<>> /\ n \in Nat /\ n \in 1 .. n /\ Distinct(q)
      /\ local[c] \in Locals
      /\ last = q[n]
      /\ local[c].dest = NoLocal.dest
  BY <1>0, GapsAt
<1>2. PICK i \in 1 .. n :
        /\ cur = q[i]
        /\ NextFrame(c, cur) = IF i < n THEN q[i + 1] ELSE Null
        /\ \A k \in 1 .. i - 1 : FullFrame(frame, q[k])
  BY <1>0, GapsAt
<1>3. i < n
  BY <1>0, <1>1, <1>2
<1>4. /\ \A k \in 1 .. n : q[k] \in Elems(q) /\ q[k] \in Frames
      /\ \A j, k \in 1 .. n : q[j] = q[k] => j = k
  <2>1. DOMAIN q = 1 .. n /\ \A k \in 1 .. n : q[k] \in Elems(q) /\ q[k] \in Frames
    BY <1>1, ElemsFacts
  <2>2. \A j, k \in DOMAIN q : q[j] = q[k] => j = k
    BY <1>1 DEF Distinct
  <2> QED
    BY <2>1, <2>2
<1>5. /\ cur \in Elems(q) /\ last \in Elems(q) /\ cur \in Frames /\ last \in Frames
      /\ NextFrame(c, cur) = q[i + 1] /\ i + 1 \in 1 .. n
  BY <1>1, <1>2, <1>3, <1>4
<1>6. frame \in FrameType /\ Types /\ local \in [Cells -> Locals] /\ list \in [Cells -> Seq(Frames)]
  BY DEF Inv, Types, FrameType
<1>7. Calm(frame, cur) /\ Calm(frame, last)
  BY <1>1, <1>5, TidyFacts
<1>8. /\ \A s \in Slots : s \in Particles(last) <=> frame[last][s].mask # 0
      /\ \A s \in Slots : s \in Gaps(cur) <=> frame[cur][s].mask = 0
      /\ Gaps(cur) \subseteq Slots /\ Particles(last) \subseteq Slots
      /\ g \in Nat /\ p \in Nat
  BY <1>5, <1>6, <1>7, CalmSlots
<1>9. PICK gaps \in Orders(Gaps(cur)), particles \in Orders(Particles(last)) :
        frame' = Moved(cur, gaps, last, particles)
  BY <1>0
<1>10. PICK new : new = frame'
  OBVIOUS
<1> HIDE DEF q, n, cur, last, g, p, rest, previous
<1>11. PICK G \in SUBSET Slots : G = Gaps(cur)
  BY <1>8
<1>12. PICK P \in SUBSET Slots : P = Particles(last)
  BY <1>8
<1>13. g = Cardinality(G) /\ p = Cardinality(P)
  BY <1>11, <1>12 DEF g, p, cur, last
<1>14. /\ \A s \in G : frame[cur][s].mask = 0
       /\ \A s \in P : frame[last][s].mask # 0
       /\ gaps \in Orders(G) /\ particles \in Orders(P)
  BY <1>8, <1>9, <1>11, <1>12
<1>15. /\ new \in FrameType
       /\ ParticlesOK'
       /\ \A f \in Elems(q) : Calm(new, f) /\ GoalsIn(frame, f, c)'
       /\ \A f \in Frames : f # cur /\ f # last => \A s \in Slots : new[f][s] = frame[f][s]
       /\ MovesMost(frame, new, cur, last, G, P)
  <2>0. /\ kernel \in {"gaps", "last", "delete"} /\ goal' = goal /\ kernel' = kernel /\ spoiled' = spoiled
        /\ cur \in Elems(list[c]) /\ last \in Elems(list[c])
    BY <1>0, <1>1, <1>5 DEF q
  <2>1. OwnMove(c, cur, last, G, P)
    BY <1>1, <1>9, <1>14, <2>0, OwnTransfer
  <2> QED
    BY <1>10, <2>1 DEF q, OwnMove
<1>16. PICK S \in SUBSET P : \E ts \in [S -> G] :
            /\ Transfer(frame, new, last, S, [s \in S |-> cur], ts)
            /\ g <= p => \A t \in G : \E s \in S : ts[s] = t
            /\ p <= g => S = P
  BY <1>13, <1>15 DEF MovesMost
<1>17. PICK ts \in [S -> G] :
            /\ Transfer(frame, new, last, S, [s \in S |-> cur], ts)
            /\ g <= p => \A t \in G : \E s \in S : ts[s] = t
            /\ p <= g => S = P
  BY <1>16
<1>18. g <= p => FullFrame(new, cur)
  <2> SUFFICES ASSUME g <= p, NEW t \in Slots PROVE new[cur][t].mask # 0
    BY DEF FullFrame
  <2>1. new[cur][t].mask # 0 <=>
          frame[cur][t].mask # 0 \/ \E s \in S : [x \in S |-> cur][s] = cur /\ ts[s] = t
    BY <1>0, <1>5, <1>17, TransferGains
  <2>2. CASE t \in G
    <3>1. PICK s \in S : ts[s] = t
      BY <1>17, <2>2
    <3> QED
      BY <2>1, <3>1
  <2>3. CASE t \notin G
    BY <1>8, <1>11, <2>1, <2>3
  <2> QED
    BY <2>2, <2>3
<1>19. p <= g => \A t \in Slots : new[last][t].mask = 0
  <2> SUFFICES ASSUME p <= g, NEW t \in Slots PROVE new[last][t].mask = 0
    OBVIOUS
  <2>1. S = P
    BY <1>17
  <2>2. CASE t \in P
    BY <1>17, <2>1, <2>2 DEF Transfer, NoParticle
  <2>3. CASE t \notin P
    <3>1. frame[last][t].mask = 0
      BY <1>8, <1>12, <2>3
    <3>2. \A s \in S : ~([x \in S |-> cur][s] = last /\ ts[s] = t)
      BY <1>0
    <3>3. new[last][t] = frame[last][t]
      BY <1>5, <1>17, <2>1, <2>3, <3>2 DEF Transfer
    <3> QED
      BY <3>1, <3>3
  <2> QED
    BY <2>2, <2>3
<1>20. \A k \in 1 .. i - 1 : FullFrame(new, q[k])
  <2> SUFFICES ASSUME NEW k \in 1 .. i - 1 PROVE FullFrame(new, q[k])
    OBVIOUS
  <2>1. k \in 1 .. n /\ k # i /\ k # n
    BY <1>1, <1>3
  <2>2. q[k] # cur /\ q[k] # last /\ q[k] \in Frames
    BY <1>1, <1>2, <1>4, <2>1
  <2>3. \A s \in Slots : new[q[k]][s] = frame[q[k]][s]
    BY <1>15, <2>2
  <2> QED
    BY <1>2, <2>3 DEF FullFrame
<1>21. Blocks' = Blocks /\ Launched' = Launched
  BY <1>0 DEF Blocks, Launched
<1>25. ~CompactDue(c)' /\ ~GapsDone(c)' /\ (c \in vacant => ~mustShift[c])
  <2>1. ~CompactDue(c)' /\ ~GapsDone(c)'
    BY <1>0, <1>1, <1>21 DEF CompactDue, GapsDone
  <2>2. CellOK(c)
    BY DEF Inv
  <2> QED
    BY <2>1, <2>2 DEF CellOK
<1>22. \A f \in Frames : f \notin Elems(list[c]) => \A s \in Slots : frame'[f][s] = frame[f][s]
  BY <1>5, <1>10, <1>15 DEF q
<1>23. CASE g < p
  <2>0. list' = list /\ used' = used /\ local' = [local EXCEPT ![c].cur = q[i + 1]]
    BY <1>0, <1>5, <1>8, <1>23
  <2>1. PICK x : x = [local[c] EXCEPT !.cur = q[i + 1]]
    OBVIOUS
  <2>2. local' = [local EXCEPT ![c] = x]
    BY <2>0, <2>1
  <2>3. x \in Locals /\ x.cur = q[i + 1] /\ x.last = last /\ x.dest = NoLocal.dest
    BY <1>1, <1>4, <1>5, <2>1 DEF Locals, last
  <2>4. /\ \A b \in Cells : b # c => local'[b] = local[b]
        /\ local'[c] = x
    BY <1>1, <1>6, <2>2
  <2>5. Types'
    <3>1. local' \in [Cells -> Locals]
      BY <1>1, <1>6, <2>2, <2>3
    <3> QED
      BY <1>0, <1>6, <1>10, <1>15, <2>0, <3>1 DEF Types, FrameType
  <2>6. Tidies(c)
    <3>1. used' = used \ (Elems(list[c]) \ Elems(list'[c]))
      BY <2>0
    <3>2. /\ Elems(list'[c]) \subseteq Elems(list[c]) /\ Distinct(list'[c])
          /\ \A f \in Elems(list[c]) \ Elems(list'[c]) : \A s \in Slots : frame'[f][s].mask = 0
          /\ \A f \in Elems(list'[c]) : Calm(frame', f) /\ GoalsIn(frame, f, c)'
      BY <1>1, <1>10, <1>15, <2>0 DEF q
    <3> QED
      BY <1>0, <1>1, <1>22, <2>0, <2>3, <2>4, <3>1, <3>2 DEF Tidies
  <2>7. BlockOK(c)'
    <3>1. \A k \in 1 .. (i + 1) - 1 : k \in 1 .. i - 1 \/ k = i
      OBVIOUS
    <3>2. FullFrame(new, q[i])
      BY <1>2, <1>8, <1>18, <1>23
    <3>3. \A k \in 1 .. (i + 1) - 1 : FullFrame(frame', q[k])
      BY <1>10, <1>20, <3>1, <3>2
    <3>4. list'[c] = q /\ n = Len(q)
      BY <2>0 DEF q, n
    <3> QED
      BY <1>0, <1>1, <1>5, <1>21, <2>3, <2>4, <3>3, <3>4 DEF BlockOK
  <2>8. CellOK(c)'
    BY <1>0, <1>1, <1>25, <2>0 DEF CellOK, q
  <2> QED
    BY <1>0, <1>1, <1>15, <2>5, <2>6, <2>7, <2>8, TidyStep
<1>24. CASE ~(g < p)
  <2> DEFINE next == IF g = p /\ previous # cur THEN q[i + 1] ELSE cur
  <2>0. /\ list' = [list EXCEPT ![c] = rest] /\ used' = used \ {last}
        /\ local' = [local EXCEPT ![c].last = previous, ![c].cur = next]
    BY <1>0, <1>5, <1>24
  <2>1. /\ rest \in Seq(Frames)
        /\ Len(rest) = n - 1
        /\ \A k \in 1 .. n - 1 : rest[k] = q[k]
        /\ Elems(rest) = Elems(q) \ {last} /\ Distinct(rest)
    BY <1>1, ChopFacts DEF rest, q, n
  <2>2. n - 1 \in 1 .. n - 1 /\ i \in 1 .. n - 1 /\ n - 1 \in 1 .. n
    BY <1>1, <1>3
  <2>3. previous = q[n - 1] /\ previous \in Frames
    BY <1>4, <2>1, <2>2 DEF previous
  <2>4. next \in Frames
    BY <1>4, <1>5
  <2>5. PICK x : x = [local[c] EXCEPT !.last = previous, !.cur = next]
    OBVIOUS
  <2> HIDE DEF next
  <2>6. local' = [local EXCEPT ![c] = x]
    BY <2>0, <2>5
  <2>7. x \in Locals /\ x.cur = next /\ x.last = previous /\ x.dest = NoLocal.dest
    BY <1>1, <2>3, <2>4, <2>5 DEF Locals
  <2>8. /\ \A b \in Cells : b # c => local'[b] = local[b] /\ list'[b] = list[b]
        /\ local'[c] = x /\ list'[c] = rest
    BY <1>1, <1>6, <2>0, <2>6
  <2>9. Types'
    <3>1. local' \in [Cells -> Locals]
      BY <1>1, <1>6, <2>6, <2>7
    <3>2. list' \in [Cells -> Seq(Frames)]
      BY <1>1, <1>6, <2>0, <2>1
    <3>3. used' \subseteq Frames
      BY <1>6, <2>0 DEF Types
    <3> QED
      BY <1>0, <1>6, <1>10, <1>15, <3>1, <3>2, <3>3 DEF Types, FrameType
  <2>10. Tidies(c)
    <3>1. Elems(list[c]) \ Elems(list'[c]) = {last}
      BY <1>5, <2>1, <2>8 DEF q
    <3>2. \A s \in Slots : frame'[last][s].mask = 0
      BY <1>8, <1>10, <1>19, <1>24
    <3>3. \A f \in Elems(list'[c]) : Calm(frame', f) /\ GoalsIn(frame, f, c)'
      BY <1>10, <1>15, <2>1, <2>8
    <3>4. Elems(list'[c]) \subseteq Elems(list[c]) /\ Distinct(list'[c])
      BY <2>1, <2>8 DEF q
    <3>5. used' = used \ (Elems(list[c]) \ Elems(list'[c]))
      BY <2>0, <3>1
    <3> QED
      BY <1>0, <1>1, <1>22, <2>7, <2>8, <3>1, <3>2, <3>3, <3>4, <3>5 DEF Tidies
  <2>11. BlockOK(c)'
    <3>1. \E j \in 1 .. n - 1 : next = rest[j] /\ \A k \in 1 .. j - 1 : FullFrame(new, rest[k])
      <4>1. CASE g = p /\ previous # cur
        <5>1. i # n - 1
          BY <1>2, <2>3, <4>1
        <5>2. i + 1 \in 1 .. n - 1 /\ \A k \in 1 .. (i + 1) - 1 : (k \in 1 .. i - 1 \/ k = i) /\ k \in 1 .. n - 1
          BY <1>1, <1>3, <2>2, <5>1
        <5>3. FullFrame(new, q[i])
          BY <1>2, <1>8, <1>18, <4>1
        <5>4. next = rest[i + 1]
          BY <2>1, <4>1, <5>2 DEF next
        <5>5. \A k \in 1 .. (i + 1) - 1 : FullFrame(new, rest[k])
          BY <1>20, <2>1, <5>2, <5>3
        <5> QED
          BY <5>2, <5>4, <5>5
      <4>2. CASE ~(g = p /\ previous # cur)
        <5>1. next = rest[i]
          BY <1>2, <2>1, <2>2, <4>2 DEF next
        <5>2. \A k \in 1 .. i - 1 : k \in 1 .. n - 1
          BY <1>1, <1>3
        <5>3. \A k \in 1 .. i - 1 : FullFrame(new, rest[k])
          BY <1>20, <2>1, <5>2
        <5> QED
          BY <2>2, <5>1, <5>3
      <4> QED
        BY <4>1, <4>2
    <3>2. previous = rest[Len(rest)]
      BY DEF previous
    <3> QED
      BY <1>0, <1>1, <1>10, <1>21, <2>1, <2>7, <2>8, <3>1, <3>2 DEF BlockOK
  <2>12. CellOK(c)'
    <3>1. rest # <<>>
      BY <2>1, <2>2, ElemsFacts
    <3> QED
      BY <1>0, <1>1, <1>25, <2>8, <3>1 DEF CellOK
  <2> QED
    BY <1>0, <1>1, <1>15, <2>9, <2>10, <2>11, <2>12, TidyStep
<1> QED
  BY <1>23, <1>24

(* The gaps in front of place n and the particles behind it are as many, if *)
(* n particles are in the frame.                                            *)
LEMMA AsManyGaps ==
  ASSUME NEW O \in SUBSET Slots, NEW n, n = Cardinality(O)
  PROVE  /\ n \in 0 .. TileSize
         /\ Cardinality({s \in Slots \ O : s < n}) = Cardinality({s \in O : s >= n})
<1> USE Consts
<1>1. IsFiniteSet(O) /\ n \in Nat /\ n <= TileSize
  <2>1. IsFiniteSet(O) /\ Cardinality(O) <= Cardinality(Slots)
    BY FS_Subset
  <2> QED
    BY <2>1, FS_CardinalityType
<1> DEFINE L == 0 .. n - 1
<1>2. IsFiniteSet(L) /\ Cardinality(L) = n
  <2>1. PICK a \in Int, b \in Int : a = 0 /\ b = n - 1
    BY <1>1
  <2>2. IsFiniteSet(a .. b) /\ Cardinality(a .. b) = IF a > b THEN 0 ELSE b - a + 1
    BY FS_Interval
  <2>3. (IF a > b THEN 0 ELSE b - a + 1) = n /\ a .. b = 0 .. n - 1
    BY <1>1, <2>1
  <2> QED
    BY <2>2, <2>3
<1>3. /\ IsFiniteSet(L \ O) /\ Cardinality(L \ O) = Cardinality(L) - Cardinality(L \cap O)
      /\ IsFiniteSet(O \ L) /\ Cardinality(O \ L) = Cardinality(O) - Cardinality(O \cap L)
  BY <1>1, <1>2, FS_Difference
<1>4. L \cap O = O \cap L
  OBVIOUS
<1>5. \A s : s \in L <=> s \in Slots /\ s < n
  BY <1>1 DEF Slots
<1>6. \A s \in O : s \in Int /\ (s < n <=> ~(s >= n))
  BY <1>1 DEF Slots
<1> HIDE DEF L
<1>7. {s \in Slots \ O : s < n} = L \ O /\ {s \in O : s >= n} = O \ L
  BY <1>5, <1>6
<1>8. Cardinality(L \ O) = Cardinality(O \ L)
  BY <1>2, <1>3, <1>4
<1>9. n \in 0 .. TileSize
  BY <1>1
<1> QED
  BY <1>7, <1>8, <1>9

LEMMA FillNoFrameInv ==
  ASSUME Inv, NEW c \in Area, FillLastFrame(c), list[c] = <<>>
  PROVE  Inv'
<1> USE Consts
<1>0. /\ kernel = "last" /\ c \in Launched /\ pc[c] = "start" /\ c \in Cells /\ c \in Blocks
      /\ frame' = frame /\ used' = used /\ list' = list /\ mustShift' = mustShift /\ offset' = offset
      /\ kernel' = kernel /\ local' = local /\ goal' = goal
      /\ lost' = lost /\ vacant' = vacant /\ spoiled' = spoiled
      /\ size' = [size EXCEPT ![c] = 0] /\ pc' = [pc EXCEPT ![c] = "done"]
  BY DEF FillLastFrame, At, Launched, Last, history
<1>1. /\ Types /\ local[c] = NoLocal /\ CellOK(c) /\ size \in [Cells -> 0 .. TileSize]
      /\ pc \in [Cells -> {"start", "loop", "end", "done"}]
  BY <1>0 DEF Inv, Types, BlockOK
<1>2. /\ \A b \in Cells : b # c => pc'[b] = pc[b] /\ size'[b] = size[b]
      /\ pc'[c] = "done" /\ size'[c] = 0
  BY <1>0, <1>1
<1>3. Types'
  <2>1. pc' \in [Cells -> {"start", "loop", "end", "done"}] /\ size' \in [Cells -> 0 .. TileSize]
    BY <1>0, <1>1
  <2> QED
    BY <1>0, <1>1, <2>1 DEF Types
<1>4. Tidies(c) /\ ParticlesOK'
  BY <1>0, <1>1, <1>2, TidyStill
<1>5. BlockOK(c)'
  <2>1. Launched' = Launched
    BY <1>0 DEF Launched, Blocks
  <2> QED
    BY <1>0, <1>1, <1>2, <2>1 DEF BlockOK
<1>6. CellOK(c)'
  <2>1. c \in vacant /\ ~mustShift[c]
    BY <1>1 DEF CellOK
  <2>2. \A k \in 1 .. Len(list[c]) : FALSE
    OBVIOUS
  <2>3. \A k \in 1 .. Len(list[c]) - 1 : FALSE
    OBVIOUS
  <2>4. AllFull(frame', list'[c]) /\ ButLastFull(frame', list'[c])
    BY <1>0, <2>2, <2>3 DEF AllFull, ButLastFull
  <2> QED
    BY <1>0, <1>2, <2>1, <2>4 DEF CellOK, WrongSize
<1> QED
  BY <1>0, <1>3, <1>4, <1>5, <1>6, TidyStep

LEMMA FillOneFrameInv ==
  ASSUME Inv, NEW c \in Area, FillLastFrame(c), list[c] # <<>>
  PROVE  Inv'
<1> USE Consts
<1> DEFINE q == list[c]
<1> DEFINE f == Last(c)
<1> DEFINE O == {s \in Slots : frame[f][s].mask # 0}
<1> DEFINE n == Cardinality(O)
<1> DEFINE G == {s \in Gaps(f) : s < n}
<1> DEFINE P == {s \in Slots \ Gaps(f) : s >= n}
<1>0. /\ kernel = "last" /\ c \in Launched /\ pc[c] = "start" /\ c \in Cells /\ c \in Blocks
      /\ used' = used /\ list' = list /\ mustShift' = mustShift /\ offset' = offset
      /\ kernel' = kernel /\ local' = local /\ goal' = goal
      /\ lost' = lost /\ vacant' = vacant /\ spoiled' = spoiled
      /\ pc' = [pc EXCEPT ![c] = "done"]
  BY DEF FillLastFrame, At, Launched, history
<1>1. /\ Types /\ q \in Seq(Frames) /\ q # <<>> /\ Distinct(q) /\ local[c] = NoLocal
      /\ pc \in [Cells -> {"start", "loop", "end", "done"}] /\ size \in [Cells -> 0 .. TileSize]
      /\ frame \in FrameType
  BY <1>0 DEF Inv, Types, HeapOK, BlockOK, FrameType
<1>2. /\ f = q[Len(q)] /\ f \in Frames /\ f \in Elems(q) /\ Len(q) \in 1 .. Len(q)
      /\ \A k \in 1 .. Len(q) : q[k] \in Elems(q) /\ q[k] \in Frames
      /\ \A j, k \in 1 .. Len(q) : q[j] = q[k] => j = k
  BY <1>1, ElemsFacts, SMTT(30) DEF Last, Distinct
<1>3. size' = [size EXCEPT ![c] = n] /\ \E to \in Orders(G), from \in Orders(P) : frame' = Moved(f, to, f, from)
  BY <1>2 DEF FillLastFrame
<1>4. PICK to \in Orders(G), from \in Orders(P) : frame' = Moved(f, to, f, from)
  BY <1>3
<1>5. G = {s \in Slots \ O : s < n} /\ P = {s \in O : s >= n}
  BY DEF Gaps
<1>6. O \in SUBSET Slots
  OBVIOUS
<1>7. n \in 0 .. TileSize /\ Cardinality(G) = Cardinality(P)
  <2> HIDE DEF O, G, P
  <2> QED
    BY <1>5, <1>6, AsManyGaps
<1>8. \A s \in Slots : s \in O <=> frame[f][s].mask # 0
  OBVIOUS
<1> HIDE DEF O, n, G, P, f, q
<1>9. /\ \A s \in G : frame[f][s].mask = 0
      /\ \A s \in P : frame[f][s].mask # 0
      /\ G \in SUBSET Slots /\ P \in SUBSET Slots
  BY <1>5, <1>6, <1>8
<1>10. OwnMove(c, f, f, G, P)
  <2>1. kernel \in {"gaps", "last", "delete"} /\ f \in Elems(list[c])
    BY <1>0, <1>2 DEF q
  <2> QED
    BY <1>0, <1>4, <1>9, <2>1, OwnTransfer
<1>11. PICK new : new = frame'
  OBVIOUS
<1>12. /\ new \in FrameType
       /\ ParticlesOK'
       /\ \A h \in Elems(q) : Calm(new, h) /\ GoalsIn(frame, h, c)'
       /\ \A h \in Frames : h # f => \A s \in Slots : new[h][s] = frame[h][s]
       /\ MovesMost(frame, new, f, f, G, P)
  BY <1>10, <1>11 DEF OwnMove, q
<1>13. Cardinality(G) <= Cardinality(P) /\ Cardinality(P) <= Cardinality(G)
  <2>1. Cardinality(G) \in Nat
    BY <1>9, FS_Subset, FS_CardinalityType
  <2> QED
    BY <1>7, <2>1
<1>14. PICK ts \in [P -> G] :
         Transfer(frame, new, f, P, [s \in P |-> f], ts) /\ \A g \in G : \E s \in P : ts[s] = g
  BY <1>12, <1>13 DEF MovesMost
<1>15. FilledTo(new, f, n)
  <2> SUFFICES ASSUME NEW t \in Slots PROVE new[f][t].mask # 0 <=> t < n
    BY DEF FilledTo
  <2>0. t \in Int /\ n \in Int
    BY <1>7 DEF Slots
  <2>1. CASE t \in P
    <3>1. new[f][t].mask = 0
      BY <1>14, <2>1 DEF Transfer, NoParticle
    <3>2. t >= n
      BY <1>5, <2>1
    <3> QED
      BY <2>0, <3>1, <3>2
  <2>2. CASE t \in G
    <3>1. PICK s \in P : ts[s] = t
      BY <1>14, <2>2
    <3>2. new[[x \in P |-> f][s]][ts[s]] = [id |-> frame[f][s].id, mask |-> 1]
      BY <1>14 DEF Transfer
    <3>3. new[f][t] = [id |-> frame[f][s].id, mask |-> 1]
      BY <3>1, <3>2
    <3>4. t < n
      BY <1>5, <2>2
    <3> QED
      BY <3>3, <3>4
  <2>3. CASE t \notin P /\ t \notin G
    <3>1. \A s \in P : ts[s] # t
      BY <2>3
    <3>2. new[f][t] = frame[f][t]
      BY <1>2, <1>14, <2>3, <3>1 DEF Transfer
    <3>3. frame[f][t].mask # 0 <=> t < n
      BY <1>5, <1>8, <2>0, <2>3
    <3> QED
      BY <3>2, <3>3
  <2> QED
    BY <2>1, <2>2, <2>3
<1>16. ButLastFull(new, q)
  <2>1. ButLastFull(frame, q)
    BY <1>0 DEF Inv, CellOK, GapsDone, q
  <2>2. \A k \in 1 .. Len(q) - 1 : k \in 1 .. Len(q) /\ k # Len(q)
    BY <1>1, ElemsFacts
  <2>3. \A k \in 1 .. Len(q) - 1 : \A s \in Slots : new[q[k]][s] = frame[q[k]][s]
    BY <1>2, <1>12, <2>2, ZenonT(40)
  <2> QED
    BY <2>1, <2>3 DEF ButLastFull, FullFrame
<1>17. /\ \A b \in Cells : b # c => pc'[b] = pc[b] /\ size'[b] = size[b]
       /\ pc'[c] = "done" /\ size'[c] = n
  BY <1>0, <1>1, <1>3
<1>18. Types'
  <2>1. pc' \in [Cells -> {"start", "loop", "end", "done"}] /\ size' \in [Cells -> 0 .. TileSize]
    BY <1>0, <1>1, <1>3, <1>7
  <2> QED
    BY <1>0, <1>1, <1>11, <1>12, <2>1 DEF Types, FrameType
<1>19. Tidies(c)
  <2>1. used' = used \ (Elems(list[c]) \ Elems(list'[c]))
    BY <1>0
  <2>2. /\ Elems(list'[c]) \subseteq Elems(list[c]) /\ Distinct(list'[c])
        /\ \A h \in Elems(list[c]) \ Elems(list'[c]) : \A s \in Slots : frame'[h][s].mask = 0
        /\ \A h \in Elems(list'[c]) : Calm(frame', h) /\ GoalsIn(frame, h, c)'
    BY <1>0, <1>1, <1>11, <1>12 DEF q
  <2>3. \A h \in Frames : h \notin Elems(list[c]) => \A s \in Slots : frame'[h][s] = frame[h][s]
    BY <1>2, <1>11, <1>12 DEF q
  <2> QED
    BY <1>0, <1>1, <1>17, <2>1, <2>2, <2>3 DEF Tidies
<1>20. Blocks' = Blocks /\ Launched' = Launched
  BY <1>0 DEF Blocks, Launched
<1>21. BlockOK(c)'
  BY <1>0, <1>1, <1>17, <1>20 DEF BlockOK
<1>22. CellOK(c)'
  <2>1. list'[c] = q /\ q # <<>>
    BY <1>0, <1>1 DEF q
  <2>2. CompactList(frame', q, n) /\ ButLastFull(frame', q)
    BY <1>2, <1>11, <1>15, <1>16 DEF CompactList
  <2>3. CellOK(c)
    BY DEF Inv
  <2> QED
    BY <1>0, <1>17, <2>1, <2>2, <2>3 DEF CellOK
<1> QED
  BY <1>0, <1>12, <1>18, <1>19, <1>21, <1>22, TidyStep

LEMMA FillLastFrameInv ==
  ASSUME Inv, NEW c \in Area, FillLastFrame(c)
  PROVE  Inv'
BY FillNoFrameInv, FillOneFrameInv

-----------------------------------------------------------------------------
(* Every step keeps the invariant.                                          *)
LEMMA StepInv ==
  ASSUME Inv, Stride >= 3, [Next]_vars
  PROVE  Inv'
<1>1. ASSUME NEW c \in Area, ShiftBegin(c) PROVE Inv'
  BY <1>1, ShiftBeginInv
<1>2. ASSUME NEW c \in Area, ShiftFrame(c) PROVE Inv'
  BY <1>2, ShiftFrameInv
<1>3. ASSUME NEW c \in Area, ShiftEnd(c) PROVE Inv'
  BY <1>3, ShiftEndInv
<1>4. ASSUME NEW c \in Area, GapsBegin(c) PROVE Inv'
  BY <1>4, GapsBeginInv
<1>5. ASSUME NEW c \in Area, GapsSkip(c) PROVE Inv'
  BY <1>5, GapsSkipInv
<1>6. ASSUME NEW c \in Area, GapsFill(c) PROVE Inv'
  BY <1>6, GapsFillInv
<1>7. ASSUME NEW c \in Area, FillLastFrame(c) PROVE Inv'
  BY <1>7, FillLastFrameInv
<1>8. ASSUME NEW c \in Open, DeleteFrame(c) PROVE Inv'
  BY <1>8, DeleteFrameInv
<1>9. ASSUME NEW c \in Open, DeleteEnd(c) PROVE Inv'
  BY <1>9, DeleteEndInv
<1>10. CASE NextKernel
  BY <1>10, NextKernelInv
<1>11. CASE UNCHANGED vars
  <2>1. /\ frame' = frame /\ used' = used /\ list' = list /\ size' = size /\ mustShift' = mustShift
        /\ offset' = offset /\ kernel' = kernel /\ pc' = pc /\ local' = local /\ goal' = goal
        /\ lost' = lost /\ vacant' = vacant /\ spoiled' = spoiled
    BY <1>11 DEF vars, history
  <2>2. SamePrivate
    BY <2>1 DEF SamePrivate, Private
  <2>3. HeapOK' /\ ParticlesOK' /\ GoalsOK'
    BY <2>1, <2>2, QuietStep DEF Inv
  <2>4. Types'
    BY <2>1 DEF Inv, Types
  <2>5. Blocks' = Blocks /\ Launched' = Launched
    BY <2>1 DEF Blocks, Launched
  <2>6. \A b \in Cells : (Pending(b)' <=> Pending(b)) /\ (Shifting(b)' <=> Shifting(b))
    BY <2>1 DEF Pending, Rank, Shifting
  <2>7. ASSUME NEW b \in Cells PROVE LeaversOK(b)' /\ BlockOK(b)'
    BY <2>1, <2>5, <2>6 DEF Inv, LeaversOK, BlockOK
  <2>8. ASSUME NEW b \in Area, NEW d \in Directions PROVE DestinationOK(b, d)'
    BY <2>1, <2>6, Consts DEF Inv, DestinationOK, Private
  <2>9. ASSUME NEW b \in Area PROVE CellOK(b)'
    <3>1. CompactDue(b)' <=> CompactDue(b)
      BY <2>1, <2>5, <2>6, Consts DEF CompactDue, Shifting
    <3>2. GapsDone(b)' <=> GapsDone(b)
      BY <2>1, <2>5 DEF GapsDone
    <3>3. WrongSize(b)' <=> WrongSize(b)
      BY <2>1 DEF WrongSize
    <3>4. CellOK(b)
      BY DEF Inv
    <3> QED
      BY <2>1, <3>1, <3>2, <3>3, <3>4 DEF CellOK
  <2>10. GuardsOK'
    BY <2>1, <2>6, Consts DEF Inv, GuardsOK
  <2> QED
    BY <2>3, <2>4, <2>7, <2>8, <2>9, <2>10 DEF Inv
<1> QED
  BY <1>1, <1>2, <1>3, <1>4, <1>5, <1>6, <1>7, <1>8, <1>9, <1>10, <1>11 DEF Next, Work, Terminated

-----------------------------------------------------------------------------
(* What the invariant says between kernels and in the end.                  *)

(* The places of a particle.                                                *)
LEMMA PlacesFacts ==
  ASSUME Inv, NEW p
  PROVE  \A x : x \in Places(p) <=>
           \E c \in Cells : \E k \in DOMAIN list[c] : \E s \in Slots :
             x = <<c, k, s>> /\ frame[list[c][k]][s].id = p /\ frame[list[c][k]][s].mask # 0
<1> DEFINE all == UNION {{c} \X (DOMAIN list[c]) \X Slots : c \in Cells}
<1>1. \A x : x \in all <=> \E c \in Cells : x \in {c} \X (DOMAIN list[c]) \X Slots
  OBVIOUS
<1>2. \A c : \A x : x \in {c} \X (DOMAIN list[c]) \X Slots <=>
        \E k \in DOMAIN list[c] : \E s \in Slots : x = <<c, k, s>>
  OBVIOUS
<1> DEFINE Here(x) == frame[list[x[1]][x[2]]][x[3]].id = p /\ frame[list[x[1]][x[2]]][x[3]].mask # 0
<1>3. Places(p) = {x \in all : Here(x)}
  BY DEF Places
<1>4. \A c, k, s : <<c, k, s>>[1] = c /\ <<c, k, s>>[2] = k /\ <<c, k, s>>[3] = s
  OBVIOUS
<1> SUFFICES ASSUME NEW x
             PROVE  x \in Places(p) <=>
                      \E c \in Cells : \E k \in DOMAIN list[c] : \E s \in Slots :
                        x = <<c, k, s>> /\ frame[list[c][k]][s].id = p /\ frame[list[c][k]][s].mask # 0
  OBVIOUS
<1>5. x \in all <=> \E c \in Cells : \E k \in DOMAIN list[c] : \E s \in Slots : x = <<c, k, s>>
  BY <1>1, <1>2
<1>6. \A c, k, s : x = <<c, k, s>> =>
        (Here(x) <=> frame[list[c][k]][s].id = p /\ frame[list[c][k]][s].mask # 0)
  BY <1>4
<1>7. x \in Places(p) <=> x \in all /\ Here(x)
  BY <1>3
<1> HIDE DEF all, Here
<1> QED
  BY <1>5, <1>6, <1>7

(* Between kernels the frames in use are in lists, or lost.                 *)
LEMMA QuietFacts ==
  ASSUME Inv, Quiet
  PROVE  /\ \A f \in Frames : f \in used <=> (\E c \in Cells : f \in Elems(list[c])) \/ f \in lost
         /\ \A c, d \in Cells : \A j \in DOMAIN list[c], k \in DOMAIN list[d] :
              list[c][j] = list[d][k] => c = d /\ j = k
         /\ \A c \in Cells : \A k \in DOMAIN list[c] : list[c][k] \in Frames
<1>1. \A b \in Cells, d \in Directions : ~Private(b, d)
  <2>1. \A b \in Cells : local[b] = NoLocal
    BY DEF Quiet, Inv, BlockOK
  <2> QED
    BY <2>1, NoPrivate
<1>2. \A f \in Frames : f \in used <=> (\E c \in Cells : f \in Elems(list[c])) \/ f \in lost
  BY <1>1 DEF Inv, HeapOK
<1>3. \A c, d \in Cells : c # d => Elems(list[c]) \cap Elems(list[d]) = {}
  BY DEF Inv, HeapOK
<1>4. \A c \in Cells : Distinct(list[c])
  BY DEF Inv, HeapOK
<1>5. \A c \in Cells : \A k \in DOMAIN list[c] : list[c][k] \in Elems(list[c])
  BY DEF Elems
<1>6. \A c \in Cells : \A k \in DOMAIN list[c] : list[c][k] \in Frames
  BY <1>5, UsedFacts
<1>7. ASSUME NEW c \in Cells, NEW d \in Cells, NEW j \in DOMAIN list[c], NEW k \in DOMAIN list[d],
             list[c][j] = list[d][k]
      PROVE  c = d /\ j = k
  <2>1. c = d
    BY <1>3, <1>5, <1>7
  <2> QED
    BY <1>4, <1>7, <2>1 DEF Distinct
<1> QED
  BY <1>2, <1>6, <1>7

(* The frames in lists.                                                     *)
LEMMA HeldIs == \A f : f \in Held <=> \E c \in Cells : f \in Elems(list[c])
BY DEF Held, Elems

LEMMA InvHeapExact ==
  ASSUME Inv
  PROVE  HeapExact
<1> SUFFICES ASSUME Quiet
             PROVE  /\ used = Held \cup lost
                    /\ Held \cap lost = {}
                    /\ \A c, d \in Cells : \A j \in DOMAIN list[c], k \in DOMAIN list[d] :
                         list[c][j] = list[d][k] => c = d /\ j = k
  BY DEF HeapExact
<1>1. \A f : f \in Held <=> \E c \in Cells : f \in Elems(list[c])
  BY HeldIs
<1>2. /\ used \subseteq Frames /\ lost \subseteq Frames
      /\ \A c \in Cells : \A f \in Elems(list[c]) : f \in Frames
  BY UsedFacts DEF Inv, Types
<1>3. used = Held \cup lost
  BY <1>1, <1>2, QuietFacts
<1>4. \A c \in Cells : Elems(list[c]) \cap lost = {}
  BY DEF Inv, HeapOK
<1>5. Held \cap lost = {}
  BY <1>1, <1>4
<1> QED
  BY <1>3, <1>5, QuietFacts

(* Between kernels a particle that is in a slot is in one place.            *)
LEMMA OnePlace ==
  ASSUME Inv, Quiet, NEW p, InSlot(frame, p)
  PROVE  \E c \in Cells : \E k \in DOMAIN list[c] : \E s \in Slots :
           /\ frame[list[c][k]][s].id = p /\ frame[list[c][k]][s].mask # 0
           /\ Places(p) = {<<c, k, s>>}
<1>1. PICK f \in Frames : \E s \in Slots : frame[f][s].mask # 0 /\ frame[f][s].id = p
  BY DEF InSlot
<1>2. PICK s \in Slots : frame[f][s].mask # 0 /\ frame[f][s].id = p
  BY <1>1
<1>3. f \in used /\ f \notin lost
  BY <1>2 DEF Inv, HeapOK
<1>4. PICK c \in Cells : f \in Elems(list[c])
  BY <1>3, QuietFacts
<1>5. PICK k \in DOMAIN list[c] : f = list[c][k]
  BY <1>4 DEF Elems
<1>6. <<c, k, s>> \in Places(p)
  BY <1>2, <1>5, PlacesFacts
<1>7. ASSUME NEW x \in Places(p) PROVE x = <<c, k, s>>
  <2>1. PICK a \in Cells : \E j \in DOMAIN list[a] : \E t \in Slots :
          x = <<a, j, t>> /\ frame[list[a][j]][t].id = p /\ frame[list[a][j]][t].mask # 0
    BY PlacesFacts
  <2>2. PICK j \in DOMAIN list[a] : \E t \in Slots :
          x = <<a, j, t>> /\ frame[list[a][j]][t].id = p /\ frame[list[a][j]][t].mask # 0
    BY <2>1
  <2>3. PICK t \in Slots :
          x = <<a, j, t>> /\ frame[list[a][j]][t].id = p /\ frame[list[a][j]][t].mask # 0
    BY <2>2
  <2>4. list[a][j] \in Frames
    BY QuietFacts
  <2>5. list[a][j] = f /\ t = s
    BY <1>2, <2>3, <2>4 DEF Inv, ParticlesOK, OneSlot
  <2>6. a = c /\ j = k
    BY <1>5, <2>5, QuietFacts
  <2> QED
    BY <2>3, <2>5, <2>6
<1>8. Places(p) = {<<c, k, s>>}
  BY <1>6, <1>7
<1> QED
  BY <1>2, <1>5, <1>8

(* And one that is in no slot is in no place.                               *)
LEMMA NoPlace ==
  ASSUME Inv, Quiet, NEW p, ~InSlot(frame, p)
  PROVE  Places(p) = {}
<1> SUFFICES ASSUME NEW x \in Places(p) PROVE FALSE
  OBVIOUS
<1>1. PICK c \in Cells : \E k \in DOMAIN list[c] : \E s \in Slots :
        frame[list[c][k]][s].id = p /\ frame[list[c][k]][s].mask # 0
  BY PlacesFacts
<1>2. PICK k \in DOMAIN list[c] : \E s \in Slots :
        frame[list[c][k]][s].id = p /\ frame[list[c][k]][s].mask # 0
  BY <1>1
<1>3. list[c][k] \in Frames
  BY QuietFacts
<1> QED
  BY <1>2, <1>3 DEF InSlot

LEMMA InvParticlesKept ==
  ASSUME Inv
  PROVE  ParticlesKept
<1> SUFFICES ASSUME Quiet, NEW p \in DOMAIN goal
             PROVE  \/ Cardinality(Places(p)) = 1
                    \/ /\ Places(p) = {}
                       /\ goal[p] \in spoiled \/ (goal[p] \in Open /\ kernel \in {"delete", "over"})
  BY DEF ParticlesKept
<1>1. CASE InSlot(frame, p)
  <2>1. PICK x : Places(p) = {x}
    BY <1>1, OnePlace
  <2> QED
    BY <2>1, FS_Singleton
<1>2. CASE ~InSlot(frame, p)
  <2>1. Places(p) = {}
    BY <1>2, NoPlace
  <2>2. goal[p] \in spoiled \/ (goal[p] \in Open /\ kernel \in {"delete", "over"})
    BY <1>2 DEF Inv, ParticlesOK
  <2> QED
    BY <2>1, <2>2
<1> QED
  BY <1>1, <1>2

(* In the end no block runs, and a particle that is somewhere has arrived.  *)
LEMMA OverFacts ==
  ASSUME Inv, kernel = "over"
  PROVE  /\ Quiet
         /\ \A c \in Cells : \A k \in DOMAIN list[c] : \A s \in Slots :
              frame[list[c][k]][s].mask # 0 =>
                goal[frame[list[c][k]][s].id] = c /\ c \notin Open
<1>1. Quiet
  <2> SUFFICES ASSUME NEW c \in Cells PROVE pc[c] \in {"start", "done"}
    BY DEF Quiet
  <2>1. pc[c] \in {"start", "loop", "end", "done"} /\ BlockOK(c)
    BY DEF Inv, Types
  <2> QED
    BY <2>1 DEF BlockOK
<1>2. ASSUME NEW c \in Cells, NEW k \in DOMAIN list[c], NEW s \in Slots, frame[list[c][k]][s].mask # 0
      PROVE  goal[frame[list[c][k]][s].id] = c /\ c \notin Open
  <2>1. PICK f \in Frames : f = list[c][k]
    BY <1>1, QuietFacts
  <2>2. f \in Elems(list[c])
    BY <2>1 DEF Elems
  <2>3. ~Pending(c) /\ ~Shifting(c)
    BY DEF Pending, Shifting
  <2>4. Calm(frame, f) /\ GoalsIn(frame, f, c)
    BY <2>2, <2>3 DEF Inv, LeaversOK, GoalsOK
  <2>5. frame[f][s].mask \in 0 .. 3 /\ frame[f][s].mask <= 1
    BY <2>4 DEF Inv, Types, Slot, Calm
  <2>6. frame[f][s].mask = 1
    BY <1>2, <2>1, <2>5
  <2>7. goal[frame[f][s].id] = c
    BY <2>4, <2>6 DEF GoalsIn, Aim
  <2>8. c \notin Open
    <3>1. c \in Open => list[c] = <<>>
      BY DEF Inv, GuardsOK
    <3>2. list[c] = <<>> => FALSE
      OBVIOUS
    <3> QED
      BY <3>1, <3>2
  <2> QED
    BY <2>1, <2>7, <2>8
<1> QED
  BY <1>1, <1>2

LEMMA InvArrived ==
  ASSUME Inv
  PROVE  Arrived
<1> SUFFICES ASSUME kernel = "over", NEW p \in DOMAIN goal
             PROVE  \/ {x[1] : x \in Places(p)} = {goal[p]} \ Open
                    \/ {x[1] : x \in Places(p)} = {} /\ goal[p] \in spoiled
  BY DEF Arrived
<1>1. CASE InSlot(frame, p)
  <2>1. PICK c \in Cells : \E k \in DOMAIN list[c] : \E s \in Slots :
           /\ frame[list[c][k]][s].id = p /\ frame[list[c][k]][s].mask # 0
           /\ Places(p) = {<<c, k, s>>}
    BY <1>1, OverFacts, OnePlace
  <2>2. PICK k \in DOMAIN list[c] : \E s \in Slots :
           /\ frame[list[c][k]][s].id = p /\ frame[list[c][k]][s].mask # 0
           /\ Places(p) = {<<c, k, s>>}
    BY <2>1
  <2>3. PICK s \in Slots :
           /\ frame[list[c][k]][s].id = p /\ frame[list[c][k]][s].mask # 0
           /\ Places(p) = {<<c, k, s>>}
    BY <2>2
  <2>4. goal[p] = c /\ c \notin Open
    BY <2>3, OverFacts
  <2>5. {x[1] : x \in {<<c, k, s>>}} = {c}
    OBVIOUS
  <2> QED
    BY <2>3, <2>4, <2>5
<1>2. CASE ~InSlot(frame, p)
  <2>1. goal[p] \in spoiled \/ goal[p] \in Open
    BY <1>2 DEF Inv, ParticlesOK
  <2>2. Places(p) = {}
    BY <1>2, OverFacts, NoPlace
  <2>3. {x[1] : x \in Places(p)} = {}
    BY <2>2
  <2> QED
    BY <2>1, <2>3
<1> QED
  BY <1>1, <1>2

LEMMA InvCompact ==
  ASSUME Inv
  PROVE  Compact
<1> SUFFICES ASSUME kernel = "over", NEW c \in Area \cup Open
             PROVE  /\ \A k \in 1 .. Len(list[c]) - 1 : Gaps(list[c][k]) = {}
                    /\ IF list[c] = <<>> THEN size[c] = 0
                       ELSE \/ Gaps(Last(c)) = size[c] .. TileSize - 1
                            \/ Gaps(Last(c)) = {} /\ c \in vacant /\ (size[c] = 0 \/ c \in spoiled)
  BY DEF Compact
<1>1. CASE c \in Open
  <2>1. list[c] = <<>> /\ size[c] = 0
    BY <1>1 DEF Inv, GuardsOK
  <2>2. Len(<<>>) = 0
    OBVIOUS
  <2>3. \A k \in 1 .. Len(list[c]) - 1 : FALSE
    BY <2>1, <2>2
  <2> QED
    BY <2>1, <2>3
<1>2. CASE c \in Area
  <2>1. c \in Cells /\ CellOK(c) /\ CompactDue(c)
    BY <1>2, Consts DEF Inv, CompactDue
  <2>2. /\ CompactList(frame, list[c], size[c]) \/ WrongSize(c)
        /\ list[c] = <<>> => size[c] = 0
        /\ list[c] \in Seq(Frames)
    BY <2>1 DEF CellOK, Inv, Types
  <2>3. size[c] \in 0 .. TileSize /\ TileSize \in Nat
    BY <2>1, Consts DEF Inv, Types
  <2>4. \A s : s \in Slots /\ ~(s < size[c]) <=> s \in size[c] .. TileSize - 1
    BY <2>3 DEF Slots
  <2>5. ASSUME CompactList(frame, list[c], size[c])
        PROVE  /\ \A k \in 1 .. Len(list[c]) - 1 : Gaps(list[c][k]) = {}
               /\ list[c] # <<>> => Gaps(Last(c)) = size[c] .. TileSize - 1
    <3>1. \A k \in 1 .. Len(list[c]) - 1 : Gaps(list[c][k]) = {}
      BY <2>5 DEF CompactList, ButLastFull, FullFrame, Gaps
    <3>2. list[c] # <<>> => FilledTo(frame, Last(c), size[c])
      BY <2>5 DEF CompactList, Last
    <3>3. list[c] # <<>> => Gaps(Last(c)) = size[c] .. TileSize - 1
      BY <2>4, <3>2 DEF Gaps, FilledTo
    <3> QED
      BY <3>1, <3>3
  <2>6. ASSUME WrongSize(c)
        PROVE  /\ \A k \in 1 .. Len(list[c]) - 1 : Gaps(list[c][k]) = {}
               /\ list[c] # <<>> => Gaps(Last(c)) = {}
               /\ c \in vacant /\ (size[c] = 0 \/ c \in spoiled)
    <3>1. \A k \in 1 .. Len(list[c]) : Gaps(list[c][k]) = {}
      BY <2>6 DEF WrongSize, AllFull, FullFrame, Gaps
    <3>2. /\ \A k \in 1 .. Len(list[c]) - 1 : k \in 1 .. Len(list[c])
          /\ list[c] # <<>> => Len(list[c]) \in 1 .. Len(list[c])
      BY <2>2, ElemsFacts
    <3>3. list[c] # <<>> => Gaps(Last(c)) = {}
      BY <3>1, <3>2 DEF Last
    <3> QED
      BY <2>6, <3>1, <3>2, <3>3 DEF WrongSize
  <2> QED
    BY <2>2, <2>5, <2>6
<1> QED
  BY <1>1, <1>2

-----------------------------------------------------------------------------
(* The initial states.                                                      *)

(* Particles numbered through the supercells.                               *)
Numbered(first) ==
  /\ first \in [0 .. NumCells -> 0 .. MaxParticles]
  /\ first[0] = 0
  /\ \A c \in Area : first[c - 1] <= first[c]

(* Particles and frames of a supercell.                                     *)
Count(first, c) == first[c] - first[c - 1]

NumberAt(first, c, k, s) == first[c - 1] + (k - 1) * TileSize + s + 1

LEMMA FirstGrows ==
  ASSUME NEW first, Numbered(first), NEW c \in 0 .. NumCells, NEW d \in 0 .. NumCells, c < d
  PROVE  first[c] <= first[d]
<1> USE Consts
<1> DEFINE Bad == {e \in 0 .. NumCells : c < e /\ ~(first[c] <= first[e])}
<1> SUFFICES ASSUME Bad # {} PROVE FALSE
  OBVIOUS
<1>1. Bad \in SUBSET Nat
  OBVIOUS
<1>2. PICK m \in Bad : \A k \in Bad : m <= k
  <2> HIDE DEF Bad
  <2> QED
    BY <1>1, LeastNatural
<1>3. \A e \in 0 .. NumCells : first[e] \in Nat
  BY DEF Numbered
<1>4. m \in Area /\ m - 1 \in 0 .. NumCells /\ c <= m - 1 /\ ~(m <= m - 1)
  BY DEF Area
<1>5. first[m - 1] <= first[m]
  BY <1>4 DEF Numbered
<1>6. m - 1 \notin Bad
  <2> HIDE DEF Bad
  <2> QED
    BY <1>2, <1>4
<1>7. c = m - 1 \/ first[c] <= first[m - 1]
  BY <1>4, <1>6
<1>8. first[c] <= first[m]
  BY <1>3, <1>4, <1>5, <1>7
<1> QED
  BY <1>8

(* The supercell of a particle is the one whose numbers it is among.        *)
LEMMA CellOfIs ==
  ASSUME NEW first, Numbered(first), NEW c \in Area, NEW p \in first[c - 1] + 1 .. first[c]
  PROVE  /\ CellOf(first, p) = c
         /\ \A d \in Area : p \in first[d - 1] + 1 .. first[d] => d = c
<1> USE Consts
<1>1. \A e \in 0 .. NumCells : first[e] \in Nat
  BY DEF Numbered
<1>2. ASSUME NEW d \in Area, p \in first[d - 1] + 1 .. first[d] PROVE d = c
  <2>1. c \in Nat /\ d \in Nat /\ c - 1 \in 0 .. NumCells /\ d - 1 \in 0 .. NumCells
        /\ c \in 0 .. NumCells /\ d \in 0 .. NumCells
    BY DEF Area
  <2>2. /\ first[c] \in Nat /\ first[d] \in Nat /\ first[c - 1] \in Nat /\ first[d - 1] \in Nat
    BY <1>1, <2>1
  <2>3. p \in Int /\ first[c - 1] < p /\ p <= first[c] /\ first[d - 1] < p /\ p <= first[d]
    BY <1>2, <2>2
  <2>4. ASSUME c < d PROVE FALSE
    <3>1. c = d - 1 \/ c < d - 1
      BY <2>1, <2>4
    <3>2. first[c] <= first[d - 1]
      BY <2>1, <2>2, <3>1, FirstGrows
    <3> QED
      BY <2>2, <2>3, <3>2
  <2>5. ASSUME d < c PROVE FALSE
    <3>1. d = c - 1 \/ d < c - 1
      BY <2>1, <2>5
    <3>2. first[d] <= first[c - 1]
      BY <2>1, <2>2, <3>1, FirstGrows
    <3> QED
      BY <2>2, <2>3, <3>2
  <2> QED
    BY <2>1, <2>4, <2>5
<1> QED
  BY <1>2 DEF CellOf

(* Every number is of a supercell, and the numbers of a supercell are some. *)
LEMMA CellExists ==
  ASSUME NEW first, Numbered(first), NEW p \in 1 .. first[NumCells]
  PROVE  \E c \in Area : p \in first[c - 1] + 1 .. first[c]
<1> USE Consts
<1> DEFINE High == {e \in 0 .. NumCells : p <= first[e]}
<1>1. \A e \in 0 .. NumCells : first[e] \in Nat
  BY DEF Numbered
<1>2. NumCells \in 0 .. NumCells /\ first[NumCells] \in Nat /\ p \in Nat
  BY <1>1
<1>3. High \in SUBSET Nat /\ NumCells \in High
  BY <1>2
<1>4. PICK c \in High : \A k \in High : c <= k
  <2> HIDE DEF High
  <2> QED
    BY <1>3, LeastNatural
<1>5. c # 0
  BY <1>2 DEF Numbered
<1>6. c \in Area /\ c - 1 \in 0 .. NumCells /\ ~(c <= c - 1)
  BY <1>5 DEF Area
<1>7. c - 1 \notin High
  <2> HIDE DEF High
  <2> QED
    BY <1>4, <1>6
<1>8. first[c - 1] \in Nat /\ first[c] \in Nat /\ first[c - 1] < p /\ p <= first[c]
  BY <1>1, <1>2, <1>6, <1>7
<1> QED
  BY <1>2, <1>6, <1>8

LEMMA CellSpan ==
  ASSUME NEW first, Numbered(first), NEW c \in Area
  PROVE  /\ first[c - 1] \in Nat /\ first[c] \in Nat /\ first[NumCells] \in Nat
         /\ first[c - 1] <= first[c]
         /\ Count(first, c) \in Nat
         /\ first[c - 1] + 1 .. first[c] \subseteq 1 .. first[NumCells]
         /\ first[NumCells] <= MaxParticles
<1> USE Consts
<1>1. \A e \in 0 .. NumCells : first[e] \in Nat /\ first[e] <= MaxParticles
  BY DEF Numbered
<1>2. c \in 0 .. NumCells /\ c - 1 \in 0 .. NumCells /\ NumCells \in 0 .. NumCells
      /\ (c = NumCells \/ c < NumCells)
  BY DEF Area
<1>3. first[c - 1] <= first[c]
  BY DEF Numbered
<1>4. first[c] <= first[NumCells]
  BY <1>1, <1>2, FirstGrows
<1> QED
  BY <1>1, <1>2, <1>3, <1>4 DEF Count

(* How many frames n particles need.                                        *)
LEMMA FramesOfFacts ==
  ASSUME NEW n \in Nat \ {0}
  PROVE  /\ FramesOf(n) \in 1 .. n
         /\ n <= FramesOf(n) * TileSize
         /\ (FramesOf(n) - 1) * TileSize < n
         /\ n - (FramesOf(n) - 1) * TileSize \in 1 .. TileSize
<1> DEFINE F == FramesOf(n)
<1> DEFINE T == TileSize
<1>0. T \in Nat \ {0}
  BY Consts
<1>1. PICK a \in Int : a = n + T - 1
  BY <1>0
<1>2. /\ a \div T \in Int /\ a % T \in 0 .. T - 1 /\ a = (a \div T) * T + (a % T)
  BY <1>0, DivMod
<1>3. F = a \div T
  BY <1>1 DEF FramesOf
<1> HIDE DEF F, T
<1>4. PICK r \in 0 .. T - 1 : a = F * T + r
  BY <1>2, <1>3
<1>5. F \in Int /\ F * T \in Int
  BY <1>0, <1>2, <1>3
<1>6. (F - 1) * T = F * T - T
  BY <1>0, <1>5
<1>7. n <= F * T /\ (F - 1) * T < n /\ n - (F - 1) * T \in 1 .. T
  BY <1>0, <1>1, <1>4, <1>5, <1>6
<1>8. F >= 1
  <2> SUFFICES ASSUME F <= 0 PROVE FALSE
    BY <1>5
  <2>1. F * T <= 0 * T
    BY <1>0, <1>5, MulMono
  <2> QED
    BY <1>0, <1>5, <1>7, <2>1
<1>9. F <= n
  <2>1. 1 * (F - 1) <= T * (F - 1)
    BY <1>0, <1>5, <1>8, MulMono
  <2>2. T * (F - 1) = (F - 1) * T /\ 1 * (F - 1) = F - 1
    BY <1>0, <1>5
  <2>3. PICK z \in Int : z = (F - 1) * T
    BY <1>5, <1>6, <1>0
  <2>4. F - 1 <= z /\ z < n
    BY <1>7, <2>1, <2>2, <2>3
  <2> QED
    BY <1>5, <2>3, <2>4
<1> QED
  BY <1>5, <1>7, <1>8, <1>9 DEF F, T

LEMMA FramesOfNone == FramesOf(0) = 0
<1>1. TileSize \in Nat \ {0} /\ TileSize - 1 \in 0 .. TileSize - 1
  BY Consts
<1>2. PICK t \in 0 .. TileSize - 1 : t = TileSize - 1
  BY <1>1
<1>3. PICK z \in Int : z = 0
  OBVIOUS
<1>4. (z * TileSize + t) \div TileSize = z
  BY <1>1, DivUnique
<1>5. z * TileSize + t = 0 + TileSize - 1
  BY <1>1, <1>2, <1>3
<1> QED
  BY <1>3, <1>4, <1>5 DEF FramesOf

(* A supercell with a frame has a particle.                                 *)
LEMMA CellWithFrame ==
  ASSUME NEW first, Numbered(first), NEW c \in Area, NEW k \in 1 .. FramesOf(Count(first, c))
  PROVE  Count(first, c) \in Nat \ {0}
<1>1. Count(first, c) \in Nat
  BY CellSpan
<1>2. Count(first, c) # 0
  BY FramesOfNone
<1> QED
  BY <1>1, <1>2

(* The slots of the k-th frame of a supercell.                              *)
LEMMA StartSlots ==
  ASSUME NEW first, Numbered(first), NEW c \in Area, NEW k \in 1 .. FramesOf(Count(first, c)),
         NEW mask, NEW s \in Slots
  PROVE  /\ CellOf(first, first[c - 1] + k) = c
         /\ first[c - 1] + k \in first[c - 1] + 1 .. first[c]
         /\ first[c - 1] + k \in Frames
         /\ NumberAt(first, c, k, s) \in Nat
         /\ NumberAt(first, c, k, s) > first[c - 1]
         /\ NumberAt(first, c, k, s) <= first[c] <=> (k - 1) * TileSize + s < Count(first, c)
         /\ FilledFrame(first, mask, first[c - 1] + k)[s] =
              IF NumberAt(first, c, k, s) <= first[c]
              THEN [id |-> NumberAt(first, c, k, s), mask |-> mask[NumberAt(first, c, k, s)]]
              ELSE NoParticle
<1> USE Consts
<1>1. /\ first[c - 1] \in Nat /\ first[c] \in Nat /\ first[NumCells] \in Nat
      /\ Count(first, c) \in Nat \ {0}
      /\ first[c - 1] + 1 .. first[c] \subseteq 1 .. first[NumCells]
      /\ first[NumCells] <= MaxParticles
  BY CellSpan, CellWithFrame
<1>2. FramesOf(Count(first, c)) \in 1 .. Count(first, c)
  BY <1>1, FramesOfFacts
<1>3. PICK f : f = first[c - 1] + k
  OBVIOUS
<1>4. f \in first[c - 1] + 1 .. first[c] /\ k \in Nat /\ f - first[c - 1] - 1 = k - 1 /\ k >= 1
  BY <1>1, <1>2, <1>3 DEF Count
<1>5. f \in Frames
  <2>1. f \in 1 .. HeapSize
    BY <1>1, <1>4
  <2> QED
    BY <2>1 DEF Frames
<1>6. CellOf(first, f) = c
  BY <1>4, CellOfIs
<1>7. PICK z \in Nat : z = (k - 1) * TileSize
  <2>1. 0 * TileSize <= (k - 1) * TileSize
    BY <1>4, MulMono
  <2>2. (k - 1) * TileSize \in Int /\ 0 * TileSize = 0
    BY <1>4
  <2> QED
    BY <2>1, <2>2
<1>8. s \in Nat
  BY DEF Slots
<1>9. PICK p : p = NumberAt(first, c, k, s)
  OBVIOUS
<1>10. p = first[c - 1] + z + s + 1
  BY <1>7, <1>9 DEF NumberAt
<1>11. p \in Nat /\ p > first[c - 1] /\ (p <= first[c] <=> z + s < Count(first, c))
  BY <1>1, <1>8, <1>10 DEF Count
<1>12. FilledFrame(first, mask, f)[s] = IF p <= first[c] THEN [id |-> p, mask |-> mask[p]] ELSE NoParticle
  <2>1. first[c - 1] + (f - first[c - 1] - 1) * TileSize + s + 1 = p
    BY <1>4, <1>7, <1>10
  <2> QED
    BY <1>6, <2>1 DEF FilledFrame
<1> QED
  BY <1>3, <1>4, <1>5, <1>6, <1>7, <1>9, <1>11, <1>12

(* All frames but the last are full.                                        *)
LEMMA StartShapes ==
  ASSUME NEW first, Numbered(first), NEW c \in Area, NEW k \in 1 .. FramesOf(Count(first, c)),
         NEW s \in Slots
  PROVE  /\ k < FramesOf(Count(first, c)) => NumberAt(first, c, k, s) <= first[c]
         /\ k = FramesOf(Count(first, c)) =>
              (NumberAt(first, c, k, s) <= first[c] <=>
                 s < Count(first, c) - (FramesOf(Count(first, c)) - 1) * TileSize)
<1> USE Consts
<1>1. PICK n \in Nat \ {0} : n = Count(first, c)
  BY CellWithFrame
<1>2. PICK F \in Int : F = FramesOf(n) /\ (F - 1) * TileSize < n /\ F >= 1
  <2>1. /\ FramesOf(n) \in 1 .. n /\ n <= FramesOf(n) * TileSize
        /\ (FramesOf(n) - 1) * TileSize < n
    BY FramesOfFacts
  <2>2. FramesOf(n) \in Int /\ FramesOf(n) >= 1
    BY <2>1
  <2> QED
    BY <2>1, <2>2
<1>3. NumberAt(first, c, k, s) <= first[c] <=> (k - 1) * TileSize + s < n
  BY <1>1, StartSlots
<1>4. s \in Int /\ 0 <= s /\ s <= TileSize - 1 /\ k \in Int /\ k <= F
  BY <1>1, <1>2 DEF Slots
<1>5. PICK z \in Int : z = (k - 1) * TileSize
  BY <1>4
<1>6. PICK y \in Int : y = (F - 1) * TileSize
  BY <1>2
<1>7. ASSUME k < F PROVE z + s < n
  <2>1. k * TileSize <= (F - 1) * TileSize
    BY <1>2, <1>4, <1>7, MulMono
  <2>2. k * TileSize = z + TileSize
    BY <1>4, <1>5
  <2> QED
    BY <1>2, <1>4, <1>6, <2>1, <2>2
<1>8. ASSUME k = F PROVE z + s < n <=> s < n - y
  <2>1. z = y
    BY <1>5, <1>6, <1>8
  <2> QED
    BY <1>1, <1>4, <2>1
<1> QED
  BY <1>1, <1>2, <1>3, <1>5, <1>6, <1>7, <1>8

(* No two slots get the same number, and every number has a slot.           *)
LEMMA StartNumbers ==
  ASSUME NEW first, Numbered(first), NEW c \in Area, Count(first, c) # 0
  PROVE  /\ \A j, k \in 1 .. FramesOf(Count(first, c)) : \A s, t \in Slots :
              NumberAt(first, c, j, s) = NumberAt(first, c, k, t) => j = k /\ s = t
         /\ \A p \in first[c - 1] + 1 .. first[c] :
              \E k \in 1 .. FramesOf(Count(first, c)) : \E s \in Slots : NumberAt(first, c, k, s) = p
<1> USE Consts
<1>1. PICK n \in Nat \ {0} : n = Count(first, c)
  BY CellSpan
<1>2. PICK F \in Int : F = FramesOf(n) /\ n <= F * TileSize /\ F >= 1
  <2>1. /\ FramesOf(n) \in 1 .. n /\ n <= FramesOf(n) * TileSize
        /\ (FramesOf(n) - 1) * TileSize < n
    BY FramesOfFacts
  <2>2. FramesOf(n) \in Int /\ FramesOf(n) >= 1
    BY <2>1
  <2> QED
    BY <2>1, <2>2
<1>3. PICK a \in Nat : a = first[c - 1] /\ first[c] = a + n
  BY <1>1, CellSpan DEF Count
<1>4. ASSUME NEW j \in 1 .. F, NEW k \in 1 .. F, NEW s \in Slots, NEW t \in Slots,
             NumberAt(first, c, j, s) = NumberAt(first, c, k, t)
      PROVE  j = k /\ s = t
  <2>1. PICK x \in Int, y \in Int : x = j - 1 /\ y = k - 1
    OBVIOUS
  <2>2. s \in Int /\ 0 <= s /\ s < TileSize /\ t \in Int /\ 0 <= t /\ t < TileSize
    BY DEF Slots
  <2>3. PICK u \in Int, v \in Int : u = x * TileSize /\ v = y * TileSize
    OBVIOUS
  <2>4. a + u + s + 1 = a + v + t + 1
    BY <1>3, <1>4, <2>1, <2>3 DEF NumberAt
  <2>5. u + s = v + t
    BY <2>2, <2>4
  <2>6. x * TileSize + s = y * TileSize + t
    BY <2>3, <2>5
  <2>7. (x * TileSize + s) \div TileSize = x /\ (x * TileSize + s) % TileSize = s
    BY <2>2, DivUnique
  <2>8. (y * TileSize + t) \div TileSize = y /\ (y * TileSize + t) % TileSize = t
    BY <2>2, DivUnique
  <2>9. x = y /\ s = t
    BY <2>6, <2>7, <2>8
  <2> QED
    BY <2>1, <2>9
<1>5. ASSUME NEW p \in a + 1 .. a + n
      PROVE  \E k \in 1 .. F : \E s \in Slots : NumberAt(first, c, k, s) = p
  <2>1. PICK m \in Int : m = p - a - 1 /\ 0 <= m /\ m < n
    OBVIOUS
  <2>2. PICK q \in Int, s \in 0 .. TileSize - 1 : m = q * TileSize + s
    <3>1. m \div TileSize \in Int /\ m % TileSize \in 0 .. TileSize - 1
          /\ m = (m \div TileSize) * TileSize + (m % TileSize)
      BY DivMod
    <3> QED
      BY <3>1
  <2>3. PICK z \in Int : z = q * TileSize
    OBVIOUS
  <2>4. q >= 0
    <3> SUFFICES ASSUME q <= -1 PROVE FALSE
      OBVIOUS
    <3>1. q * TileSize <= (-1) * TileSize
      BY MulMono
    <3>2. (-1) * TileSize = -TileSize
      OBVIOUS
    <3> QED
      BY <2>1, <2>2, <2>3, <3>1, <3>2
  <2>5. q < F
    <3> SUFFICES ASSUME F <= q PROVE FALSE
      OBVIOUS
    <3>1. F * TileSize <= q * TileSize
      BY MulMono
    <3>2. PICK y \in Int : y = F * TileSize
      OBVIOUS
    <3> QED
      BY <1>2, <2>1, <2>2, <2>3, <3>1, <3>2
  <2>6. q + 1 \in 1 .. F /\ s \in Slots /\ (q + 1) - 1 = q
    BY <2>4, <2>5 DEF Slots
  <2>7. a + z + s + 1 = p
    BY <2>1, <2>2, <2>3
  <2>8. NumberAt(first, c, q + 1, s) = p
    BY <1>3, <2>3, <2>6, <2>7 DEF NumberAt
  <2> QED
    BY <2>6, <2>8
<1> QED
  BY <1>1, <1>2, <1>3, <1>4, <1>5

LEMMA InitInv ==
  ASSUME Init
  PROVE  Inv
<1> USE Consts
<1>0. /\ offset = 0 /\ kernel = "shift" /\ pc = [c \in Cells |-> "start"]
      /\ local = [c \in Cells |-> NoLocal]
      /\ lost = {} /\ vacant = {c \in Area : list[c] = <<>>} /\ spoiled = {}
  BY DEF Init
<1>1. PICK first \in [0 .. NumCells -> 0 .. MaxParticles] :
        /\ first[0] = 0
        /\ \A c \in Area : first[c] - first[c - 1] \in PerCell[c]
        /\ \E mask \in [1 .. first[NumCells] -> {1, 2, 3}] :
            LET frames(c) == FramesOf(first[c] - first[c - 1]) IN
            /\ list = [c \in Cells |->
                 IF c \in Area THEN [k \in 1 .. frames(c) |-> first[c - 1] + k] ELSE <<>>]
            /\ used = Held
            /\ frame = [f \in Frames |->
                 IF f \in used THEN FilledFrame(first, mask, f) ELSE EmptyFrame]
            /\ size = [c \in Cells |->
                 IF c \in Area /\ frames(c) > 0
                 THEN first[c] - first[c - 1] - (frames(c) - 1) * TileSize ELSE 0]
            /\ mustShift = [c \in Cells |->
                 c \in Area /\ \E p \in first[c - 1] + 1 .. first[c] : mask[p] >= 2]
            /\ goal = [p \in DOMAIN mask |-> Aim(CellOf(first, p), mask[p])]
  BY DEF Init
<1> DEFINE frames(c) == FramesOf(Count(first, c))
<1>2. PICK mask \in [1 .. first[NumCells] -> {1, 2, 3}] :
            /\ list = [c \in Cells |->
                 IF c \in Area THEN [k \in 1 .. frames(c) |-> first[c - 1] + k] ELSE <<>>]
            /\ used = Held
            /\ frame = [f \in Frames |->
                 IF f \in used THEN FilledFrame(first, mask, f) ELSE EmptyFrame]
            /\ size = [c \in Cells |->
                 IF c \in Area /\ frames(c) > 0
                 THEN Count(first, c) - (frames(c) - 1) * TileSize ELSE 0]
            /\ mustShift = [c \in Cells |->
                 c \in Area /\ \E p \in first[c - 1] + 1 .. first[c] : mask[p] >= 2]
            /\ goal = [p \in DOMAIN mask |-> Aim(CellOf(first, p), mask[p])]
  BY <1>1 DEF Count
<1>3. Numbered(first)
  <2> SUFFICES ASSUME NEW c \in Area PROVE first[c - 1] <= first[c]
    BY <1>1 DEF Numbered
  <2>1. c \in 0 .. NumCells /\ c - 1 \in 0 .. NumCells
    BY DEF Area
  <2>2. first[c - 1] \in Nat /\ first[c] \in Nat
    BY <2>1
  <2>3. PerCell[c] \in SUBSET Nat
    BY ShiftAssumption DEF Area
  <2>4. first[c] - first[c - 1] \in Nat
    BY <1>1, <2>3
  <2> QED
    BY <2>2, <2>4
<1>4. \A c \in Area :
        /\ first[c - 1] \in Nat /\ first[c] \in Nat /\ first[NumCells] \in Nat
        /\ Count(first, c) \in Nat
        /\ Count(first, c) = 0 => first[c - 1] = first[c]
        /\ first[c - 1] + 1 .. first[c] \subseteq 1 .. first[NumCells]
        /\ first[NumCells] <= MaxParticles
  <2>1. \A c \in Area : /\ first[c - 1] \in Nat /\ first[c] \in Nat /\ first[NumCells] \in Nat
                        /\ Count(first, c) \in Nat
                        /\ first[c - 1] + 1 .. first[c] \subseteq 1 .. first[NumCells]
                        /\ first[NumCells] <= MaxParticles
    BY <1>3, CellSpan
  <2>2. \A c \in Area : Count(first, c) = 0 => first[c - 1] = first[c]
    BY <2>1 DEF Count
  <2> QED
    BY <2>1, <2>2
<1>5. \A c \in Area : /\ frames(c) \in Nat
                      /\ frames(c) > 0 <=> Count(first, c) # 0
                      /\ frames(c) > 0 => Count(first, c) - (frames(c) - 1) * TileSize \in 0 .. TileSize
  <2> SUFFICES ASSUME NEW c \in Area
               PROVE  /\ frames(c) \in Nat
                      /\ frames(c) > 0 <=> Count(first, c) # 0
                      /\ frames(c) > 0 => Count(first, c) - (frames(c) - 1) * TileSize \in 0 .. TileSize
    OBVIOUS
  <2>1. CASE Count(first, c) = 0
    BY <2>1, FramesOfNone
  <2>2. CASE Count(first, c) # 0
    <3>1. PICK n \in Nat \ {0} : n = Count(first, c)
      BY <1>4, <2>2
    <3>2. FramesOf(n) \in 1 .. n /\ n - (FramesOf(n) - 1) * TileSize \in 1 .. TileSize
      BY FramesOfFacts
    <3>3. FramesOf(n) \in Nat /\ FramesOf(n) > 0
      BY <3>2
    <3>4. \A a \in 1 .. TileSize : a \in 0 .. TileSize
      OBVIOUS
    <3> QED
      BY <2>2, <3>1, <3>2, <3>3, <3>4
  <2> QED
    BY <2>1, <2>2
<1> HIDE DEF frames
<1>6. /\ \A c \in Area : list[c] = [k \in 1 .. frames(c) |-> first[c - 1] + k]
      /\ \A c \in Cells : c \notin Area => list[c] = <<>>
      /\ \A c \in Area : frames(c) > 0 => size[c] = Count(first, c) - (frames(c) - 1) * TileSize
      /\ \A c \in Area : ~(frames(c) > 0) => size[c] = 0
      /\ \A c \in Cells : c \notin Area => size[c] = 0
  BY <1>2, <1>5
<1>7. \A c \in Area : \A k \in 1 .. frames(c) : first[c - 1] + k \in Frames
  <2> SUFFICES ASSUME NEW c \in Area, NEW k \in 1 .. frames(c) PROVE first[c - 1] + k \in Frames
    OBVIOUS
  <2>1. PICK s : s \in Slots
    <3>1. 0 \in Slots
      BY DEF Slots
    <3> QED
      BY <3>1
  <2> QED
    BY <1>3, <2>1, StartSlots DEF frames
<1>8. \A c \in Area : /\ list[c] \in Seq(Frames) /\ Len(list[c]) = frames(c)
                      /\ DOMAIN list[c] = 1 .. frames(c)
                      /\ \A k \in 1 .. frames(c) : list[c][k] = first[c - 1] + k
                      /\ list[c] # <<>> <=> frames(c) > 0
  <2> SUFFICES ASSUME NEW c \in Area
               PROVE  /\ list[c] \in Seq(Frames) /\ Len(list[c]) = frames(c)
                      /\ DOMAIN list[c] = 1 .. frames(c)
                      /\ \A k \in 1 .. frames(c) : list[c][k] = first[c - 1] + k
                      /\ list[c] # <<>> <=> frames(c) > 0
    OBVIOUS
  <2>1. list[c] = [k \in 1 .. frames(c) |-> first[c - 1] + k] /\ frames(c) \in Nat
    BY <1>5, <1>6
  <2>2. list[c] \in [1 .. frames(c) -> Frames]
    BY <1>7, <2>1
  <2>3. PICK n \in Nat : n = frames(c)
    BY <2>1
  <2>4. list[c] \in Seq(Frames) /\ Len(list[c]) = frames(c)
    <3>1. list[c] \in [1 .. n -> Frames]
      BY <2>2, <2>3
    <3>2. list[c] \in Seq(Frames) /\ Len(list[c]) = n
      BY <3>1, ListOf
    <3> QED
      BY <2>3, <3>2
  <2>5. list[c] # <<>> <=> frames(c) > 0
    <3>1. list[c] = <<>> => Len(list[c]) = 0
      OBVIOUS
    <3>2. Len(list[c]) = 0 => list[c] = <<>>
      BY <2>4, EmptySeq
    <3> QED
      BY <2>1, <2>4, <3>1, <3>2
  <2> QED
    BY <2>1, <2>2, <2>4, <2>5
<1>9. \A c \in Cells : list[c] \in Seq(Frames) /\ DOMAIN list[c] = 1 .. Len(list[c])
  <2> SUFFICES ASSUME NEW c \in Cells PROVE list[c] \in Seq(Frames)
    BY ElemsFacts
  <2>1. CASE c \in Area
    BY <1>8, <2>1
  <2>2. CASE c \notin Area
    <3>1. <<>> \in Seq(Frames) /\ list[c] = <<>>
      BY <1>6, <2>2
    <3> QED
      BY <3>1
  <2> QED
    BY <2>1, <2>2
<1>10. /\ \A c \in Area : \A f \in Elems(list[c]) : \E k \in 1 .. frames(c) : f = list[c][k]
       /\ \A c \in Area : \A k \in 1 .. frames(c) : list[c][k] \in Elems(list[c])
       /\ \A c \in Cells : c \notin Area => Elems(list[c]) = {}
  <2>1. ASSUME NEW c \in Area
        PROVE  /\ \A f \in Elems(list[c]) : \E k \in 1 .. frames(c) : f = list[c][k]
               /\ \A k \in 1 .. frames(c) : list[c][k] \in Elems(list[c])
    <3>1. DOMAIN list[c] = 1 .. frames(c)
      BY <1>8
    <3> QED
      BY <3>1, Zenon DEF Elems
  <2>2. ASSUME NEW c \in Cells, c \notin Area PROVE Elems(list[c]) = {}
    <3>1. list[c] \in Seq(Frames) /\ list[c] = <<>>
      BY <1>6, <1>9, <2>2
    <3> QED
      BY <3>1, ElemsFacts
  <2> QED
    BY <2>1, <2>2
<1>11. \A f : f \in used <=> \E c \in Cells : f \in Elems(list[c])
  <2>1. used = Held
    BY <1>2
  <2> QED
    BY <2>1, HeldIs
<1>12. \A f \in used : f \in Frames /\ \E c \in Area : \E k \in 1 .. frames(c) : f = list[c][k]
  <2> SUFFICES ASSUME NEW f \in used
               PROVE  f \in Frames /\ \E c \in Area : \E k \in 1 .. frames(c) : f = list[c][k]
    OBVIOUS
  <2>1. PICK c \in Cells : f \in Elems(list[c])
    BY <1>11
  <2>2. c \in Area
    BY <1>10, <2>1
  <2>3. PICK k \in 1 .. frames(c) : f = list[c][k]
    BY <1>10, <2>1, <2>2
  <2>4. f \in Frames
    BY <1>7, <1>8, <2>2, <2>3
  <2> QED
    BY <2>2, <2>3, <2>4
<1>13. ASSUME NEW c \in Area, NEW k \in 1 .. frames(c), NEW s \in Slots
       PROVE  /\ list[c][k] \in Frames /\ list[c][k] \in used
              /\ CellOf(first, list[c][k]) = c
              /\ NumberAt(first, c, k, s) \in Nat
              /\ NumberAt(first, c, k, s) > first[c - 1]
              /\ frame[list[c][k]][s] =
                   IF NumberAt(first, c, k, s) <= first[c]
                   THEN [id |-> NumberAt(first, c, k, s), mask |-> mask[NumberAt(first, c, k, s)]]
                   ELSE NoParticle
  <2>1. PICK f : f = first[c - 1] + k
    OBVIOUS
  <2>2. /\ f \in Frames
        /\ CellOf(first, f) = c
        /\ NumberAt(first, c, k, s) \in Nat
        /\ NumberAt(first, c, k, s) > first[c - 1]
        /\ FilledFrame(first, mask, f)[s] =
              IF NumberAt(first, c, k, s) <= first[c]
              THEN [id |-> NumberAt(first, c, k, s), mask |-> mask[NumberAt(first, c, k, s)]]
              ELSE NoParticle
    <3>1. k \in 1 .. FramesOf(Count(first, c))
      BY DEF frames
    <3>2. /\ first[c - 1] + k \in Frames
          /\ CellOf(first, first[c - 1] + k) = c
          /\ NumberAt(first, c, k, s) \in Nat
          /\ NumberAt(first, c, k, s) > first[c - 1]
          /\ FilledFrame(first, mask, first[c - 1] + k)[s] =
                IF NumberAt(first, c, k, s) <= first[c]
                THEN [id |-> NumberAt(first, c, k, s), mask |-> mask[NumberAt(first, c, k, s)]]
                ELSE NoParticle
      BY <1>3, <3>1, StartSlots
    <3> QED
      BY <2>1, <3>2, Zenon
  <2>3. f = list[c][k]
    BY <1>8, <2>1
  <2>4. f \in used
    <3>1. c \in Cells /\ list[c][k] \in Elems(list[c])
      BY <1>10
    <3> QED
      BY <1>11, <2>3, <3>1
  <2>5. frame[f] = FilledFrame(first, mask, f)
    BY <1>2, <2>2, <2>4
  <2> QED
    BY <2>2, <2>3, <2>4, <2>5
<1>14. ASSUME NEW c \in Area, NEW p \in first[c - 1] + 1 .. first[c]
       PROVE  /\ p \in 1 .. first[NumCells] /\ p \in 0 .. MaxParticles
              /\ mask[p] \in {1, 2, 3} /\ p \in DOMAIN goal
              /\ goal[p] = Aim(c, mask[p])
              /\ \A d \in Area : p \in first[d - 1] + 1 .. first[d] => d = c
  <2>1. p \in 1 .. first[NumCells] /\ first[NumCells] <= MaxParticles /\ first[NumCells] \in Nat
    BY <1>4
  <2>2. p \in 0 .. MaxParticles
    BY <2>1
  <2>3. CellOf(first, p) = c /\ \A d \in Area : p \in first[d - 1] + 1 .. first[d] => d = c
    BY <1>3, CellOfIs
  <2>4. DOMAIN mask = 1 .. first[NumCells] /\ mask[p] \in {1, 2, 3}
    BY <2>1
  <2> QED
    BY <1>2, <2>1, <2>2, <2>3, <2>4
(* What is in a slot.                                                       *)
<1> DEFINE Content(c, k, s) ==
      frame[list[c][k]][s].mask # 0 =>
        /\ frame[list[c][k]][s].id = NumberAt(first, c, k, s)
        /\ NumberAt(first, c, k, s) \in first[c - 1] + 1 .. first[c]
        /\ frame[list[c][k]][s].mask = mask[NumberAt(first, c, k, s)]
<1>15. ASSUME NEW c \in Area, NEW k \in 1 .. frames(c), NEW s \in Slots
       PROVE  /\ frame[list[c][k]][s].mask # 0 <=> NumberAt(first, c, k, s) <= first[c]
              /\ Content(c, k, s)
              /\ frame[list[c][k]][s] \in Slot
  <2>0. PICK p, m : p = NumberAt(first, c, k, s) /\ m = frame[list[c][k]][s]
    OBVIOUS
  <2>1. /\ p \in Nat /\ p > first[c - 1] /\ first[c - 1] \in Nat /\ first[c] \in Nat
        /\ m = IF p <= first[c] THEN [id |-> p, mask |-> mask[p]] ELSE NoParticle
    BY <1>4, <1>13, <2>0
  <2>2. CASE p <= first[c]
    <3>1. p \in first[c - 1] + 1 .. first[c]
      BY <2>1, <2>2
    <3>2. mask[p] \in {1, 2, 3} /\ p \in 0 .. MaxParticles
      BY <1>14, <3>1
    <3>3. m = [id |-> p, mask |-> mask[p]]
      BY <2>1, <2>2
    <3>4. m.id = p /\ m.mask = mask[p]
      BY <3>3
    <3>5. mask[p] \in 0 .. 3 /\ mask[p] # 0
      BY <3>2
    <3>6. m \in Slot
      BY <3>2, <3>3, <3>5 DEF Slot
    <3> QED
      BY <2>0, <2>2, <3>1, <3>4, <3>5, <3>6
  <2>3. CASE ~(p <= first[c])
    <3>1. m = NoParticle
      BY <2>1, <2>3
    <3>2. m.mask = 0 /\ m \in Slot
      BY <3>1 DEF NoParticle, Slot
    <3> QED
      BY <2>0, <2>3, <3>2
  <2> QED
    BY <2>2, <2>3
<1> HIDE DEF Content
<1>16. ASSUME NEW f \in Frames, f \notin used, NEW s \in Slots PROVE frame[f][s] = NoParticle
  BY <1>2, <1>16 DEF EmptyFrame
<1>18. \A c \in Cells : local[c] = NoLocal /\ pc[c] = "start" /\ ~Shifting(c)
  BY <1>0 DEF Shifting
<1>19. \A b \in Cells, d \in Directions : ~Private(b, d)
  BY <1>18, NoPrivate
<1>20. Types
  <2>0. used \subseteq Frames /\ lost \subseteq Frames /\ vacant \subseteq Area /\ spoiled \subseteq vacant
    BY <1>0, <1>12
  <2>1. \A f \in Frames : \A s \in Slots : frame[f][s] \in Slot
    <3> SUFFICES ASSUME NEW f \in Frames, NEW s \in Slots PROVE frame[f][s] \in Slot
      OBVIOUS
    <3>1. CASE f \in used
      <4>1. PICK c \in Area : \E k \in 1 .. frames(c) : f = list[c][k]
        BY <1>12, <3>1
      <4> QED
        BY <1>15, <4>1
    <3>2. CASE f \notin used
      BY <1>16, <3>2 DEF NoParticle, Slot
    <3> QED
      BY <3>1, <3>2
  <2>2. \A f \in Frames : frame[f] = [s \in Slots |-> frame[f][s]]
    BY <1>2 DEF FilledFrame, EmptyFrame
  <2>3. frame = [f \in Frames |-> frame[f]]
    BY <1>2
  <2>4. \A f \in Frames : frame[f] \in [Slots -> Slot]
    BY <2>1, <2>2
  <2>5. frame \in [Frames -> [Slots -> Slot]]
    BY <2>3, <2>4
  <2>6. list = [c \in Cells |-> list[c]] /\ size = [c \in Cells |-> size[c]]
    BY <1>2
  <2>7. \A c \in Cells : size[c] \in 0 .. TileSize
    BY <1>5, <1>6
  <2>8. list \in [Cells -> Seq(Frames)] /\ size \in [Cells -> 0 .. TileSize]
    BY <1>9, <2>6, <2>7
  <2>9. mustShift \in [Cells -> BOOLEAN]
    BY <1>2
  <2>10. NoLocal \in Locals
    <3>1. 0 \in 0 .. TileSize
      OBVIOUS
    <3> QED
      BY <3>1 DEF NoLocal, Locals
  <2>11. local \in [Cells -> Locals] /\ pc \in [Cells -> {"start", "loop", "end", "done"}]
    BY <1>0, <2>10
  <2>12. offset \in 0 .. Stride - 1
    BY <1>0
  <2> QED
    BY <1>0, <2>0, <2>5, <2>8, <2>9, <2>11, <2>12 DEF Types
<1>21. HeapOK
  <2>1. ASSUME NEW c \in Cells PROVE Distinct(list[c])
    <3>1. CASE c \in Area
      <4>0. PICK a \in Nat : a = first[c - 1]
        BY <1>4, <3>1
      <4>1. \A j, k \in 1 .. frames(c) : a + j = a + k => j = k
        BY <1>5, <3>1
      <4>2. DOMAIN list[c] = 1 .. frames(c) /\ \A k \in 1 .. frames(c) : list[c][k] = a + k
        BY <1>8, <3>1, <4>0
      <4> QED
        BY <4>1, <4>2 DEF Distinct
    <3>2. CASE c \notin Area
      BY <1>6, <3>2 DEF Distinct
    <3> QED
      BY <3>1, <3>2
  <2>2. ASSUME NEW c \in Cells, NEW d \in Cells, NEW f, f \in Elems(list[c]), f \in Elems(list[d])
        PROVE  c = d
    <3>1. c \in Area /\ d \in Area
      BY <1>10, <2>2
    <3>2. PICK j \in 1 .. frames(c) : f = list[c][j]
      BY <1>10, <2>2, <3>1
    <3>3. PICK k \in 1 .. frames(d) : f = list[d][k]
      BY <1>10, <2>2, <3>1
    <3>4. 0 \in Slots
      BY DEF Slots
    <3>5. CellOf(first, f) = c /\ CellOf(first, f) = d
      BY <1>13, <3>1, <3>2, <3>3, <3>4
    <3> QED
      BY <3>5
  <2>3. \A f \in Frames \ used : \A s \in Slots : frame[f][s].mask = 0
    BY <1>16 DEF NoParticle
  <2>4. \A c, d \in Cells : c # d => Elems(list[c]) \cap Elems(list[d]) = {}
    BY <2>2
  <2> QED
    BY <1>0, <1>11, <1>19, <2>1, <2>3, <2>4 DEF HeapOK
<1>22. ASSUME NEW f \in Frames, NEW s \in Slots, frame[f][s].mask # 0
       PROVE  \E c \in Area : \E k \in 1 .. frames(c) :
                /\ f = list[c][k]
                /\ frame[f][s].id = NumberAt(first, c, k, s)
                /\ frame[f][s].id \in first[c - 1] + 1 .. first[c]
  <2>1. f \in used
    BY <1>16, <1>22 DEF NoParticle
  <2>2. PICK c \in Area : \E k \in 1 .. frames(c) : f = list[c][k]
    BY <1>12, <2>1
  <2>3. PICK k \in 1 .. frames(c) : f = list[c][k]
    BY <2>2
  <2>4. /\ frame[f][s].id = NumberAt(first, c, k, s)
        /\ frame[f][s].id \in first[c - 1] + 1 .. first[c]
    <3>1. frame[list[c][k]][s].mask # 0
      BY <1>22, <2>3
    <3>2. Content(c, k, s)
      BY <1>15
    <3>3. /\ frame[list[c][k]][s].id = NumberAt(first, c, k, s)
          /\ NumberAt(first, c, k, s) \in first[c - 1] + 1 .. first[c]
      BY <3>1, <3>2, Zenon DEF Content
    <3> QED
      BY <2>3, <3>3
  <2> QED
    BY <2>3, <2>4
<1>23. ParticlesOK
  <2>1. ASSUME NEW f \in Frames, NEW g \in Frames, NEW s \in Slots, NEW t \in Slots,
               frame[f][s].mask # 0, frame[g][t].mask # 0, frame[f][s].id = frame[g][t].id
        PROVE  f = g /\ s = t
    <3>1. PICK c \in Area : \E k \in 1 .. frames(c) :
                /\ f = list[c][k]
                /\ frame[f][s].id = NumberAt(first, c, k, s)
                /\ frame[f][s].id \in first[c - 1] + 1 .. first[c]
      BY <1>22, <2>1
    <3>2. PICK d \in Area : \E k \in 1 .. frames(d) :
                /\ g = list[d][k]
                /\ frame[g][t].id = NumberAt(first, d, k, t)
                /\ frame[g][t].id \in first[d - 1] + 1 .. first[d]
      BY <1>22, <2>1
    <3>3. d = c
      BY <1>14, <2>1, <3>1, <3>2
    <3>4. PICK j \in 1 .. frames(c) : f = list[c][j] /\ frame[f][s].id = NumberAt(first, c, j, s)
      BY <3>1
    <3>5. PICK k \in 1 .. frames(c) : g = list[c][k] /\ frame[g][t].id = NumberAt(first, c, k, t)
      BY <3>2, <3>3
    <3>6. NumberAt(first, c, j, s) = NumberAt(first, c, k, t)
      BY <2>1, <3>4, <3>5
    <3>7. j = k /\ s = t
      <4>1. j \in 1 .. FramesOf(Count(first, c)) /\ k \in 1 .. FramesOf(Count(first, c))
        BY DEF frames
      <4>2. Count(first, c) # 0
        BY <1>3, <4>1, CellWithFrame
      <4> QED
        BY <1>3, <3>6, <4>1, <4>2, StartNumbers
    <3> QED
      BY <3>4, <3>5, <3>7
  <2>2. ASSUME NEW f \in Frames, NEW s \in Slots, frame[f][s].mask # 0
        PROVE  frame[f][s].id \in DOMAIN goal
    <3>1. PICK c \in Area : frame[f][s].id \in first[c - 1] + 1 .. first[c]
      BY <1>22, <2>2
    <3> QED
      BY <1>14, <3>1
  <2>3. ASSUME NEW p \in DOMAIN goal PROVE InSlot(frame, p)
    <3>1. p \in 1 .. first[NumCells]
      BY <1>2
    <3>2. PICK c \in Area : p \in first[c - 1] + 1 .. first[c]
      BY <1>3, <3>1, CellExists
    <3>3. PICK k \in 1 .. frames(c) : \E s \in Slots : NumberAt(first, c, k, s) = p
      <4>1. \A q \in first[c - 1] + 1 .. first[c] :
              \E k \in 1 .. FramesOf(Count(first, c)) : \E s \in Slots : NumberAt(first, c, k, s) = q
        <5>1. Count(first, c) # 0
          BY <1>4, <3>2
        <5> QED
          BY <1>3, <5>1, StartNumbers
      <4> QED
        BY <3>2, <4>1, Zenon DEF frames
    <3>4. PICK s \in Slots : NumberAt(first, c, k, s) = p
      BY <3>3
    <3>5. PICK f \in Frames : f = list[c][k]
      BY <1>13, <3>4
    <3>6. p <= first[c]
      BY <1>4, <3>2
    <3>7. (frame[list[c][k]][s].mask # 0 <=> NumberAt(first, c, k, s) <= first[c]) /\ Content(c, k, s)
      BY <1>15
    <3>8. frame[list[c][k]][s].mask # 0
      BY <3>4, <3>6, <3>7
    <3>9. frame[f][s].mask # 0 /\ frame[f][s].id = p
      BY <3>4, <3>5, <3>7, <3>8, Zenon DEF Content
    <3> QED
      BY <3>9 DEF InSlot
  <2>4. OneSlot(frame)
    BY <2>1 DEF OneSlot
  <2> QED
    BY <2>2, <2>3, <2>4 DEF ParticlesOK
<1>24. GoalsOK
  <2>1. ASSUME NEW c \in Area, NEW k \in 1 .. frames(c), NEW s \in Slots, frame[list[c][k]][s].mask # 0
        PROVE  goal[frame[list[c][k]][s].id] = Aim(c, frame[list[c][k]][s].mask)
    <3>1. Content(c, k, s)
      BY <1>15
    <3>2. PICK p \in first[c - 1] + 1 .. first[c] :
            frame[list[c][k]][s].id = p /\ frame[list[c][k]][s].mask = mask[p]
      BY <2>1, <3>1, Zenon DEF Content
    <3>3. goal[p] = Aim(c, mask[p])
      BY <1>14
    <3> QED
      BY <3>2, <3>3, Zenon
  <2>2. ASSUME NEW c \in Cells, NEW f \in Elems(list[c]) PROVE GoalsIn(frame, f, c)
    <3> SUFFICES ASSUME NEW s \in Slots, frame[f][s].mask # 0
                 PROVE  goal[frame[f][s].id] = Aim(c, frame[f][s].mask)
      BY DEF GoalsIn
    <3>1. c \in Area
      BY <1>10
    <3>2. PICK k \in 1 .. frames(c) : f = list[c][k]
      BY <1>10, <3>1
    <3>3. goal[frame[list[c][k]][s].id] = Aim(c, frame[list[c][k]][s].mask)
      BY <2>1, <3>1, <3>2
    <3> QED
      BY <3>2, <3>3
  <2> QED
    BY <1>19, <2>2 DEF GoalsOK
<1>25. ASSUME NEW c \in Cells PROVE LeaversOK(c)
  <2> SUFFICES ASSUME ~Pending(c) \/ ~mustShift[c], NEW f \in Elems(list[c]), NEW s \in Slots
               PROVE  frame[f][s].mask <= 1
    BY DEF LeaversOK, Calm
  <2>1. c \in Area
    BY <1>10
  <2>2. Pending(c)
    <3>1. Rank(c) \in 0 .. Stride - 1
      BY <2>1
    <3>2. Rank(c) > 0 \/ Rank(c) = 0
      BY <3>1
    <3> QED
      BY <1>0, <1>18, <2>1, <3>2 DEF Pending
  <2>3. \A p \in first[c - 1] + 1 .. first[c] : ~(mask[p] >= 2)
    BY <1>2, <2>1, <2>2
  <2>4. PICK k \in 1 .. frames(c) : f = list[c][k]
    BY <1>10, <2>1
  <2>5. Content(c, k, s)
    BY <1>15, <2>1
  <2>6. CASE frame[f][s].mask = 0
    BY <2>6
  <2>7. CASE frame[f][s].mask # 0
    <3>1. PICK p \in first[c - 1] + 1 .. first[c] : frame[f][s].mask = mask[p]
      BY <2>4, <2>5, <2>7, Zenon DEF Content
    <3>2. mask[p] \in {1, 2, 3} /\ ~(mask[p] >= 2)
      BY <1>14, <2>1, <2>3
    <3> QED
      BY <3>1, <3>2
  <2> QED
    BY <2>6, <2>7
<1>26. ASSUME NEW c \in Cells PROVE BlockOK(c)
  BY <1>18 DEF BlockOK
<1>27. ASSUME NEW b \in Area, NEW d \in Directions PROVE DestinationOK(b, d)
  BY <1>18 DEF DestinationOK
<1>28. ASSUME NEW c \in Area PROVE CellOK(c)
  <2>0. ~GapsDone(c)
    BY <1>0 DEF GapsDone
  <2>1. CASE frames(c) > 0
    <3>1. /\ list[c] # <<>> /\ Len(list[c]) = frames(c) /\ frames(c) \in 1 .. frames(c)
          /\ \A k \in 1 .. frames(c) : list[c][k] = first[c - 1] + k
          /\ \A k \in 1 .. frames(c) - 1 : k \in 1 .. frames(c) /\ k < frames(c)
      BY <1>5, <1>8, <2>1, SMTT(30)
    <3>2. ASSUME NEW k \in 1 .. frames(c), NEW s \in Slots
          PROVE  /\ k < frames(c) => frame[list[c][k]][s].mask # 0
                 /\ k = frames(c) => (frame[list[c][k]][s].mask # 0 <=> s < size[c])
      <4>1. frame[list[c][k]][s].mask # 0 <=> NumberAt(first, c, k, s) <= first[c]
        BY <1>15, <3>1
      <4>2. /\ k < frames(c) => NumberAt(first, c, k, s) <= first[c]
            /\ k = frames(c) =>
                (NumberAt(first, c, k, s) <= first[c] <=>
                   s < Count(first, c) - (frames(c) - 1) * TileSize)
        BY <1>3, StartShapes DEF frames
      <4> QED
        BY <1>6, <2>1, <4>1, <4>2
    <3>3. CompactList(frame, list[c], size[c])
      BY <3>1, <3>2 DEF CompactList, ButLastFull, FullFrame, FilledTo
    <3>4. c \notin vacant
      BY <1>0, <3>1
    <3> QED
      BY <2>0, <3>1, <3>3, <3>4 DEF CellOK
  <2>2. CASE ~(frames(c) > 0)
    <3>1. list[c] = <<>> /\ size[c] = 0 /\ Count(first, c) = 0
      BY <1>5, <1>6, <1>8, <2>2
    <3>2. c \in vacant
      BY <1>0, <3>1
    <3>3. \A k \in 1 .. Len(list[c]) : FALSE
      BY <3>1
    <3>4. WrongSize(c)
      BY <3>1, <3>2, <3>3 DEF WrongSize, AllFull
    <3>5. ~mustShift[c]
      <4>1. first[c - 1] = first[c] /\ first[c] \in Nat
        BY <1>4, <3>1
      <4>2. \A p \in first[c - 1] + 1 .. first[c] : FALSE
        BY <4>1
      <4>3. mustShift[c] <=> \E p \in first[c - 1] + 1 .. first[c] : mask[p] >= 2
        BY <1>2
      <4> QED
        BY <4>2, <4>3
    <3> QED
      BY <2>0, <3>1, <3>2, <3>4, <3>5 DEF CellOK
  <2> QED
    BY <2>1, <2>2
<1>29. GuardsOK
  BY <1>0, <1>6 DEF GuardsOK
<1> QED
  BY <1>20, <1>21, <1>23, <1>24, <1>25, <1>26, <1>27, <1>28, <1>29 DEF Inv

-----------------------------------------------------------------------------
(* The theorems.                                                            *)

(* The inductive invariant: it holds when the kernels are started, and each *)
(* of them keeps it, whatever blocks run in between.                        *)
THEOREM InvariantHolds == Spec => []Inv
<1>1. Init => Inv
  BY InitInv
<1>2. Inv /\ [Next]_vars => Inv'
  BY StepInv, ShiftAssumption
<1> QED
  BY <1>1, <1>2, PTL DEF Spec

(* Shared memory, frames and supercells are what the kernels take them for: *)
(* no counter of a destination frame passes the size of a frame.            *)
THEOREM ShiftTypes == Spec => []TypeOK
<1>1. Inv => TypeOK
  BY DEF Inv, Types, TypeOK, Slot, Locals
<1> QED
  BY <1>1, InvariantHolds, PTL

(* Between the kernels of shiftParticles, each frame that getEmptyFrame     *)
(* returned and nobody removed is in the list of one supercell, once: the   *)
(* blocks that hang frames in at the front or at the end, and those that    *)
(* remove the last one, neither leak a frame nor share it.  The only frames *)
(* that are lost are those getEmptyFrame allocated and did not return, and  *)
(* they are in no list.                                                     *)
THEOREM HeapIsExact == Spec => []HeapExact
<1>1. Inv => HeapExact
  BY InvHeapExact
<1> QED
  BY <1>1, InvariantHolds, PTL

(* KernelShiftParticles, KernelFillGaps and KernelFillGapsLastFrame copy    *)
(* particles without doubling one, in whatever order the threads of a block *)
(* get their places.  They lose or overwrite those only that move to a      *)
(* supercell which had no frame, was given a full one without its size, and *)
(* was then the destination of a block.                                     *)
THEOREM ParticlesAreKept == Spec => []ParticlesKept
<1>1. Inv => ParticlesKept
  BY InvParticlesKept
<1> QED
  BY <1>1, InvariantHolds, PTL

(* After shiftParticles and the deletion of the open guards every particle  *)
(* is in the supercell its mask named, and those that left are gone; one    *)
(* that moved to a spoiled supercell may be gone, but is nowhere else.      *)
THEOREM ParticlesArrive == Spec => []Arrived
<1>1. Inv => Arrived
  BY InvArrived
<1> QED
  BY <1>1, InvariantHolds, PTL

(* shiftParticles ends with the form of lists it started from: KernelFill-  *)
(* Gaps has filled all frames but the last, and KernelFillGapsLastFrame has *)
(* moved the particles of that one to the front and counted them.  A wrong  *)
(* size is left only to a supercell that had no frame, and its frames are   *)
(* all full.                                                                *)
THEOREM ListsAreCompact == Spec => []Compact
<1>1. Inv => Compact
  BY InvCompact
<1> QED
  BY <1>1, InvariantHolds, PTL
=============================================================================
