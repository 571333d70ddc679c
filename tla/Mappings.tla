------------------------------ MODULE Mappings ------------------------------
(***************************************************************************)
(* How the blocks of a kernel are mapped to supercells of a device, in     *)
(* three dimensions: AreaMapping for the core and the border,              *)
(* StrideMapping for kernels whose blocks write around their supercell,    *)
(* ExchangeMapping for the guard of one direction, and the numbers that    *)
(* stand for directions.                                                   *)
(*                                                                         *)
(* A device has SuperCells of its own, surrounded by GUARD_SIZE supercells *)
(* of guard; the outermost GUARD_SIZE of its own are the border.           *)
(***************************************************************************)
EXTENDS Integers, FiniteSets

CONSTANTS
  SuperCellSize,  \* cells along every edge of a supercell
  SuperCells,     \* SuperCells[d]: supercells of the device in direction d
  GUARD_SIZE      \* supercells of the guard, and of the border, on each side

simDim == 3
Axes == 1 .. simDim

(* checkGridConfiguration: there is a core, and a border on both sides.    *)
ASSUME MappingAssumption ==
  /\ SuperCellSize \in Nat \ {0} /\ GUARD_SIZE \in Nat \ {0}
  /\ SuperCells \in [Axes -> Nat]
  /\ \A d \in Axes : SuperCells[d] >= 3 * GUARD_SIZE

(* The indices below size in every direction.                              *)
Box(size) == {<<x, y, z>> : x \in 0 .. size[1] - 1, y \in 0 .. size[2] - 1, z \in 0 .. size[3] - 1}

(* DataSpaceOperations::map, both ways: the number of a position, and the   *)
(* position of a number.                                                    *)
Linear(size, pos) == pos[3] * size[1] * size[2] + pos[2] * size[1] + pos[1]
Position(size, i) ==
  <<i % size[1], (i % (size[1] * size[2])) \div size[1], i \div (size[1] * size[2])>>
Numbers(size) == 0 .. size[1] * size[2] * size[3] - 1

(* MappingDescription: all supercells of the device, guard included.       *)
gridSuperCells == [d \in Axes |-> SuperCells[d] + 2 * GUARD_SIZE]

-----------------------------------------------------------------------------
(***************************************************************************)
(* AreaMapping: blocks of a kernel, and the supercell of a block.  The     *)
(* border is cut into sides of x by y, z by y without the edges, and x by  *)
(* z without the edges; the second index counts its layers, of both sides  *)
(* by turns.                                                               *)
(***************************************************************************)
Areas == {"CORE", "BORDER", "CORE+BORDER"}

Inner(d) == SuperCells[d] - 2 * GUARD_SIZE
SideXY == SuperCells[1] * SuperCells[2]
SideZY == Inner(3) * SuperCells[2]
SideXZ == Inner(1) * Inner(3)

getGridDim(area) ==
  CASE area = "CORE" -> [d \in Axes |-> Inner(d)]
    [] area = "CORE+BORDER" -> SuperCells
    [] area = "BORDER" -> <<SideXY + SideZY + SideXZ, 2 * GUARD_SIZE, 1>>

BorderBlock(i) ==
  LET g == GUARD_SIZE
      layer(d) == g + i[2] \div 2 + (i[2] % 2) * (SuperCells[d] - g)
      zy == i[1] - SideXY
      xz == i[1] - SideXY - SideZY
  IN  IF zy < 0 THEN <<(i[1] % SuperCells[1]) + g, i[1] \div SuperCells[1] + g, layer(3)>>
      ELSE IF xz < 0 THEN <<layer(1), zy \div Inner(3) + g, (zy % Inner(3)) + 2 * g>>
      ELSE <<(xz % Inner(1)) + 2 * g, layer(2), xz \div Inner(1) + 2 * g>>

getBlockIndex(area, i) ==
  CASE area = "CORE" -> [d \in Axes |-> i[d] + 2 * GUARD_SIZE]
    [] area = "CORE+BORDER" -> [d \in Axes |-> i[d] + GUARD_SIZE]
    [] area = "BORDER" -> BorderBlock(i)

(* How many blocks of a kernel for an area work on a supercell.            *)
Visits == [area \in Areas |-> [s \in Box(gridSuperCells) |->
             Cardinality({i \in Box(getGridDim(area)) : getBlockIndex(area, i) = s})]]

-----------------------------------------------------------------------------
(***************************************************************************)
(* StrideMapping on CORE and BORDER: one launch for every offset, and the  *)
(* supercells of its blocks.                                               *)
(***************************************************************************)
Stride == simDim
Offsets == LET size == [d \in Axes |-> Stride] IN {Position(size, i) : i \in Numbers(size)}

StrideGridDim(offset) ==
  [d \in Axes |-> (SuperCells[d] - offset[d] + Stride - 1) \div Stride]

StrideBlock(offset, i) == [d \in Axes |-> i[d] * Stride + offset[d] + GUARD_SIZE]

Launch == [offset \in Offsets |-> {StrideBlock(offset, i) : i \in Box(StrideGridDim(offset))}]

-----------------------------------------------------------------------------
(***************************************************************************)
(* Directions: a number with a digit to the base 3 for every axis, 1 for   *)
(* up and 2 for down.                                                      *)
(***************************************************************************)
Exchanges == 1 .. 26

Digit(direction, d) == (direction \div (3 ^ (d - 1))) % 3

getRelativeDirections(direction) ==
  [d \in Axes |-> IF Digit(direction, d) = 2 THEN -1 ELSE Digit(direction, d)]

getMirroredExchangeType(ex) ==
  LET mirrored(d) == (3 - Digit(ex, d)) % 3
  IN  mirrored(1) + 3 * mirrored(2) + 9 * mirrored(3)

(* ExchangeMapping on GUARD, along axis d with relative direction dir.     *)
ExchangeGridDim(dir, d) == IF dir = 0 THEN SuperCells[d] ELSE GUARD_SIZE

ExchangeBlock(dir, d, i) ==
  i + (CASE dir = 0 -> GUARD_SIZE
         [] dir = 1 -> gridSuperCells[d] - GUARD_SIZE
         [] dir = -1 -> 0)
=============================================================================
