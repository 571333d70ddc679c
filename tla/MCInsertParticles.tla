------------------------- MODULE MCInsertParticles -------------------------
(* Instances of InsertParticles for TLC: three blocks that hang frames into *)
(* one supercell.                                                           *)
EXTENDS InsertParticles

OneCell == {1}

AllToOne == [e \in 1 .. 3 |-> 1]
=============================================================================
