--------------------------- MODULE MCScatterAlloc ---------------------------
(* Two threads of different lanes, two pages of five bytes with masks of two *)
(* bits: a page with chunks of one byte has two segments with masks on the   *)
(* page, one with chunks of two bytes uses the mask of its entry.            *)
EXTENDS ScatterAlloc

CONSTANTS t1, t2
LaneOf == [t \in Threads |-> IF t = t1 THEN 0 ELSE 1]
=============================================================================
