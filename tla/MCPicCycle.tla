----------------------------- MODULE MCPicCycle -----------------------------
(* Positions of a third of a cell, supercells of three cells.  The particle  *)
(* starts in a corner of the device or at one of its edges; the moves take   *)
(* it up and down in every direction, within its cell, into the next cell    *)
(* and into the next supercell, alone and in two directions.                 *)
EXTENDS PicCycle

MCSuperCells == <<3, 4, 3>>
MCSolvers ==
  {<<"Esirkepov", "CIC">>, <<"Esirkepov", "TSC">>, <<"Esirkepov", "PCS">>,
   <<"EsirkepovNative", "CIC">>, <<"EsirkepovNative", "TSC">>, <<"EsirkepovNative", "PCS">>,
   <<"VillaBune", "CIC">>, <<"ZigZag", "CIC">>, <<"ZigZag", "TSC">>}
MCStarts ==
  {[superCell |-> <<0, 0, 0>>, localCell |-> <<0, 0, 0>>, position |-> <<0, 1, 2>>],
   [superCell |-> <<2, 0, 1>>, localCell |-> <<2, 0, 2>>, position |-> <<1, 2, 1>>]}
MCMoves == {<<2, 1, -1>>, <<-1, 2, 0>>, <<0, -2, 2>>}

\* A particle that stays in its cell or leaves it, with the solver of Villasenor and Buneman.
VillaBuneOnly == {<<"VillaBune", "CIC">>}
=============================================================================
