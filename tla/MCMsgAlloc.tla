------------------------------ MODULE MCMsgAlloc ------------------------------
(***************************************************************************)
(* An instance of MsgAlloc for TLC: an allocator in the linker section and *)
(* three set up at run time, of which any two find room in the table; the  *)
(* first of the three has a block.                                         *)
(***************************************************************************)
EXTENDS MsgAlloc, TLC

MCSection == <<"section">>
MCSlab == "b0" :> "section" @@ "b1" :> "r1"
Symmetry == Permutations(Threads) \cup Permutations(Holders)
=============================================================================
