---------------------------- MODULE MCReassembly ----------------------------
(***************************************************************************)
(* Frames of one to four fragments in a sequence space of six, so that     *)
(* every position of the wrap inside and between frames occurs, over       *)
(* networks that reorder, lose and copy.                                   *)
(***************************************************************************)
EXTENDS Reassembly

AllSeqs == 0..SeqSpace - 1

Net(reordering, losses, copies) ==
  [reordering |-> reordering, losses |-> losses, copies |-> copies]

MildNetworks ==
  {Net("behind_first", 0, 0), Net("behind_first", 2, 0), Net("none", 4, 0),
   Net("none", 0, 2), Net("none", 1, 1)}

CopyingNetwork == {Net("none", 0, 1)}
=============================================================================
