----------------------------- MODULE MCReceiver -----------------------------
(***************************************************************************)
(* Every command line with at most two frames, with and without a time     *)
(* limit and an output directory.  The H.264 decoder yields at most one    *)
(* frame for a packet.                                                     *)
(***************************************************************************)
EXTENDS Receiver

AllOptions == [max_frames : 0..2, timeout : BOOLEAN, saving : BOOLEAN]
=============================================================================
