-------------------------- MODULE MCPacketCapture --------------------------
(***************************************************************************)
(* Two queues configured between frames, and one queue, with more frames   *)
(* and a clock, configured by another thread.                              *)
(***************************************************************************)
EXTENDS PacketCapture, TLC

CONSTANTS q1, q2

CallbackSymmetry == Permutations(Callbacks)

Scenario(queues, frames, time, concurrent) ==
  [queues |-> queues, frames |-> frames, time |-> time, concurrent |-> concurrent]

TwoScenarios ==
  {Scenario({q1, q2}, 2, 0, FALSE), Scenario({q1}, 3, 2, TRUE)}
=============================================================================
