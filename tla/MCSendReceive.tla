---------------------------- MODULE MCSendReceive ----------------------------
(***************************************************************************)
(* Three images of up to two payloads; 3 ticks to a second at 2 frames, in *)
(* a timestamp space of 3, so that rounding and the wrap occur.            *)
(***************************************************************************)
EXTENDS SendReceive

Options(max, wait, total) == [max_frames |-> max, wait |-> wait, total |-> total]

SomeCommandLines ==
  {Options(-1, 1, 2), Options(1, 0, 2)}
=============================================================================
