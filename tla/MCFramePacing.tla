---------------------------- MODULE MCFramePacing ----------------------------
(***************************************************************************)
(* Intervals of four and two units, paces of three quarters and one half.  *)
(***************************************************************************)
EXTENDS FramePacing

Both == {"frame_rate", "pace"}
TwoRates == {<<2, 1>>, <<9, 2>>}
OneRate == {<<2, 1>>}
OnePace == {<<8, 10>>}
TwoPaces == {<<3, 4>>, <<1, 2>>}
BackAndForth == {-6, 3}
=============================================================================
