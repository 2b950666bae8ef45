---------------------------- MODULE MCFrameQueue ----------------------------
(***************************************************************************)
(* Small streams for TLC: payloads of 2 bytes; frames that are empty, fill *)
(* one payload, exceed it by one, fill two exactly and need three; a       *)
(* sequence space of 4, smaller than what three frames number, so that it  *)
(* wraps within a frame and between frames.                                *)
(***************************************************************************)
EXTENDS FrameQueue

MCFlagSets ==
  { {},
    {"FRAGMENT_GENERIC"},
    {"FRAGMENT_GENERIC", "PACE_FRAGMENT_SENDING", "SRTP"},
    {"FRAGMENT_GENERIC", "FRAME_RATE", "PACE_FRAGMENT_SENDING",
     "SRTP", "SRTP_AUTHENTICATE_RTP"} }
=============================================================================
