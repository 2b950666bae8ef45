--------------------------- MODULE MCCaptureFiles ---------------------------
(***************************************************************************)
(* Two runs of the recorder on one directory, the second of which can      *)
(* overwrite what the first has left, of two frames of up to two packets.  *)
(***************************************************************************)
EXTENDS CaptureFiles, SequencesExt

\* Begins and SentAll, which walk the packets frame after frame, say what a
\* prefix of the concatenated frames says, for all captures of this size.
Counts == UNION {[1..n -> 1..MaxPackets] : n \in 0..MaxFrames}
Capture(counts) ==
  [f \in 1..Len(counts) |-> [p \in 1..counts[f] |-> [frame |-> f, packet |-> p]]]
Sendings ==
  UNION {[1..n -> [frame : 1..MaxFrames, packet : 1..MaxPackets]] :
           n \in 0..MaxFrames * MaxPackets}

ASSUME WalkIsPrefix ==
  \A counts \in Counts : \A s \in Sendings :
    LET c == Capture(counts) IN
    /\ Begins(s, c) <=> IsPrefix(s, FlattenSeq(c))
    /\ Begins(s, c) => (SentAll(s, c) <=> s = FlattenSeq(c))
=============================================================================
