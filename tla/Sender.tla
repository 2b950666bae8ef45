------------------------------- MODULE Sender -------------------------------
(***************************************************************************)
(* opencv_sender, and opencv_send_logger up to its capture: the images are *)
(* encoded one by one, the packets that come out of the encoder are        *)
(* grouped by timestamp into access units, and when the encoder has been   *)
(* drained the units are pushed to the stream.  (Both programs hold the    *)
(* same class Encoder and the same loops.)                                 *)
(*                                                                         *)
(* libav's encoder and bit-stream filter are external: they turn each      *)
(* image into any number of payloads, hand them out in order but at any    *)
(* later time, may hand out empty packets, and may fail at any call.  The  *)
(* i-th payload of image p is <<p, i>>.                                    *)
(***************************************************************************)
EXTENDS Integers, Sequences

CONSTANTS
  MaxImages,    \* bound on the images of the input directory
  MaxPayloads,  \* bound on the payloads of an image
  Clock,        \* DEFAULT_CLOCK, the ticks of an RTP timestamp in a second
  Fps,          \* opt.fps
  TsSpace,      \* number of RTP timestamps (2^32)
  NoUnit        \* has_pending_ is false

ASSUME SenderBounds == {MaxImages, MaxPayloads} \subseteq Nat
\* parse() asks for fps > 0 only; with more frames than ticks in a second two
\* frames would get the same timestamp.
ASSUME RatesAssumption == Clock \in Nat /\ Fps \in 1..Clock
ASSUME TsSpaceAssumption == TsSpace \in Nat /\ TsSpace > Clock \div Fps + 1

UnitType == [pts : 1..MaxImages, key : BOOLEAN,
             bytes : Seq((1..MaxImages) \X (1..MaxPayloads))]

ASSUME NoUnitAssumption == NoUnit \notin UnitType

VARIABLES
  pc,        \* load, encode, receive, drain, open, send, done
  images,    \* number of images loaded
  made,      \* of each image fed: number of payloads, and which are key
  coder,     \* the payload the encoder hands out next is its successor
  pending,   \* pending_, or NoUnit
  aus,       \* the access units
  pushed,    \* what push_frame took: unit and timestamp
  rc         \* exit code

senderVars == <<pc, images, made, coder, pending, aus, pushed, rc>>

NotYet == -1
Fed == Len(made)                      \* frames are numbered from 1
Unit(p, bytes, key) == [pts |-> p, bytes |-> bytes, key |-> key]

\* What the encoder makes of image p, and what its unit should be.
Payloads(p) == [i \in 1..made[p].n |-> <<p, i>>]
WholeUnit(p) == Unit(p, Payloads(p), made[p].keys # {})

Exit(code) == pc' = "done" /\ rc' = code

-----------------------------------------------------------------------------
(* Images *)

\* load_and_preprocess: sorted, at most --max-frames; none is an error.
Load(n) ==
  /\ pc = "load"
  /\ images' = n
  /\ IF n = 0 THEN Exit(2) ELSE pc' = "encode" /\ UNCHANGED rc
  /\ UNCHANGED <<made, coder, pending, aus, pushed>>

\* A file that cannot be read, or an encoder that cannot be opened.
StartFails ==
  /\ pc \in {"load", "encode"} /\ made = <<>>
  /\ Exit(IF pc = "load" THEN 2 ELSE 3)
  /\ UNCHANGED <<images, made, coder, pending, aus, pushed>>

-----------------------------------------------------------------------------
(* class Encoder *)

\* emit_pending
Emitted == IF pending = NoUnit THEN aus ELSE Append(aus, pending)

\* append_annexb_payload of a payload that is not empty.
\* Mutant: the key flag is that of the last payload.
AppendPayload_LastKey(p, i, key) ==
  IF pending = NoUnit \/ p # pending.pts
  THEN pending' = Unit(p, <<<<p, i>>>>, key) /\ aus' = Emitted
  ELSE /\ pending' = Unit(p, Append(pending.bytes, <<p, i>>), key)
       /\ UNCHANGED aus

AppendPayload(p, i, key) ==
  IF pending = NoUnit \/ p # pending.pts
  THEN pending' = Unit(p, <<<<p, i>>>>, key) /\ aus' = Emitted
  ELSE /\ pending' = Unit(p, Append(pending.bytes, <<p, i>>), pending.key \/ key)
       /\ UNCHANGED aus

\* encode() hands the next image to the encoder, which makes n payloads of it.
EncodeImage(n, keys) ==
  /\ pc = "encode" /\ Fed < images
  /\ made' = Append(made, [n |-> n, keys |-> keys])
  /\ pc' = "receive"
  /\ UNCHANGED <<images, coder, pending, aus, pushed, rc>>

Receiving == pc \in {"receive", "drain"}

\* The encoder moves on to the next image it was given.
NextImage ==
  /\ Receiving
  /\ coder.pts < Fed
  /\ coder.pts > 0 => coder.part = made[coder.pts].n
  /\ coder' = [pts |-> coder.pts + 1, part |-> 0]
  /\ UNCHANGED <<pc, images, made, pending, aus, pushed, rc>>

\* avcodec_receive_packet and the filter give a payload.
ReceivePayload ==
  /\ Receiving
  /\ coder.pts > 0 /\ coder.part < made[coder.pts].n
  /\ coder' = [coder EXCEPT !.part = @ + 1]
  /\ AppendPayload(coder.pts, coder.part + 1,
                   coder.part + 1 \in made[coder.pts].keys)
  /\ UNCHANGED <<pc, images, made, pushed, rc>>

\* EAGAIN: the encoder keeps the rest for later.
NoMorePackets ==
  /\ pc = "receive"
  /\ pc' = "encode"
  /\ UNCHANGED <<images, made, coder, pending, aus, pushed, rc>>

\* flush() sends the null frame.
StartDrain ==
  /\ pc = "encode" /\ Fed = images
  /\ pc' = "drain"
  /\ UNCHANGED <<images, made, coder, pending, aus, pushed, rc>>

\* A call of libav fails: main leaves without sending anything.
EncoderFails ==
  /\ pc \in {"encode", "receive", "drain"}
  /\ Exit(IF pc = "drain" \/ (pc = "encode" /\ Fed = images) THEN 5 ELSE 4)
  /\ UNCHANGED <<images, made, coder, pending, aus, pushed>>

Drained == coder.pts = Fed /\ (Fed > 0 => coder.part = made[Fed].n)

\* Mutant: the pending unit is forgotten.
FlushPending_Not ==
  /\ pc = "drain" /\ Drained
  /\ pc' = "open"
  /\ UNCHANGED <<images, made, coder, pending, aus, pushed, rc>>

\* End of stream, then flush_pending: nothing can follow the last unit.
FlushPending ==
  /\ pc = "drain" /\ Drained
  /\ pc' = "open"
  /\ aus' = Emitted /\ pending' = NoUnit
  /\ UNCHANGED <<images, made, coder, pushed, rc>>

-----------------------------------------------------------------------------
(* send_rtsp_annexb_sequence *)

\* The stream is created; without units there is nothing to do but to fail.
Open ==
  /\ pc = "open"
  /\ IF aus = <<>> THEN Exit(6) ELSE pc' = "send" /\ UNCHANGED rc
  /\ UNCHANGED <<images, made, coder, pending, aus, pushed>>

\* av_rescale_q of a frame number (from 0) to ticks, rounded to the nearest,
\* and the cast to uint32_t.
\* Mutant: the number of the second is all that is left.
Timestamp_Seconds(p) == (((p - 1) \div Fps) * Clock) % TsSpace

Timestamp(p) == ((((p - 1) * Clock) + (Fps \div 2)) \div Fps) % TsSpace

Push ==
  /\ pc = "send" /\ Len(pushed) < Len(aus)
  /\ LET au == aus[Len(pushed) + 1]
     IN  pushed' = Append(pushed, [unit |-> au, ts |-> Timestamp(au.pts)])
  /\ UNCHANGED <<pc, images, made, coder, pending, aus, rc>>

\* create_session, create_stream or push_frame fails.
SendFails ==
  /\ pc \in {"open", "send"} /\ Len(pushed) < Len(aus)
  /\ Exit(6)
  /\ UNCHANGED <<images, made, coder, pending, aus, pushed>>

SendEnds ==
  /\ pc = "send" /\ Len(pushed) = Len(aus)
  /\ Exit(0)
  /\ UNCHANGED <<images, made, coder, pending, aus, pushed>>

-----------------------------------------------------------------------------
SenderInit ==
  /\ pc = "load" /\ images = 0 /\ made = <<>>
  /\ coder = [pts |-> 0, part |-> 0]
  /\ pending = NoUnit /\ aus = <<>> /\ pushed = <<>>
  /\ rc = NotYet

SenderStep ==
  \/ \E n \in 0..MaxImages : Load(n)
  \/ StartFails
  \/ \E n \in 0..MaxPayloads : \E keys \in SUBSET (1..n) : EncodeImage(n, keys)
  \/ NextImage \/ ReceivePayload \/ NoMorePackets
  \/ StartDrain \/ EncoderFails \/ FlushPending
  \/ Open \/ SendFails \/ SendEnds

SenderNext == SenderStep \/ Push

SenderSpec == SenderInit /\ [][SenderNext]_senderVars

-----------------------------------------------------------------------------
(* Properties *)

\* The variables stay in their types.
SenderTypeOK ==
  /\ pc \in {"load", "encode", "receive", "drain", "open", "send", "done"}
  /\ images \in 0..MaxImages
  /\ made \in Seq([n : 0..MaxPayloads, keys : SUBSET (1..MaxPayloads)])
  /\ coder \in [pts : 0..MaxImages, part : 0..MaxPayloads]
  /\ pending \in UnitType \cup {NoUnit}
  /\ aus \in Seq(UnitType)
  /\ pushed \in Seq([unit : UnitType, ts : 0..TsSpace - 1])
  /\ rc \in {NotYet, 0, 2, 3, 4, 5, 6}

\* An access unit is all the encoder made of one image, in order, and a key
\* unit if any part of it is; each image has one unit at most, and the units
\* are in the order of the images, however the encoder delays its packets.
UnitsAreImages ==
  /\ \A j \in 1..Len(aus) : aus[j] = WholeUnit(aus[j].pts)
  /\ \A j \in 1..Len(aus) - 1 : aus[j].pts < aus[j + 1].pts

\* What is sent is the beginning of the sequence of images that gave a
\* payload: no image is skipped, above all not the last one, and success means
\* that all were sent.
SentWithoutGaps ==
  /\ \A j \in 1..Len(pushed) : \A p \in 1..Fed :
       p < pushed[j].unit.pts /\ made[p].n > 0 =>
         \E i \in 1..j - 1 : pushed[i].unit = WholeUnit(p)
  /\ rc = 0 => \A p \in 1..images :
       made[p].n > 0 => \E i \in 1..Len(pushed) : pushed[i].unit = WholeUnit(p)

\* Frames that follow each other have different RTP timestamps, by which the
\* receiver tells them apart, also across the wrap of the 32 bits.
TimestampsDiffer ==
  \A j \in 1..Len(pushed) - 1 :
    pushed[j + 1].unit.pts = pushed[j].unit.pts + 1 =>
      pushed[j + 1].ts # pushed[j].ts
=============================================================================
