----------------------------- MODULE FrameQueue -----------------------------
(***************************************************************************)
(* The outgoing path of one media stream: media::push_media_frame cuts a   *)
(* frame into RTP packets, frame_queue collects them in a transaction, and *)
(* flush_queue puts them on the wire, hands them to the capture callback,  *)
(* or both.  One thread pushes frames; between two pushes it may install   *)
(* or clear the capture callback or reconfigure the frame rate.            *)
(*                                                                         *)
(* A frame is its length; a payload is the interval of the frame it        *)
(* covers.  The RTP timestamp of a frame is its number (push order).  The  *)
(* clock is abstracted to the branches flush_queue takes on it.            *)
(***************************************************************************)
EXTENDS Integers, Sequences, FiniteSets, FiniteSetsExt

CONSTANTS
  Lens,         \* frame lengths the application may push
  PayloadSize,  \* rtp::get_payload_size()
  SeqMod,       \* size of the RTP sequence number space (2^16 in the code)
  FirstSeqs,    \* where the (random) first sequence number may lie
  MaxFrames,    \* bound on the number of frames accepted
  FlagSets,     \* the rce_flags_ a stream may be created with
  Formats,      \* payload formats: subset of {"GENERIC", "H26X", "ATLAS"}
  Callbacks,    \* capture callbacks the application may install
  None          \* no callback

Flags == {"FRAGMENT_GENERIC", "FRAME_RATE", "PACE_FRAGMENT_SENDING",
          "SRTP", "SRTP_AUTHENTICATE_RTP"}

ASSUME LensAssumption    == Lens \subseteq Nat
ASSUME PayloadAssumption == PayloadSize \in Nat \ {0}
ASSUME SeqModAssumption  == SeqMod \in Nat \ {0}
ASSUME FirstSeqAssumption == FirstSeqs \subseteq 0..SeqMod - 1
ASSUME BoundAssumption   == MaxFrames \in Nat
ASSUME FlagAssumption    == FlagSets \subseteq SUBSET Flags
ASSUME FormatAssumption  == Formats \subseteq {"GENERIC", "H26X", "ATLAS"}
ASSUME NoneAssumption    == None \notin Callbacks

VARIABLES
  rce_flags,       \* creation flags, never change
  format,          \* rtp_->get_payload(), never changes
  seq,             \* rtp context: next sequence number
  sent_pkts,       \* rtp context: packets counted as sent (RTCP reports)
  fps, force_sync, \* fps_ and force_sync_
  capture_cb, capture_only,
  active,          \* active_ # nullptr
  rtp_headers,     \* active_->rtp_headers[0 .. rtphdr_ptr - 1]
  packets,         \* active_->packets: header used, interval of the frame
  heap,            \* live allocations of transactions: <<frame, block>>
  data_pos, data_left,       \* locals of push_media_frame
  capture_active, next, frame_packets,  \* locals of flush_queue
  pc,              \* where the pushing thread is
  ret,             \* what the last push returned
  wire,            \* history: the packets the socket accepted
  captured,        \* history: the calls of capture callbacks
  history          \* history: one record per accepted frame

ctxVars   == <<rce_flags, format>>
rtpVars   == <<seq, sent_pkts>>
fpsVars   == <<fps, force_sync>>
capVars   == <<capture_cb, capture_only>>
txVars    == <<active, rtp_headers, packets, heap>>
mediaVars == <<data_pos, data_left>>
flushVars == <<capture_active, next, frame_packets>>
vars == <<ctxVars, rtpVars, fpsVars, capVars, txVars, mediaVars, flushVars,
          pc, ret, wire, captured, history>>

Fragmenting == "FRAGMENT_GENERIC" \in rce_flags \/ format # "GENERIC"
frame == Len(history)

-----------------------------------------------------------------------------
(* Transactions *)

\* What init_transaction and enqueue_message allocate for a transaction.
InitBlocks == {"headers", "chunks", "rtp_headers"}
              \cup (IF format # "GENERIC" THEN {"media_headers"} ELSE {})
              \cup (IF "SRTP_AUTHENTICATE_RTP" \in rce_flags
                    THEN {"rtp_auth_tags"} ELSE {})

\* Mutant: the copies made for SRTP are not freed.
DeinitBlocks_KeepsTmp == {"headers", "chunks", "rtp_headers", "rtp_auth_tags"}
                         \cup (IF format = "H26X" THEN {"media_headers"} ELSE {})

\* What deinit_transaction frees: its switch knows the H.26x header types
\* only, so the v3c_headers of an ATLAS stream are not deleted.
DeinitBlocks == {"headers", "chunks", "rtp_headers", "rtp_auth_tags", "tmp"}
                \cup (IF format = "H26X" THEN {"media_headers"} ELSE {})

deinit_transaction ==
  /\ active' = FALSE
  /\ rtp_headers' = <<>>
  /\ packets' = <<>>
  /\ heap' = {a \in heap : a[1] # frame \/ a[2] \notin DeinitBlocks}

NextSeq(s) == IF s = SeqMod - 1 THEN 0 ELSE s + 1

\* Mutant: the sequence number of the RTP context is not advanced.
enqueue_message_NoInc(pos, len, set_m_bit) ==
  /\ rtp_headers' = Append(rtp_headers,
                           [ts |-> frame, seq |-> seq, marker |-> set_m_bit])
  /\ packets' = Append(packets, [hdr |-> Len(rtp_headers) + 1,
                                 pos |-> pos, len |-> len])
  /\ seq' = seq
  /\ sent_pkts' = sent_pkts + 1

\* update_rtp_header copies rtp_common and the current sequence number into
\* the next free header; enqueue_finalize stores the packet and advances the
\* RTP context.
enqueue_message(pos, len, set_m_bit) ==
  /\ rtp_headers' = Append(rtp_headers,
                           [ts |-> frame, seq |-> seq, marker |-> set_m_bit])
  /\ packets' = Append(packets, [hdr |-> Len(rtp_headers) + 1,
                                 pos |-> pos, len |-> len])
  /\ seq' = NextSeq(seq)
  /\ sent_pkts' = sent_pkts + 1

\* A packet with its scatter/gather parts joined: what sendto puts on the
\* wire and what flatten_packet returns.
flatten_packet(p) ==
  [ts     |-> rtp_headers[p.hdr].ts,
   seq    |-> rtp_headers[p.hdr].seq,
   marker |-> rtp_headers[p.hdr].marker,
   pos    |-> p.pos,
   len    |-> p.len]

Flattened == [i \in 1..Len(packets) |-> flatten_packet(packets[i])]

-----------------------------------------------------------------------------
(* The application, between two pushes *)

SetPacketCapture(cb, only) ==
  /\ pc = "idle"
  /\ capture_cb' = cb
  /\ capture_only' = (only /\ cb # None)
  /\ UNCHANGED <<ctxVars, rtpVars, fpsVars, txVars, mediaVars, flushVars,
                 pc, ret, wire, captured, history>>

\* Mutant: capture_only_ survives the callback.
ClearPacketCapture_KeepsOnly ==
  /\ pc = "idle"
  /\ capture_cb' = None
  /\ UNCHANGED <<capture_only, ctxVars, rtpVars, fpsVars, txVars, mediaVars,
                 flushVars, pc, ret, wire, captured, history>>

ClearPacketCapture ==
  /\ pc = "idle"
  /\ capture_cb' = None
  /\ capture_only' = FALSE
  /\ UNCHANGED <<ctxVars, rtpVars, fpsVars, txVars, mediaVars, flushVars,
                 pc, ret, wire, captured, history>>

SetFps(valid) ==
  /\ pc = "idle"
  /\ fps' = valid
  /\ force_sync' = ("FRAME_RATE" \in rce_flags)
  /\ UNCHANGED <<ctxVars, rtpVars, capVars, txVars, mediaVars, flushVars,
                 pc, ret, wire, captured, history>>

\* push_frame refuses an empty frame before anything else happens.
RefuseFrame ==
  /\ pc = "idle"
  /\ 0 \in Lens
  /\ ret' = "INVALID_VALUE"
  /\ UNCHANGED <<ctxVars, rtpVars, fpsVars, capVars, txVars, mediaVars,
                 flushVars, pc, wire, captured, history>>

-----------------------------------------------------------------------------
(* push_media_frame *)

\* init_transaction: a transaction left open is released first.
PushFrame(len) ==
  /\ pc = "idle"
  /\ frame < MaxFrames
  /\ len > 0
  /\ history' = Append(history, [len |-> len, cb |-> capture_cb,
                                 only |-> capture_only, before |-> sent_pkts,
                                 ret |-> "PENDING"])
  /\ active' = TRUE
  /\ rtp_headers' = <<>>
  /\ packets' = <<>>
  /\ heap' = {a \in heap : ~active \/ a[1] # frame \/ a[2] \notin DeinitBlocks}
             \cup {<<frame + 1, b>> : b \in InitBlocks}
  /\ data_pos' = 0
  /\ data_left' = len
  /\ pc' = "enqueue"
  /\ ret' = "PENDING"
  /\ UNCHANGED <<ctxVars, rtpVars, fpsVars, capVars, flushVars, wire, captured>>

\* Without RCE_FRAGMENT_GENERIC, or if it fits, the frame is one packet.  The
\* marker of a generic frame is set when fragmentation is on.
EnqueueWhole ==
  /\ pc = "enqueue"
  /\ format = "GENERIC"
  /\ data_pos = 0
  /\ ~Fragmenting \/ data_left <= PayloadSize
  /\ enqueue_message(0, data_left, Fragmenting)
  /\ pc' = "flush"
  /\ UNCHANGED <<ctxVars, fpsVars, capVars, active, heap, mediaVars, flushVars,
                 ret, wire, captured, history>>

\* Mutant: >= in the loop's condition, so the last fragment may be empty.
EnqueueFragment_OffByOne ==
  /\ pc = "enqueue"
  /\ Fragmenting
  /\ data_left >= PayloadSize
  /\ enqueue_message(data_pos, PayloadSize, FALSE)
  /\ data_pos' = data_pos + PayloadSize
  /\ data_left' = data_left - PayloadSize
  /\ UNCHANGED <<ctxVars, fpsVars, capVars, active, heap, flushVars, pc,
                 ret, wire, captured, history>>

\* One turn of the loop that cuts PayloadSize bytes off the frame.
EnqueueFragment ==
  /\ pc = "enqueue"
  /\ Fragmenting
  /\ data_left > PayloadSize
  /\ enqueue_message(data_pos, PayloadSize, FALSE)
  /\ data_pos' = data_pos + PayloadSize
  /\ data_left' = data_left - PayloadSize
  /\ heap' = IF format # "GENERIC" /\ "SRTP" \in rce_flags
             THEN heap \cup {<<frame, "tmp">>} ELSE heap
  /\ UNCHANGED <<ctxVars, fpsVars, capVars, active, flushVars, pc,
                 ret, wire, captured, history>>

\* The last fragment; the H.26x classes leave its marker to flush_queue.
EnqueueLast ==
  /\ pc = "enqueue"
  /\ Fragmenting
  /\ format = "GENERIC" => data_pos > 0
  /\ data_left <= PayloadSize
  /\ enqueue_message(data_pos, data_left, format = "GENERIC")
  /\ heap' = IF format # "GENERIC" /\ "SRTP" \in rce_flags /\ data_pos > 0
             THEN heap \cup {<<frame, "tmp">>} ELSE heap
  /\ pc' = "flush"
  /\ UNCHANGED <<ctxVars, fpsVars, capVars, active, mediaVars, flushVars,
                 ret, wire, captured, history>>

-----------------------------------------------------------------------------
(* flush_queue *)

\* The frame-rate branches: late, or forced and far from the frame's time
\* (force_sync_ stays), forced and less than half an interval early
\* (force_sync_ ends), or waiting for the frame's time.
SyncFrameRate ==
  IF "FRAME_RATE" \in rce_flags /\ fps
  THEN force_sync' \in (IF force_sync THEN BOOLEAN ELSE {FALSE})
  ELSE UNCHANGED force_sync

Pacing == "PACE_FRAGMENT_SENDING" \in rce_flags /\ fps /\ ~force_sync'

\* The marker of the last of several packets, the frame-rate wait, the
\* snapshot of the capture callback.
FlushBegin ==
  /\ pc = "flush"
  /\ rtp_headers' = IF Len(packets) > 1
                    THEN [rtp_headers EXCEPT ![Len(rtp_headers)].marker = TRUE]
                    ELSE rtp_headers
  /\ SyncFrameRate
  /\ capture_active' = (capture_cb # None)
  /\ next' = 1
  /\ frame_packets' = <<>>
  /\ pc' = IF Pacing THEN "paced" ELSE "send"
  /\ UNCHANGED <<ctxVars, rtpVars, fps, capVars, active, packets, heap,
                 mediaVars, ret, wire, captured, history>>

\* The locals of push_media_frame and flush_queue end with the call.
Return(code) ==
  /\ deinit_transaction
  /\ data_pos' = 0 /\ data_left' = 0
  /\ capture_active' = FALSE /\ next' = 1 /\ frame_packets' = <<>>
  /\ pc' = "idle"
  /\ ret' = code
  /\ history' = [history EXCEPT ![frame].ret = code]

\* Mutants: capture_only_ is not looked at; the loop stops one packet early.
SendPacedTo(wire_, end) ==
  /\ pc = "paced"
  /\ next <= Len(packets)
  /\ frame_packets' = IF capture_active
                      THEN Append(frame_packets, flatten_packet(packets[next]))
                      ELSE frame_packets
  /\ wire' = wire_
  /\ next' = next + 1
  /\ pc' = IF next = end THEN "emit" ELSE "paced"
  /\ UNCHANGED <<ctxVars, rtpVars, fpsVars, capVars, txVars, mediaVars,
                 capture_active, ret, captured, history>>

SendPaced_AlwaysSends ==
  SendPacedTo(Append(wire, flatten_packet(packets[next])), Len(packets))

SendPaced_StopsEarly ==
  SendPacedTo(IF capture_only THEN wire
              ELSE Append(wire, flatten_packet(packets[next])),
              IF Len(packets) > 1 THEN Len(packets) - 1 ELSE 1)

\* One packet of a paced frame: flattened for the capture, then sent.
SendPaced ==
  /\ pc = "paced"
  /\ next <= Len(packets)
  /\ frame_packets' = IF capture_active
                      THEN Append(frame_packets, flatten_packet(packets[next]))
                      ELSE frame_packets
  /\ wire' = IF capture_only THEN wire
             ELSE Append(wire, flatten_packet(packets[next]))
  /\ next' = next + 1
  /\ pc' = IF next = Len(packets) THEN "emit" ELSE "paced"
  /\ UNCHANGED <<ctxVars, rtpVars, fpsVars, capVars, txVars, mediaVars,
                 capture_active, ret, captured, history>>

\* sendto fails for one packet of a paced frame: the rest is dropped, and
\* what was flattened so far is not handed to the callback.
SendPacedFails ==
  /\ pc = "paced"
  /\ ~capture_only
  /\ Return("SEND_ERROR")
  /\ UNCHANGED <<ctxVars, rtpVars, fpsVars, capVars,
                 wire, captured>>

\* All packets at once.
SendAll ==
  /\ pc = "send"
  /\ frame_packets' = IF capture_active THEN Flattened ELSE <<>>
  /\ wire' = IF capture_only THEN wire ELSE wire \o Flattened
  /\ pc' = "emit"
  /\ UNCHANGED <<ctxVars, rtpVars, fpsVars, capVars, txVars, mediaVars,
                 capture_active, next, ret, captured, history>>

\* sendto fails after handing k of the packets to the network.
SendAllFails(k) ==
  /\ pc = "send"
  /\ ~capture_only
  /\ k < Len(packets)
  /\ wire' = wire \o SubSeq(Flattened, 1, k)
  /\ Return("SEND_ERROR")
  /\ UNCHANGED <<ctxVars, rtpVars, fpsVars, capVars,
                 captured>>

\* emit_capture calls the installed callback, then the transaction ends.
EmitCapture ==
  /\ pc = "emit"
  /\ captured' = IF capture_active /\ capture_cb # None /\ frame_packets # <<>>
                 THEN Append(captured, [cb      |-> capture_cb,
                                        ts      |-> rtp_headers[1].ts,
                                        first   |-> rtp_headers[1].seq,
                                        last    |-> rtp_headers[Len(rtp_headers)].seq,
                                        packets |-> frame_packets])
                 ELSE captured
  /\ Return("OK")
  /\ UNCHANGED <<ctxVars, rtpVars, fpsVars, capVars, wire>>

-----------------------------------------------------------------------------
Init ==
  /\ rce_flags \in FlagSets
  /\ format \in Formats
  /\ seq \in FirstSeqs
  /\ sent_pkts = 0
  /\ fps = TRUE
  /\ force_sync = ("FRAME_RATE" \in rce_flags)
  /\ capture_cb = None
  /\ capture_only = FALSE
  /\ active = FALSE
  /\ rtp_headers = <<>>
  /\ packets = <<>>
  /\ heap = {}
  /\ data_pos = 0
  /\ data_left = 0
  /\ capture_active = FALSE
  /\ next = 1
  /\ frame_packets = <<>>
  /\ pc = "idle"
  /\ ret = "OK"
  /\ wire = <<>>
  /\ captured = <<>>
  /\ history = <<>>

Configure ==
  \/ \E cb \in Callbacks \cup {None}, only \in BOOLEAN : SetPacketCapture(cb, only)
  \/ ClearPacketCapture
  \/ \E valid \in BOOLEAN : SetFps(valid)

\* The steps of a push once it has begun.
PushStep ==
  \/ EnqueueWhole
  \/ EnqueueFragment
  \/ EnqueueLast
  \/ FlushBegin
  \/ SendPaced
  \/ SendPacedFails
  \/ SendAll
  \/ \E k \in 0..Len(packets) : SendAllFails(k)
  \/ EmitCapture

Next ==
  \/ Configure
  \/ RefuseFrame
  \/ \E len \in Lens : PushFrame(len)
  \/ PushStep

Spec == Init /\ [][Next]_vars

-----------------------------------------------------------------------------
(* Properties *)

Header == [ts : 1..MaxFrames, seq : 0..SeqMod - 1, marker : BOOLEAN]
Packet == [ts : 1..MaxFrames, seq : 0..SeqMod - 1, marker : BOOLEAN,
           pos : Nat, len : Nat]
Capture == [cb : Callbacks, ts : 1..MaxFrames, first : 0..SeqMod - 1,
            last : 0..SeqMod - 1, packets : Seq(Packet)]
FrameRecord == [len : Lens, cb : Callbacks \cup {None}, only : BOOLEAN,
                before : Nat, ret : {"PENDING", "OK", "SEND_ERROR"}]

ControlTypeOK ==
  /\ rce_flags \in FlagSets /\ format \in Formats
  /\ seq \in 0..SeqMod - 1 /\ sent_pkts \in Nat
  /\ fps \in BOOLEAN /\ force_sync \in BOOLEAN
  /\ capture_cb \in Callbacks \cup {None} /\ capture_only \in BOOLEAN
  /\ active \in BOOLEAN /\ capture_active \in BOOLEAN
  /\ data_pos \in Nat /\ data_left \in Nat /\ next \in Nat
  /\ pc \in {"idle", "enqueue", "flush", "paced", "send", "emit"}
  /\ ret \in {"PENDING", "OK", "SEND_ERROR", "INVALID_VALUE"}

DataTypeOK ==
  /\ rtp_headers \in Seq(Header)
  /\ packets \in Seq([hdr : Nat, pos : Nat, len : Nat])
  /\ heap \subseteq (1..MaxFrames) \X (InitBlocks \cup DeinitBlocks)
  /\ frame_packets \in Seq(Packet)
  /\ wire \in Seq(Packet)
  /\ captured \in Seq(Capture)
  /\ history \in Seq(FrameRecord) /\ Len(history) <= MaxFrames

\* The variables stay in their types: sequence numbers below SeqMod, packets
\* and captures only of frames that can exist, only blocks of a transaction
\* on the heap.
TypeOK == ControlTypeOK /\ DataTypeOK

Finished(f) == history[f].ret # "PENDING"

\* The stretch of the wire from the first packet of a frame to its last one.
Positions(w, f) == {k \in 1..Len(w) : w[k].ts = f}

Stretch(w, f) == IF Positions(w, f) = {} THEN <<>>
                 ELSE SubSeq(w, Min(Positions(w, f)), Max(Positions(w, f)))

OnWire(f) == Stretch(wire, f)

\* ps are consecutive packets of a frame from its first byte on: no byte is
\* skipped or repeated, none of the packets is empty, and the sequence
\* numbers are consecutive across the wrap.
Contiguous(ps) ==
  \A i \in 1..Len(ps) :
    /\ ps[i].len > 0
    /\ i = 1 => ps[i].pos = 0
    /\ i > 1 => /\ ps[i].pos = ps[i-1].pos + ps[i-1].len
               /\ ps[i].seq = NextSeq(ps[i-1].seq)

\* ps are all the packets of a frame of len bytes, and of several packets the
\* last one, and only that one, carries the marker.
Whole(ps, len) ==
  /\ ps # <<>>
  /\ Contiguous(ps)
  /\ ps[Len(ps)].pos + ps[Len(ps)].len = len
  /\ Len(ps) > 1 => \A i \in 1..Len(ps) : ps[i].marker <=> i = Len(ps)

\* Capture-only frames never reach the network, whatever was installed and
\* cleared before and after (media_stream.hh:302-304, flush_queue).
CaptureOnlyStaysLocal ==
  \A k \in 1..Len(wire) : ~history[wire[k].ts].only

\* The call c of a callback hands over all of a frame of len bytes, and its
\* metadata is that of the packets.
Complete(c, len) ==
  /\ Whole(c.packets, len)
  /\ c.first = c.packets[1].seq
  /\ c.last = c.packets[Len(c.packets)].seq
  /\ \A i \in 1..Len(c.packets) : c.packets[i].ts = c.ts

\* Every call of a capture callback hands over one complete frame
\* (flush_queue:346-356, emit_capture).
CapturedWhole ==
  \A k \in 1..Len(captured) : Complete(captured[k], history[captured[k].ts].len)

\* What push_frame returned tells what left: all of a live frame if it
\* returned OK, a proper part of it from the front if it returned SEND_ERROR.
ReturnCodeTellsWire ==
  \A f \in 1..frame : Finished(f) /\ ~history[f].only =>
    IF history[f].ret = "OK"
    THEN Whole(OnWire(f), history[f].len)
    ELSE /\ Contiguous(OnWire(f))
         /\ ~Whole(OnWire(f), history[f].len)

PacketCount(len) == IF Fragmenting THEN (len + PayloadSize - 1) \div PayloadSize ELSE 1

\* How many packets the stream had numbered when p got its number.
Numbered(p) == history[p.ts].before + p.pos \div PayloadSize

\* Every frame uses up as many numbers as it has packets, sent or not, and
\* between two packets on the wire the sequence numbers skip, modulo the
\* wrap, exactly the packets that were numbered and dropped in between: with
\* frames that all go out the receiver sees no gap (update_rtp_header,
\* enqueue_finalize).
SeqGapsAreDroppedPackets ==
  /\ \A f \in 1..frame - 1 :
       history[f + 1].before = history[f].before + PacketCount(history[f].len)
  /\ \A k \in 1..Len(wire) - 1 :
       ((wire[k + 1].seq - wire[k].seq)
         - (Numbered(wire[k + 1]) - Numbered(wire[k]))) % SeqMod = 0

\* Between two pushes nothing of a transaction is left (frame_queue.hh:97),
\* but for the media headers of an ATLAS stream, which stay with every frame.
TransactionReleased ==
  pc = "idle" => /\ ~active
                 /\ \A b \in heap : format = "ATLAS" /\ b[2] = "media_headers"

\* The promise of FrameDelivery, with the transaction and the RTP context
\* hidden.
Delivered ==
  INSTANCE FrameDelivery WITH
    Counts    <- UNION {1..len : len \in Lens},
    Observers <- Callbacks,
    Nobody    <- None,
    sent   <- [k \in 1..Len(wire) |-> <<wire[k].ts, 1 + wire[k].pos \div PayloadSize>>],
    logged <- [k \in 1..Len(captured) |-> <<captured[k].ts, captured[k].cb>>],
    done   <- [f \in 1..(IF pc = "idle" THEN frame ELSE frame - 1) |-> history[f].ret],
    cur    <- IF pc = "idle" THEN {} ELSE
              {[n        |-> PacketCount(history[frame].len),
                k        |-> Len(OnWire(frame)),
                live     |-> ~history[frame].only,
                observer |-> history[frame].cb]}

\* Pushing frames implements the abstract delivery: accepted one at a time,
\* sent in order, captured once and only on success.
FramesAreDelivered == Delivered!DSpec
=============================================================================
