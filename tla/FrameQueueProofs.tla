--------------------------- MODULE FrameQueueProofs ---------------------------
(***************************************************************************)
(* Proofs about FrameQueue, for every payload size, sequence space, set of *)
(* frame lengths, flags, formats and callbacks.                            *)
(***************************************************************************)
EXTENDS FrameQueue, SequenceTheorems, TLAPS

USE DEF frame

\* The transaction in progress: packet i uses header i, the headers carry the
\* frame's timestamp and consecutive sequence numbers, and the packets cover
\* the frame from its first byte up to data_pos without a hole.
TxInv ==
  /\ Len(packets) = Len(rtp_headers)
  /\ \A i \in 1..Len(packets) :
       /\ packets[i].hdr = i
       /\ rtp_headers[i].ts = frame
       /\ packets[i].len > 0
       /\ i = 1 => packets[i].pos = 0
       /\ i > 1 => /\ packets[i].pos = packets[i-1].pos + packets[i-1].len
                   /\ rtp_headers[i].seq = NextSeq(rtp_headers[i-1].seq)

\* What the pushing thread knows of the frame it is pushing.
FrameInv ==
  /\ pc = "idle" => packets = <<>> /\ rtp_headers = <<>> /\ ~capture_active
  /\ pc # "idle" => /\ frame > 0
                    /\ history[frame].only = capture_only
                    /\ history[frame].cb = capture_cb
  /\ capture_active => capture_cb # None

\* Progress of the enqueueing loop.
EnqueueInv ==
  pc = "enqueue" =>
    /\ data_left > 0
    /\ data_pos + data_left = history[frame].len
    /\ packets = <<>> => data_pos = 0
    /\ packets # <<>> =>
         /\ packets[Len(packets)].pos + packets[Len(packets)].len = data_pos
         /\ seq = NextSeq(rtp_headers[Len(packets)].seq)
    /\ \A i \in 1..Len(packets) : ~rtp_headers[i].marker

\* The complete transaction, before and after its last marker is set, and the
\* packets flattened so far.
FlushInv ==
  pc \in {"flush", "paced", "send", "emit"} =>
    /\ packets # <<>>
    /\ packets[Len(packets)].pos + packets[Len(packets)].len = history[frame].len
    /\ \A i \in 1..Len(packets) - 1 : ~rtp_headers[i].marker
    /\ pc # "flush" /\ Len(packets) > 1 => rtp_headers[Len(packets)].marker
    /\ pc = "paced" => next \in 1..Len(packets)
    /\ pc = "paced" /\ capture_active => Len(frame_packets) = next - 1
    /\ pc = "emit" /\ capture_active => Len(frame_packets) = Len(packets)
    /\ pc \in {"paced", "emit"} /\ capture_active =>
         \A i \in 1..Len(frame_packets) : frame_packets[i] = flatten_packet(packets[i])

\* What has left or has been captured belongs to a frame that was pushed.
PastInv ==
  /\ \A k \in 1..Len(wire) : wire[k].ts \in 1..frame
  /\ \A k \in 1..Len(captured) : captured[k].ts \in 1..frame

IInv == TypeOK /\ TxInv /\ FrameInv /\ EnqueueInv /\ FlushInv /\ PastInv
        /\ CaptureOnlyStaysLocal /\ CapturedWhole

-----------------------------------------------------------------------------
\* The initial state of a stream satisfies the invariant.
LEMMA InitEstablishes == Init => IInv
<1> SUFFICES ASSUME Init PROVE IInv
  OBVIOUS
<1>1. TypeOK
  <2>1. ControlTypeOK
    <3>1. force_sync \in BOOLEAN
      BY DEF Init
    <3>2. seq \in 0..SeqMod - 1
      BY SeqModAssumption, FirstSeqAssumption DEF Init
    <3>3. rce_flags \in FlagSets /\ format \in Formats /\ fps \in BOOLEAN /\ capture_only \in BOOLEAN /\ active \in BOOLEAN /\ capture_active \in BOOLEAN
     BY Zenon DEF Init
    <3> QED
      BY <3>1, <3>2, <3>3 DEF Init, ControlTypeOK
  <2>2. DataTypeOK
    BY BoundAssumption DEF Init, DataTypeOK
  <2> QED
    BY <2>1, <2>2 DEF TypeOK
<1>2. TxInv /\ FrameInv /\ EnqueueInv /\ FlushInv /\ PastInv
  BY DEF Init, TxInv, FrameInv, EnqueueInv, FlushInv, PastInv
<1>3. CaptureOnlyStaysLocal /\ CapturedWhole
  BY DEF Init, CaptureOnlyStaysLocal, CapturedWhole
<1> QED
  BY <1>1, <1>2, <1>3 DEF IInv

\* The successor of a sequence number is one (rtp::inc_sequence wraps).
LEMMA NextSeqType ==
  ASSUME NEW s \in 0..SeqMod - 1
  PROVE  NextSeq(s) \in 0..SeqMod - 1
BY SeqModAssumption DEF NextSeq

\* Captures stay whole while nothing is captured and no frame changes length.
LEMMA CapturesKept ==
  ASSUME IInv, captured' = captured, frame' >= frame, history' \in Seq(FrameRecord),
         \A f \in 1..frame : history'[f].len = history[f].len
  PROVE  CapturedWhole'
BY DEF IInv, PastInv, CapturedWhole

\* Nothing captured-only is on the wire after a step that sends nothing and
\* changes no frame's mode.
LEMMA WireKept ==
  ASSUME IInv, wire' = wire, frame' >= frame,
         \A f \in 1..frame : history'[f].only = history[f].only
  PROVE  CaptureOnlyStaysLocal'
BY DEF IInv, PastInv, CaptureOnlyStaysLocal

-----------------------------------------------------------------------------
(* The application's steps between two pushes *)

\* A step that leaves the transaction, the wire and the history alone while
\* no frame is being pushed preserves the invariant if it keeps the types.
LEMMA IdlePreserves ==
  ASSUME IInv, pc = "idle", ControlTypeOK',
         UNCHANGED <<ctxVars, txVars, mediaVars, flushVars, pc, wire, captured, history>>,
         ~capture_active
  PROVE  IInv'
<1> USE DEF ctxVars, txVars, mediaVars, flushVars
<1>1. TypeOK'
  BY DEF IInv, TypeOK, DataTypeOK, InitBlocks, DeinitBlocks
<1>2. TxInv'
  BY DEF IInv, TxInv
<1>3. FrameInv'
  BY DEF IInv, FrameInv
<1>8. EnqueueInv' /\ FlushInv'
  BY DEF EnqueueInv, FlushInv
<1>4. PastInv'
  BY DEF IInv, PastInv
<1>5. CapturedWhole'
  BY <1>1, CapturesKept DEF TypeOK, DataTypeOK
<1>6. CaptureOnlyStaysLocal'
  BY DEF IInv, CaptureOnlyStaysLocal
<1> QED
  BY <1>1, <1>2, <1>3, <1>4, <1>5, <1>6, <1>8 DEF IInv

\* Installing, replacing or clearing the callback and set_fps between pushes.
LEMMA ConfigurePreserves == ASSUME IInv, Configure PROVE IInv'
<1> USE DEF ctxVars, rtpVars, fpsVars, capVars, txVars, mediaVars, flushVars
<1>1. ControlTypeOK
  BY DEF IInv, TypeOK
<1>2. ASSUME NEW cb \in Callbacks \cup {None}, NEW only \in BOOLEAN,
             SetPacketCapture(cb, only)
      PROVE  IInv'
  <2>1. capture_only' \in BOOLEAN
    BY <1>2 DEF SetPacketCapture
  <2>2. ControlTypeOK'
    BY <1>1, <1>2, <2>1 DEF SetPacketCapture, ControlTypeOK
  <2>3. pc = "idle" /\ ~capture_active
    BY <1>2 DEF SetPacketCapture, IInv, FrameInv
  <2> QED
    BY <1>2, <2>2, <2>3, IdlePreserves DEF SetPacketCapture
<1>3. ASSUME ClearPacketCapture PROVE IInv'
  <2>1. ControlTypeOK'
    BY <1>1, <1>3 DEF ClearPacketCapture, ControlTypeOK
  <2>2. pc = "idle" /\ ~capture_active
    BY <1>3 DEF ClearPacketCapture, IInv, FrameInv
  <2> QED
    BY <1>3, <2>1, <2>2, IdlePreserves DEF ClearPacketCapture
<1>4. ASSUME NEW valid \in BOOLEAN, SetFps(valid) PROVE IInv'
  <2>1. force_sync' \in BOOLEAN
    BY <1>4 DEF SetFps
  <2>2. ControlTypeOK'
    BY <1>1, <1>4, <2>1 DEF SetFps, ControlTypeOK
  <2>3. pc = "idle" /\ ~capture_active
    BY <1>4 DEF SetFps, IInv, FrameInv
  <2> QED
    BY <1>4, <2>2, <2>3, IdlePreserves DEF SetFps
<1> QED
  BY <1>2, <1>3, <1>4 DEF Configure

\* An empty frame changes the return value only.
LEMMA RefuseFramePreserves == ASSUME IInv, RefuseFrame PROVE IInv'
<1> USE DEF RefuseFrame, ctxVars, rtpVars, fpsVars, capVars, txVars, mediaVars, flushVars
<1>1. ControlTypeOK'
  BY DEF IInv, TypeOK, ControlTypeOK
<1>2. pc = "idle" /\ ~capture_active
  BY DEF IInv, FrameInv
<1> QED
  BY <1>1, <1>2, IdlePreserves

-----------------------------------------------------------------------------
(* push_media_frame *)

\* A new transaction starts empty, with the whole frame left to enqueue.
LEMMA PushFramePreserves == ASSUME IInv, NEW len \in Lens, PushFrame(len) PROVE IInv'
<1> USE DEF PushFrame, ctxVars, rtpVars, fpsVars, capVars, flushVars
<1> DEFINE r == [len |-> len, cb |-> capture_cb, only |-> capture_only,
                 before |-> sent_pkts, ret |-> "PENDING"]
<1>1. /\ history \in Seq(FrameRecord)
      /\ r \in FrameRecord
      /\ history' = Append(history, r)
  <2>1. /\ capture_only \in BOOLEAN /\ capture_cb \in Callbacks \cup {None}
        /\ sent_pkts \in Nat
    BY DEF IInv, TypeOK, ControlTypeOK
  <2> QED
    BY <2>1 DEF IInv, TypeOK, DataTypeOK, FrameRecord
<1> HIDE DEF r
<1>2. /\ history' \in Seq(FrameRecord)
      /\ frame' = frame + 1 /\ frame \in Nat
      /\ \A f \in 1..frame : history'[f] = history[f]
      /\ history'[frame'] = r
  BY <1>1
<1>3. TypeOK'
  <2>1. ControlTypeOK'
    BY LensAssumption DEF IInv, TypeOK, ControlTypeOK
  <2>2. heap' \subseteq (1..MaxFrames) \X (InitBlocks' \cup DeinitBlocks')
    BY <1>2, BoundAssumption DEF IInv, TypeOK, DataTypeOK, InitBlocks, DeinitBlocks
  <2> QED
    BY <1>2, <2>1, <2>2, BoundAssumption DEF IInv, TypeOK, DataTypeOK
<1>4. TxInv'
  BY DEF TxInv
<1>5. FrameInv'
  BY <1>2 DEF IInv, FrameInv, r
<1>6. EnqueueInv' /\ FlushInv'
  BY <1>2, LensAssumption DEF EnqueueInv, FlushInv, r
<1>7. PastInv'
  BY <1>2 DEF IInv, PastInv
<1>8. CapturedWhole'
  BY <1>2, CapturesKept
<1>9. CaptureOnlyStaysLocal'
  BY <1>2, WireKept
<1> QED
  BY <1>3, <1>4, <1>5, <1>6, <1>7, <1>8, <1>9 DEF IInv

\* Enqueueing the next interval of the frame keeps the transaction in shape:
\* the interval starts at data_pos and is not empty.
LEMMA EnqueueKeepsTx ==
  ASSUME IInv, pc = "enqueue",
         NEW len \in Nat, len > 0, NEW set_m_bit \in BOOLEAN,
         enqueue_message(data_pos, len, set_m_bit), history' = history
  PROVE  /\ TxInv'
         /\ rtp_headers' \in Seq(Header)
         /\ packets' \in Seq([hdr : Nat, pos : Nat, len : Nat])
         /\ seq' \in 0..SeqMod - 1 /\ sent_pkts' \in Nat
         /\ Len(packets') = Len(packets) + 1
         /\ Len(packets) = Len(rtp_headers)
         /\ \A i \in 1..Len(packets) : rtp_headers'[i] = rtp_headers[i]
         /\ rtp_headers'[Len(packets')] =
              [ts |-> frame, seq |-> seq, marker |-> set_m_bit]
         /\ packets'[Len(packets')] =
              [hdr |-> Len(packets'), pos |-> data_pos, len |-> len]
         /\ seq' = NextSeq(rtp_headers'[Len(packets')].seq)
<1> DEFINE h == [ts |-> frame, seq |-> seq, marker |-> set_m_bit]
           p == [hdr |-> Len(rtp_headers) + 1, pos |-> data_pos, len |-> len]
<1>1. /\ rtp_headers \in Seq(Header) /\ h \in Header
      /\ packets \in Seq([hdr : Nat, pos : Nat, len : Nat])
      /\ p \in [hdr : Nat, pos : Nat, len : Nat]
      /\ seq \in 0..SeqMod - 1 /\ sent_pkts \in Nat
  BY DEF IInv, TypeOK, ControlTypeOK, DataTypeOK, FrameInv, Header
<1>2. rtp_headers' = Append(rtp_headers, h) /\ packets' = Append(packets, p)
      /\ seq' = NextSeq(seq) /\ sent_pkts' = sent_pkts + 1
  BY DEF enqueue_message
<1>3. Len(packets) = Len(rtp_headers)
  BY DEF IInv, TxInv
<1>4. /\ h.ts = frame /\ h.seq = seq /\ h.marker = set_m_bit
      /\ p.hdr = Len(packets) + 1 /\ p.pos = data_pos /\ p.len = len
  BY <1>3
<1> HIDE DEF h, p
<1>5. /\ rtp_headers' \in Seq(Header)
      /\ packets' \in Seq([hdr : Nat, pos : Nat, len : Nat])
      /\ Len(packets') = Len(packets) + 1 /\ Len(rtp_headers') = Len(packets')
      /\ \A i \in 1..Len(packets) : /\ rtp_headers'[i] = rtp_headers[i]
                                    /\ packets'[i] = packets[i]
      /\ rtp_headers'[Len(packets')] = h
      /\ packets'[Len(packets')] = p
  BY <1>1, <1>2, <1>3
<1>6. seq' \in 0..SeqMod - 1 /\ sent_pkts' \in Nat
  BY <1>1, <1>2, NextSeqType
<1>7. TxInv'
  <2>1. /\ packets = <<>> => data_pos = 0
        /\ packets # <<>> =>
             /\ packets[Len(packets)].pos + packets[Len(packets)].len = data_pos
             /\ seq = NextSeq(rtp_headers[Len(packets)].seq)
    BY DEF IInv, EnqueueInv
  <2>2. SUFFICES ASSUME NEW i \in 1..Len(packets')
        PROVE  /\ packets'[i].hdr = i
               /\ rtp_headers'[i].ts = frame
               /\ packets'[i].len > 0
               /\ i = 1 => packets'[i].pos = 0
               /\ i > 1 => /\ packets'[i].pos = packets'[i-1].pos + packets'[i-1].len
                           /\ rtp_headers'[i].seq = NextSeq(rtp_headers'[i-1].seq)
    BY <1>5 DEF TxInv, NextSeq
  <2>3. Len(packets) \in Nat
    BY <1>1
  <2>4. CASE i \in 1..Len(packets)
    <3>1. /\ packets[i].hdr = i
          /\ rtp_headers[i].ts = frame
          /\ packets[i].len > 0
          /\ i = 1 => packets[i].pos = 0
          /\ i > 1 => /\ packets[i].pos = packets[i-1].pos + packets[i-1].len
                      /\ rtp_headers[i].seq = NextSeq(rtp_headers[i-1].seq)
      BY <2>4 DEF IInv, TxInv
    <3>2. packets'[i] = packets[i] /\ rtp_headers'[i] = rtp_headers[i]
      BY <1>5, <2>4
    <3>3. i > 1 => packets'[i-1] = packets[i-1] /\ rtp_headers'[i-1] = rtp_headers[i-1]
      <4>1. i > 1 => i - 1 \in 1..Len(packets)
        BY <2>3, <2>4
      <4> QED
        BY <1>5, <4>1
    <3> QED
      BY <3>1, <3>2, <3>3
  <2>5. CASE i = Len(packets) + 1
    <3>1. packets'[i] = p /\ rtp_headers'[i] = h
      BY <1>5, <2>5
    <3>2. i = 1 => packets = <<>>
      BY <1>1, <2>5
    <3>3. i > 1 => /\ packets # <<>>
                   /\ packets'[i-1] = packets[Len(packets)]
                   /\ rtp_headers'[i-1] = rtp_headers[Len(packets)]
      <4>1. i - 1 = Len(packets)
        BY <2>3, <2>5
      <4>2. i > 1 => Len(packets) \in 1..Len(packets) /\ packets # <<>>
        BY <2>3, <2>5
      <4> QED
        BY <1>5, <4>1, <4>2
    <3> QED
      BY <1>4, <2>1, <2>5, <3>1, <3>2, <3>3
  <2> QED
    BY <1>5, <2>3, <2>4, <2>5
<1> QED
  BY <1>2, <1>3, <1>4, <1>5, <1>6, <1>7 DEF h, p

\* While a frame is being enqueued only its transaction changes.
LEMMA EnqueuePreservesPast ==
  ASSUME IInv, UNCHANGED <<wire, captured, history>>
  PROVE  PastInv' /\ CapturedWhole' /\ CaptureOnlyStaysLocal'
<1>1. history' \in Seq(FrameRecord) /\ frame' = frame /\ frame \in Nat
  BY DEF IInv, TypeOK, DataTypeOK
<1> QED
  BY <1>1, CapturesKept, WireKept DEF IInv, PastInv

\* The last packet of a frame completes its transaction.
LEMMA LastPacketPreserves ==
  ASSUME IInv, pc = "enqueue", pc' = "flush",
         NEW set_m_bit \in BOOLEAN,
         enqueue_message(data_pos, data_left, set_m_bit),
         heap' \subseteq (1..MaxFrames) \X (InitBlocks \cup DeinitBlocks),
         UNCHANGED <<ctxVars, fpsVars, capVars, active, mediaVars, flushVars,
                     ret, wire, captured, history>>
  PROVE  IInv'
<1> USE DEF ctxVars, fpsVars, capVars, mediaVars, flushVars
<1>1. /\ data_left \in Nat /\ data_left > 0
      /\ data_pos + data_left = history[frame].len
      /\ \A i \in 1..Len(packets) : ~rtp_headers[i].marker
  BY DEF IInv, TypeOK, ControlTypeOK, EnqueueInv
<1>2. /\ TxInv'
      /\ rtp_headers' \in Seq(Header)
      /\ packets' \in Seq([hdr : Nat, pos : Nat, len : Nat])
      /\ seq' \in 0..SeqMod - 1 /\ sent_pkts' \in Nat
      /\ Len(packets') = Len(packets) + 1
      /\ \A i \in 1..Len(packets) : rtp_headers'[i] = rtp_headers[i]
      /\ packets'[Len(packets')] =
           [hdr |-> Len(packets'), pos |-> data_pos, len |-> data_left]
  BY <1>1, EnqueueKeepsTx
<1>3. TypeOK'
  BY <1>2 DEF IInv, TypeOK, ControlTypeOK, DataTypeOK, InitBlocks, DeinitBlocks
<1>4. FrameInv'
  BY DEF IInv, FrameInv
<1>5. EnqueueInv'
  BY DEF EnqueueInv
<1>6. FlushInv'
  <2>1. Len(packets) \in Nat
    BY DEF IInv, TypeOK, DataTypeOK
  <2>2. packets' # <<>>
    BY <1>2, <2>1
  <2>3. \A i \in 1..Len(packets') - 1 : ~rtp_headers'[i].marker
    <3>1. 1..Len(packets') - 1 = 1..Len(packets)
      BY <1>2, <2>1
    <3> QED
      BY <1>1, <1>2, <3>1
  <2>4. packets'[Len(packets')].pos + packets'[Len(packets')].len
          = history'[frame'].len
    BY <1>1, <1>2
  <2> QED
    BY <2>2, <2>3, <2>4 DEF FlushInv
<1> QED
  BY <1>2, <1>3, <1>4, <1>5, <1>6, EnqueuePreservesPast DEF IInv

\* A frame sent as one packet.
LEMMA EnqueueWholePreserves == ASSUME IInv, EnqueueWhole PROVE IInv'
<1>1. Fragmenting \in BOOLEAN
  BY DEF Fragmenting
<1>2. heap' \subseteq (1..MaxFrames) \X (InitBlocks \cup DeinitBlocks)
  BY DEF EnqueueWhole, IInv, TypeOK, DataTypeOK
<1>3. data_pos = 0
  BY DEF EnqueueWhole
<1> QED
  BY <1>1, <1>2, <1>3, LastPacketPreserves DEF EnqueueWhole, mediaVars, flushVars

\* The last fragment of a frame.
LEMMA EnqueueLastPreserves == ASSUME IInv, EnqueueLast PROVE IInv'
<1>1. (format = "GENERIC") \in BOOLEAN
  OBVIOUS
<1>2. heap' \subseteq (1..MaxFrames) \X (InitBlocks \cup DeinitBlocks)
  BY BoundAssumption
  DEF EnqueueLast, IInv, TypeOK, DataTypeOK, FrameInv, DeinitBlocks
<1> QED
  BY <1>1, <1>2, LastPacketPreserves DEF EnqueueLast, mediaVars, flushVars

\* A full fragment moves data_pos and data_left together.
LEMMA EnqueueFragmentPreserves == ASSUME IInv, EnqueueFragment PROVE IInv'
<1> USE DEF ctxVars, fpsVars, capVars, flushVars
<1>1. /\ pc = "enqueue" /\ pc' = "enqueue" /\ data_left > PayloadSize
      /\ enqueue_message(data_pos, PayloadSize, FALSE)
      /\ data_pos' = data_pos + PayloadSize
      /\ data_left' = data_left - PayloadSize
      /\ UNCHANGED <<ctxVars, fpsVars, capVars, active, flushVars,
                     ret, wire, captured, history>>
  BY DEF EnqueueFragment
<1>2. /\ data_left \in Nat /\ data_pos \in Nat
      /\ data_pos + data_left = history[frame].len
      /\ \A i \in 1..Len(packets) : ~rtp_headers[i].marker
  BY <1>1 DEF IInv, TypeOK, ControlTypeOK, EnqueueInv
<1>3. /\ TxInv'
      /\ rtp_headers' \in Seq(Header)
      /\ packets' \in Seq([hdr : Nat, pos : Nat, len : Nat])
      /\ seq' \in 0..SeqMod - 1 /\ sent_pkts' \in Nat
      /\ Len(packets') = Len(packets) + 1
      /\ \A i \in 1..Len(packets) : rtp_headers'[i] = rtp_headers[i]
      /\ rtp_headers'[Len(packets')] = [ts |-> frame, seq |-> seq, marker |-> FALSE]
      /\ packets'[Len(packets')] =
           [hdr |-> Len(packets'), pos |-> data_pos, len |-> PayloadSize]
      /\ seq' = NextSeq(rtp_headers'[Len(packets')].seq)
  <2>1. PayloadSize \in Nat /\ PayloadSize > 0
    BY PayloadAssumption
  <2> QED
    BY <1>1, <2>1, EnqueueKeepsTx
<1>4. heap' \subseteq (1..MaxFrames) \X (InitBlocks \cup DeinitBlocks)
  BY BoundAssumption
  DEF EnqueueFragment, IInv, TypeOK, DataTypeOK, FrameInv, DeinitBlocks
<1>5. TypeOK'
  <2>1. ControlTypeOK'
    BY <1>1, <1>2, <1>3, PayloadAssumption DEF IInv, TypeOK, ControlTypeOK
  <2> QED
    BY <1>1, <1>3, <1>4, <2>1 DEF IInv, TypeOK, DataTypeOK, InitBlocks, DeinitBlocks
<1>6. FrameInv'
  BY <1>1 DEF IInv, FrameInv
<1>7. EnqueueInv'
  <2>1. Len(packets) \in Nat
    BY DEF IInv, TypeOK, DataTypeOK
  <2>2. \A i \in 1..Len(packets') : ~rtp_headers'[i].marker
    <3>1. ~rtp_headers'[Len(packets')].marker
      BY <1>3
    <3>2. \A i \in 1..Len(packets') : i \in 1..Len(packets) \/ i = Len(packets')
      BY <1>3, <2>1
    <3>3. \A i \in 1..Len(packets) : ~rtp_headers'[i].marker
      BY <1>2, <1>3
    <3> QED
      BY <3>1, <3>2, <3>3
  <2>3. packets' # <<>>
    BY <1>3, <2>1
  <2>4. packets'[Len(packets')].pos + packets'[Len(packets')].len = data_pos'
    BY <1>1, <1>3
  <2>5. data_left' > 0 /\ data_pos' + data_left' = history'[frame'].len
    BY <1>1, <1>2, PayloadAssumption
  <2> QED
    BY <1>3, <2>2, <2>3, <2>4, <2>5 DEF EnqueueInv, NextSeq
<1>8. FlushInv'
  BY <1>1 DEF FlushInv
<1> QED
  BY <1>1, <1>3, <1>5, <1>6, <1>7, <1>8, EnqueuePreservesPast DEF IInv

-----------------------------------------------------------------------------
(* flush_queue *)

\* A flattened packet is a packet of the frame being pushed.
LEMMA FlattenType ==
  ASSUME IInv, pc # "idle", NEW i \in 1..Len(packets)
  PROVE  /\ flatten_packet(packets[i]) \in Packet
         /\ flatten_packet(packets[i]).ts = frame
         /\ frame \in 1..Len(history)
<1>1. packets[i] \in [hdr : Nat, pos : Nat, len : Nat]
  <2>1. packets \in Seq([hdr : Nat, pos : Nat, len : Nat])
    BY DEF IInv, TypeOK, DataTypeOK
  <2> QED
    BY <2>1, ElementOfSeq
<1>2. packets[i].hdr = i /\ rtp_headers[i].ts = frame
  BY DEF IInv, TxInv
<1>3. rtp_headers[i] \in Header
  BY DEF IInv, TypeOK, DataTypeOK, TxInv
<1>4. frame \in 1..Len(history)
  BY DEF IInv, TypeOK, DataTypeOK, FrameInv
<1> QED
  BY <1>1, <1>2, <1>3, <1>4 DEF flatten_packet, Packet, Header

\* Before a send, the flattened transaction is the whole frame.
LEMMA FlattenedWhole ==
  ASSUME IInv, pc \in {"paced", "send", "emit"}
  PROVE  /\ Flattened \in Seq(Packet)
         /\ Len(Flattened) = Len(packets)
         /\ Flattened # <<>>
         /\ \A i \in 1..Len(Flattened) : Flattened[i].ts = frame
         /\ Whole(Flattened, history[frame].len)
<1>1. /\ Len(packets) \in Nat /\ packets # <<>>
      /\ Len(packets) > 0
      /\ \A i \in 1..Len(packets) : packets[i].hdr = i
  BY DEF IInv, TypeOK, DataTypeOK, TxInv, FlushInv
<1>2. /\ \A i \in 1..Len(packets) : /\ flatten_packet(packets[i]) \in Packet
                                    /\ flatten_packet(packets[i]).ts = frame
  BY FlattenType
<1>3. /\ Flattened \in Seq(Packet)
      /\ Len(Flattened) = Len(packets)
      /\ Flattened # <<>>
      /\ \A i \in 1..Len(packets) : Flattened[i] = flatten_packet(packets[i])
  BY <1>1, <1>2 DEF Flattened
<1>4. \A i \in 1..Len(packets) :
        /\ Flattened[i].seq = rtp_headers[i].seq
        /\ Flattened[i].marker = rtp_headers[i].marker
        /\ Flattened[i].pos = packets[i].pos
        /\ Flattened[i].len = packets[i].len
  <2> SUFFICES ASSUME NEW i \in 1..Len(packets)
               PROVE  /\ flatten_packet(packets[i]).seq = rtp_headers[i].seq
                      /\ flatten_packet(packets[i]).marker = rtp_headers[i].marker
                      /\ flatten_packet(packets[i]).pos = packets[i].pos
                      /\ flatten_packet(packets[i]).len = packets[i].len
    BY <1>3
  <2> QED
    BY <1>1 DEF flatten_packet
<1>5. Contiguous(Flattened)
  <2> SUFFICES ASSUME NEW i \in 1..Len(packets)
      PROVE  /\ Flattened[i].len > 0
             /\ i = 1 => Flattened[i].pos = 0
             /\ i > 1 => /\ Flattened[i].pos = Flattened[i-1].pos + Flattened[i-1].len
                         /\ Flattened[i].seq = NextSeq(Flattened[i-1].seq)
    BY <1>3 DEF Contiguous
  <2>1. i > 1 => i - 1 \in 1..Len(packets)
    BY <1>1
  <2>2. /\ packets[i].len > 0
        /\ i = 1 => packets[i].pos = 0
        /\ i > 1 => /\ packets[i].pos = packets[i-1].pos + packets[i-1].len
                    /\ rtp_headers[i].seq = NextSeq(rtp_headers[i-1].seq)
    BY DEF IInv, TxInv
  <2> QED
    BY <1>4, <2>1, <2>2
<1>6. Flattened[Len(Flattened)].pos + Flattened[Len(Flattened)].len = history[frame].len
  <2>1. Len(packets) \in 1..Len(packets)
    BY <1>1
  <2>2. packets[Len(packets)].pos + packets[Len(packets)].len = history[frame].len
    BY DEF IInv, FlushInv
  <2> QED
    BY <1>3, <1>4, <2>1, <2>2
<1>7. Len(packets) > 1 =>
        \A i \in 1..Len(packets) : rtp_headers[i].marker <=> i = Len(packets)
  <2>1. \A i \in 1..Len(packets) - 1 : ~rtp_headers[i].marker
    BY DEF IInv, FlushInv
  <2>2. Len(packets) > 1 => rtp_headers[Len(packets)].marker
    BY DEF IInv, FlushInv
  <2>3. \A i \in 1..Len(packets) : i # Len(packets) => i \in 1..Len(packets) - 1
    BY <1>1
  <2> QED
    BY <2>1, <2>2, <2>3
<1>8. Len(Flattened) > 1 =>
        \A i \in 1..Len(Flattened) : Flattened[i].marker <=> i = Len(Flattened)
  BY <1>3, <1>4, <1>7
<1>9. \A i \in 1..Len(Flattened) : Flattened[i].ts = frame
  BY <1>2, <1>3
<1> QED
  BY <1>3, <1>5, <1>6, <1>8, <1>9 DEF Whole

\* However a push returns, the transaction is gone and the frame's length and
\* mode stand.
LEMMA ReturnPreserves ==
  ASSUME IInv, pc # "idle", NEW code \in {"OK", "SEND_ERROR"}, Return(code),
         UNCHANGED <<ctxVars, rtpVars, fpsVars, capVars>>,
         wire' \in Seq(Packet),
         \A k \in 1..Len(wire') : /\ wire'[k].ts \in 1..frame
                                  /\ ~history[wire'[k].ts].only,
         captured' \in Seq(Capture),
         \A k \in 1..Len(captured') :
            /\ captured'[k].ts \in 1..frame
            /\ Complete(captured'[k], history[captured'[k].ts].len)
  PROVE  IInv'
<1> USE DEF ctxVars, rtpVars, fpsVars, capVars
<1>1. /\ pc' = "idle" /\ ret' = code
      /\ data_pos' = 0 /\ data_left' = 0
      /\ ~capture_active' /\ capture_active' = FALSE
      /\ next' = 1 /\ frame_packets' = <<>>
      /\ active' = FALSE /\ rtp_headers' = <<>> /\ packets' = <<>>
      /\ heap' \subseteq heap
      /\ history' = [history EXCEPT ![frame].ret = code]
  BY DEF Return, deinit_transaction
<1>2. history \in Seq(FrameRecord) /\ frame \in 1..Len(history)
  BY DEF IInv, TypeOK, DataTypeOK, FrameInv
<1>3. /\ history' \in Seq(FrameRecord)
      /\ frame' = frame
      /\ \A f \in 1..frame : /\ history'[f].len = history[f].len
                             /\ history'[f].only = history[f].only
  <2> DEFINE r == [history[frame] EXCEPT !.ret = code]
  <2>1. history[frame] \in FrameRecord
    BY <1>2
  <2>2. r \in FrameRecord /\ r.len = history[frame].len /\ r.only = history[frame].only
    BY <2>1 DEF FrameRecord
  <2>3. history' = [history EXCEPT ![frame] = r]
    BY <1>1
  <2> HIDE DEF r
  <2>4. /\ history' \in Seq(FrameRecord) /\ Len(history') = Len(history)
        /\ \A f \in 1..frame : history'[f] = IF f = frame THEN r ELSE history[f]
    BY <1>2, <2>2, <2>3, ExceptSeq
  <2> QED
    BY <2>2, <2>4
<1>4. TypeOK'
  <2>1. ControlTypeOK'
    BY <1>1 DEF IInv, TypeOK, ControlTypeOK
  <2> QED
    BY <1>1, <1>3, <2>1 DEF IInv, TypeOK, DataTypeOK, InitBlocks, DeinitBlocks
<1>5. TxInv'
  BY <1>1 DEF TxInv
<1>6. FrameInv' /\ EnqueueInv' /\ FlushInv'
  BY <1>1 DEF FrameInv, EnqueueInv, FlushInv
<1>7. PastInv'
  BY <1>3 DEF PastInv
<1>8. CapturedWhole'
  BY <1>3 DEF CapturedWhole
<1>9. CaptureOnlyStaysLocal'
  BY <1>3 DEF CaptureOnlyStaysLocal
<1> QED
  BY <1>4, <1>5, <1>6, <1>7, <1>8, <1>9 DEF IInv

\* Setting the last marker changes neither order nor numbering.
LEMMA FlushBeginPreserves == ASSUME IInv, FlushBegin PROVE IInv'
<1> DEFINE n == Len(rtp_headers)
<1>1. /\ pc = "flush" /\ pc' \in {"paced", "send"}
      /\ rtp_headers' = IF Len(packets) > 1
                        THEN [rtp_headers EXCEPT ![n].marker = TRUE]
                        ELSE rtp_headers
      /\ capture_active' = (capture_cb # None)
      /\ next' = 1 /\ frame_packets' = <<>>
      /\ UNCHANGED <<rce_flags, format, seq, sent_pkts, fps, capture_cb,
                     capture_only, active, packets, heap, data_pos, data_left,
                     ret, wire, captured, history>>
  BY DEF FlushBegin, ctxVars, rtpVars, capVars, mediaVars
<1>2. /\ rtp_headers \in Seq(Header) /\ packets # <<>>
      /\ Len(packets) = n /\ n \in 1..Len(rtp_headers)
      /\ \A i \in 1..n - 1 : ~rtp_headers[i].marker
      /\ packets[Len(packets)].pos + packets[Len(packets)].len = history[frame].len
  <2>1. rtp_headers \in Seq(Header) /\ packets # <<>> /\ Len(packets) = n
        /\ packets \in Seq([hdr : Nat, pos : Nat, len : Nat])
    BY <1>1 DEF IInv, TypeOK, DataTypeOK, TxInv, FlushInv
  <2> QED
    BY <1>1, <2>1 DEF IInv, FlushInv
<1>3. /\ rtp_headers' \in Seq(Header)
      /\ Len(rtp_headers') = Len(packets)
      /\ \A i \in 1..Len(packets) : /\ rtp_headers'[i].ts = rtp_headers[i].ts
                                    /\ rtp_headers'[i].seq = rtp_headers[i].seq
      /\ \A i \in 1..Len(packets) - 1 : ~rtp_headers'[i].marker
      /\ Len(packets) > 1 => rtp_headers'[Len(packets)].marker
  <2>1. CASE Len(packets) > 1
    <3> DEFINE h == [rtp_headers[n] EXCEPT !.marker = TRUE]
    <3>1. h \in Header /\ h.ts = rtp_headers[n].ts /\ h.seq = rtp_headers[n].seq
          /\ h.marker = TRUE
      <4>1. rtp_headers[n] \in Header
        BY <1>2, ElementOfSeq
      <4> QED
        BY <4>1 DEF Header
    <3>2. rtp_headers' = [rtp_headers EXCEPT ![n] = h]
      BY <1>1, <2>1
    <3> HIDE DEF h
    <3>3. /\ rtp_headers' \in Seq(Header) /\ Len(rtp_headers') = n
          /\ \A i \in 1..n : rtp_headers'[i] = IF i = n THEN h ELSE rtp_headers[i]
      BY <1>2, <3>1, <3>2, ExceptSeq
    <3> HIDE DEF n
    <3> QED
      BY <1>2, <3>1, <3>3
  <2>2. CASE ~(Len(packets) > 1)
    BY <1>1, <1>2, <2>2
  <2> QED
    BY <2>1, <2>2
<1>4. force_sync' \in BOOLEAN
  BY DEF FlushBegin, SyncFrameRate, IInv, TypeOK, ControlTypeOK
<1>5. capture_active' \in BOOLEAN
  BY <1>1
<1>6. TypeOK'
  <2>1. ControlTypeOK'
    BY <1>1, <1>4, <1>5 DEF IInv, TypeOK, ControlTypeOK
  <2> QED
    BY <1>1, <1>3, <2>1 DEF IInv, TypeOK, DataTypeOK, InitBlocks, DeinitBlocks
<1>7. TxInv'
  <2> SUFFICES ASSUME NEW i \in 1..Len(packets)
      PROVE  /\ packets[i].hdr = i
             /\ rtp_headers'[i].ts = frame
             /\ packets[i].len > 0
             /\ i = 1 => packets[i].pos = 0
             /\ i > 1 => /\ packets[i].pos = packets[i-1].pos + packets[i-1].len
                         /\ rtp_headers'[i].seq = NextSeq(rtp_headers'[i-1].seq)
    BY <1>1, <1>3 DEF TxInv
  <2>1. i > 1 => i - 1 \in 1..Len(packets)
    BY <1>2
  <2> QED
    BY <1>3, <2>1 DEF IInv, TxInv
<1>8. FrameInv'
  BY <1>1 DEF IInv, FrameInv
<1>9. EnqueueInv'
  BY <1>1 DEF EnqueueInv
<1>10. FlushInv'
  <2>1. 1 \in 1..Len(packets)
    BY <1>2
  <2>2. Len(frame_packets') = 0 /\ 1..Len(frame_packets') = {}
    BY <1>1
  <2> QED
    BY <1>1, <1>2, <1>3, <2>1, <2>2 DEF FlushInv
<1> QED
  BY <1>1, <1>6, <1>7, <1>8, <1>9, <1>10, EnqueuePreservesPast DEF IInv

\* One paced packet: it joins the capture, and the wire unless capture-only.
LEMMA SendPacedPreserves == ASSUME IInv, SendPaced PROVE IInv'
<1> DEFINE p == flatten_packet(packets[next])
<1>1. /\ pc = "paced"
      /\ frame_packets' = IF capture_active THEN Append(frame_packets, p)
                          ELSE frame_packets
      /\ wire' = IF capture_only THEN wire ELSE Append(wire, p)
      /\ next' = next + 1
      /\ pc' = IF next = Len(packets) THEN "emit" ELSE "paced"
      /\ UNCHANGED <<rce_flags, format, seq, sent_pkts, fps, force_sync,
                     capture_cb, capture_only, capture_active, active,
                     rtp_headers, packets, heap, data_pos, data_left,
                     ret, captured, history>>
  BY DEF SendPaced, ctxVars, rtpVars, fpsVars, capVars, txVars, mediaVars
<1>2. /\ next \in 1..Len(packets) /\ Len(packets) \in Nat
      /\ frame_packets \in Seq(Packet) /\ wire \in Seq(Packet)
      /\ history \in Seq(FrameRecord)
      /\ history[frame].only = capture_only
      /\ capture_active => /\ Len(frame_packets) = next - 1
                           /\ \A i \in 1..Len(frame_packets) :
                                frame_packets[i] = flatten_packet(packets[i])
  <2>1. /\ Len(packets) \in Nat /\ frame_packets \in Seq(Packet)
        /\ wire \in Seq(Packet) /\ history \in Seq(FrameRecord)
    BY DEF IInv, TypeOK, DataTypeOK
  <2>2. history[frame].only = capture_only
    BY <1>1 DEF IInv, FrameInv
  <2>3. next \in 1..Len(packets)
    BY <1>1 DEF IInv, FlushInv
  <2>4. capture_active => /\ Len(frame_packets) = next - 1
                          /\ \A i \in 1..Len(frame_packets) :
                               frame_packets[i] = flatten_packet(packets[i])
    BY <1>1 DEF IInv, FlushInv
  <2> QED
    BY <2>1, <2>2, <2>3, <2>4
<1>3. p \in Packet /\ p.ts = frame /\ frame \in 1..Len(history)
  BY <1>1, <1>2, FlattenType
<1> HIDE DEF p
<1>4. /\ frame_packets' \in Seq(Packet)
      /\ wire' \in Seq(Packet)
      /\ \A k \in 1..Len(wire') : \/ k \in 1..Len(wire) /\ wire'[k] = wire[k]
                                  \/ wire'[k] = p /\ ~capture_only
      /\ capture_active => /\ Len(frame_packets') = next
                           /\ \A i \in 1..next - 1 : frame_packets'[i] = frame_packets[i]
                           /\ frame_packets'[next] = p
  BY <1>1, <1>2, <1>3
<1>5. TypeOK'
  <2>1. ControlTypeOK'
    BY <1>1 DEF IInv, TypeOK, ControlTypeOK
  <2> QED
    BY <1>1, <1>4, <2>1 DEF IInv, TypeOK, DataTypeOK, InitBlocks, DeinitBlocks
<1>6. TxInv'
  BY <1>1 DEF IInv, TxInv
<1>7. FrameInv'
  BY <1>1 DEF IInv, FrameInv
<1>8. EnqueueInv'
  BY <1>1 DEF EnqueueInv
<1>9. FlushInv'
  <2>1. capture_active =>
          \A i \in 1..Len(frame_packets') :
             frame_packets'[i] = flatten_packet(packets[i])
    <3> SUFFICES ASSUME capture_active, NEW i \in 1..next
                 PROVE  frame_packets'[i] = flatten_packet(packets[i])
      BY <1>4
    <3>1. CASE i = next
      BY <1>4, <3>1 DEF p
    <3>2. CASE i # next
      BY <1>2, <1>4, <3>2
    <3> QED
      BY <3>1, <3>2
  <2>3. pc' = "paced" => next' \in 1..Len(packets)
    BY <1>1, <1>2
  <2>4. pc' = "emit" => next = Len(packets)
    BY <1>1
  <2>5. /\ packets # <<>>
        /\ packets[Len(packets)].pos + packets[Len(packets)].len = history[frame].len
        /\ \A i \in 1..Len(packets) - 1 : ~rtp_headers[i].marker
        /\ Len(packets) > 1 => rtp_headers[Len(packets)].marker
    BY <1>1 DEF IInv, FlushInv
  <2> QED
    BY <1>1, <1>2, <1>4, <2>1, <2>3, <2>4, <2>5 DEF FlushInv, flatten_packet
<1>10. PastInv'
  BY <1>1, <1>3, <1>4 DEF IInv, PastInv
<1>11. CapturedWhole'
  BY <1>1, <1>2, CapturesKept
<1>12. CaptureOnlyStaysLocal'
  BY <1>1, <1>2, <1>3, <1>4 DEF IInv, CaptureOnlyStaysLocal
<1> QED
  BY <1>5, <1>6, <1>7, <1>8, <1>9, <1>10, <1>11, <1>12 DEF IInv

\* The unpaced send puts the whole transaction on the wire, unless capture-only.
LEMMA SendAllPreserves == ASSUME IInv, SendAll PROVE IInv'
<1>1. /\ pc = "send" /\ pc' = "emit"
      /\ frame_packets' = IF capture_active THEN Flattened ELSE <<>>
      /\ wire' = IF capture_only THEN wire ELSE wire \o Flattened
      /\ UNCHANGED <<rce_flags, format, seq, sent_pkts, fps, force_sync,
                     capture_cb, capture_only, capture_active, next, active,
                     rtp_headers, packets, heap, data_pos, data_left,
                     ret, captured, history>>
  BY DEF SendAll, ctxVars, rtpVars, fpsVars, capVars, txVars, mediaVars
<1>2. /\ Flattened \in Seq(Packet) /\ Len(Flattened) = Len(packets)
      /\ \A i \in 1..Len(Flattened) : Flattened[i].ts = frame
  BY <1>1, FlattenedWhole
<1>3. /\ wire \in Seq(Packet) /\ history \in Seq(FrameRecord)
      /\ frame \in 1..Len(history)
      /\ history[frame].only = capture_only
  BY <1>1 DEF IInv, TypeOK, DataTypeOK, FrameInv
<1>4. /\ wire' \in Seq(Packet)
      /\ \A k \in 1..Len(wire') : \/ k \in 1..Len(wire) /\ wire'[k] = wire[k]
                                  \/ wire'[k].ts = frame /\ ~capture_only
  <2> DEFINE F == Flattened
  <2> HIDE DEF F
  <2>1. F \in Seq(Packet) /\ \A i \in 1..Len(F) : F[i].ts = frame
    BY <1>2 DEF F
  <2>2. wire' = IF capture_only THEN wire ELSE wire \o F
    BY <1>1 DEF F
  <2>3. /\ wire \o F \in Seq(Packet)
        /\ Len(wire \o F) = Len(wire) + Len(F)
        /\ \A k \in 1..Len(wire) + Len(F) :
             (wire \o F)[k] = IF k <= Len(wire) THEN wire[k] ELSE F[k - Len(wire)]
    BY <1>3, <2>1
  <2> QED
    BY <1>3, <2>1, <2>2, <2>3
<1>5. TypeOK'
  <2>1. ControlTypeOK'
    BY <1>1 DEF IInv, TypeOK, ControlTypeOK
  <2>2. frame_packets' \in Seq(Packet)
    BY <1>1, <1>2
  <2> QED
    BY <1>1, <1>4, <2>1, <2>2 DEF IInv, TypeOK, DataTypeOK, InitBlocks, DeinitBlocks
<1>6. TxInv'
  BY <1>1 DEF IInv, TxInv
<1>7. FrameInv'
  BY <1>1 DEF IInv, FrameInv
<1>8. EnqueueInv'
  BY <1>1 DEF EnqueueInv
<1>9. FlushInv'
  <2>1. /\ packets # <<>>
        /\ packets[Len(packets)].pos + packets[Len(packets)].len = history[frame].len
        /\ \A i \in 1..Len(packets) - 1 : ~rtp_headers[i].marker
        /\ Len(packets) > 1 => rtp_headers[Len(packets)].marker
    BY <1>1 DEF IInv, FlushInv
  <2>2. capture_active =>
          /\ Len(frame_packets') = Len(packets)
          /\ \A i \in 1..Len(packets) : frame_packets'[i] = flatten_packet(packets[i])
    BY <1>1, <1>2 DEF Flattened
  <2> QED
    BY <1>1, <2>1, <2>2 DEF FlushInv, flatten_packet
<1>10. PastInv'
  BY <1>1, <1>3, <1>4 DEF IInv, PastInv
<1>11. CapturedWhole'
  BY <1>1, <1>3, CapturesKept
<1>12. CaptureOnlyStaysLocal'
  BY <1>1, <1>3, <1>4 DEF IInv, CaptureOnlyStaysLocal
<1> QED
  BY <1>5, <1>6, <1>7, <1>8, <1>9, <1>10, <1>11, <1>12 DEF IInv

\* A failed paced send captures nothing.
LEMMA SendPacedFailsPreserves == ASSUME IInv, SendPacedFails PROVE IInv'
<1>1. /\ pc # "idle" /\ Return("SEND_ERROR")
      /\ UNCHANGED <<ctxVars, rtpVars, fpsVars, capVars, wire, captured>>
  BY DEF SendPacedFails
<1>2. wire \in Seq(Packet) /\ captured \in Seq(Capture)
  BY DEF IInv, TypeOK, DataTypeOK
<1>3. \A k \in 1..Len(wire) : wire[k].ts \in 1..frame /\ ~history[wire[k].ts].only
  BY DEF IInv, PastInv, CaptureOnlyStaysLocal
<1>4. \A k \in 1..Len(captured) :
         /\ captured[k].ts \in 1..frame
         /\ Complete(captured[k], history[captured[k].ts].len)
  BY DEF IInv, PastInv, CapturedWhole
<1> QED
  BY <1>1, <1>2, <1>3, <1>4, ReturnPreserves

\* A failed unpaced send leaves only packets of a live frame on the wire.
LEMMA SendAllFailsPreserves ==
  ASSUME IInv, NEW k \in 0..Len(packets), SendAllFails(k)
  PROVE  IInv'
<1> DEFINE F == SubSeq(Flattened, 1, k)
<1>1. /\ pc = "send" /\ ~capture_only /\ k < Len(packets)
      /\ wire' = wire \o F
      /\ Return("SEND_ERROR")
      /\ UNCHANGED <<ctxVars, rtpVars, fpsVars, capVars, captured>>
  BY DEF SendAllFails
<1>2. F \in Seq(Packet) /\ \A i \in 1..Len(F) : F[i].ts = frame
  <2>1. /\ Flattened \in Seq(Packet) /\ Len(Flattened) = Len(packets)
        /\ \A i \in 1..Len(Flattened) : Flattened[i].ts = frame
    BY <1>1, FlattenedWhole
  <2>2. k \in Nat /\ k < Len(Flattened) /\ Len(packets) \in Nat
    BY <1>1, <2>1 DEF IInv, TypeOK, DataTypeOK
  <2> HIDE DEF Flattened
  <2>3. /\ F \in Seq(Packet) /\ Len(F) = k
        /\ \A i \in 1..k : F[i] = Flattened[i]
    BY <2>1, <2>2
  <2> QED
    BY <2>1, <2>2, <2>3
<1> HIDE DEF F
<1>3. /\ wire \in Seq(Packet) /\ captured \in Seq(Capture)
      /\ frame \in Nat /\ frame \in 1..frame
      /\ history[frame].only = capture_only
  BY <1>1 DEF IInv, TypeOK, DataTypeOK, FrameInv
<1>4. \A j \in 1..Len(wire) : wire[j].ts \in 1..frame /\ ~history[wire[j].ts].only
  BY DEF IInv, PastInv, CaptureOnlyStaysLocal
<1>5. /\ wire' \in Seq(Packet)
      /\ \A j \in 1..Len(wire') : \/ j \in 1..Len(wire) /\ wire'[j] = wire[j]
                                  \/ wire'[j].ts = frame
  BY <1>1, <1>2, <1>3
<1>6. \A j \in 1..Len(wire') : wire'[j].ts \in 1..frame /\ ~history[wire'[j].ts].only
  BY <1>1, <1>3, <1>4, <1>5
<1>7. \A j \in 1..Len(captured) :
         /\ captured[j].ts \in 1..frame
         /\ Complete(captured[j], history[captured[j].ts].len)
  BY DEF IInv, PastInv, CapturedWhole
<1> QED
  BY <1>1, <1>3, <1>5, <1>6, <1>7, ReturnPreserves

\* The capture of a frame is its flattened transaction.
LEMMA EmitCapturePreserves == ASSUME IInv, EmitCapture PROVE IInv'
<1> DEFINE c == [cb      |-> capture_cb,
                 ts      |-> rtp_headers[1].ts,
                 first   |-> rtp_headers[1].seq,
                 last    |-> rtp_headers[Len(rtp_headers)].seq,
                 packets |-> frame_packets]
<1>1. /\ pc = "emit" /\ Return("OK")
      /\ captured' = IF capture_active /\ capture_cb # None /\ frame_packets # <<>>
                     THEN Append(captured, c) ELSE captured
      /\ UNCHANGED <<ctxVars, rtpVars, fpsVars, capVars, wire>>
  BY DEF EmitCapture
<1>2. wire \in Seq(Packet) /\ captured \in Seq(Capture)
  BY DEF IInv, TypeOK, DataTypeOK
<1>3. \A k \in 1..Len(wire) : wire[k].ts \in 1..frame /\ ~history[wire[k].ts].only
  BY DEF IInv, PastInv, CaptureOnlyStaysLocal
<1>4. \A k \in 1..Len(captured) :
         /\ captured[k].ts \in 1..frame
         /\ Complete(captured[k], history[captured[k].ts].len)
  BY DEF IInv, PastInv, CapturedWhole
<1>5. CASE captured' = captured
  BY <1>1, <1>2, <1>3, <1>4, <1>5, ReturnPreserves
<1>6. CASE capture_active /\ captured' = Append(captured, c)
  <2>1. /\ Flattened \in Seq(Packet) /\ Flattened # <<>>
        /\ Len(Flattened) = Len(packets)
        /\ \A i \in 1..Len(Flattened) : Flattened[i].ts = frame
        /\ Whole(Flattened, history[frame].len)
    BY <1>1, FlattenedWhole
  <2>2. frame_packets = Flattened
    <3>1. /\ frame_packets \in Seq(Packet) /\ Len(frame_packets) = Len(packets)
          /\ \A i \in 1..Len(packets) : frame_packets[i] = flatten_packet(packets[i])
      BY <1>1, <1>6 DEF IInv, TypeOK, DataTypeOK, FlushInv
    <3>2. \A i \in 1..Len(packets) : Flattened[i] = flatten_packet(packets[i])
      BY DEF Flattened
    <3> QED
      BY <2>1, <3>1, <3>2, SeqEqual
  <2>3. /\ Len(packets) = Len(rtp_headers) /\ Len(packets) \in Nat
        /\ 1 \in 1..Len(packets) /\ Len(packets) \in 1..Len(packets)
        /\ rtp_headers[1] \in Header /\ rtp_headers[Len(packets)] \in Header
    BY <2>1 DEF IInv, TypeOK, DataTypeOK, TxInv
  <2>4. /\ Flattened[1].seq = rtp_headers[1].seq
        /\ Flattened[Len(packets)].seq = rtp_headers[Len(packets)].seq
        /\ rtp_headers[1].ts = frame
    BY <2>3 DEF Flattened, flatten_packet, IInv, TxInv
  <2>5. Complete(c, history[frame].len)
    BY <2>1, <2>2, <2>3, <2>4 DEF Complete
  <2>6. capture_cb \in Callbacks
    BY <1>6 DEF IInv, TypeOK, ControlTypeOK, FrameInv
  <2>7. c \in Capture
    BY <2>1, <2>2, <2>3, <2>6 DEF Capture, Header
  <2>8. c.ts = frame /\ frame \in 1..frame
    BY <1>1, <2>4 DEF IInv, FrameInv, TypeOK, DataTypeOK
  <2> HIDE DEF c
  <2>9. /\ captured' \in Seq(Capture)
        /\ \A k \in 1..Len(captured') : \/ k \in 1..Len(captured) /\ captured'[k] = captured[k]
                                        \/ captured'[k] = c
    BY <1>2, <1>6, <2>7
  <2>10. \A k \in 1..Len(captured') :
           /\ captured'[k].ts \in 1..frame
           /\ Complete(captured'[k], history[captured'[k].ts].len)
    BY <1>4, <2>5, <2>8, <2>9
  <2> QED
    BY <1>1, <1>2, <1>3, <2>9, <2>10, ReturnPreserves
<1> QED
  BY <1>1, <1>5, <1>6

-----------------------------------------------------------------------------
(* The allocations *)

\* While a frame is pushed its blocks are on the heap; of the frames before
\* only what deinit_transaction does not free.
HeapInv ==
  /\ active <=> pc # "idle"
  /\ \A b \in heap : (b[1] # frame \/ pc = "idle")
       => format = "ATLAS" /\ b[2] = "media_headers"

\* The end of a push frees what it allocated.
LEMMA ReturnReleases ==
  ASSUME TypeOK, HeapInv, NEW code, Return(code), pc # "idle", UNCHANGED ctxVars
  PROVE  HeapInv'
<1>1. /\ active' = FALSE /\ pc' = "idle" /\ format' = format
      /\ heap' = {a \in heap : a[1] # frame \/ a[2] \notin DeinitBlocks}
  BY DEF Return, deinit_transaction, ctxVars
<1>2. ASSUME NEW b \in heap, b[2] \notin DeinitBlocks
      PROVE  format = "ATLAS" /\ b[2] = "media_headers"
  <2>1. b[2] \in InitBlocks /\ format \in {"GENERIC", "H26X", "ATLAS"}
    BY <1>2, FormatAssumption DEF TypeOK, DataTypeOK, ControlTypeOK
  <2> QED BY <1>2, <2>1 DEF InitBlocks, DeinitBlocks
<1> QED BY <1>1, <1>2 DEF HeapInv

\* Every step keeps account of the allocations.
LEMMA HeapPreserved == ASSUME TypeOK, HeapInv, [Next]_vars PROVE HeapInv'
<1> USE DEF ctxVars, rtpVars, fpsVars, capVars, txVars, mediaVars, flushVars, HeapInv
<1>1. CASE Configure
  BY <1>1 DEF Configure, SetPacketCapture, ClearPacketCapture, SetFps
<1>2. CASE RefuseFrame
  BY <1>2 DEF RefuseFrame
<1>3. ASSUME NEW len \in Lens, PushFrame(len) PROVE HeapInv'
  <2>1. Len(history') = Len(history) + 1 /\ Len(history) \in Nat
    BY <1>3 DEF PushFrame, TypeOK, DataTypeOK
  <2>2. /\ pc = "idle" /\ pc' = "enqueue" /\ active' = TRUE /\ format' = format
        /\ heap' \subseteq heap \cup {<<frame + 1, b>> : b \in InitBlocks}
    BY <1>3 DEF PushFrame
  <2> QED BY <2>1, <2>2
<1>4. CASE EnqueueWhole \/ EnqueueFragment \/ EnqueueLast
  <2>1. /\ heap' \subseteq heap \cup {<<frame, "tmp">>}
        /\ UNCHANGED <<active, history, format>>
        /\ pc = "enqueue" /\ pc' # "idle"
    BY <1>4 DEF EnqueueWhole, EnqueueFragment, EnqueueLast
  <2> QED BY <2>1
<1>5. CASE FlushBegin \/ SendPaced \/ SendAll
  <2>1. /\ UNCHANGED <<heap, active, history, format>>
        /\ pc # "idle" /\ pc' # "idle"
    BY <1>5 DEF FlushBegin, SendPaced, SendAll
  <2> QED BY <2>1
<1>6. CASE SendPacedFails
  BY <1>6, ReturnReleases DEF SendPacedFails
<1>7. ASSUME NEW k \in 0..Len(packets), SendAllFails(k) PROVE HeapInv'
  BY <1>7, ReturnReleases DEF SendAllFails
<1>8. CASE EmitCapture
  BY <1>8, ReturnReleases DEF EmitCapture
<1>9. CASE UNCHANGED vars
  BY <1>9 DEF vars
<1> QED
  BY <1>1, <1>2, <1>3, <1>4, <1>5, <1>6, <1>7, <1>8, <1>9 DEF Next, PushStep

-----------------------------------------------------------------------------
(* The theorems *)

\* The invariant is inductive.
LEMMA StepPreserves == IInv /\ [Next]_vars => IInv'
<1> SUFFICES ASSUME IInv, [Next]_vars PROVE IInv'
  OBVIOUS
<1>1. CASE Configure
  BY <1>1, ConfigurePreserves
<1>2. CASE RefuseFrame
  BY <1>2, RefuseFramePreserves
<1>3. CASE \E len \in Lens : PushFrame(len)
  BY <1>3, PushFramePreserves
<1>4. CASE PushStep
  BY <1>4, EnqueueWholePreserves, EnqueueFragmentPreserves, EnqueueLastPreserves,
     FlushBeginPreserves, SendPacedPreserves, SendPacedFailsPreserves,
     SendAllPreserves, SendAllFailsPreserves, EmitCapturePreserves
  DEF PushStep
<1>5. CASE UNCHANGED vars
  <2> USE DEF vars, ctxVars, rtpVars, fpsVars, capVars, txVars, mediaVars, flushVars
  <2>1. TypeOK'
    BY <1>5 DEF IInv, TypeOK, ControlTypeOK, DataTypeOK, InitBlocks, DeinitBlocks
  <2>2. TxInv' /\ FrameInv' /\ EnqueueInv'
    BY <1>5 DEF IInv, TxInv, FrameInv, EnqueueInv
  <2>3. FlushInv'
    BY <1>5 DEF IInv, FlushInv, flatten_packet
  <2> QED
    BY <1>5, <2>1, <2>2, <2>3, EnqueuePreservesPast DEF IInv
<1> QED
  BY <1>1, <1>2, <1>3, <1>4, <1>5 DEF Next

\* The inductive invariant holds in every reachable state.
THEOREM Inductive == Spec => []IInv
  BY InitEstablishes, StepPreserves, PTL DEF Spec

\* The variables of the sending path stay in their types, for every stream:
\* in particular sequence numbers wrap below SeqMod and every packet on the
\* wire or in a capture is of a frame that was pushed.
THEOREM TypeCorrect == Spec => []TypeOK
<1>1. IInv => TypeOK
  BY DEF IInv
<1> QED
  BY Inductive, <1>1, PTL

\* No packet of a frame pushed in capture-only mode is ever sent.
THEOREM CaptureOnlyIsLocal == Spec => []CaptureOnlyStaysLocal
<1>1. IInv => CaptureOnlyStaysLocal
  BY DEF IInv
<1> QED
  BY Inductive, <1>1, PTL

\* Every call of a capture callback hands over all packets of one frame, in
\* order, numbered consecutively, with the marker on the last of several.
THEOREM CapturesAreWhole == Spec => []CapturedWhole
<1>1. IInv => CapturedWhole
  BY DEF IInv
<1> QED
  BY Inductive, <1>1, PTL

\* Between two pushes nothing of a transaction is left but the media headers
\* of an ATLAS stream, however the pushes before ended.
THEOREM NothingLeaks == Spec => []TransactionReleased
<1>1. Init => HeapInv
  BY DEF Init, HeapInv
<1>2. TypeOK /\ HeapInv /\ [Next]_vars => HeapInv'
  BY HeapPreserved
<1>3. HeapInv => TransactionReleased
  BY DEF HeapInv, TransactionReleased
<1> QED
  BY <1>1, <1>2, <1>3, TypeCorrect, PTL DEF Spec

-----------------------------------------------------------------------------
(* What each frame left on the wire *)

\* The packets of frame f in w are those after the a-th, up to the b-th.
Interval(w, f, a, b) ==
  /\ a \in Nat /\ b \in Nat /\ a <= b /\ b <= Len(w)
  /\ \A k \in 1..Len(w) : w[k].ts = f <=> (a < k /\ k <= b)

\* An interval of packets is the stretch of its frame.
LEMMA StretchOfInterval ==
  ASSUME NEW S, NEW w \in Seq(S), NEW f, NEW a, NEW b, Interval(w, f, a, b)
  PROVE  Stretch(w, f) = SubSeq(w, a + 1, b)
<1>1. /\ a \in Nat /\ b \in Nat /\ a <= b /\ b <= Len(w) /\ Len(w) \in Nat
      /\ Positions(w, f) = {k \in 1..Len(w) : a < k /\ k <= b}
  BY DEF Interval, Positions
<1>2. CASE a = b
  <2>1. Positions(w, f) = {}
    BY <1>1, <1>2
  <2>2. SubSeq(w, a + 1, b) = <<>>
    BY <1>1, <1>2
  <2> QED
    BY <2>1, <2>2 DEF Stretch
<1>3. CASE a < b
  <2> DEFINE P == Positions(w, f)
  <2>1. /\ a + 1 \in P /\ b \in P
        /\ \A k \in P : k \in Nat /\ a + 1 <= k /\ k <= b
    BY <1>1, <1>3
  <2> HIDE DEF P
  <2>2. Min(P) = a + 1
    <3>1. \A x \in P : (\A y \in P : x <= y) <=> x = a + 1
      BY <1>1, <2>1
    <3> QED
      BY <2>1, <3>1 DEF Min
  <2>3. Max(P) = b
    <3>1. \A x \in P : (\A y \in P : x >= y) <=> x = b
      BY <1>1, <2>1
    <3> QED
      BY <2>1, <3>1 DEF Max
  <2>4. P # {}
    BY <2>1
  <2> QED
    BY <2>2, <2>3, <2>4 DEF Stretch, P
<1> QED
  BY <1>1, <1>2, <1>3

\* A stretch is a sequence of packets, as long as its interval.
LEMMA StretchLength ==
  ASSUME NEW S, NEW w \in Seq(S), NEW f, NEW a, NEW b, Interval(w, f, a, b)
  PROVE  Stretch(w, f) \in Seq(S) /\ Len(Stretch(w, f)) = b - a
<1>1. a \in Nat /\ b \in Nat /\ a <= b /\ b <= Len(w)
  BY DEF Interval
<1>2. SubSeq(w, a + 1, b) \in Seq(S) /\ Len(SubSeq(w, a + 1, b)) = b - a
  BY <1>1
<1> QED
  BY <1>2, StretchOfInterval

\* Packets of other frames after it leave a stretch alone.
LEMMA StretchKept ==
  ASSUME NEW S, NEW w \in Seq(S), NEW s \in Seq(S), NEW f, NEW a, NEW b,
         Interval(w, f, a, b), \A i \in 1..Len(s) : s[i].ts # f
  PROVE  Interval(w \o s, f, a, b) /\ Stretch(w \o s, f) = Stretch(w, f)
<1>1. /\ w \o s \in Seq(S) /\ Len(w \o s) = Len(w) + Len(s)
      /\ \A k \in 1..Len(w) + Len(s) :
           (w \o s)[k] = IF k <= Len(w) THEN w[k] ELSE s[k - Len(w)]
      /\ Len(w) \in Nat /\ Len(s) \in Nat
  OBVIOUS
<1>2. /\ a \in Nat /\ b \in Nat /\ a <= b /\ b <= Len(w)
      /\ \A k \in 1..Len(w) : w[k].ts = f <=> (a < k /\ k <= b)
  BY DEF Interval
<1>3. Interval(w \o s, f, a, b)
  <2> SUFFICES ASSUME NEW k \in 1..Len(w) + Len(s)
               PROVE  (w \o s)[k].ts = f <=> (a < k /\ k <= b)
    BY <1>1, <1>2 DEF Interval
  <2>1. CASE k <= Len(w)
    BY <1>1, <1>2, <2>1
  <2>2. CASE k > Len(w)
    <3>1. k - Len(w) \in 1..Len(s)
      BY <1>1, <2>2
    <3> QED
      BY <1>1, <1>2, <2>2, <3>1
  <2> QED
    BY <1>1, <2>1, <2>2
<1>4. SubSeq(w \o s, a + 1, b) = SubSeq(w, a + 1, b)
  <2> DEFINE u == SubSeq(w \o s, a + 1, b)  v == SubSeq(w, a + 1, b)
  <2>1. /\ u \in Seq(S) /\ Len(u) = b - a
        /\ \A i \in 1..b - a : u[i] = (w \o s)[a + i]
    BY <1>1, <1>2
  <2>2. /\ v \in Seq(S) /\ Len(v) = b - a
        /\ \A i \in 1..b - a : v[i] = w[a + i]
    BY <1>1, <1>2
  <2>3. \A i \in 1..b - a : (w \o s)[a + i] = w[a + i]
    BY <1>1, <1>2
  <2> HIDE DEF u, v
  <2>4. \A i \in 1..Len(u) : u[i] = v[i]
    BY <2>1, <2>2, <2>3
  <2>5. u = v
    BY <2>1, <2>2, <2>4, SeqEqual
  <2> QED
    BY <2>5 DEF u, v
<1> QED
  BY <1>1, <1>3, <1>4, StretchOfInterval

\* Packets of the last frame after it make its stretch longer.
LEMMA StretchGrows ==
  ASSUME NEW S, NEW w \in Seq(S), NEW s \in Seq(S), NEW f, NEW a,
         Interval(w, f, a, Len(w)), \A i \in 1..Len(s) : s[i].ts = f
  PROVE  /\ Interval(w \o s, f, a, Len(w \o s))
         /\ Stretch(w \o s, f) = Stretch(w, f) \o s
<1>1. /\ w \o s \in Seq(S) /\ Len(w \o s) = Len(w) + Len(s)
      /\ \A k \in 1..Len(w) + Len(s) :
           (w \o s)[k] = IF k <= Len(w) THEN w[k] ELSE s[k - Len(w)]
      /\ Len(w) \in Nat /\ Len(s) \in Nat
  OBVIOUS
<1>2. /\ a \in Nat /\ a <= Len(w)
      /\ \A k \in 1..Len(w) : w[k].ts = f <=> (a < k /\ k <= Len(w))
  BY DEF Interval
<1>3. Interval(w \o s, f, a, Len(w \o s))
  <2> SUFFICES ASSUME NEW k \in 1..Len(w) + Len(s)
               PROVE  (w \o s)[k].ts = f <=> a < k
    BY <1>1, <1>2 DEF Interval
  <2>1. CASE k <= Len(w)
    BY <1>1, <1>2, <2>1
  <2>2. CASE k > Len(w)
    <3>1. k - Len(w) \in 1..Len(s)
      BY <1>1, <2>2
    <3> QED
      BY <1>1, <1>2, <2>2, <3>1
  <2> QED
    BY <1>1, <2>1, <2>2
<1>4. SubSeq(w \o s, a + 1, Len(w \o s)) = SubSeq(w, a + 1, Len(w)) \o s
  <2> DEFINE u == SubSeq(w \o s, a + 1, Len(w \o s))
             v == SubSeq(w, a + 1, Len(w))
  <2> DEFINE n == Len(w) - a
  <2>0. n \in Nat /\ Len(w) = a + n
    BY <1>1, <1>2
  <2>1. /\ u \in Seq(S) /\ Len(u) = n + Len(s)
        /\ \A i \in 1..n + Len(s) : u[i] = (w \o s)[a + i]
    BY <1>1, <1>2
  <2>2. /\ v \in Seq(S) /\ Len(v) = n
        /\ \A i \in 1..n : v[i] = w[a + i]
    BY <1>1, <1>2
  <2> HIDE DEF u, v, n
  <2>3. /\ v \o s \in Seq(S) /\ Len(v \o s) = n + Len(s)
        /\ \A i \in 1..n + Len(s) : (v \o s)[i] = IF i <= n THEN v[i] ELSE s[i - n]
    <3>1. /\ v \o s \in Seq(S) /\ Len(v \o s) = Len(v) + Len(s)
          /\ \A i \in 1..Len(v) + Len(s) :
               (v \o s)[i] = IF i <= Len(v) THEN v[i] ELSE s[i - Len(v)]
      BY <2>2
    <3> QED
      BY <2>2, <3>1
  <2>4. \A i \in 1..n + Len(s) : u[i] = (v \o s)[i]
    <3> TAKE i \in 1..n + Len(s)
    <3>1. /\ a + i \in 1..Len(w) + Len(s) /\ (a + i) - Len(w) = i - n
          /\ a + i <= Len(w) <=> i <= n
      BY <1>1, <1>2, <2>0
    <3>2. (w \o s)[a + i] = IF i <= n THEN w[a + i] ELSE s[i - n]
      BY <1>1, <3>1
    <3>3. i <= n => i \in 1..n
      BY <2>0
    <3> QED
      BY <2>1, <2>2, <2>3, <3>2, <3>3
  <2>5. u = v \o s
    BY <2>1, <2>3, <2>4, SeqEqual
  <2> QED
    BY <2>5 DEF u, v
<1>5. /\ Stretch(w \o s, f) = SubSeq(w \o s, a + 1, Len(w \o s))
      /\ Stretch(w, f) = SubSeq(w, a + 1, Len(w))
  BY <1>1, <1>3, StretchOfInterval
<1> QED
  BY <1>3, <1>4, <1>5

\* The quotient of a number by the payload size is unique.
LEMMA Quotient ==
  ASSUME NEW n \in Int, NEW r \in Int, 0 <= r, r < PayloadSize
  PROVE  (n * PayloadSize + r) \div PayloadSize = n
BY PayloadAssumption

\* A frame cut into n packets, all but the last full, counts n packets.
LEMMA PacketCountIs ==
  ASSUME NEW n \in Nat, NEW len \in Nat, n > 0,
         (n - 1) * PayloadSize < len, len <= n * PayloadSize \/ ~Fragmenting,
         ~Fragmenting => n = 1
  PROVE  PacketCount(len) = n
<1>1. CASE ~Fragmenting
  BY <1>1 DEF PacketCount
<1>2. CASE Fragmenting
  <2> DEFINE r == (len + PayloadSize - 1) - n * PayloadSize
  <2>1. n * PayloadSize \in Int /\ (n - 1) * PayloadSize = n * PayloadSize - PayloadSize
    BY PayloadAssumption
  <2>2. /\ r \in Int /\ 0 <= r /\ r < PayloadSize
        /\ (len + PayloadSize - 1) = n * PayloadSize + r
    BY <1>2, <2>1, PayloadAssumption
  <2> HIDE DEF r
  <2>3. (len + PayloadSize - 1) \div PayloadSize = n
    BY <2>2, Quotient
  <2> QED
    BY <1>2, <2>3 DEF PacketCount
<1> QED
  BY <1>1, <1>2

-----------------------------------------------------------------------------
\* The packets of the transaction lie end to end and all but the last are
\* full, so there are as many as the length of the frame says.
CutInv ==
  /\ \A i \in 1..Len(packets) : packets[i].pos = (i - 1) * PayloadSize
  /\ \A i \in 1..Len(packets) - 1 :
       packets[i].pos + packets[i].len <= packets[Len(packets)].pos
  /\ pc = "enqueue" => data_pos = Len(packets) * PayloadSize
  /\ pc \in {"flush", "paced", "send", "emit"} =>
       Len(packets) = PacketCount(history[frame].len)

\* Only the frame being pushed has no outcome; without a callback frames are
\* live, and flush_queue's copy of the callback's presence is still right.
OutcomeInv ==
  /\ \A f \in 1..frame : Finished(f) <=> (f < frame \/ pc = "idle")
  /\ capture_cb = None => ~capture_only
  /\ pc \in {"paced", "send", "emit"} => (capture_active <=> capture_cb # None)

\* The next packet of the transaction starts where the last one ends.
LEMMA EnqueueCuts ==
  ASSUME IInv, CutInv, pc = "enqueue", NEW len \in Nat, len > 0,
         NEW set_m_bit \in BOOLEAN, enqueue_message(data_pos, len, set_m_bit)
  PROVE  /\ Len(packets') = Len(packets) + 1 /\ Len(packets) \in Nat
         /\ packets'[Len(packets')].pos = data_pos
         /\ \A i \in 1..Len(packets') : packets'[i].pos = (i - 1) * PayloadSize
         /\ \A i \in 1..Len(packets') - 1 :
              packets'[i].pos + packets'[i].len <= packets'[Len(packets')].pos
<1> DEFINE p == [hdr |-> Len(rtp_headers) + 1, pos |-> data_pos, len |-> len]
<1>1. /\ packets \in Seq([hdr : Nat, pos : Nat, len : Nat])
      /\ rtp_headers \in Seq(Header) /\ data_pos \in Nat
      /\ data_pos = Len(packets) * PayloadSize
  BY DEF IInv, TypeOK, ControlTypeOK, DataTypeOK, CutInv
<1>2. p \in [hdr : Nat, pos : Nat, len : Nat] /\ p.pos = data_pos
  BY <1>1
<1>3. packets' = Append(packets, p)
  BY DEF enqueue_message
<1> HIDE DEF p
<1>4. /\ Len(packets') = Len(packets) + 1 /\ Len(packets) \in Nat
      /\ \A i \in 1..Len(packets) : packets'[i] = packets[i]
      /\ packets'[Len(packets')] = p
  BY <1>1, <1>2, <1>3
<1>5. \A i \in 1..Len(packets) : packets[i].pos = (i - 1) * PayloadSize
  BY DEF CutInv
<1>6. \A i \in 1..Len(packets) : packets[i].pos + packets[i].len <= data_pos
  <2> TAKE i \in 1..Len(packets)
  <2>1. /\ packets[Len(packets)].pos + packets[Len(packets)].len = data_pos
        /\ packets # <<>>
    BY <1>1 DEF IInv, EnqueueInv
  <2>2. /\ packets[i] \in [hdr : Nat, pos : Nat, len : Nat]
        /\ packets[Len(packets)] \in [hdr : Nat, pos : Nat, len : Nat]
    <3>1. Len(packets) \in 1..Len(packets)
      BY <1>4
    <3> QED
      BY <1>1, <3>1, ElementOfSeq
  <2>3. CASE i = Len(packets)
    BY <1>1, <2>1, <2>3
  <2>4. CASE i # Len(packets)
    <3>1. i \in 1..Len(packets) - 1
      BY <1>4, <2>4
    <3>2. packets[i].pos + packets[i].len <= packets[Len(packets)].pos
      BY <3>1 DEF CutInv
    <3> QED
      BY <1>1, <2>1, <2>2, <3>2
  <2> QED
    BY <2>3, <2>4
<1>7. \A i \in 1..Len(packets') : packets'[i].pos = (i - 1) * PayloadSize
  <2> SUFFICES ASSUME NEW i \in 1..Len(packets')
               PROVE  packets'[i].pos = (i - 1) * PayloadSize
    OBVIOUS
  <2>1. CASE i \in 1..Len(packets)
    BY <1>4, <1>5, <2>1
  <2>2. CASE i = Len(packets')
    <3>1. i - 1 = Len(packets)
      BY <1>4, <2>2
    <3> QED
      BY <1>1, <1>2, <1>4, <2>2, <3>1
  <2> QED
    BY <1>4, <2>1, <2>2
<1>8. \A i \in 1..Len(packets') - 1 :
        packets'[i].pos + packets'[i].len <= packets'[Len(packets')].pos
  BY <1>2, <1>4, <1>6
<1> QED
  BY <1>2, <1>4, <1>7, <1>8

\* Every step keeps the shape of the transaction.
LEMMA CutPreserved == ASSUME IInv, CutInv, [Next]_vars PROVE CutInv'
<1> USE DEF ctxVars, rtpVars, fpsVars, capVars, txVars, mediaVars, flushVars
<1>0. Len(packets) \in Nat /\ frame \in Nat /\ PayloadSize \in Nat
  BY PayloadAssumption DEF IInv, TypeOK, DataTypeOK
<1>1. ASSUME packets' = <<>>, pc' = "idle" \/ (pc' = "enqueue" /\ data_pos' = 0)
      PROVE  CutInv'
  BY <1>0, <1>1 DEF CutInv
<1>2. ASSUME UNCHANGED <<packets, history, rce_flags, format>>,
             \/ pc' = pc /\ data_pos' = data_pos
             \/ pc \in {"flush", "paced", "send"} /\ pc' \in {"paced", "send", "emit"}
      PROVE  CutInv'
  BY <1>2 DEF CutInv, PacketCount, Fragmenting
<1>3. CASE Configure \/ RefuseFrame \/ UNCHANGED vars
  BY <1>2, <1>3 DEF Configure, SetPacketCapture, ClearPacketCapture, SetFps,
                    RefuseFrame, vars
<1>4. CASE \E len \in Lens : PushFrame(len)
  BY <1>1, <1>4 DEF PushFrame
<1>5. ASSUME EnqueueWhole \/ EnqueueLast PROVE CutInv'
  <2>1. /\ pc = "enqueue" /\ pc' = "flush" /\ history' = history
        /\ rce_flags' = rce_flags /\ format' = format
        /\ ~Fragmenting => data_pos = 0
        /\ data_left <= PayloadSize \/ ~Fragmenting
        /\ \E m \in BOOLEAN : enqueue_message(data_pos, data_left, m)
    BY <1>5 DEF EnqueueWhole, EnqueueLast, Fragmenting
  <2>2. /\ data_left \in Nat /\ data_left > 0 /\ data_pos \in Nat
        /\ data_pos + data_left = history[frame].len
        /\ data_pos = Len(packets) * PayloadSize
    BY <2>1 DEF IInv, TypeOK, ControlTypeOK, EnqueueInv, CutInv
  <2>3. /\ Len(packets') = Len(packets) + 1
        /\ \A i \in 1..Len(packets') : packets'[i].pos = (i - 1) * PayloadSize
        /\ \A i \in 1..Len(packets') - 1 :
              packets'[i].pos + packets'[i].len <= packets'[Len(packets')].pos
    BY <2>1, <2>2, EnqueueCuts
  <2>4. PacketCount(history[frame].len) = Len(packets')
    <3> DEFINE n == Len(packets')  l == history[frame].len
    <3>1. n \in Nat /\ n > 0 /\ l \in Nat
      BY <1>0, <2>2, <2>3
    <3>2. (n - 1) * PayloadSize = data_pos /\ n * PayloadSize = data_pos + PayloadSize
      BY <1>0, <2>2, <2>3
    <3>3. (n - 1) * PayloadSize < l /\ (l <= n * PayloadSize \/ ~Fragmenting)
      <4> DEFINE first == (n - 1) * PayloadSize  past == n * PayloadSize
      <4>1. first = data_pos /\ past = data_pos + PayloadSize
        BY <3>2
      <4> HIDE DEF first, past
      <4>2. first < l /\ (l <= past \/ data_left > PayloadSize)
        BY <1>0, <2>2, <4>1
      <4> QED
        BY <2>1, <4>2, <1>0, <2>2 DEF first, past
    <3>4. ~Fragmenting => n = 1
      BY <1>0, <2>1, <2>2, <2>3, PayloadAssumption
    <3> HIDE DEF n, l
    <3>5. PacketCount(l) = n
      BY <3>1, <3>3, <3>4, PacketCountIs
    <3> QED
      BY <3>5 DEF n, l
  <2> QED
    BY <2>1, <2>3, <2>4 DEF CutInv, PacketCount, Fragmenting
<1>6. CASE EnqueueFragment
  <2>1. /\ pc = "enqueue" /\ pc' = "enqueue" /\ history' = history
        /\ data_pos' = data_pos + PayloadSize /\ data_left > PayloadSize
        /\ enqueue_message(data_pos, PayloadSize, FALSE)
    BY <1>6 DEF EnqueueFragment
  <2>2. data_pos = Len(packets) * PayloadSize
    BY <2>1 DEF CutInv
  <2>3. /\ Len(packets') = Len(packets) + 1
        /\ \A i \in 1..Len(packets') : packets'[i].pos = (i - 1) * PayloadSize
        /\ \A i \in 1..Len(packets') - 1 :
              packets'[i].pos + packets'[i].len <= packets'[Len(packets')].pos
    <3>1. PayloadSize \in Nat /\ PayloadSize > 0 /\ FALSE \in BOOLEAN
      BY PayloadAssumption
    <3> QED
      BY <2>1, <3>1, EnqueueCuts
  <2>4. data_pos' = Len(packets') * PayloadSize
    BY <1>0, <2>1, <2>2, <2>3
  <2> QED
    BY <2>1, <2>3, <2>4 DEF CutInv
<1>7. CASE FlushBegin \/ SendPaced \/ SendAll
  BY <1>2, <1>7 DEF FlushBegin, SendPaced, SendAll
<1>8. CASE SendPacedFails \/ (\E k \in 0..Len(packets) : SendAllFails(k)) \/ EmitCapture
  BY <1>1, <1>8 DEF SendPacedFails, SendAllFails, EmitCapture, Return, deinit_transaction
<1> QED
  BY <1>3, <1>4, <1>5, <1>6, <1>7, <1>8 DEF Next, PushStep

\* The end of a push writes the outcome of the frame pushed and nothing else
\* of the history.
LEMMA ReturnHistory ==
  ASSUME IInv, pc # "idle", NEW code \in {"OK", "SEND_ERROR"}, Return(code)
  PROVE  /\ pc' = "idle" /\ packets' = <<>> /\ rtp_headers' = <<>>
         /\ frame' = frame /\ frame \in Nat /\ frame > 0
         /\ \A f \in 1..frame : /\ history'[f].len = history[f].len
                                /\ history'[f].only = history[f].only
                                /\ history'[f].cb = history[f].cb
                                /\ history'[f].before = history[f].before
                                /\ history'[f].ret = IF f = frame THEN code
                                                     ELSE history[f].ret
<1>1. /\ pc' = "idle" /\ packets' = <<>> /\ rtp_headers' = <<>>
      /\ history' = [history EXCEPT ![frame].ret = code]
  BY DEF Return, deinit_transaction
<1>2. history \in Seq(FrameRecord) /\ frame \in 1..Len(history) /\ frame \in Nat
  BY DEF IInv, TypeOK, DataTypeOK, FrameInv
<1> DEFINE r == [history[frame] EXCEPT !.ret = code]
<1>3. history[frame] \in FrameRecord
  BY <1>2
<1>4. /\ r \in FrameRecord /\ r.len = history[frame].len
      /\ r.only = history[frame].only /\ r.cb = history[frame].cb
      /\ r.before = history[frame].before /\ r.ret = code
  BY <1>3 DEF FrameRecord
<1>5. history' = [history EXCEPT ![frame] = r]
  BY <1>1
<1> HIDE DEF r
<1>6. /\ Len(history') = Len(history)
      /\ \A f \in 1..frame : history'[f] = IF f = frame THEN r ELSE history[f]
  BY <1>2, <1>4, <1>5, ExceptSeq
<1> QED
  BY <1>1, <1>2, <1>4, <1>6

\* Accepting a frame adds its record and changes no other.
LEMMA PushHistory ==
  ASSUME IInv, NEW len \in Lens, PushFrame(len)
  PROVE  /\ pc = "idle" /\ pc' = "enqueue" /\ packets' = <<>> /\ rtp_headers' = <<>>
         /\ frame \in Nat /\ frame' = frame + 1
         /\ \A f \in 1..frame : history'[f] = history[f]
         /\ history'[frame + 1] = [len |-> len, cb |-> capture_cb,
                                   only |-> capture_only, before |-> sent_pkts,
                                   ret |-> "PENDING"]
<1> DEFINE r == [len |-> len, cb |-> capture_cb, only |-> capture_only,
                 before |-> sent_pkts, ret |-> "PENDING"]
<1>1. /\ capture_only \in BOOLEAN /\ capture_cb \in Callbacks \cup {None}
      /\ sent_pkts \in Nat /\ history \in Seq(FrameRecord)
  BY DEF IInv, TypeOK, ControlTypeOK, DataTypeOK
<1>2. r \in FrameRecord
  BY <1>1 DEF FrameRecord
<1>3. history' = Append(history, r) /\ pc = "idle" /\ pc' = "enqueue"
      /\ packets' = <<>> /\ rtp_headers' = <<>>
  BY DEF PushFrame
<1> HIDE DEF r
<1>4. /\ frame \in Nat /\ frame' = frame + 1
      /\ \A f \in 1..frame : history'[f] = history[f]
      /\ history'[frame + 1] = r
  BY <1>1, <1>2, <1>3
<1> QED
  BY <1>3, <1>4 DEF r

\* Every step keeps account of the outcomes.
LEMMA OutcomePreserved == ASSUME IInv, OutcomeInv, [Next]_vars PROVE OutcomeInv'
<1> USE DEF ctxVars, rtpVars, fpsVars, capVars, txVars, mediaVars, flushVars
<1>0. frame \in Nat
  BY DEF IInv, TypeOK, DataTypeOK
<1>1. ASSUME UNCHANGED history, (pc = "idle") = (pc' = "idle"),
             capture_cb' = None => ~capture_only',
             pc' \in {"paced", "send", "emit"} => (capture_active' <=> capture_cb' # None)
      PROVE  OutcomeInv'
  BY <1>1 DEF OutcomeInv, Finished
<1>2. CASE Configure
  <2>1. /\ UNCHANGED <<history, pc>> /\ pc = "idle"
        /\ capture_cb' = None => ~capture_only'
    <3>1. ASSUME NEW cb \in Callbacks \cup {None}, NEW only \in BOOLEAN,
                 SetPacketCapture(cb, only)
          PROVE  UNCHANGED <<history, pc>> /\ (capture_cb' = None => ~capture_only')
      BY <3>1 DEF SetPacketCapture
    <3>2. ClearPacketCapture =>
            UNCHANGED <<history, pc>> /\ (capture_cb' = None => ~capture_only')
      BY DEF ClearPacketCapture
    <3>3. ASSUME NEW valid \in BOOLEAN, SetFps(valid)
          PROVE  UNCHANGED <<history, pc>> /\ (capture_cb' = None => ~capture_only')
      BY <3>3 DEF SetFps, OutcomeInv
    <3>4. pc = "idle"
      BY <1>2 DEF Configure, SetPacketCapture, ClearPacketCapture, SetFps
    <3> QED
      BY <1>2, <3>1, <3>2, <3>3, <3>4 DEF Configure
  <2> QED
    BY <1>1, <2>1 DEF OutcomeInv
<1>3. CASE RefuseFrame \/ UNCHANGED vars
  BY <1>1, <1>3 DEF RefuseFrame, vars, OutcomeInv
<1>4. ASSUME NEW len \in Lens, PushFrame(len) PROVE OutcomeInv'
  <2>1. UNCHANGED <<capture_cb, capture_only>>
    BY <1>4 DEF PushFrame
  <2>2. /\ pc = "idle" /\ pc' = "enqueue"
        /\ frame \in Nat /\ frame' = frame + 1
        /\ \A f \in 1..frame : history'[f] = history[f]
        /\ history'[frame + 1].ret = "PENDING"
    <3>1. /\ pc = "idle" /\ pc' = "enqueue"
          /\ frame \in Nat /\ frame' = frame + 1
          /\ \A f \in 1..frame : history'[f] = history[f]
          /\ history'[frame + 1] = [len |-> len, cb |-> capture_cb,
                                    only |-> capture_only, before |-> sent_pkts,
                                    ret |-> "PENDING"]
      BY <1>4, PushHistory
    <3> QED
      BY <3>1
  <2> QED
    BY <2>1, <2>2 DEF OutcomeInv, Finished
<1>5. CASE EnqueueWhole \/ EnqueueFragment \/ EnqueueLast
  <2>1. /\ UNCHANGED <<history, capture_cb, capture_only>>
        /\ pc = "enqueue" /\ pc' \in {"enqueue", "flush"}
    BY <1>5 DEF EnqueueWhole, EnqueueFragment, EnqueueLast
  <2> QED
    BY <1>1, <2>1 DEF OutcomeInv
<1>6. CASE FlushBegin
  <2>1. /\ UNCHANGED <<history, capture_cb, capture_only>>
        /\ pc = "flush" /\ pc' \in {"paced", "send"}
        /\ capture_active' <=> capture_cb # None
    BY <1>6 DEF FlushBegin
  <2> QED
    BY <1>1, <2>1 DEF OutcomeInv
<1>7. CASE SendPaced \/ SendAll
  <2>1. /\ UNCHANGED <<history, capture_cb, capture_only, capture_active>>
        /\ pc \in {"paced", "send"} /\ pc' \in {"paced", "emit"}
    BY <1>7 DEF SendPaced, SendAll
  <2> QED
    BY <1>1, <2>1 DEF OutcomeInv
<1>8. ASSUME NEW code \in {"OK", "SEND_ERROR"}, Return(code), pc # "idle",
             UNCHANGED capVars
      PROVE  OutcomeInv'
  <2>1. /\ pc' = "idle" /\ frame' = frame
        /\ \A f \in 1..frame : history'[f].ret = IF f = frame THEN code
                                                 ELSE history[f].ret
    BY <1>8, ReturnHistory
  <2> QED
    BY <1>0, <1>8, <2>1 DEF OutcomeInv, Finished
<1>9. CASE SendPacedFails \/ (\E k \in 0..Len(packets) : SendAllFails(k)) \/ EmitCapture
  <2>1. /\ pc # "idle" /\ UNCHANGED capVars
        /\ \E code \in {"OK", "SEND_ERROR"} : Return(code)
    BY <1>9 DEF SendPacedFails, SendAllFails, EmitCapture
  <2> QED
    BY <1>8, <2>1
<1> QED
  BY <1>2, <1>3, <1>4, <1>5, <1>6, <1>7, <1>9 DEF Next, PushStep

-----------------------------------------------------------------------------
\* How many packets of the frame in progress have left if it is live.
SentSoFar == IF pc = "paced" THEN next - 1
             ELSE IF pc = "emit" THEN Len(packets) ELSE 0

\* The packets of every frame stand together on the wire, those of the last
\* frame at its end.
OrderInv ==
  /\ \A f \in 1..frame : \E a, b \in Nat : Interval(wire, f, a, b)
  /\ frame > 0 => \E a \in Nat : Interval(wire, frame, a, Len(wire))

\* Of a live frame in progress the packets sent so far are on the wire, in
\* the order of the transaction.
SentInv ==
  pc # "idle" /\ ~capture_only =>
    /\ Len(OnWire(frame)) = SentSoFar
    /\ \A i \in 1..SentSoFar : OnWire(frame)[i] = flatten_packet(packets[i])

OInv == IInv /\ CutInv /\ OutcomeInv /\ OrderInv /\ SentInv /\ ReturnCodeTellsWire

\* A packet of a transaction ready to be sent is a packet.
LEMMA FlattenedPacket ==
  ASSUME IInv, pc \in {"paced", "send", "emit"}, NEW i \in 1..Len(packets)
  PROVE  /\ flatten_packet(packets[i]) \in Packet
         /\ flatten_packet(packets[i]).ts = frame
         /\ flatten_packet(packets[i]) = Flattened[i]
<1>1. /\ Flattened \in Seq(Packet) /\ Len(Flattened) = Len(packets)
      /\ \A j \in 1..Len(Flattened) : Flattened[j].ts = frame
  BY FlattenedWhole
<1>2. Flattened[i] = flatten_packet(packets[i])
  BY DEF Flattened
<1>3. Flattened[i] \in Packet
  BY <1>1, ElementOfSeq
<1> QED
  BY <1>1, <1>2, <1>3

\* The first packets of a transaction, but not all, are contiguous and not
\* the whole frame.
LEMMA PartOfFrame ==
  ASSUME IInv, CutInv, pc \in {"paced", "send"}, NEW o \in Seq(Packet),
         Len(o) < Len(packets),
         \A i \in 1..Len(o) : o[i] = flatten_packet(packets[i])
  PROVE  Contiguous(o) /\ ~Whole(o, history[frame].len)
<1>1. /\ Flattened \in Seq(Packet) /\ Flattened # <<>>
      /\ Len(Flattened) = Len(packets) /\ Whole(Flattened, history[frame].len)
  BY FlattenedWhole
<1>2. /\ packets \in Seq([hdr : Nat, pos : Nat, len : Nat])
      /\ Len(packets) \in Nat /\ Len(o) \in Nat
  BY DEF IInv, TypeOK, DataTypeOK
<1>3. \A i \in 1..Len(o) : i \in 1..Len(packets) /\ o[i] = Flattened[i]
  BY <1>2 DEF Flattened
<1> HIDE DEF Flattened
<1>4. Contiguous(o)
  <2> SUFFICES ASSUME NEW i \in 1..Len(o)
               PROVE  /\ o[i].len > 0
                      /\ i = 1 => o[i].pos = 0
                      /\ i > 1 => /\ o[i].pos = o[i-1].pos + o[i-1].len
                                 /\ o[i].seq = NextSeq(o[i-1].seq)
    BY DEF Contiguous
  <2>1. i \in 1..Len(Flattened) /\ o[i] = Flattened[i]
    BY <1>1, <1>3
  <2>2. i > 1 => o[i-1] = Flattened[i-1]
    BY <1>2, <1>3
  <2>3. /\ Flattened[i].len > 0
        /\ i = 1 => Flattened[i].pos = 0
        /\ i > 1 => /\ Flattened[i].pos = Flattened[i-1].pos + Flattened[i-1].len
                   /\ Flattened[i].seq = NextSeq(Flattened[i-1].seq)
    BY <1>1, <2>1 DEF Whole, Contiguous
  <2> QED
    BY <2>1, <2>2, <2>3
<1>5. ASSUME o # <<>> PROVE o[Len(o)].pos + o[Len(o)].len # history[frame].len
  <2>1. Len(o) \in 1..Len(o) /\ Len(o) \in 1..Len(packets) - 1
        /\ Len(o) \in 1..Len(packets) /\ Len(packets) \in 1..Len(packets)
    BY <1>2, <1>5
  <2>2. o[Len(o)].pos = packets[Len(o)].pos /\ o[Len(o)].len = packets[Len(o)].len
    <3>1. o[Len(o)] = flatten_packet(packets[Len(o)])
      BY <2>1
    <3> QED
      BY <3>1 DEF flatten_packet
  <2>3. /\ packets[Len(o)].pos + packets[Len(o)].len <= packets[Len(packets)].pos
        /\ packets[Len(packets)].len > 0
        /\ packets[Len(packets)].pos + packets[Len(packets)].len = history[frame].len
    BY <2>1 DEF CutInv, IInv, TxInv, FlushInv
  <2>4. /\ packets[Len(o)] \in [hdr : Nat, pos : Nat, len : Nat]
        /\ packets[Len(packets)] \in [hdr : Nat, pos : Nat, len : Nat]
    BY <1>2, <2>1, ElementOfSeq
  <2> QED
    BY <2>2, <2>3, <2>4
<1> QED
  BY <1>4, <1>5 DEF Whole

\* All packets of a transaction are the whole frame.
LEMMA AllOfFrame ==
  ASSUME IInv, pc = "emit", NEW o \in Seq(Packet), Len(o) = Len(packets),
         \A i \in 1..Len(o) : o[i] = flatten_packet(packets[i])
  PROVE  Whole(o, history[frame].len)
<1>1. /\ Flattened \in Seq(Packet) /\ Len(Flattened) = Len(packets)
      /\ Whole(Flattened, history[frame].len)
  BY FlattenedWhole
<1>2. \A i \in 1..Len(o) : o[i] = Flattened[i]
  BY DEF Flattened
<1> HIDE DEF Flattened
<1>3. o = Flattened
  BY <1>1, <1>2, SeqEqual
<1> QED
  BY <1>1, <1>3

\* Packets of the frame in progress go to the end of its stretch, and the
\* stretches of the frames before stay.
LEMMA WireGrows ==
  ASSUME IInv, OrderInv, pc # "idle", frame' = frame,
         NEW s \in Seq(Packet), wire' = wire \o s,
         \A i \in 1..Len(s) : s[i].ts = frame
  PROVE  /\ OrderInv'
         /\ \A f \in 1..frame - 1 : OnWire(f)' = OnWire(f)
         /\ OnWire(frame)' = OnWire(frame) \o s
         /\ OnWire(frame) \in Seq(Packet)
<1>1. wire \in Seq(Packet) /\ frame \in Nat /\ frame > 0
  BY DEF IInv, TypeOK, DataTypeOK, FrameInv
<1>2. PICK a \in Nat : Interval(wire, frame, a, Len(wire))
  BY <1>1 DEF OrderInv
<1>3. /\ Interval(wire', frame, a, Len(wire'))
      /\ Stretch(wire', frame) = Stretch(wire, frame) \o s
  BY <1>1, <1>2, StretchGrows
<1>4. Stretch(wire, frame) \in Seq(Packet)
  BY <1>1, <1>2, StretchLength
<1>5. ASSUME NEW f \in 1..frame - 1
      PROVE  /\ \E b, c \in Nat : Interval(wire', f, b, c)
             /\ Stretch(wire', f) = Stretch(wire, f)
  <2>1. f \in 1..frame /\ f # frame
    BY <1>1
  <2>2. PICK b \in Nat, c \in Nat : Interval(wire, f, b, c)
    BY <2>1 DEF OrderInv
  <2>3. \A i \in 1..Len(s) : s[i].ts # f
    BY <2>1
  <2> QED
    BY <1>1, <2>2, <2>3, StretchKept
<1>6. a \in Nat /\ Len(wire') \in Nat
  BY <1>1
<1>7. OrderInv'
  <2>1. \E b \in Nat : Interval(wire', frame', b, Len(wire'))
    BY <1>3
  <2>2. \E b, c \in Nat : Interval(wire', frame, b, c)
    BY <1>3, <1>6
  <2>3. \A f \in 1..frame' : f = frame \/ f \in 1..frame - 1
    BY <1>1
  <2>4. \A f \in 1..frame' : \E b, c \in Nat : Interval(wire', f, b, c)
    BY <1>5, <2>2, <2>3
  <2> QED
    BY <2>1, <2>4 DEF OrderInv
<1> QED
  BY <1>3, <1>4, <1>5, <1>7 DEF OnWire

\* While nothing leaves and no frame begins or ends, what frames left stands.
LEMMA QuietStep ==
  ASSUME OInv, UNCHANGED <<wire, history>>,
         \/ pc' = "idle"
         \/ pc # "idle" /\ capture_only' = capture_only /\ SentSoFar = 0 /\ SentSoFar' = 0
         \/ UNCHANGED <<pc, capture_only, next, packets, rtp_headers>>
  PROVE  OrderInv' /\ SentInv' /\ ReturnCodeTellsWire'
<1>1. \A f : OnWire(f)' = OnWire(f)
  BY DEF OnWire
<1>2. OrderInv'
  BY DEF OInv, OrderInv
<1>3. ReturnCodeTellsWire'
  BY <1>1 DEF OInv, ReturnCodeTellsWire, Finished
<1>4. SentInv'
  <2>1. CASE pc' = "idle"
    BY <2>1 DEF SentInv
  <2>2. CASE pc # "idle" /\ capture_only' = capture_only /\ SentSoFar = 0 /\ SentSoFar' = 0
    <3>1. ~capture_only => Len(OnWire(frame)) = 0
      BY <2>2 DEF OInv, SentInv
    <3>2. OnWire(frame)' = OnWire(frame) /\ frame' = frame
      BY <1>1
    <3> QED
      BY <1>1, <2>2, <3>1, <3>2 DEF SentInv
  <2>3. CASE UNCHANGED <<pc, capture_only, next, packets, rtp_headers>>
    BY <1>1, <2>3 DEF OInv, SentInv, SentSoFar, flatten_packet
  <2> QED
    BY <2>1, <2>2, <2>3
<1> QED
  BY <1>2, <1>3, <1>4

\* A new frame has nothing on the wire yet.
LEMMA PushStarts ==
  ASSUME OInv, NEW len \in Lens, PushFrame(len)
  PROVE  OrderInv' /\ SentInv' /\ ReturnCodeTellsWire' /\ Len(OnWire(frame)') = 0
<1>1. /\ pc' = "enqueue" /\ frame \in Nat /\ frame' = frame + 1
      /\ \A f \in 1..frame : history'[f] = history[f]
      /\ history'[frame + 1] = [len |-> len, cb |-> capture_cb,
                                only |-> capture_only, before |-> sent_pkts,
                                ret |-> "PENDING"]
  BY PushHistory DEF OInv
<1>2. wire' = wire /\ wire \in Seq(Packet) /\ Len(wire) \in Nat
  BY DEF PushFrame, OInv, IInv, TypeOK, DataTypeOK
<1>3. Interval(wire, frame + 1, Len(wire), Len(wire))
  BY <1>1, <1>2 DEF OInv, IInv, PastInv, Interval
<1>4. OrderInv'
  <2>1. \A f \in 1..frame' : \E a, b \in Nat : Interval(wire', f, a, b)
    <3>1. \A f \in 1..frame : \E a, b \in Nat : Interval(wire', f, a, b)
      BY <1>2 DEF OInv, OrderInv
    <3>2. \A f \in 1..frame' : f = frame + 1 \/ f \in 1..frame
      BY <1>1
    <3> QED
      BY <1>2, <1>3, <3>1, <3>2
  <2>2. \E a \in Nat : Interval(wire', frame', a, Len(wire'))
    BY <1>1, <1>2, <1>3
  <2> QED
    BY <2>1, <2>2 DEF OrderInv
<1>5. SentInv' /\ Len(OnWire(frame)') = 0
  <2>1. Len(Stretch(wire, frame + 1)) = Len(wire) - Len(wire)
    BY <1>2, <1>3, StretchLength
  <2>2. OnWire(frame)' = Stretch(wire, frame + 1)
    BY <1>1, <1>2 DEF OnWire
  <2>3. Len(OnWire(frame)') = 0 /\ SentSoFar' = 0
    BY <1>1, <1>2, <2>1, <2>2 DEF SentSoFar
  <2> QED
    BY <1>1, <2>3 DEF SentInv
<1>6. ReturnCodeTellsWire'
  <2>1. \A f : OnWire(f)' = OnWire(f)
    BY <1>2 DEF OnWire
  <2>2. \A f : f = frame + 1 => ~Finished(f)'
    BY <1>1 DEF Finished
  <2>3. \A f \in 1..frame' : f = frame + 1 \/ f \in 1..frame
    BY <1>1
  <2> QED
    BY <1>1, <2>1, <2>2, <2>3 DEF OInv, ReturnCodeTellsWire, Finished
<1> QED
  BY <1>4, <1>5, <1>6

\* When a push ends its outcome must tell what is on the wire of its frame.
LEMMA FinishStep ==
  ASSUME OInv, pc # "idle", NEW code \in {"OK", "SEND_ERROR"}, Return(code),
         NEW s \in Seq(Packet), wire' = wire \o s,
         \A i \in 1..Len(s) : s[i].ts = frame,
         ~history[frame].only =>
           IF code = "OK"
           THEN Whole(OnWire(frame) \o s, history[frame].len)
           ELSE /\ Contiguous(OnWire(frame) \o s)
                /\ ~Whole(OnWire(frame) \o s, history[frame].len)
  PROVE  OrderInv' /\ SentInv' /\ ReturnCodeTellsWire'
<1>1. /\ pc' = "idle" /\ frame' = frame /\ frame \in Nat /\ frame > 0
      /\ \A f \in 1..frame : /\ history'[f].len = history[f].len
                             /\ history'[f].only = history[f].only
                             /\ history'[f].ret = IF f = frame THEN code
                                                  ELSE history[f].ret
  BY ReturnHistory DEF OInv
<1>2. /\ OrderInv'
      /\ \A f \in 1..frame - 1 : OnWire(f)' = OnWire(f)
      /\ OnWire(frame)' = OnWire(frame) \o s
  BY <1>1, WireGrows DEF OInv
<1>3. SentInv'
  BY <1>1 DEF SentInv
<1>4. ASSUME NEW f \in 1..frame, Finished(f)', ~history'[f].only
      PROVE  IF history'[f].ret = "OK"
             THEN Whole(OnWire(f)', history'[f].len)
             ELSE Contiguous(OnWire(f)') /\ ~Whole(OnWire(f)', history'[f].len)
  <2>1. CASE f = frame
    <3>1. OnWire(f)' = OnWire(frame) \o s
      BY <1>1, <1>2, <2>1 DEF OnWire
    <3> QED
      BY <1>1, <1>4, <2>1, <3>1
  <2>2. CASE f # frame
    <3>1. f \in 1..frame - 1
      BY <1>1, <2>2
    <3>2. OnWire(f)' = OnWire(f)
      BY <1>2, <3>1
    <3>3. Finished(f) /\ ~history[f].only
      BY <1>1, <1>4, <2>2 DEF Finished
    <3> QED
      BY <1>1, <2>2, <3>2, <3>3 DEF OInv, ReturnCodeTellsWire
  <2> QED
    BY <2>1, <2>2
<1>5. ReturnCodeTellsWire'
  BY <1>1, <1>4, Zenon DEF ReturnCodeTellsWire, Whole, Contiguous, NextSeq
<1> QED
  BY <1>2, <1>3, <1>5

\* The frame in progress has no outcome yet.
LEMMA InProgress ==
  ASSUME OInv, pc # "idle"
  PROVE  /\ frame \in Nat /\ frame \in 1..frame
         /\ ~Finished(frame) /\ history[frame].only = capture_only
<1>1. frame \in Nat /\ frame > 0 /\ history[frame].only = capture_only
  BY DEF OInv, IInv, TypeOK, DataTypeOK, FrameInv
<1>2. frame \in 1..frame
  BY <1>1
<1>3. \A f \in 1..frame : f = frame => ~Finished(f)
  BY <1>1 DEF OInv, OutcomeInv
<1> QED
  BY <1>1, <1>2, <1>3

\* A paced packet joins the stretch of its frame.
LEMMA SendPacedSends ==
  ASSUME OInv, SendPaced PROVE OrderInv' /\ SentInv' /\ ReturnCodeTellsWire'
<1> DEFINE p == flatten_packet(packets[next])
<1>1. /\ pc = "paced" /\ next' = next + 1 /\ history' = history
      /\ pc' = IF next = Len(packets) THEN "emit" ELSE "paced"
      /\ wire' = IF capture_only THEN wire ELSE Append(wire, p)
      /\ capture_only' = capture_only
      /\ packets' = packets /\ rtp_headers' = rtp_headers
  BY DEF SendPaced, capVars, txVars
<1>2. /\ next \in 1..Len(packets) /\ Len(packets) \in Nat /\ next \in Nat
      /\ wire \in Seq(Packet) /\ history[frame].only = capture_only
      /\ frame \in Nat /\ frame \in 1..frame
      /\ ~Finished(frame)
  <2>1. next \in 1..Len(packets) /\ Len(packets) \in Nat /\ wire \in Seq(Packet)
    BY <1>1 DEF OInv, IInv, TypeOK, DataTypeOK, FlushInv
  <2> QED
    BY <1>1, <2>1, InProgress
<1>3. p \in Packet /\ p.ts = frame
  BY <1>1, <1>2, FlattenedPacket DEF OInv
<1>4. SentSoFar = next - 1 /\ SentSoFar' = next
  BY <1>1, <1>2 DEF SentSoFar
<1>5. \A i : flatten_packet(packets[i])' = flatten_packet(packets[i])
  BY <1>1 DEF flatten_packet
<1>6. CASE capture_only
  <2>1. OrderInv' /\ (\A f : OnWire(f)' = OnWire(f))
    BY <1>1, <1>6 DEF OInv, OrderInv, OnWire
  <2>2. SentInv'
    BY <1>1, <1>6 DEF SentInv
  <2>3. ReturnCodeTellsWire'
    BY <1>1, <2>1 DEF OInv, ReturnCodeTellsWire, Finished
  <2> QED
    BY <2>1, <2>2, <2>3
<1>7. CASE ~capture_only
  <2>0. /\ wire' = wire \o <<p>> /\ <<p>> \in Seq(Packet)
        /\ \A i \in 1..Len(<<p>>) : <<p>>[i].ts = frame
    <3> HIDE DEF p
    <3> QED
      BY <1>1, <1>2, <1>3, <1>7, AppendIsConcat
  <2>1. /\ OrderInv'
        /\ \A f \in 1..frame - 1 : OnWire(f)' = OnWire(f)
        /\ OnWire(frame)' = OnWire(frame) \o <<p>>
        /\ OnWire(frame) \in Seq(Packet)
    BY <1>1, <1>2, <2>0, WireGrows DEF OInv
  <2>2. /\ Len(OnWire(frame)) = next - 1
        /\ \A i \in 1..next - 1 : OnWire(frame)[i] = flatten_packet(packets[i])
    BY <1>1, <1>4, <1>7 DEF OInv, SentInv
  <2>3. /\ Len(OnWire(frame)') = next
        /\ \A i \in 1..next : OnWire(frame)'[i] = flatten_packet(packets[i])
    <3> DEFINE o == OnWire(frame)
    <3>1. o \in Seq(Packet) /\ Len(o) = next - 1 /\ OnWire(frame)' = o \o <<p>>
      BY <2>1, <2>2
    <3>2. \A i \in 1..next - 1 : o[i] = flatten_packet(packets[i])
      BY <2>2
    <3>3. p \in Packet /\ p = flatten_packet(packets[next])
      BY <1>3
    <3> HIDE DEF o, p
    <3>4. /\ Len(o \o <<p>>) = next
          /\ \A i \in 1..next : (o \o <<p>>)[i] = IF i = next THEN p ELSE o[i]
      BY <1>2, <3>1, <3>3
    <3> QED
      BY <1>2, <3>1, <3>2, <3>3, <3>4
  <2>4. SentInv'
    BY <1>1, <1>4, <1>5, <2>3 DEF SentInv
  <2>5. ReturnCodeTellsWire'
    <3>1. \A f \in 1..frame : Finished(f) => f \in 1..frame - 1
      BY <1>2
    <3> QED
      BY <1>1, <2>1, <3>1 DEF OInv, ReturnCodeTellsWire, Finished
  <2> QED
    BY <2>1, <2>4, <2>5
<1> QED
  BY <1>6, <1>7

\* The unpaced send puts all packets of the frame on the wire.
LEMMA SendAllSends ==
  ASSUME OInv, SendAll PROVE OrderInv' /\ SentInv' /\ ReturnCodeTellsWire'
<1> DEFINE F == Flattened
<1>1. /\ pc = "send" /\ pc' = "emit" /\ history' = history
      /\ wire' = IF capture_only THEN wire ELSE wire \o F
      /\ capture_only' = capture_only
      /\ packets' = packets /\ rtp_headers' = rtp_headers
  BY DEF SendAll, capVars, txVars
<1>2. /\ Len(packets) \in Nat /\ frame \in Nat /\ frame \in 1..frame
      /\ ~Finished(frame) /\ history[frame].only = capture_only
  BY <1>1, InProgress DEF OInv, IInv, TypeOK, DataTypeOK
<1>3. /\ F \in Seq(Packet) /\ Len(F) = Len(packets)
      /\ \A i \in 1..Len(F) : F[i].ts = frame
  BY <1>1, FlattenedWhole DEF OInv
<1>4. \A i \in 1..Len(packets) : F[i] = flatten_packet(packets[i])
  BY DEF Flattened
<1>5. \A i : flatten_packet(packets[i])' = flatten_packet(packets[i])
  BY <1>1 DEF flatten_packet
<1> HIDE DEF F
<1>6. CASE capture_only
  <2>1. OrderInv' /\ (\A f : OnWire(f)' = OnWire(f))
    BY <1>1, <1>6 DEF OInv, OrderInv, OnWire
  <2>2. SentInv'
    BY <1>1, <1>6 DEF SentInv
  <2>3. ReturnCodeTellsWire'
    BY <1>1, <2>1 DEF OInv, ReturnCodeTellsWire, Finished
  <2> QED
    BY <2>1, <2>2, <2>3
<1>7. CASE ~capture_only
  <2>1. /\ OrderInv'
        /\ \A f \in 1..frame - 1 : OnWire(f)' = OnWire(f)
        /\ OnWire(frame)' = OnWire(frame) \o F
        /\ OnWire(frame) \in Seq(Packet)
    BY <1>1, <1>2, <1>3, <1>7, WireGrows DEF OInv
  <2>2. Len(OnWire(frame)) = 0
    BY <1>1, <1>7 DEF OInv, SentInv, SentSoFar
  <2>3. OnWire(frame)' = F
    <3> DEFINE o == OnWire(frame)
    <3>1. o \in Seq(Packet) /\ Len(o) = 0 /\ OnWire(frame)' = o \o F
      BY <2>1, <2>2
    <3> HIDE DEF o
    <3>2. o = <<>>
      BY <3>1
    <3> QED
      BY <1>3, <3>1, <3>2
  <2>4. SentInv'
    BY <1>1, <1>3, <1>4, <1>5, <2>3 DEF SentInv, SentSoFar
  <2>5. ReturnCodeTellsWire'
    <3>1. \A f \in 1..frame : Finished(f) => f \in 1..frame - 1
      BY <1>2
    <3> QED
      BY <1>1, <2>1, <3>1 DEF OInv, ReturnCodeTellsWire, Finished
  <2> QED
    BY <2>1, <2>4, <2>5
<1> QED
  BY <1>6, <1>7

\* A failed push left a proper part of its frame.
LEMMA FailedPushTells ==
  ASSUME OInv, SendPacedFails \/ \E k \in 0..Len(packets) : SendAllFails(k)
  PROVE  OrderInv' /\ SentInv' /\ ReturnCodeTellsWire'
<1>1. /\ Len(packets) \in Nat /\ frame \in Nat /\ wire \in Seq(Packet)
      /\ packets \in Seq([hdr : Nat, pos : Nat, len : Nat])
  BY DEF OInv, IInv, TypeOK, DataTypeOK
<1>2. OnWire(frame) \in Seq(Packet)
  <2>1. frame > 0
    BY DEF SendPacedFails, SendAllFails, OInv, IInv, FrameInv
  <2>2. PICK a \in Nat : Interval(wire, frame, a, Len(wire))
    BY <2>1 DEF OInv, OrderInv
  <2> QED
    BY <1>1, <2>2, StretchLength DEF OnWire
<1>3. CASE SendPacedFails
  <2>1. pc = "paced" /\ ~capture_only /\ Return("SEND_ERROR") /\ wire' = wire
    BY <1>3 DEF SendPacedFails
  <2>2. /\ next \in 1..Len(packets)
        /\ Len(OnWire(frame)) = next - 1
        /\ \A i \in 1..next - 1 : OnWire(frame)[i] = flatten_packet(packets[i])
    BY <2>1 DEF OInv, IInv, FlushInv, SentInv, SentSoFar
  <2>3. /\ Contiguous(OnWire(frame)) /\ ~Whole(OnWire(frame), history[frame].len)
    BY <1>1, <1>2, <2>1, <2>2, PartOfFrame DEF OInv
  <2>4. /\ wire' = wire \o <<>> /\ OnWire(frame) \o <<>> = OnWire(frame)
        /\ <<>> \in Seq(Packet) /\ \A i \in 1..Len(<<>>) : <<>>[i].ts = frame
    <3> DEFINE o == OnWire(frame)
    <3>1. o \in Seq(Packet)
      BY <1>2
    <3> HIDE DEF o
    <3>2. o \o <<>> = o /\ wire \o <<>> = wire
      BY <1>1, <3>1
    <3> QED
      BY <2>1, <3>2 DEF o
  <2> QED
    BY <2>1, <2>3, <2>4, FinishStep
<1>4. ASSUME NEW k \in 0..Len(packets), SendAllFails(k)
      PROVE  OrderInv' /\ SentInv' /\ ReturnCodeTellsWire'
  <2> DEFINE s == SubSeq(Flattened, 1, k)
  <2>1. /\ pc = "send" /\ ~capture_only /\ k < Len(packets)
        /\ wire' = wire \o s /\ Return("SEND_ERROR")
    BY <1>4 DEF SendAllFails
  <2>2. /\ Flattened \in Seq(Packet) /\ Len(Flattened) = Len(packets)
        /\ \A i \in 1..Len(Flattened) : Flattened[i].ts = frame
    BY <2>1, FlattenedWhole DEF OInv
  <2>3. \A i \in 1..Len(packets) : Flattened[i] = flatten_packet(packets[i])
    BY DEF Flattened
  <2>4. /\ s \in Seq(Packet) /\ Len(s) = k
        /\ \A i \in 1..k : i \in 1..Len(packets) /\ s[i] = Flattened[i]
    <3> HIDE DEF Flattened
    <3> QED
      BY <1>1, <2>1, <2>2
  <2> HIDE DEF s
  <2>5. Len(OnWire(frame)) = 0
    BY <2>1 DEF OInv, SentInv, SentSoFar
  <2>6. OnWire(frame) \o s = s
    <3> DEFINE o == OnWire(frame)
    <3>1. o \in Seq(Packet) /\ Len(o) = 0
      BY <1>2, <2>5
    <3> HIDE DEF o
    <3>2. o \o s = s
      BY <2>4, <3>1
    <3> QED
      BY <3>2 DEF o
  <2>7. /\ \A i \in 1..Len(s) : s[i].ts = frame
        /\ \A i \in 1..Len(s) : s[i] = flatten_packet(packets[i])
    BY <2>2, <2>3, <2>4
  <2>8. Contiguous(s) /\ ~Whole(s, history[frame].len)
    BY <2>1, <2>4, <2>7, PartOfFrame DEF OInv
  <2> QED
    BY <2>1, <2>4, <2>6, <2>7, <2>8, FinishStep
<1> QED
  BY <1>3, <1>4

\* A push that succeeds left all of a live frame.
LEMMA EmitTells ==
  ASSUME OInv, EmitCapture PROVE OrderInv' /\ SentInv' /\ ReturnCodeTellsWire'
<1>1. pc = "emit" /\ Return("OK") /\ wire' = wire
  BY DEF EmitCapture
<1>2. /\ wire \in Seq(Packet) /\ frame > 0 /\ history[frame].only = capture_only
  BY <1>1 DEF OInv, IInv, TypeOK, DataTypeOK, FrameInv
<1>3. OnWire(frame) \in Seq(Packet)
  <2>1. PICK a \in Nat : Interval(wire, frame, a, Len(wire))
    BY <1>2 DEF OInv, OrderInv
  <2> QED
    BY <1>2, <2>1, StretchLength DEF OnWire
<1>4. ~capture_only => Whole(OnWire(frame), history[frame].len)
  <2> SUFFICES ASSUME ~capture_only PROVE Whole(OnWire(frame), history[frame].len)
    OBVIOUS
  <2>1. /\ Len(OnWire(frame)) = Len(packets)
        /\ \A i \in 1..Len(packets) : OnWire(frame)[i] = flatten_packet(packets[i])
    BY <1>1 DEF OInv, SentInv, SentSoFar
  <2> QED
    BY <1>1, <1>3, <2>1, AllOfFrame DEF OInv
<1>5. /\ wire' = wire \o <<>> /\ OnWire(frame) \o <<>> = OnWire(frame)
      /\ <<>> \in Seq(Packet) /\ \A i \in 1..Len(<<>>) : <<>>[i].ts = frame
  <2> DEFINE o == OnWire(frame)
  <2>1. o \in Seq(Packet)
    BY <1>3
  <2> HIDE DEF o
  <2>2. o \o <<>> = o /\ wire \o <<>> = wire
    BY <1>2, <2>1
  <2> QED
    BY <1>1, <2>2 DEF o
<1> QED
  BY <1>1, <1>2, <1>4, <1>5, FinishStep

\* Every step keeps what return codes tell.
LEMMA OutcomeStepPreserves == OInv /\ [Next]_vars => OInv'
<1> SUFFICES ASSUME OInv, [Next]_vars PROVE OInv'
  OBVIOUS
<1> USE DEF ctxVars, rtpVars, fpsVars, capVars, txVars, mediaVars, flushVars
<1>1. IInv' /\ CutInv' /\ OutcomeInv'
  BY StepPreserves, CutPreserved, OutcomePreserved DEF OInv
<1>2. CASE Configure \/ RefuseFrame
  <2>1. UNCHANGED <<wire, history>> /\ pc' = "idle"
    BY <1>2 DEF Configure, SetPacketCapture, ClearPacketCapture, SetFps, RefuseFrame
  <2> QED
    BY <1>1, <2>1, QuietStep DEF OInv
<1>3. CASE UNCHANGED vars
  <2>1. UNCHANGED <<wire, history, pc, capture_only, next, packets, rtp_headers>>
    BY <1>3 DEF vars
  <2> QED
    BY <1>1, <2>1, QuietStep DEF OInv
<1>4. ASSUME NEW len \in Lens, PushFrame(len)
      PROVE  OrderInv' /\ SentInv' /\ ReturnCodeTellsWire'
  BY <1>4, PushStarts
<1>5. CASE EnqueueWhole \/ EnqueueFragment \/ EnqueueLast \/ FlushBegin
  <2>1. /\ pc \in {"enqueue", "flush"} /\ pc' \in {"enqueue", "flush", "paced", "send"}
        /\ pc' = "paced" => next' = 1
        /\ UNCHANGED <<wire, history, capture_only>>
    BY <1>5 DEF EnqueueWhole, EnqueueFragment, EnqueueLast, FlushBegin
  <2>2. pc # "idle" /\ SentSoFar = 0 /\ SentSoFar' = 0
    BY <2>1 DEF SentSoFar
  <2> QED
    BY <1>1, <2>1, <2>2, QuietStep DEF OInv
<1> QED
  BY <1>1, <1>2, <1>3, <1>4, <1>5, SendPacedSends, SendAllSends, FailedPushTells,
     EmitTells DEF OInv, Next, PushStep

\* No frame has begun in the initial state.
LEMMA InitOutcome == Init => OInv
<1> SUFFICES ASSUME Init PROVE OInv
  OBVIOUS
<1>1. CutInv /\ OutcomeInv /\ OrderInv /\ SentInv /\ ReturnCodeTellsWire
  BY DEF Init, CutInv, OutcomeInv, OrderInv, SentInv, ReturnCodeTellsWire
<1> QED
  BY <1>1, InitEstablishes DEF OInv

\* The transaction, the outcomes and the wire stay related as above.
THEOREM OutcomeInductive == Spec => []OInv
  BY InitOutcome, OutcomeStepPreserves, PTL DEF Spec

\* What push_frame returned tells what is on the wire: all of a live frame,
\* or a proper part of it from its first byte on.
THEOREM ReturnCodesTell == Spec => []ReturnCodeTellsWire
<1>1. OInv => ReturnCodeTellsWire
  BY DEF OInv
<1> QED
  BY OutcomeInductive, <1>1, PTL

-----------------------------------------------------------------------------
(* FrameDelivery, as the refinement mapping shows it *)

Sent   == [k \in 1..Len(wire) |-> <<wire[k].ts, 1 + wire[k].pos \div PayloadSize>>]
Logged == [k \in 1..Len(captured) |-> <<captured[k].ts, captured[k].cb>>]
Done   == [f \in 1..(IF pc = "idle" THEN frame ELSE frame - 1) |-> history[f].ret]
Flying == [n        |-> PacketCount(history[frame].len),
           k        |-> Len(OnWire(frame)),
           live     |-> ~history[frame].only,
           observer |-> history[frame].cb]
InFlight == IF pc = "idle" THEN {} ELSE {Flying}

LEMMA AcceptIs ==
  ASSUME NEW n, NEW live, NEW o, InFlight = {}, o = None => live,
         InFlight' = {[n |-> n, k |-> 0, live |-> live, observer |-> o]},
         UNCHANGED <<Sent, Logged, Done>>
  PROVE  Delivered!Accept(n, live, o)
BY DEF Delivered!Accept, Sent, Logged, Done, Flying, InFlight

Numbers(d, m) == [j \in 1..m |-> <<Len(Done) + 1, d.k + j>>]

LEMMA TransmitIs ==
  ASSUME NEW d, NEW m, d.live, d.k + m <= d.n,
         Sent' = Sent \o Numbers(d, m), InFlight' = {[d EXCEPT !.k = d.k + m]},
         UNCHANGED <<Logged, Done>>
  PROVE  Delivered!Transmit(d, m)
BY DEF Delivered!Transmit, Delivered!Numbers, Delivered!id, Numbers,
       Sent, Logged, Done, Flying, InFlight

LEMMA SucceedIs ==
  ASSUME NEW d, d.live => d.k = d.n,
         Logged' = IF d.observer = None THEN Logged
                   ELSE Append(Logged, <<Len(Done) + 1, d.observer>>),
         Done' = Append(Done, "OK"), InFlight' = {}, Sent' = Sent
  PROVE  Delivered!Succeed(d)
BY DEF Delivered!Succeed, Delivered!id, Sent, Logged, Done, Flying, InFlight

LEMMA FailIs ==
  ASSUME NEW d, NEW m, d.live, d.k + m < d.n,
         Sent' = Sent \o Numbers(d, m), Done' = Append(Done, "SEND_ERROR"),
         InFlight' = {}, Logged' = Logged
  PROVE  Delivered!Fail(d, m)
BY DEF Delivered!Fail, Delivered!Numbers, Delivered!id, Numbers,
       Sent, Logged, Done, Flying, InFlight

\* A step of the frame in flight is a step of FrameDelivery.
LEMMA FlyingSteps ==
  ASSUME NEW d, InFlight = {d}, NEW m \in 0..d.n,
         Delivered!Transmit(d, m) \/ Delivered!Succeed(d) \/ Delivered!Fail(d, m)
  PROVE  Delivered!DNext
<1>1. \E e \in InFlight : \E i \in 0..e.n :
        Delivered!Transmit(e, i) \/ Delivered!Succeed(e) \/ Delivered!Fail(e, i)
  OBVIOUS
<1> QED
  BY <1>1, Zenon DEF Delivered!DNext, InFlight, Flying

Delivers == [Delivered!DNext]_(Delivered!dvars)

\* A frame has at least one packet and at most as many as it has bytes.
LEMMA PacketCountRange ==
  ASSUME NEW len \in Nat, len > 0
  PROVE  PacketCount(len) \in 1..len
<1>1. CASE ~Fragmenting
  BY <1>1 DEF PacketCount
<1>2. CASE Fragmenting
  <2> DEFINE x == len + PayloadSize - 1
             q == x \div PayloadSize
             r == x % PayloadSize
  <2>1. x \in Int /\ PayloadSize \in Int /\ PayloadSize > 0
    BY PayloadAssumption
  <2> HIDE DEF x
  <2>2. /\ q \in Int /\ r \in 0..PayloadSize - 1
        /\ x = (PayloadSize * q) + r
    BY <2>1
  <2> HIDE DEF q, r
  <2>3. q >= 1
    <3>1. q <= 0 => PayloadSize * q <= 0
      BY <2>1, <2>2
    <3> QED
      BY <2>1, <2>2, <3>1 DEF x
  <2>4. q <= len
    <3>1. q >= len + 1 => PayloadSize * q >= PayloadSize * (len + 1)
      BY <2>1, <2>2
    <3>2. PayloadSize * (len + 1) = PayloadSize * len + PayloadSize /\ PayloadSize * len \in Int
      BY <2>1
    <3>3. PayloadSize * len >= len
      BY <2>1
    <3> QED
      BY <2>1, <2>2, <3>1, <3>2, <3>3 DEF x
  <2> QED
    BY <1>2, <2>2, <2>3, <2>4 DEF PacketCount, q, x
<1> QED
  BY <1>1, <1>2

\* Packet i of a transaction is shown as packet i of its frame.
LEMMA ShownPacket ==
  ASSUME IInv, CutInv, NEW i \in 1..Len(packets)
  PROVE  1 + flatten_packet(packets[i]).pos \div PayloadSize = i
<1>1. flatten_packet(packets[i]).pos = (i - 1) * PayloadSize + 0
  BY PayloadAssumption DEF CutInv, flatten_packet
<1>2. i - 1 \in Int /\ 0 < PayloadSize
  BY PayloadAssumption
<1>3. ((i - 1) * PayloadSize + 0) \div PayloadSize = i - 1
  BY <1>2, Quotient
<1> QED
  BY <1>1, <1>2, <1>3

\* The packets a step puts on the wire are shown in their order.
LEMMA SentGrows ==
  ASSUME wire \in Seq(Packet), NEW s \in Seq(Packet), wire' = wire \o s
  PROVE  Sent' = Sent \o [j \in 1..Len(s) |-> <<s[j].ts, 1 + s[j].pos \div PayloadSize>>]
<1> DEFINE pair(p) == <<p.ts, 1 + p.pos \div PayloadSize>>
           S == [k \in 1..Len(wire) |-> pair(wire[k])]
           T == [j \in 1..Len(s) |-> pair(s[j])]
           U == [k \in 1..Len(wire) + Len(s) |-> pair((wire \o s)[k])]
<1>1. Len(wire) \in Nat /\ Len(s) \in Nat /\ Len(wire \o s) = Len(wire) + Len(s)
  OBVIOUS
<1>2. /\ \A k \in 1..Len(wire) : (wire \o s)[k] = wire[k]
      /\ \A k \in 1..Len(wire) + Len(s) : k > Len(wire) => (wire \o s)[k] = s[k - Len(wire)]
  OBVIOUS
<1>3. /\ \A k \in 1..Len(wire) : U[k] = S[k] /\ k \in 1..Len(wire) + Len(s)
      /\ \A k \in 1..Len(wire) + Len(s) : k > Len(wire) =>
           k - Len(wire) \in 1..Len(s) /\ U[k] = T[k - Len(wire)]
  BY <1>1, <1>2
<1>4. /\ U = [k \in 1..Len(wire) + Len(s) |-> U[k]]
      /\ Len(S) = Len(wire) /\ Len(T) = Len(s)
  BY <1>1
<1>5. Sent = S /\ Sent' = U
  BY <1>1 DEF Sent
<1> DEFINE X == {pair(p) : p \in Packet}
<1>8. S \in Seq(X) /\ T \in Seq(X) /\ U \in Seq(X)
  <2>1. /\ \A k \in 1..Len(wire) : wire[k] \in Packet
        /\ \A k \in 1..Len(s) : s[k] \in Packet
        /\ \A k \in 1..Len(wire) + Len(s) : (wire \o s)[k] \in Packet
    <3>1. wire \o s \in Seq(Packet)
      OBVIOUS
    <3> QED
      BY <1>1, <3>1
  <2>2. /\ \A k \in 1..Len(wire) : S[k] \in X
        /\ \A k \in 1..Len(s) : T[k] \in X
        /\ \A k \in 1..Len(wire) + Len(s) : U[k] \in X
    BY <2>1
  <2> QED
    BY <1>1, <2>2
<1> HIDE DEF S, T, U, X, pair
<1>6. /\ S \o T \in Seq(X) /\ Len(S \o T) = Len(wire) + Len(s)
      /\ \A k \in 1..Len(wire) + Len(s) :
           (S \o T)[k] = IF k <= Len(wire) THEN S[k] ELSE T[k - Len(wire)]
  <2>1. /\ S \o T \in Seq(X) /\ Len(S \o T) = Len(S) + Len(T)
        /\ \A k \in 1..Len(S) + Len(T) :
             (S \o T)[k] = IF k <= Len(S) THEN S[k] ELSE T[k - Len(S)]
    BY <1>8
  <2> QED
    BY <1>4, <2>1
<1>7. U = S \o T
  <2>1. \A k \in 1..Len(wire) + Len(s) : U[k] = (S \o T)[k]
    BY <1>1, <1>3, <1>6
  <2>2. Len(U) = Len(wire) + Len(s)
    BY <1>1, <1>4
  <2> QED
    BY <1>6, <1>8, <2>1, <2>2, SeqEqual
<1> QED
  BY <1>5, <1>7 DEF T, pair

\* While a frame is pushed the outcomes shown are those of the frames before.
LEMMA DoneSoFar ==
  ASSUME IInv, pc # "idle"
  PROVE  Len(Done) + 1 = frame
<1>1. frame \in Nat /\ frame > 0
  BY DEF IInv, TypeOK, DataTypeOK, FrameInv
<1>2. Done = [f \in 1..frame - 1 |-> history[f].ret]
  BY DEF Done
<1> QED
  BY <1>1, <1>2

\* A step that sends nothing and neither begins nor ends a frame shows nothing.
LEMMA NothingShown ==
  ASSUME UNCHANGED <<wire, captured, history, rce_flags, format>>,
         (pc = "idle") = (pc' = "idle")
  PROVE  Delivers
<1>1. UNCHANGED <<Sent, Logged, Done>>
  BY DEF Sent, Logged, Done
<1>2. InFlight' = InFlight
  BY DEF InFlight, Flying, OnWire, PacketCount, Fragmenting
<1>3. UNCHANGED Delivered!dvars
  BY <1>1, <1>2 DEF Delivered!dvars, Sent, Logged, Done, Flying, InFlight
<1> QED
  BY <1>3 DEF Delivers

\* init_transaction accepts a frame.
LEMMA PushDelivers ==
  ASSUME OInv, NEW len \in Lens, PushFrame(len)
  PROVE  Delivers
<1>1. /\ pc = "idle" /\ pc' = "enqueue" /\ frame \in Nat /\ frame' = frame + 1
      /\ \A f \in 1..frame : history'[f] = history[f]
      /\ history'[frame + 1] = [len |-> len, cb |-> capture_cb,
                                only |-> capture_only, before |-> sent_pkts,
                                ret |-> "PENDING"]
  BY PushHistory DEF OInv
<1>2. len > 0 /\ len \in Nat /\ UNCHANGED <<wire, captured, rce_flags, format>>
  BY LensAssumption DEF PushFrame, ctxVars
<1>3. PICK n : n = PacketCount(len)
  OBVIOUS
<1>4. n \in UNION {1..l : l \in Lens}
  BY <1>2, <1>3, PacketCountRange
<1>5. PICK live : live = ~capture_only
  OBVIOUS
<1>6. PICK o : o = capture_cb
  OBVIOUS
<1>7. live \in BOOLEAN /\ o \in Callbacks \cup {None} /\ (o = None => live)
  BY <1>5, <1>6 DEF OInv, IInv, TypeOK, ControlTypeOK, OutcomeInv
<1>8. UNCHANGED <<Sent, Logged, Done>>
  BY <1>1, <1>2 DEF Sent, Logged, Done
<1>9. InFlight = {} /\ InFlight' = {Flying'}
  BY <1>1 DEF InFlight
<1>10. Flying' = [n |-> n, k |-> 0, live |-> live, observer |-> o]
  <2>1. Len(OnWire(frame)') = 0
    BY PushStarts
  <2>2. PacketCount(len)' = n
    BY <1>2, <1>3 DEF PacketCount, Fragmenting
  <2>3. /\ history'[frame'].len = len /\ history'[frame'].cb = o
        /\ (~history'[frame'].only) = live
    BY <1>1, <1>5, <1>6
  <2>4. PacketCount(history[frame].len)' = n
    BY <2>2, <2>3 DEF PacketCount
  <2> QED
    BY <2>1, <2>3, <2>4 DEF Flying
<1>11. Delivered!Accept(n, live, o)
  BY <1>7, <1>8, <1>9, <1>10, AcceptIs
<1>12. Delivered!DNext
  BY <1>4, <1>7, <1>11, Zenon DEF Delivered!DNext
<1> QED
  BY <1>12 DEF Delivers

\* What is shown of the frame in progress.
LEMMA FlyingIs ==
  ASSUME OInv, pc # "idle"
  PROVE  /\ InFlight = {Flying}
         /\ Flying.live = ~capture_only /\ Flying.observer = capture_cb
         /\ ~capture_only => Flying.k = SentSoFar
         /\ pc \in {"paced", "send", "emit"} => Flying.n = Len(packets)
         /\ Len(packets) \in Nat /\ wire \in Seq(Packet)
<1>1. /\ history[frame].only = capture_only /\ history[frame].cb = capture_cb
      /\ Len(packets) \in Nat /\ wire \in Seq(Packet)
  BY DEF OInv, IInv, FrameInv, TypeOK, DataTypeOK
<1>2. ~capture_only => Len(OnWire(frame)) = SentSoFar
  BY DEF OInv, SentInv
<1>3. pc \in {"paced", "send", "emit"} => PacketCount(history[frame].len) = Len(packets)
  BY DEF OInv, CutInv
<1> QED
  BY <1>1, <1>2, <1>3 DEF InFlight, Flying

\* The m packets after the first k of a transaction are shown as the ones
\* FrameDelivery numbers.
LEMMA NumbersShown ==
  ASSUME OInv, pc \in {"paced", "send"}, ~capture_only,
         NEW m \in Nat, SentSoFar + m <= Len(packets), SentSoFar \in Nat,
         NEW s \in Seq(Packet), Len(s) = m,
         \A j \in 1..m : s[j] = flatten_packet(packets[SentSoFar + j]),
         wire' = wire \o s
  PROVE  /\ Sent' = Sent \o Numbers(Flying, m)
         /\ \A j \in 1..Len(s) : s[j].ts = frame
<1>1. /\ Flying.k = SentSoFar /\ Len(packets) \in Nat /\ wire \in Seq(Packet)
  BY FlyingIs
<1>2. Len(Done) + 1 = frame
  BY DoneSoFar DEF OInv
<1>3. ASSUME NEW j \in 1..m
      PROVE  s[j].ts = frame /\ 1 + s[j].pos \div PayloadSize = SentSoFar + j
  <2>1. SentSoFar + j \in 1..Len(packets)
    BY <1>1
  <2>2. flatten_packet(packets[SentSoFar + j]).ts = frame
    BY <2>1, FlattenedPacket DEF OInv
  <2>3. 1 + flatten_packet(packets[SentSoFar + j]).pos \div PayloadSize = SentSoFar + j
    BY <2>1, ShownPacket DEF OInv
  <2> QED
    BY <2>2, <2>3
<1>4. Sent' = Sent \o [j \in 1..m |-> <<s[j].ts, 1 + s[j].pos \div PayloadSize>>]
  BY <1>1, SentGrows
<1>5. [j \in 1..m |-> <<s[j].ts, 1 + s[j].pos \div PayloadSize>>] = Numbers(Flying, m)
  BY <1>1, <1>2, <1>3 DEF Numbers
<1> QED
  BY <1>3, <1>4, <1>5

\* A step that sends m packets of a live frame and goes on.
LEMMA SendsDelivers ==
  ASSUME OInv, OInv', pc \in {"paced", "send"}, ~capture_only, SentSoFar \in Nat,
         NEW m \in Nat, SentSoFar + m <= Len(packets), SentSoFar' = SentSoFar + m,
         NEW s \in Seq(Packet), Len(s) = m,
         \A j \in 1..m : s[j] = flatten_packet(packets[SentSoFar + j]),
         wire' = wire \o s, pc' \in {"paced", "emit"},
         UNCHANGED <<captured, history, rce_flags, format, packets, capture_only, capture_cb>>
  PROVE  Delivers
<1>1. PICK d : d = Flying
  OBVIOUS
<1>2. /\ InFlight = {d} /\ d.live /\ d.k = SentSoFar /\ d.n = Len(packets)
      /\ Len(packets) \in Nat
  BY <1>1, FlyingIs
<1>3. Sent' = Sent \o Numbers(d, m)
  BY <1>1, NumbersShown
<1>4. Logged' = Logged /\ Done' = Done
  BY DEF Logged, Done
<1>5. InFlight' = {Flying'}
  BY DEF InFlight
<1>6. Flying' = [d EXCEPT !.k = d.k + m]
  <2>1. Len(OnWire(frame)') = SentSoFar + m
    BY DEF OInv, SentInv
  <2>2. PacketCount(history[frame].len)' = PacketCount(history[frame].len)
    BY DEF PacketCount, Fragmenting
  <2>3. history' = history /\ Flying.k = SentSoFar
    BY <1>1, <1>2
  <2> QED
    BY <1>1, <2>1, <2>2, <2>3 DEF Flying
<1>7. m \in 0..d.n /\ d.k + m <= d.n
  BY <1>2
<1>8. Delivered!Transmit(d, m)
  BY <1>2, <1>3, <1>4, <1>5, <1>6, <1>7, TransmitIs
<1>9. Delivered!DNext
  BY <1>2, <1>7, <1>8, FlyingSteps
<1> QED
  BY <1>9 DEF Delivers

LEMMA SendPacedDelivers == ASSUME OInv, SendPaced PROVE Delivers
<1> DEFINE p == flatten_packet(packets[next])
<1>1. /\ pc = "paced" /\ next' = next + 1
      /\ pc' = IF next = Len(packets) THEN "emit" ELSE "paced"
      /\ wire' = IF capture_only THEN wire ELSE Append(wire, p)
      /\ UNCHANGED <<captured, history, rce_flags, format, packets, capture_only, capture_cb>>
  BY DEF SendPaced, ctxVars, capVars, txVars
<1>2. next \in 1..Len(packets) /\ Len(packets) \in Nat /\ wire \in Seq(Packet)
  BY <1>1 DEF OInv, IInv, TypeOK, DataTypeOK, FlushInv
<1>3. CASE capture_only
  BY <1>1, <1>3, NothingShown
<1>4. CASE ~capture_only
  <2>1. p \in Packet
    BY <1>1, <1>2, FlattenedPacket DEF OInv
  <2>2. SentSoFar = next - 1 /\ SentSoFar' = next
    BY <1>1, <1>2 DEF SentSoFar
  <2>3. PICK s : s = <<p>>
    OBVIOUS
  <2>4. wire' = wire \o s /\ s \in Seq(Packet) /\ Len(s) = 1 /\ s[1] = p
    <3> HIDE DEF p
    <3> QED
      BY <1>1, <1>2, <1>4, <2>1, <2>3, AppendIsConcat
  <2>5. \A j \in 1..1 : s[j] = flatten_packet(packets[SentSoFar + j])
    BY <1>2, <2>2, <2>4
  <2>6. OInv'
    BY OutcomeStepPreserves DEF Next, PushStep
  <2>7. /\ SentSoFar \in Nat /\ SentSoFar + 1 <= Len(packets)
        /\ SentSoFar' = SentSoFar + 1 /\ 1 \in Nat
    BY <1>2, <2>2
  <2> HIDE DEF p
  <2> QED
    BY <1>1, <1>4, <2>4, <2>5, <2>6, <2>7, SendsDelivers
<1> QED
  BY <1>3, <1>4

LEMMA SendAllDelivers == ASSUME OInv, SendAll PROVE Delivers
<1>1. /\ pc = "send" /\ pc' = "emit"
      /\ wire' = IF capture_only THEN wire ELSE wire \o Flattened
      /\ UNCHANGED <<captured, history, rce_flags, format, packets, capture_only, capture_cb>>
  BY DEF SendAll, ctxVars, capVars, txVars
<1>2. CASE capture_only
  BY <1>1, <1>2, NothingShown
<1>3. CASE ~capture_only
  <2>1. PICK s : s = Flattened
    OBVIOUS
  <2>2. s \in Seq(Packet) /\ Len(s) = Len(packets) /\ Len(packets) \in Nat
    BY <1>1, <2>1, FlattenedWhole DEF OInv, IInv, TypeOK, DataTypeOK
  <2>3. SentSoFar = 0 /\ SentSoFar' = Len(packets)
    BY <1>1 DEF SentSoFar
  <2>4. \A j \in 1..Len(packets) : s[j] = flatten_packet(packets[SentSoFar + j])
    BY <2>1, <2>2, <2>3 DEF Flattened
  <2>5. OInv'
    BY OutcomeStepPreserves DEF Next, PushStep
  <2>6. PICK m : m = Len(packets)
    OBVIOUS
  <2>7. /\ SentSoFar \in Nat /\ m \in Nat /\ SentSoFar + m <= Len(packets)
        /\ SentSoFar' = SentSoFar + m
    BY <2>2, <2>3, <2>6
  <2> QED
    BY <1>1, <1>3, <2>1, <2>2, <2>4, <2>5, <2>6, <2>7, SendsDelivers
<1> QED
  BY <1>2, <1>3

\* The end of a push is shown as the frame's outcome.
LEMMA DoneGrows ==
  ASSUME IInv, pc # "idle", NEW code \in {"OK", "SEND_ERROR"}, Return(code)
  PROVE  Done' = Append(Done, code) /\ InFlight' = {}
<1>1. /\ pc' = "idle" /\ frame' = frame /\ frame \in Nat /\ frame > 0
      /\ \A f \in 1..frame : history'[f].ret = IF f = frame THEN code
                                               ELSE history[f].ret
  BY ReturnHistory
<1>2. Done = [f \in 1..frame - 1 |-> history[f].ret] /\ Len(Done) = frame - 1
  BY <1>1 DEF Done
<1>3. Done' = [f \in 1..frame |-> IF f = frame THEN code ELSE history[f].ret]
  BY <1>1 DEF Done
<1>4. Append(Done, code) = [f \in 1..(frame - 1) + 1 |->
                              IF f = (frame - 1) + 1 THEN code ELSE Done[f]]
  BY <1>1, <1>2
<1>5. \A f \in 1..frame : f # frame => Done[f] = history[f].ret
  BY <1>1, <1>2
<1>6. (frame - 1) + 1 = frame
  BY <1>1
<1>7. InFlight' = {}
  BY <1>1 DEF InFlight
<1> QED
  BY <1>3, <1>4, <1>5, <1>6, <1>7

\* A failed send is a failure short of the whole frame.
LEMMA FailDelivers ==
  ASSUME OInv, pc \in {"paced", "send"}, ~capture_only, SentSoFar \in Nat,
         NEW m \in Nat, SentSoFar + m < Len(packets),
         NEW s \in Seq(Packet), Len(s) = m,
         \A j \in 1..m : s[j] = flatten_packet(packets[SentSoFar + j]),
         wire' = wire \o s, captured' = captured, Return("SEND_ERROR")
  PROVE  Delivers
<1>1. PICK d : d = Flying
  OBVIOUS
<1>2. /\ InFlight = {d} /\ d.live /\ d.k = SentSoFar /\ d.n = Len(packets)
      /\ Len(packets) \in Nat
  BY <1>1, FlyingIs
<1>3. Sent' = Sent \o Numbers(d, m)
  <2>1. SentSoFar + m <= Len(packets)
    BY <1>2
  <2> QED
    BY <1>1, <2>1, NumbersShown
<1>4. Logged' = Logged
  BY DEF Logged
<1>5. Done' = Append(Done, "SEND_ERROR") /\ InFlight' = {}
  BY DoneGrows DEF OInv
<1>6. m \in 0..d.n /\ d.k + m < d.n
  BY <1>2
<1>7. Delivered!Fail(d, m)
  BY <1>2, <1>3, <1>4, <1>5, <1>6, FailIs
<1>8. Delivered!DNext
  BY <1>2, <1>6, <1>7, FlyingSteps
<1> QED
  BY <1>8 DEF Delivers

LEMMA SendPacedFailsDelivers == ASSUME OInv, SendPacedFails PROVE Delivers
<1>1. /\ pc = "paced" /\ ~capture_only /\ Return("SEND_ERROR")
      /\ wire' = wire /\ captured' = captured
  BY DEF SendPacedFails
<1>2. next \in 1..Len(packets) /\ Len(packets) \in Nat /\ wire \in Seq(Packet)
  BY <1>1 DEF OInv, IInv, TypeOK, DataTypeOK, FlushInv
<1>3. SentSoFar \in Nat /\ 0 \in Nat /\ SentSoFar + 0 < Len(packets)
  BY <1>1, <1>2 DEF SentSoFar
<1>4. PICK s : s = <<>>
  OBVIOUS
<1>5. s \in Seq(Packet) /\ Len(s) = 0 /\ wire' = wire \o s
  BY <1>1, <1>2, <1>4
<1>6. \A j \in 1..0 : s[j] = flatten_packet(packets[SentSoFar + j])
  OBVIOUS
<1> QED
  BY <1>1, <1>3, <1>5, <1>6, FailDelivers

LEMMA SendAllFailsDelivers ==
  ASSUME OInv, NEW k \in 0..Len(packets), SendAllFails(k) PROVE Delivers
<1>1. /\ pc = "send" /\ ~capture_only /\ k < Len(packets) /\ Return("SEND_ERROR")
      /\ wire' = wire \o SubSeq(Flattened, 1, k) /\ captured' = captured
  BY DEF SendAllFails
<1>2. PICK F : F = Flattened
  OBVIOUS
<1>3. F \in Seq(Packet) /\ Len(F) = Len(packets) /\ Len(packets) \in Nat
  BY <1>1, <1>2, FlattenedWhole DEF OInv, IInv, TypeOK, DataTypeOK
<1>4. \A j \in 1..Len(packets) : F[j] = flatten_packet(packets[j])
  BY <1>2 DEF Flattened
<1>5. SentSoFar = 0
  BY <1>1 DEF SentSoFar
<1>6. PICK s : s = SubSeq(F, 1, k)
  OBVIOUS
<1>7. k \in Nat /\ s \in Seq(Packet) /\ Len(s) = k /\ \A j \in 1..k : s[j] = F[j]
  BY <1>1, <1>3, <1>6
<1>8. \A j \in 1..k : s[j] = flatten_packet(packets[SentSoFar + j])
  BY <1>1, <1>3, <1>4, <1>5, <1>7
<1>9. SentSoFar \in Nat /\ SentSoFar + k < Len(packets)
  BY <1>1, <1>5, <1>7
<1> QED
  BY <1>1, <1>2, <1>6, <1>7, <1>8, <1>9, FailDelivers

\* A call of the callback is shown as a captured frame.
LEMMA LoggedGrows ==
  ASSUME captured \in Seq(Capture), NEW c \in Capture, captured' = Append(captured, c)
  PROVE  Logged' = Append(Logged, <<c.ts, c.cb>>)
<1> DEFINE n == Len(captured)
           e == <<c.ts, c.cb>>
           pair(s, i) == <<s[i].ts, s[i].cb>>
<1>1. n \in Nat /\ Len(captured') = n + 1
  BY AppendProperties, LenProperties
<1>2. \A i \in 1..(n + 1) : captured'[i] = IF i = n + 1 THEN c ELSE captured[i]
  BY <1>1, AppendProperties
<1>3. Logged' = [i \in 1..(n + 1) |-> IF i = n + 1 THEN e ELSE pair(captured, i)]
  BY <1>1, <1>2 DEF Logged
<1>4. Logged = [i \in 1..n |-> pair(captured, i)] /\ Len(Logged) = n
  BY <1>1 DEF Logged
<1>5. ASSUME NEW i \in 1..(n + 1), i # n + 1 PROVE Logged[i] = pair(captured, i)
  BY <1>1, <1>4, <1>5
<1>6. Append(Logged, e) = [i \in 1..(n + 1) |-> IF i = n + 1 THEN e ELSE Logged[i]]
  BY <1>1, <1>4
<1> HIDE DEF e, pair, n
<1> QED
  BY <1>3, <1>5, <1>6 DEF e

\* A push that succeeds is a success, captured by the callback of its frame.
LEMMA EmitDelivers == ASSUME OInv, EmitCapture PROVE Delivers
<1> DEFINE c == [cb      |-> capture_cb,
                 ts      |-> rtp_headers[1].ts,
                 first   |-> rtp_headers[1].seq,
                 last    |-> rtp_headers[Len(rtp_headers)].seq,
                 packets |-> frame_packets]
<1>1. /\ pc = "emit" /\ Return("OK") /\ wire' = wire
      /\ captured' = IF capture_active /\ capture_cb # None /\ frame_packets # <<>>
                     THEN Append(captured, c) ELSE captured
  BY DEF EmitCapture
<1>2. PICK d : d = Flying
  OBVIOUS
<1>3. /\ InFlight = {d} /\ d.live = ~capture_only /\ d.observer = capture_cb
      /\ d.live => d.k = d.n
      /\ d.n \in Nat
  BY <1>1, <1>2, FlyingIs DEF SentSoFar
<1>4. Done' = Append(Done, "OK") /\ InFlight' = {}
  BY <1>1, DoneGrows DEF OInv
<1>5. Sent' = Sent
  BY <1>1 DEF Sent
<1>6. (capture_active /\ frame_packets # <<>>) <=> capture_cb # None
  <2>1. capture_active <=> capture_cb # None
    BY <1>1 DEF OInv, OutcomeInv
  <2>2. capture_active => Len(frame_packets) = Len(packets) /\ packets # <<>>
    BY <1>1 DEF OInv, IInv, FlushInv
  <2>3. packets \in Seq([hdr : Nat, pos : Nat, len : Nat]) /\ frame_packets \in Seq(Packet)
    BY DEF OInv, IInv, TypeOK, DataTypeOK
  <2> QED
    BY <2>1, <2>2, <2>3
<1>7. Logged' = IF d.observer = None THEN Logged
                ELSE Append(Logged, <<Len(Done) + 1, d.observer>>)
  <2>1. CASE capture_cb = None
    BY <1>1, <1>3, <2>1 DEF Logged
  <2>2. CASE capture_cb # None
    <3>1. captured' = Append(captured, c)
      BY <1>1, <1>6, <2>2
    <3>2. /\ Len(packets) = Len(rtp_headers) /\ packets # <<>>
          /\ \A i \in 1..Len(packets) : rtp_headers[i].ts = frame
          /\ rtp_headers \in Seq(Header) /\ frame_packets \in Seq(Packet)
          /\ packets \in Seq([hdr : Nat, pos : Nat, len : Nat])
          /\ captured \in Seq(Capture)
          /\ capture_cb \in Callbacks \cup {None}
      BY <1>1 DEF OInv, IInv, TxInv, FlushInv, TypeOK, DataTypeOK, ControlTypeOK
    <3>3. 1 \in 1..Len(packets) /\ Len(rtp_headers) \in 1..Len(rtp_headers)
      BY <3>2
    <3>4. rtp_headers[1] \in Header /\ rtp_headers[Len(rtp_headers)] \in Header
      BY <3>2, <3>3
    <3>5. c \in Capture
      BY <2>2, <3>2, <3>4 DEF Capture, Header
    <3>6. c.ts = frame /\ c.cb = capture_cb
      BY <3>2, <3>3
    <3> HIDE DEF c
    <3>7. PICK e \in Capture : e = c
      BY <3>5
    <3>8. Logged' = Append(Logged, <<e.ts, e.cb>>)
      BY <3>1, <3>2, <3>7, LoggedGrows
    <3>9. Len(Done) + 1 = frame
      BY <1>1, DoneSoFar DEF OInv
    <3> QED
      BY <1>3, <2>2, <3>6, <3>7, <3>8, <3>9
  <2> QED
    BY <2>1, <2>2
<1>8. Delivered!Succeed(d)
  BY <1>3, <1>4, <1>5, <1>7, SucceedIs
<1>9. 0 \in 0..d.n
  BY <1>3
<1>10. Delivered!DNext
  BY <1>3, <1>8, <1>9, FlyingSteps
<1> QED
  BY <1>10 DEF Delivers

\* Every step is a step of FrameDelivery or shows nothing of it.
LEMMA StepDelivers == OInv /\ [Next]_vars => Delivers
<1> SUFFICES ASSUME OInv, [Next]_vars PROVE Delivers
  OBVIOUS
<1> USE DEF ctxVars, rtpVars, fpsVars, capVars, txVars, mediaVars, flushVars
<1>1. CASE Configure \/ RefuseFrame \/ UNCHANGED vars
  <2>1. UNCHANGED <<wire, captured, history, rce_flags, format>> /\ pc' = pc
    BY <1>1 DEF Configure, SetPacketCapture, ClearPacketCapture, SetFps,
                RefuseFrame, vars
  <2> QED
    BY <2>1, NothingShown
<1>2. CASE EnqueueWhole \/ EnqueueFragment \/ EnqueueLast \/ FlushBegin
  <2>1. /\ UNCHANGED <<wire, captured, history, rce_flags, format>>
        /\ pc # "idle" /\ pc' # "idle"
    BY <1>2 DEF EnqueueWhole, EnqueueFragment, EnqueueLast, FlushBegin
  <2> QED
    BY <2>1, NothingShown
<1> QED
  BY <1>1, <1>2, PushDelivers, SendPacedDelivers, SendPacedFailsDelivers,
     SendAllDelivers, SendAllFailsDelivers, EmitDelivers DEF Next, PushStep

\* Pushing frames implements FrameDelivery: one frame at a time, its packets
\* in order, captured once, by the callback of its time, and only on success.
THEOREM QueueImplementsDelivery == Spec => FramesAreDelivered
<1>1. Init => Delivered!DInit
  BY DEF Init, Delivered!DInit
<1>2. OInv /\ [Next]_vars => [Delivered!DNext]_(Delivered!dvars)
  BY StepDelivers DEF Delivers
<1> QED
  BY <1>1, <1>2, OutcomeInductive, PTL DEF Spec, FramesAreDelivered, Delivered!DSpec

-----------------------------------------------------------------------------
(* Sequence numbers *)

\* The number s, given to the packet after the first n, and the next one to
\* give are as far apart as the packets numbered since.
InStep(s, n) == ((seq - s) - (sent_pkts - n)) % SeqMod = 0

\* The sequence number of every packet, on the wire or waiting, says how many
\* packets were numbered before it.
NumberInv ==
  /\ \A f \in 1..frame - 1 :
       history[f + 1].before = history[f].before + PacketCount(history[f].len)
  /\ frame > 0 => sent_pkts = history[frame].before +
        (IF pc = "idle" THEN PacketCount(history[frame].len) ELSE Len(packets))
  /\ \A i \in 1..Len(packets) :
       InStep(rtp_headers[i].seq, history[frame].before + i - 1)
  /\ \A k \in 1..Len(wire) : InStep(wire[k].seq, Numbered(wire[k]))

GInv == OInv /\ NumberInv

\* A number is a multiple of SeqMod when the remainder is zero.
LEMMA Multiple ==
  ASSUME NEW x \in Int PROVE x % SeqMod = 0 <=> \E c \in Int : x = c * SeqMod
<1>1. /\ x \div SeqMod \in Int
      /\ x = (SeqMod * (x \div SeqMod)) + (x % SeqMod)
  BY SeqModAssumption
<1>2. x % SeqMod = 0 => x = (x \div SeqMod) * SeqMod
  BY <1>1, SeqModAssumption
<1>3. ASSUME NEW c \in Int PROVE (c * SeqMod) % SeqMod = 0
  BY SeqModAssumption
<1> QED
  BY <1>1, <1>2, <1>3

LEMMA MultipleDifference ==
  ASSUME NEW x \in Int, NEW y \in Int, x % SeqMod = 0, y % SeqMod = 0
  PROVE  (x - y) % SeqMod = 0
<1>1. PICK c \in Int, d \in Int : x = c * SeqMod /\ y = d * SeqMod
  BY Multiple
<1>2. x - y = (c - d) * SeqMod /\ c - d \in Int /\ x - y \in Int
  BY <1>1, SeqModAssumption
<1> QED
  BY <1>2, Multiple

\* Giving the next number keeps the others in step, across the wrap.
LEMMA NextInStep ==
  ASSUME NEW s \in Int, NEW n \in Int, seq \in 0..SeqMod - 1, sent_pkts \in Nat,
         seq' = NextSeq(seq), sent_pkts' = sent_pkts + 1
  PROVE  /\ InStep(s, n) => InStep(s, n)'
         /\ s = seq /\ n = sent_pkts => InStep(s, n)'
<1> DEFINE x == (seq - s) - (sent_pkts - n)
           y == (seq' - s) - (sent_pkts' - n)
           w == IF seq = SeqMod - 1 THEN SeqMod ELSE 0
<1>1. x \in Int /\ y \in Int /\ w \in Int /\ y = x - w
  BY SeqModAssumption DEF NextSeq
<1>2. w % SeqMod = 0
  BY SeqModAssumption
<1>3. x = 0 => x % SeqMod = 0
  BY SeqModAssumption
<1>4. s = seq /\ n = sent_pkts => x = 0
  BY SeqModAssumption
<1>5. InStep(s, n) = (x % SeqMod = 0) /\ InStep(s, n)' = (y % SeqMod = 0)
  BY DEF InStep
<1> HIDE DEF x, y, w
<1>6. x % SeqMod = 0 => y % SeqMod = 0
  BY <1>1, <1>2, MultipleDifference
<1> QED
  BY <1>3, <1>4, <1>5, <1>6

\* The numbers of the packets that were counted.
LEMMA NumbersTyped ==
  ASSUME OInv
  PROVE  /\ \A k \in 1..Len(wire) : wire[k].seq \in Int /\ Numbered(wire[k]) \in Int
         /\ \A i \in 1..Len(packets) :
              rtp_headers[i].seq \in Int /\ history[frame].before + i - 1 \in Int
         /\ frame \in Nat /\ Len(packets) \in Nat /\ Len(wire) \in Nat
         /\ \A f \in 1..frame : history[f].before \in Nat
         /\ seq \in 0..SeqMod - 1 /\ sent_pkts \in Nat
<1>1. /\ wire \in Seq(Packet) /\ rtp_headers \in Seq(Header)
      /\ history \in Seq(FrameRecord) /\ seq \in 0..SeqMod - 1 /\ sent_pkts \in Nat
      /\ packets \in Seq([hdr : Nat, pos : Nat, len : Nat])
      /\ Len(packets) = Len(rtp_headers)
  BY DEF OInv, IInv, TypeOK, DataTypeOK, ControlTypeOK, TxInv
<1>2. \A f \in 1..frame : history[f].before \in Nat
  <2>1. \A f \in 1..frame : history[f] \in FrameRecord
    BY <1>1
  <2> QED
    BY <2>1 DEF FrameRecord
<1>3. ASSUME NEW k \in 1..Len(wire)
      PROVE  wire[k].seq \in Int /\ Numbered(wire[k]) \in Int
  <2>1. wire[k] \in Packet /\ wire[k].ts \in 1..frame
    BY <1>1 DEF OInv, IInv, PastInv
  <2>2. wire[k].pos \div PayloadSize \in Int /\ wire[k].seq \in Int
    BY <2>1, SeqModAssumption, PayloadAssumption DEF Packet
  <2> QED
    BY <1>2, <2>1, <2>2 DEF Numbered
<1>4. ASSUME NEW i \in 1..Len(packets)
      PROVE  rtp_headers[i].seq \in Int /\ history[frame].before + i - 1 \in Int
  <2>1. rtp_headers[i] \in Header
    BY <1>1
  <2>2. frame \in 1..frame
    <3>1. packets # <<>>
      BY <1>1
    <3>2. frame \in Nat /\ frame > 0
      BY <1>1, <3>1 DEF OInv, IInv, FrameInv
    <3> QED
      BY <3>2
  <2> QED
    BY <1>2, <2>1, <2>2, SeqModAssumption DEF Header
<1> QED
  BY <1>1, <1>2, <1>3, <1>4

\* A packet that leaves, or has left, keeps the number it was given.
LEMMA WireNumbersKept ==
  ASSUME GInv, UNCHANGED <<seq, sent_pkts>>, frame' >= frame, frame' \in Nat,
         \A f \in 1..frame : history'[f].before = history[f].before,
         NEW s \in Seq(Packet), wire' = wire \o s,
         \A j \in 1..Len(s) : /\ pc \in {"paced", "send", "emit"}
                              /\ \E i \in 1..Len(packets) : s[j] = flatten_packet(packets[i])
  PROVE  \A k \in 1..Len(wire') : InStep(wire'[k].seq, Numbered(wire[k])')
                                   /\ InStep(wire[k].seq, Numbered(wire[k]))'
<1>1. wire \in Seq(Packet) /\ Len(wire) \in Nat /\ Len(s) \in Nat
  BY DEF GInv, OInv, IInv, TypeOK, DataTypeOK
<1>2. ASSUME NEW k \in 1..Len(wire)
      PROVE  InStep(wire[k].seq, history'[wire[k].ts].before + wire[k].pos \div PayloadSize)
  <2>1. wire[k].ts \in 1..frame
    BY DEF GInv, OInv, IInv, PastInv
  <2>2. InStep(wire[k].seq, Numbered(wire[k]))
    BY DEF GInv, NumberInv
  <2> QED
    BY <2>1, <2>2 DEF Numbered
<1>3. ASSUME NEW j \in 1..Len(s)
      PROVE  InStep(s[j].seq, history'[s[j].ts].before + s[j].pos \div PayloadSize)
  <2>1. PICK i \in 1..Len(packets) : s[j] = flatten_packet(packets[i])
    OBVIOUS
  <2>2. /\ s[j].ts = frame /\ s[j].seq = rtp_headers[i].seq
        /\ 1 + s[j].pos \div PayloadSize = i
    <3>1. flatten_packet(packets[i]).ts = frame
      BY FlattenedPacket DEF GInv, OInv
    <3>2. 1 + flatten_packet(packets[i]).pos \div PayloadSize = i
      BY ShownPacket DEF GInv, OInv
    <3>3. packets[i].hdr = i
      BY DEF GInv, OInv, IInv, TxInv
    <3> QED
      BY <2>1, <3>1, <3>2, <3>3 DEF flatten_packet
  <2>3. InStep(rtp_headers[i].seq, history[frame].before + i - 1)
    BY DEF GInv, NumberInv
  <2>4. frame \in 1..frame /\ history[frame].before \in Nat /\ i \in Nat
    <3>1. pc # "idle"
      OBVIOUS
    <3>2. frame \in 1..frame
      BY <3>1, InProgress DEF GInv
    <3>3. Len(packets) \in Nat /\ \A f \in 1..frame : history[f].before \in Nat
      BY NumbersTyped DEF GInv
    <3> QED
      BY <3>2, <3>3
  <2>5. s[j].pos \div PayloadSize \in Int
    <3>1. s[j] \in Packet
      OBVIOUS
    <3>2. s[j].pos \in Nat
      BY <3>1 DEF Packet
    <3> QED
      BY <3>2, PayloadAssumption
  <2>6. history'[s[j].ts].before + s[j].pos \div PayloadSize = history[frame].before + i - 1
    <3>1. PICK d \in Int : d = s[j].pos \div PayloadSize
      BY <2>5
    <3>2. history'[s[j].ts].before = history[frame].before
      BY <2>2, <2>4
    <3> QED
      BY <2>2, <2>4, <3>1, <3>2
  <2> QED
    BY <2>2, <2>3, <2>6
<1>4. \A k \in 1..Len(wire') :
        \/ k \in 1..Len(wire) /\ wire'[k] = wire[k]
        \/ \E j \in 1..Len(s) : wire'[k] = s[j]
  <2> TAKE k \in 1..Len(wire')
  <2>1. /\ Len(wire') = Len(wire) + Len(s)
        /\ wire'[k] = IF k <= Len(wire) THEN wire[k] ELSE s[k - Len(wire)]
    BY <1>1
  <2>2. k > Len(wire) => k - Len(wire) \in 1..Len(s)
    BY <1>1, <2>1
  <2> QED
    BY <1>1, <2>1, <2>2
<1>5. \A k \in 1..Len(wire') :
        InStep(wire'[k].seq, history'[wire'[k].ts].before + wire'[k].pos \div PayloadSize)
  BY <1>2, <1>3, <1>4
<1> QED
  BY <1>5 DEF InStep, Numbered

\* Steps in which no packet gets a number.
LEMMA NumberQuiet ==
  ASSUME GInv, UNCHANGED <<seq, sent_pkts, history, packets, rce_flags, format, wire>>,
         (pc = "idle") = (pc' = "idle"),
         \A i \in 1..Len(packets) : rtp_headers'[i].seq = rtp_headers[i].seq
  PROVE  NumberInv'
BY DEF GInv, NumberInv, InStep, Numbered, PacketCount, Fragmenting

LEMMA NumberPushFrame ==
  ASSUME GInv, NEW len \in Lens, PushFrame(len) PROVE NumberInv'
<1>1. /\ pc = "idle" /\ pc' = "enqueue" /\ packets' = <<>> /\ rtp_headers' = <<>>
      /\ frame \in Nat /\ frame' = frame + 1
      /\ \A f \in 1..frame : history'[f] = history[f]
      /\ history'[frame + 1] = [len |-> len, cb |-> capture_cb,
                                only |-> capture_only, before |-> sent_pkts,
                                ret |-> "PENDING"]
  BY PushHistory DEF GInv, OInv
<1>2. /\ UNCHANGED <<rce_flags, format, seq, sent_pkts, wire>>
      /\ wire \in Seq(Packet) /\ sent_pkts \in Nat
  BY DEF PushFrame, ctxVars, rtpVars, GInv, OInv, IInv, TypeOK, DataTypeOK, ControlTypeOK
<1>4. ASSUME NEW f \in 1..frame
      PROVE  history'[f + 1].before = history'[f].before + PacketCount(history'[f].len)
  <2>1. CASE f = frame
    <3>1. sent_pkts = history[frame].before + PacketCount(history[frame].len)
      BY <1>1, <2>1 DEF GInv, NumberInv
    <3> QED
      BY <1>1, <2>1, <3>1
  <2>2. CASE f # frame
    <3>1. f \in 1..frame - 1 /\ f + 1 \in 1..frame
      BY <1>1, <2>2
    <3> QED
      BY <1>1, <3>1 DEF GInv, NumberInv
  <2> QED
    BY <2>1, <2>2
<1>5. \A k \in 1..Len(wire) : InStep(wire[k].seq, Numbered(wire[k]))'
  <2>1. wire \o <<>> = wire /\ <<>> \in Seq(Packet) /\ Len(<<>>) = 0
    BY <1>2
  <2>2. PICK s : s = <<>>
    OBVIOUS
  <2>3. s \in Seq(Packet) /\ wire' = wire \o s /\ 1..Len(s) = {}
    BY <1>2, <2>1, <2>2
  <2>4. /\ frame' >= frame /\ frame' \in Nat
        /\ \A f \in 1..frame : history'[f].before = history[f].before
    BY <1>1
  <2> QED
    BY <1>2, <2>3, <2>4, WireNumbersKept
<1>6. \A f \in 1..frame' - 1 :
        (history[f + 1].before = history[f].before + PacketCount(history[f].len))'
  <2>1. \A f \in 1..frame' - 1 : f \in 1..frame
    BY <1>1
  <2> QED
    BY <1>2, <1>4, <2>1 DEF PacketCount, Fragmenting
<1>7. sent_pkts' = history'[frame'].before + Len(packets')
  BY <1>1, <1>2
<1>8. \A i \in 1..Len(packets') : FALSE
  BY <1>1
<1> QED
  BY <1>1, <1>2, <1>5, <1>6, <1>7, <1>8 DEF NumberInv

\* Every packet enqueued takes the next number.
LEMMA NumberEnqueue ==
  ASSUME GInv, EnqueueWhole \/ EnqueueFragment \/ EnqueueLast PROVE NumberInv'
<1>1. /\ pc = "enqueue" /\ pc' # "idle"
      /\ UNCHANGED <<history, wire, rce_flags, format>>
      /\ \E len \in Nat, m \in BOOLEAN : len > 0 /\ enqueue_message(data_pos, len, m)
  <2>1. pc = "enqueue" => data_left \in Nat /\ data_left > 0 /\ data_pos \in Nat
    BY DEF GInv, OInv, IInv, TypeOK, ControlTypeOK, EnqueueInv
  <2>2. CASE EnqueueWhole
    <3>1. /\ enqueue_message(data_pos, data_left, Fragmenting) /\ pc = "enqueue"
          /\ Fragmenting \in BOOLEAN
      BY <2>2 DEF EnqueueWhole, Fragmenting
    <3> QED
      BY <2>1, <2>2, <3>1 DEF EnqueueWhole, ctxVars
  <2>3. CASE EnqueueFragment
    <3>1. PayloadSize \in Nat /\ PayloadSize > 0
      BY PayloadAssumption
    <3>2. /\ enqueue_message(data_pos, PayloadSize, FALSE) /\ pc = "enqueue" /\ pc' = pc
          /\ UNCHANGED <<history, wire, rce_flags, format>>
      BY <2>3 DEF EnqueueFragment, ctxVars
    <3> QED
      BY <3>1, <3>2
  <2>4. CASE EnqueueLast
    <3>1. /\ enqueue_message(data_pos, data_left, format = "GENERIC") /\ pc = "enqueue"
          /\ (format = "GENERIC") \in BOOLEAN
      BY <2>4 DEF EnqueueLast
    <3> QED
      BY <2>1, <2>4, <3>1 DEF EnqueueLast, ctxVars
  <2> QED
    BY <2>2, <2>3, <2>4
<1>2. PICK len \in Nat, m \in BOOLEAN : len > 0 /\ enqueue_message(data_pos, len, m)
  BY <1>1
<1>3. /\ Len(packets') = Len(packets) + 1 /\ Len(packets) \in Nat
      /\ \A i \in 1..Len(packets) : rtp_headers'[i] = rtp_headers[i]
      /\ rtp_headers'[Len(packets')].seq = seq
      /\ seq' = NextSeq(seq) /\ sent_pkts' = sent_pkts + 1
  <2>1. /\ Len(packets') = Len(packets) + 1
        /\ \A i \in 1..Len(packets) : rtp_headers'[i] = rtp_headers[i]
        /\ rtp_headers'[Len(packets')] = [ts |-> frame, seq |-> seq, marker |-> m]
    BY <1>1, <1>2, EnqueueKeepsTx DEF GInv, OInv
  <2>2. Len(packets) \in Nat
    BY NumbersTyped DEF GInv
  <2>3. seq' = NextSeq(seq) /\ sent_pkts' = sent_pkts + 1
    BY <1>2 DEF enqueue_message
  <2> QED
    BY <2>1, <2>2, <2>3
<1>4. /\ \A k \in 1..Len(wire) : wire[k].seq \in Int /\ Numbered(wire[k]) \in Int
      /\ \A i \in 1..Len(packets) :
           rtp_headers[i].seq \in Int /\ history[frame].before + i - 1 \in Int
      /\ seq \in 0..SeqMod - 1 /\ sent_pkts \in Nat /\ seq \in Int /\ sent_pkts \in Int
  <2>1. /\ \A k \in 1..Len(wire) : wire[k].seq \in Int /\ Numbered(wire[k]) \in Int
        /\ \A i \in 1..Len(packets) :
             rtp_headers[i].seq \in Int /\ history[frame].before + i - 1 \in Int
        /\ seq \in 0..SeqMod - 1 /\ sent_pkts \in Nat
    BY NumbersTyped DEF GInv
  <2> QED
    BY <2>1, SeqModAssumption
<1>5. /\ frame \in 1..frame /\ history[frame].before \in Nat
      /\ sent_pkts = history[frame].before + Len(packets)
  <2>1. frame \in Nat /\ frame \in 1..frame
    BY <1>1, InProgress DEF GInv
  <2>2. history[frame].before \in Nat
    BY <2>1, NumbersTyped DEF GInv
  <2> QED
    BY <1>1, <2>1, <2>2 DEF GInv, NumberInv
<1>6. \A k \in 1..Len(wire) : InStep(wire[k].seq, Numbered(wire[k]))'
  <2> TAKE k \in 1..Len(wire)
  <2>1. PICK s \in Int, n \in Int : s = wire[k].seq /\ n = Numbered(wire[k])
    BY <1>4
  <2>2. InStep(s, n)
    BY <2>1 DEF GInv, NumberInv
  <2>3. InStep(s, n)'
    BY <1>3, <1>4, <2>2, NextInStep
  <2>4. wire'[k].seq = s /\ Numbered(wire[k])' = n
    BY <1>1, <2>1 DEF Numbered
  <2> QED
    BY <2>3, <2>4 DEF InStep
<1>7. \A i \in 1..Len(packets') : InStep(rtp_headers[i].seq, history[frame].before + i - 1)'
  <2> TAKE i \in 1..Len(packets')
  <2>1. CASE i \in 1..Len(packets)
    <3>1. PICK s \in Int, n \in Int :
            s = rtp_headers[i].seq /\ n = history[frame].before + i - 1
      BY <1>4, <2>1
    <3>2. InStep(s, n)
      BY <2>1, <3>1 DEF GInv, NumberInv
    <3>3. InStep(s, n)'
      BY <1>3, <1>4, <3>2, NextInStep
    <3>4. rtp_headers'[i].seq = s /\ (history[frame].before + i - 1)' = n
      BY <1>1, <1>3, <2>1, <3>1
    <3> QED
      BY <3>3, <3>4 DEF InStep
  <2>2. CASE i = Len(packets')
    <3>1. PICK s \in Int, n \in Int : s = seq /\ n = sent_pkts
      BY <1>4
    <3>2. InStep(s, n)'
      BY <1>3, <1>4, <3>1, NextInStep
    <3>3. rtp_headers'[i].seq = s /\ (history[frame].before + i - 1)' = n
      BY <1>1, <1>3, <1>5, <2>2, <3>1
    <3> QED
      BY <3>2, <3>3 DEF InStep
  <2> QED
    BY <1>3, <2>1, <2>2
<1>8. /\ sent_pkts' = history'[frame'].before + Len(packets')
      /\ \A f \in 1..frame' - 1 :
           (history[f + 1].before = history[f].before + PacketCount(history[f].len))'
  <2>1. sent_pkts' = history'[frame'].before + Len(packets')
    BY <1>1, <1>3, <1>5
  <2> QED
    BY <1>1, <2>1 DEF GInv, NumberInv, PacketCount, Fragmenting
<1> QED
  BY <1>1, <1>6, <1>7, <1>8 DEF NumberInv

\* The end of a push gives no number: what was dropped stays numbered.
LEMMA NumberReturn ==
  ASSUME GInv, pc \in {"paced", "send", "emit"}, NEW code \in {"OK", "SEND_ERROR"},
         Return(code), UNCHANGED <<seq, sent_pkts, rce_flags, format>>,
         NEW s \in Seq(Packet), wire' = wire \o s,
         \A j \in 1..Len(s) : \E i \in 1..Len(packets) : s[j] = flatten_packet(packets[i])
  PROVE  NumberInv'
<1>1. /\ pc' = "idle" /\ packets' = <<>>
      /\ frame' = frame /\ frame \in Nat /\ frame > 0
      /\ \A f \in 1..frame : /\ history'[f].len = history[f].len
                             /\ history'[f].before = history[f].before
  BY ReturnHistory DEF GInv, OInv
<1>2. \A k \in 1..Len(wire') : InStep(wire[k].seq, Numbered(wire[k]))'
  <2>1. frame' >= frame /\ frame' \in Nat
    BY <1>1
  <2> QED
    BY <1>1, <2>1, WireNumbersKept
<1>3. /\ \A f \in 1..frame - 1 :
           history[f + 1].before = history[f].before + PacketCount(history[f].len)
      /\ sent_pkts = history[frame].before + PacketCount(history[frame].len)
  BY <1>1 DEF GInv, NumberInv, OInv, CutInv
<1>4. \A f \in 1..frame' - 1 :
        (history[f + 1].before = history[f].before + PacketCount(history[f].len))'
  <2>1. \A f \in 1..frame' - 1 : f \in 1..frame /\ f + 1 \in 1..frame
    BY <1>1
  <2> QED
    BY <1>1, <1>3, <2>1 DEF PacketCount, Fragmenting
<1>5. (sent_pkts = history[frame].before + PacketCount(history[frame].len))'
  BY <1>1, <1>3 DEF PacketCount, Fragmenting
<1>6. \A i \in 1..Len(packets') : FALSE
  BY <1>1
<1> QED
  BY <1>1, <1>2, <1>4, <1>5, <1>6 DEF NumberInv

\* Sending a packet gives no number.
LEMMA NumberSend == ASSUME GInv, SendPaced \/ SendAll PROVE NumberInv'
<1>1. /\ pc \in {"paced", "send"} /\ pc' # "idle"
      /\ UNCHANGED <<seq, sent_pkts, history, packets, rtp_headers, rce_flags, format>>
  BY DEF SendPaced, SendAll, rtpVars, txVars, ctxVars
<1>2. /\ Len(packets) \in Nat /\ wire \in Seq(Packet) /\ frame \in Nat
      /\ pc = "paced" => next \in 1..Len(packets)
  BY DEF GInv, OInv, IInv, TypeOK, DataTypeOK, FlushInv
<1>3. \A i \in 1..Len(packets) : flatten_packet(packets[i]) \in Packet
  BY <1>1, FlattenedPacket DEF GInv, OInv
<1>4. ASSUME NEW s \in Seq(Packet), wire' = wire \o s,
             \A j \in 1..Len(s) : \E i \in 1..Len(packets) : s[j] = flatten_packet(packets[i])
      PROVE  NumberInv'
  <2>1. \A k \in 1..Len(wire') : InStep(wire[k].seq, Numbered(wire[k]))'
    <3>1. frame' >= frame /\ frame' \in Nat
      BY <1>1, <1>2
    <3>2. \A f \in 1..frame : history'[f].before = history[f].before
      BY <1>1
    <3> QED
      BY <1>1, <1>4, <3>1, <3>2, WireNumbersKept
  <2>2. \A i \in 1..Len(packets') : InStep(rtp_headers[i].seq, history[frame].before + i - 1)'
    BY <1>1 DEF GInv, NumberInv, InStep
  <2> QED
    BY <1>1, <2>1, <2>2 DEF GInv, NumberInv, PacketCount, Fragmenting
<1>5. CASE wire' = wire
  BY <1>1, <1>5, NumberQuiet
<1>6. CASE SendPaced /\ wire' # wire
  <2>1. pc = "paced" /\ wire' = Append(wire, flatten_packet(packets[next]))
    BY <1>6 DEF SendPaced
  <2>2. PICK p \in Packet : p = flatten_packet(packets[next])
    BY <1>2, <1>3, <2>1
  <2>3. wire' = wire \o <<p>>
    BY <1>2, <2>1, <2>2, AppendIsConcat
  <2>4. /\ <<p>> \in Seq(Packet)
        /\ \A j \in 1..Len(<<p>>) : \E i \in 1..Len(packets) :
             <<p>>[j] = flatten_packet(packets[i])
    BY <1>2, <2>1, <2>2
  <2> QED
    BY <1>4, <2>3, <2>4
<1>7. CASE SendAll /\ wire' # wire
  <2>1. pc = "send" /\ wire' = wire \o Flattened
    BY <1>7 DEF SendAll
  <2>2. PICK s : s = Flattened
    OBVIOUS
  <2>3. s \in Seq(Packet) /\ Len(s) = Len(packets)
    BY <2>1, <2>2, FlattenedWhole DEF GInv, OInv
  <2>4. \A j \in 1..Len(s) : s[j] = flatten_packet(packets[j])
    BY <2>2, <2>3 DEF Flattened
  <2>5. \A j \in 1..Len(s) : \E i \in 1..Len(packets) : s[j] = flatten_packet(packets[i])
    BY <2>3, <2>4
  <2> QED
    BY <1>4, <2>1, <2>2, <2>3, <2>5
<1> QED
  BY <1>5, <1>6, <1>7

\* A push that ends, whichever way.
LEMMA NumberEnds ==
  ASSUME GInv,
         SendPacedFails \/ (\E k \in 0..Len(packets) : SendAllFails(k)) \/ EmitCapture
  PROVE  NumberInv'
<1> USE DEF ctxVars, rtpVars
<1>1. Len(packets) \in Nat /\ wire \in Seq(Packet)
  BY DEF GInv, OInv, IInv, TypeOK, DataTypeOK
<1>2. CASE SendPacedFails \/ EmitCapture
  <2>1. /\ pc \in {"paced", "emit"} /\ wire' = wire
        /\ UNCHANGED <<seq, sent_pkts, rce_flags, format>>
        /\ \E code \in {"OK", "SEND_ERROR"} : Return(code)
    BY <1>2 DEF SendPacedFails, EmitCapture
  <2>2. PICK s : s = <<>>
    OBVIOUS
  <2>3. s \in Seq(Packet) /\ wire' = wire \o s /\ 1..Len(s) = {}
    BY <1>1, <2>1, <2>2
  <2> QED
    BY <2>1, <2>3, NumberReturn
<1>3. ASSUME NEW k \in 0..Len(packets), SendAllFails(k) PROVE NumberInv'
  <2>1. /\ pc = "send" /\ k < Len(packets) /\ Return("SEND_ERROR")
        /\ UNCHANGED <<seq, sent_pkts, rce_flags, format>>
        /\ wire' = wire \o SubSeq(Flattened, 1, k)
    BY <1>3 DEF SendAllFails
  <2>2. PICK F : F = Flattened
    OBVIOUS
  <2>3. F \in Seq(Packet) /\ Len(F) = Len(packets)
    BY <2>1, <2>2, FlattenedWhole DEF GInv, OInv
  <2>4. \A j \in 1..Len(packets) : F[j] = flatten_packet(packets[j])
    BY <2>2 DEF Flattened
  <2>5. PICK s : s = SubSeq(F, 1, k)
    OBVIOUS
  <2>6. s \in Seq(Packet) /\ Len(s) = k /\ \A j \in 1..k : j \in 1..Len(packets) /\ s[j] = F[j]
    BY <1>1, <2>1, <2>3, <2>5
  <2>7. \A j \in 1..Len(s) : \E i \in 1..Len(packets) : s[j] = flatten_packet(packets[i])
    BY <2>4, <2>6
  <2> QED
    BY <2>1, <2>2, <2>5, <2>6, <2>7, NumberReturn
<1> QED
  BY <1>2, <1>3

LEMMA NumberStepPreserves == GInv /\ [Next]_vars => GInv'
<1> SUFFICES ASSUME GInv, [Next]_vars PROVE GInv'
  OBVIOUS
<1> USE DEF ctxVars, rtpVars, fpsVars, capVars, txVars, mediaVars, flushVars
<1>1. OInv'
  BY OutcomeStepPreserves DEF GInv
<1>2. CASE Configure \/ RefuseFrame \/ UNCHANGED vars
  <2>1. UNCHANGED <<seq, sent_pkts, history, packets, rtp_headers, rce_flags, format, wire, pc>>
    BY <1>2 DEF Configure, SetPacketCapture, ClearPacketCapture, SetFps, RefuseFrame, vars
  <2> QED
    BY <1>1, <2>1, NumberQuiet DEF GInv
<1>3. CASE FlushBegin
  <2>1. /\ pc # "idle" /\ pc' # "idle"
        /\ UNCHANGED <<seq, sent_pkts, history, packets, rce_flags, format, wire>>
        /\ rtp_headers' = IF Len(packets) > 1
                          THEN [rtp_headers EXCEPT ![Len(rtp_headers)].marker = TRUE]
                          ELSE rtp_headers
    BY <1>3 DEF FlushBegin
  <2>2. rtp_headers \in Seq(Header) /\ Len(packets) = Len(rtp_headers)
    BY DEF GInv, OInv, IInv, TypeOK, DataTypeOK, TxInv
  <2>3. \A i \in 1..Len(packets) : rtp_headers'[i].seq = rtp_headers[i].seq
    <3> TAKE i \in 1..Len(packets)
    <3>1. rtp_headers[i] \in Header
      BY <2>2
    <3> QED
      BY <2>1, <2>2, <3>1 DEF Header
  <2> QED
    BY <1>1, <2>1, <2>3, NumberQuiet DEF GInv
<1>4. ASSUME NEW len \in Lens, PushFrame(len) PROVE NumberInv'
  BY <1>4, NumberPushFrame
<1> QED
  BY <1>1, <1>2, <1>3, <1>4, NumberEnqueue, NumberSend, NumberEnds DEF GInv, Next, PushStep

\* Numbers in step skip exactly what was numbered in between.
LEMMA InStepSkips == GInv => SeqGapsAreDroppedPackets
<1> SUFFICES ASSUME GInv, NEW k \in 1..Len(wire) - 1
             PROVE  ((wire[k + 1].seq - wire[k].seq)
                      - (Numbered(wire[k + 1]) - Numbered(wire[k]))) % SeqMod = 0
  BY DEF GInv, NumberInv, SeqGapsAreDroppedPackets
<1>1. k \in 1..Len(wire) /\ k + 1 \in 1..Len(wire)
  BY NumbersTyped DEF GInv
<1>2. PICK s \in Int, n \in Int, t \in Int, m \in Int :
        s = wire[k].seq /\ n = Numbered(wire[k])
        /\ t = wire[k + 1].seq /\ m = Numbered(wire[k + 1])
  BY <1>1, NumbersTyped DEF GInv
<1>3. InStep(s, n) /\ InStep(t, m)
  BY <1>1, <1>2 DEF GInv, NumberInv
<1>4. seq \in Int /\ sent_pkts \in Int
  BY NumbersTyped, SeqModAssumption DEF GInv
<1> DEFINE x == (seq - s) - (sent_pkts - n)
           y == (seq - t) - (sent_pkts - m)
<1>5. x \in Int /\ y \in Int /\ x - y = (t - s) - (m - n)
  BY <1>4
<1>6. x % SeqMod = 0 /\ y % SeqMod = 0
  BY <1>3 DEF InStep
<1> HIDE DEF x, y
<1>7. (x - y) % SeqMod = 0
  BY <1>5, <1>6, MultipleDifference
<1> QED
  BY <1>2, <1>5, <1>7

\* Between two packets on the wire the sequence numbers skip, modulo the
\* wrap, exactly the packets numbered and dropped in between.
THEOREM GapsAreDrops == Spec => []SeqGapsAreDroppedPackets
<1>1. Init => GInv
  <2>1. Init => NumberInv
    BY DEF Init, NumberInv
  <2> QED
    BY <2>1, InitOutcome DEF GInv
<1> QED
  BY <1>1, NumberStepPreserves, InStepSkips, PTL DEF Spec
=============================================================================
