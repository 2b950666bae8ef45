------------------------- MODULE CaptureFilesProofs -------------------------
(***************************************************************************)
(* Theorems about CaptureFiles: the recorder's cursor stays on a packet    *)
(* that was captured; what capture.csv says while a capture is saved is    *)
(* true of the packet files, over an older capture in the same directory   *)
(* as well; and both replays send the beginning of one run's capture, all  *)
(* of it if it was saved and no file was cut.                              *)
(***************************************************************************)
EXTENDS CaptureFiles, SequenceTheorems, TLAPS

RowType == [index : Nat, files : Seq(Nat \X Nat)]

rows == csv.content.rows

\* Packets of the cursor's frame whose files have been closed.
Closed == IF rec = "row" THEN at[2] ELSE at[2] - 1

\* What is on disk while the recorder saves: rows of the frames before the
\* cursor's, the packets they name, and those of the cursor's frame before it.
DiskInv ==
  Saving =>
    /\ csv = [state |-> "writing", content |-> Whole(rows)]
    /\ rows \in Seq(RowType)
    /\ Len(rows) = (IF rec = "save" THEN Len(frames) ELSE at[1] - 1)
    /\ rec = "row" => at[2] = frames[at[1]].count
    /\ rec = "close_packet" => files[at].of = Packet(at[1], at[2])
    /\ \A f \in 1..Len(rows) : rows[f] = Row(f)
    /\ \A f \in 1..Len(rows) : \A p \in 1..frames[f].count : OnDisk(<<f, p>>)
    /\ rec # "save" => \A p \in 1..Closed : OnDisk(<<at[1], p>>)

IInv == TypeOK /\ DiskInv

-----------------------------------------------------------------------------
(* Types *)

LEMMA Typed ==
  ASSUME TypeOK
  PROVE  /\ run \in Nat /\ Len(frames) \in 0..MaxFrames
         /\ MaxFrames \in Nat /\ MaxPackets \in Nat /\ MaxLosses \in Nat
         /\ at = <<at[1], at[2]>> /\ at[1] \in Nat /\ at[2] \in Nat
         /\ \A f \in 1..Len(frames) :
              /\ frames[f] \in FrameType
              /\ frames[f].count \in 1..MaxPackets /\ frames[f].ts \in {"own", "set"}
<1>1. MaxFrames \in Nat /\ MaxPackets \in Nat /\ MaxLosses \in Nat /\ MaxRuns \in Nat
  BY BoundsAssumption
<1>2. run \in Nat
  BY <1>1 DEF TypeOK
<1>3. Len(frames) \in 0..MaxFrames
  BY <1>1 DEF TypeOK
<1>4. at = <<at[1], at[2]>> /\ at[1] \in Nat /\ at[2] \in Nat
  BY DEF TypeOK
<1>5. ASSUME NEW f \in 1..Len(frames)
      PROVE  /\ frames[f] \in FrameType
             /\ frames[f].count \in 1..MaxPackets /\ frames[f].ts \in {"own", "set"}
  <2>1. frames[f] \in FrameType
    BY ElementOfSeq DEF TypeOK
  <2> QED BY <2>1 DEF FrameType
<1> QED BY <1>1, <1>2, <1>3, <1>4, <1>5

\* The cursor names a file, and its packet.
LEMMA CursorTyped ==
  ASSUME TypeOK, Saving, rec # "save"
  PROVE  /\ at \in Names /\ Captured(at)
         /\ at[1] \in 1..Len(frames) /\ at[2] \in 1..frames[at[1]].count
         /\ frames[at[1]].count \in 1..MaxPackets
         /\ Packet(at[1], at[2]) \in PacketType
<1>1. at[1] \in 1..Len(frames) /\ at[2] \in 1..frames[at[1]].count /\ Captured(at)
  BY DEF TypeOK, Captured
<1>2. frames[at[1]].count \in 1..MaxPackets /\ frames[at[1]].ts \in {"own", "set"}
  BY <1>1, Typed
<1>3. at[1] \in 1..MaxFrames /\ at[2] \in 1..MaxPackets
  <2>1. Len(frames) \in 0..MaxFrames /\ MaxFrames \in Nat /\ MaxPackets \in Nat
    BY Typed
  <2> QED BY <1>1, <1>2, <2>1
<1>4. at \in Names
  BY <1>3, Typed DEF Names
<1>5. Packet(at[1], at[2]) \in PacketType
  BY <1>2, Typed DEF Packet, PacketType
<1> QED BY <1>1, <1>2, <1>4, <1>5

\* The next packet of the frame or the end of it.
LEMMA CursorMoves ==
  ASSUME TypeOK, Saving, rec # "save", at[2] < frames[at[1]].count
  PROVE  at[2] + 1 \in 1..frames[at[1]].count
<1>1. at[2] \in 1..frames[at[1]].count /\ frames[at[1]].count \in 1..MaxPackets
  BY CursorTyped
<1> QED BY <1>1, Typed

LEMMA InitInv == Init => IInv
<1> SUFFICES ASSUME Init PROVE IInv
  OBVIOUS
<1>1. MaxRuns \in Nat /\ MaxFrames \in Nat /\ MaxPackets \in Nat /\ MaxLosses \in Nat
  BY BoundsAssumption
<1>2. ~Saving
  BY DEF Init, Saving
<1>3. frames \in Seq(FrameType) /\ Len(frames) = 0
  BY EmptySeq DEF Init
<1>4. files \in [Names -> FileType]
  BY DEF Init, FileType, Missing
<1>5. run \in 0..MaxRuns /\ losses \in 0..MaxLosses
  BY <1>1 DEF Init
<1>6. unread \in BOOLEAN
  BY DEF Init
<1>7. TypeOK
  BY <1>1, <1>2, <1>3, <1>4, <1>5, <1>6 DEF Init, TypeOK
<1> QED BY <1>2, <1>7 DEF IInv, DiskInv

-----------------------------------------------------------------------------
(* Steps of the recorder that do not touch the directory *)

LEMMA StartPreserves == ASSUME IInv, NEW i \in Overrides, Start(i) PROVE IInv'
<1>1. TypeOK
  BY DEF IInv
<1>2. run' \in 0..MaxRuns /\ override' \in Overrides \cup {0}
  <2>1. MaxRuns \in Nat /\ run \in 0..MaxRuns
    BY <1>1, BoundsAssumption DEF TypeOK
  <2> QED BY <2>1 DEF Start
<1>3. ~Saving /\ ~Saving' /\ rec' = "capture"
  BY DEF Start, Saving
<1>4. frames' \in Seq(FrameType) /\ Len(frames') <= MaxFrames /\ at' = <<1, 1>>
  BY Typed, <1>1, EmptySeq DEF Start
<1>5. TypeOK'
  BY <1>1, <1>2, <1>3, <1>4 DEF TypeOK, Start, dirVars, playVars, histVars
<1> QED BY <1>3, <1>5 DEF IInv, DiskInv

LEMMA CaptureFramePreserves ==
  ASSUME IInv, NEW n \in 1..MaxPackets, CaptureFrame(n) PROVE IInv'
<1>1. TypeOK
  BY DEF IInv
<1>2. ~Saving /\ ~Saving' /\ rec' = "capture" /\ rec = "capture"
  BY DEF CaptureFrame, Saving
<1>3. frames' \in Seq(FrameType) /\ Len(frames') <= MaxFrames
  <2>1. [count |-> n, ts |-> "own"] \in FrameType /\ frames \in Seq(FrameType)
    BY <1>1 DEF FrameType, TypeOK
  <2>2. frames' = Append(frames, [count |-> n, ts |-> "own"]) /\ Len(frames) < MaxFrames
    BY DEF CaptureFrame
  <2>3. Len(frames) \in 0..MaxFrames /\ MaxFrames \in Nat
    BY <1>1, Typed
  <2> QED BY <2>1, <2>2, <2>3, AppendProperties
<1>4. TypeOK'
  BY <1>1, <1>2, <1>3 DEF TypeOK, CaptureFrame, dirVars, playVars, histVars
<1> QED BY <1>2, <1>4 DEF IInv, DiskInv

LEMMA OverridePreserves == ASSUME IInv, Override PROVE IInv'
<1>1. TypeOK
  BY DEF IInv
<1>2. ~Saving /\ ~Saving' /\ rec' \in {"open", "replay"} /\ rec = "capture"
  BY DEF Override, Saving
<1>3. frames' \in Seq(FrameType) /\ Len(frames') = Len(frames) /\ frames' # <<>>
  <2>1. frames' = [f \in 1..Len(frames) |->
                     IF f = override THEN [frames[f] EXCEPT !.ts = "set"] ELSE frames[f]]
    BY DEF Override, overwrite_frame_timestamp
  <2>2. ASSUME NEW f \in 1..Len(frames) PROVE frames'[f] \in FrameType
    BY <1>1, <2>1, Typed DEF FrameType
  <2>3. Len(frames) \in Nat /\ frames # <<>> /\ frames \in Seq(FrameType)
    BY <1>1, Typed DEF Override, TypeOK
  <2>4. Len(frames) > 0
    BY <2>3, EmptySeq
  <2>5. frames' \in Seq(FrameType) /\ Len(frames') = Len(frames)
    BY <2>1, <2>2, <2>3, IsASeq
  <2> QED BY <2>4, <2>5, EmptySeq
<1>4. TypeOK'
  BY <1>1, <1>2, <1>3 DEF TypeOK, Override, dirVars, playVars, histVars
<1> QED BY <1>2, <1>4 DEF IInv, DiskInv

LEMMA QuietPreserves == ASSUME IInv, Refuse \/ OpenFails \/ Replay PROVE IInv'
<1>1. TypeOK
  BY DEF IInv
<1>2. /\ rec \in {"capture", "open", "replay"}
      /\ rec' = "off" \/ (rec = "replay" /\ rec' = rec)
      /\ UNCHANGED <<run, override, frames, dirVars, playVars, histVars>>
  BY DEF Refuse, OpenFails, Replay
<1>3. ~Saving /\ ~Saving'
  BY <1>2 DEF Saving
<1>4. at' \in Nat \X Nat
  <2>1. at \in Nat \X Nat
    BY <1>1 DEF TypeOK
  <2> QED BY <2>1 DEF Refuse, OpenFails, Replay, Advance
<1>5. TypeOK'
  BY <1>1, <1>2, <1>3, <1>4 DEF TypeOK, dirVars, playVars, histVars, Captured
<1> QED BY <1>3, <1>5 DEF IInv, DiskInv

-----------------------------------------------------------------------------
(* Steps of the recorder that end a save *)

LEMMA CloseTyped ==
  ASSUME TypeOK, CloseCsv
  PROVE  csv'.state = "closed" /\ losses' \in 0..MaxLosses
<1>1. losses \in 0..MaxLosses /\ MaxLosses \in Nat
  BY BoundsAssumption DEF TypeOK
<1> QED BY <1>1 DEF CloseCsv

LEMMA StopPreserves ==
  ASSUME IInv, PacketFails \/ WriteFails \/ Saved \/ Crash PROVE IInv'
<1>1. TypeOK
  BY DEF IInv
<1>2. /\ Saving /\ (rec' = "off" \/ (rec = "save" /\ rec' = "replay"))
      /\ UNCHANGED <<run, override, frames, playVars>>
      /\ at' \in {at, <<1, 1>>}
  <2>1. CASE PacketFails
    BY <2>1 DEF PacketFails, Saving
  <2>2. CASE WriteFails
    BY <2>2 DEF WriteFails, Saving
  <2>3. CASE Saved
    BY <2>3 DEF Saved, Saving
  <2>4. CASE Crash
    BY <1>1, <2>4 DEF Crash, Saving, TypeOK
  <2> QED BY <2>1, <2>2, <2>3, <2>4
<1>3. ~Saving'
  BY <1>2 DEF Saving
<1>4. csv'.state = "closed" /\ losses' \in 0..MaxLosses
  <2>1. CASE Crash
    BY <1>1, <2>1 DEF Crash, histVars, TypeOK
  <2>2. CASE CloseCsv
    BY <1>1, <2>2, CloseTyped
  <2> QED BY <2>1, <2>2 DEF PacketFails, WriteFails, Saved
<1>5. files' \in [Names -> FileType]
  <2>1. files \in [Names -> FileType]
    BY <1>1 DEF TypeOK
  <2>2. CASE files' = files
    BY <2>1, <2>2
  <2>3. CASE WriteFails
    <3>1. PICK part \in {"short", "empty"} : files' = [files EXCEPT ![at].part = part]
      BY <2>3 DEF WriteFails
    <3> QED BY <2>1, <3>1 DEF FileType
  <2> QED BY <2>2, <2>3 DEF PacketFails, Saved, Crash
<1>6. rec = "save" => frames # <<>>
  BY <1>1 DEF TypeOK
<1>7. TypeOK'
  BY <1>1, <1>2, <1>3, <1>4, <1>5, <1>6 DEF TypeOK, playVars
<1> QED BY <1>3, <1>7 DEF IInv, DiskInv

-----------------------------------------------------------------------------
(* Steps of a save *)

\* A new capture.csv has no rows, and the cursor is at the first packet.
LEMMA OpenCsvPreserves == ASSUME IInv, OpenCsv PROVE IInv'
<1>1. TypeOK
  BY DEF IInv
<1>2. /\ rec = "open" /\ rec' = "packet" /\ at = <<1, 1>> /\ frames # <<>>
      /\ csv' = [state |-> "writing", content |-> Whole(<<>>)] /\ losses' = 0
      /\ UNCHANGED <<run, override, frames, at, live, files, playVars>>
  BY <1>1 DEF OpenCsv, TypeOK
<1>3. Saving' /\ csv'.state = "writing"
  BY <1>2 DEF Saving
<1>4. Captured(at)
  <2>1. Len(frames) \in Nat /\ Len(frames) > 0
    BY <1>1, <1>2, EmptySeq DEF TypeOK
  <2>2. 1 \in 1..Len(frames)
    BY <2>1
  <2>3. frames[1].count \in 1..MaxPackets /\ MaxPackets \in Nat
    BY <1>1, <2>2, Typed
  <2>4. 1 \in 1..frames[1].count
    BY <2>3
  <2> QED BY <1>2, <2>2, <2>4 DEF Captured
<1>5. 0 \in 0..MaxLosses
  BY <1>1, Typed
<1>6. TypeOK'
  BY <1>1, <1>2, <1>3, <1>4, <1>5 DEF TypeOK, playVars, Captured
<1>7. rows' = <<>> /\ csv'.content = Whole(<<>>)
  BY <1>2 DEF rows, Whole
<1>8. rows' \in Seq(RowType) /\ Len(rows') = 0
  BY <1>7, EmptySeq
<1>9. DiskInv'
  <2>1. csv' = [state |-> "writing", content |-> Whole(rows')]
    BY <1>2, <1>7
  <2>2. \A p \in 1..Closed' : OnDisk(<<at[1], p>>)'
    BY <1>2 DEF Closed
  <2> QED BY <1>2, <1>8, <2>1, <2>2 DEF DiskInv, Whole
<1> QED BY <1>6, <1>9 DEF IInv

\* The file of the cursor's packet is the only one that changes, and no row
\* names it yet.
LEMMA OthersStay ==
  ASSUME IInv, Saving, rec \in {"packet", "close_packet"}, NEW v, files' = [files EXCEPT ![at] = v]
  PROVE  /\ \A f \in 1..Len(rows) : \A p \in 1..frames[f].count :
              files'[<<f, p>>] = files[<<f, p>>]
         /\ \A p \in 1..(at[2] - 1) : files'[<<at[1], p>>] = files[<<at[1], p>>]
<1>1. TypeOK /\ DiskInv
  BY DEF IInv
<1>2. Len(rows) = at[1] - 1 /\ at[1] \in Nat /\ at[2] \in Nat /\ at = <<at[1], at[2]>>
      /\ at[1] \in 1..Len(frames) /\ Len(frames) \in 0..MaxFrames /\ MaxFrames \in Nat
      /\ at[2] \in 1..frames[at[1]].count /\ MaxPackets \in Nat
      /\ frames[at[1]].count \in 1..MaxPackets
  BY <1>1, Typed, CursorTyped DEF DiskInv
<1>3. ASSUME NEW name \in Names, name # at PROVE files'[name] = files[name]
  BY <1>1, <1>3 DEF TypeOK
<1>4. ASSUME NEW f \in 1..Len(rows), NEW p \in 1..frames[f].count
      PROVE  files'[<<f, p>>] = files[<<f, p>>]
  <2>1. f # at[1] /\ f \in 1..Len(frames) /\ f \in 1..MaxFrames
    BY <1>2
  <2>2. p \in 1..MaxPackets
    <3>1. frames[f].count \in 1..MaxPackets
      BY <1>1, <2>1, Typed
    <3> QED BY <1>2, <3>1
  <2>3. <<f, p>> \in Names /\ <<f, p>> # at
    BY <1>2, <2>1, <2>2 DEF Names
  <2> QED BY <1>3, <2>3
<1>5. ASSUME NEW p \in 1..(at[2] - 1) PROVE files'[<<at[1], p>>] = files[<<at[1], p>>]
  <2>1. p # at[2] /\ p \in 1..MaxPackets /\ at[1] \in 1..MaxFrames
    BY <1>2
  <2>2. <<at[1], p>> \in Names /\ <<at[1], p>> # at
    BY <1>2, <2>1 DEF Names
  <2> QED BY <1>3, <2>2
<1> QED BY <1>4, <1>5

LEMMA OpenPacketPreserves == ASSUME IInv, OpenPacket PROVE IInv'
<1>1. TypeOK /\ DiskInv
  BY DEF IInv
<1>2. /\ rec = "packet" /\ rec' = "close_packet"
      /\ files' = [files EXCEPT ![at] = [of |-> Packet(at[1], at[2]), part |-> "empty"]]
      /\ UNCHANGED <<run, override, frames, at, csv, losses, playVars>>
  BY DEF OpenPacket, histVars
<1>3. Saving /\ Saving'
  BY <1>2 DEF Saving
<1>4. at \in Names /\ Packet(at[1], at[2]) \in PacketType /\ Captured(at)
  BY <1>1, <1>2, <1>3, CursorTyped
<1>5. TypeOK'
  <2>1. files' \in [Names -> FileType]
    BY <1>1, <1>2, <1>4 DEF TypeOK, FileType
  <2> QED BY <1>1, <1>2, <1>3, <1>4, <2>1 DEF TypeOK, playVars, Captured
<1>6. files'[at].of = Packet(at[1], at[2])' /\ at' = at
  BY <1>1, <1>2, <1>4 DEF TypeOK, Packet
<1>7. rows' = rows /\ Closed' = at[2] - 1 /\ (\A f \in Nat : Row(f)' = Row(f))
  BY <1>2 DEF rows, Closed, Row
<1>8. Len(rows) \in Nat
  BY <1>1, <1>3 DEF DiskInv
<1>9. /\ \A f \in 1..Len(rows) : \A p \in 1..frames[f].count : OnDisk(<<f, p>>)'
      /\ \A p \in 1..(at[2] - 1) : OnDisk(<<at[1], p>>)'
  <2>1. /\ \A f \in 1..Len(rows) : \A p \in 1..frames[f].count : OnDisk(<<f, p>>)
        /\ \A p \in 1..(at[2] - 1) : OnDisk(<<at[1], p>>)
    BY <1>1, <1>2, <1>3 DEF DiskInv, Closed
  <2>2. /\ \A f \in 1..Len(rows) : \A p \in 1..frames[f].count :
             files'[<<f, p>>] = files[<<f, p>>]
        /\ \A p \in 1..(at[2] - 1) : files'[<<at[1], p>>] = files[<<at[1], p>>]
    BY <1>2, <1>3, OthersStay
  <2> QED BY <1>2, <2>1, <2>2 DEF OnDisk, Packet
<1>10. DiskInv'
  BY <1>1, <1>2, <1>3, <1>6, <1>7, <1>8, <1>9 DEF DiskInv, Whole
<1> QED BY <1>5, <1>10 DEF IInv

LEMMA ClosePacketPreserves == ASSUME IInv, ClosePacket PROVE IInv'
<1>1. TypeOK /\ DiskInv
  BY DEF IInv
<1>2. PICK part \in {"whole", "short", "empty"} :
        /\ files' = [files EXCEPT ![at].part = part]
        /\ losses' = (IF part = "whole" THEN losses ELSE losses + 1)
        /\ losses' <= MaxLosses
  BY DEF ClosePacket
<1>3. /\ rec = "close_packet"
      /\ UNCHANGED <<run, override, frames, csv, playVars>>
      /\ \/ at[2] < frames[at[1]].count /\ rec' = "packet" /\ at' = <<at[1], at[2] + 1>>
         \/ ~(at[2] < frames[at[1]].count) /\ rec' = "row" /\ at' = at
  BY DEF ClosePacket
<1>4. Saving /\ Saving'
  BY <1>3 DEF Saving
<1>5. /\ at \in Names /\ Captured(at) /\ at[1] \in 1..Len(frames)
      /\ at[2] \in 1..frames[at[1]].count /\ frames[at[1]].count \in 1..MaxPackets
      /\ at = <<at[1], at[2]>> /\ at[1] \in Nat /\ at[2] \in Nat /\ MaxPackets \in Nat
  BY <1>1, <1>3, <1>4, CursorTyped, Typed
<1>6. /\ at'[1] = at[1] /\ at'[2] \in 1..frames[at[1]].count /\ Closed' = at[2]
      /\ rec' = "row" => at'[2] = frames[at[1]].count
      /\ at' \in Nat \X Nat /\ rec' \in {"packet", "row"}
  BY <1>3, <1>5 DEF Closed
<1>7. files' = [files EXCEPT ![at] = [files[at] EXCEPT !.part = part]]
  BY <1>2
<1>8. TypeOK'
  <2>1. files' \in [Names -> FileType]
    BY <1>1, <1>2, <1>5 DEF TypeOK, FileType
  <2>2. losses' \in 0..MaxLosses
    BY <1>1, <1>2, BoundsAssumption DEF TypeOK
  <2>3. Captured(at)'
    BY <1>3, <1>5, <1>6 DEF Captured
  <2> QED BY <1>1, <1>3, <1>4, <1>6, <2>1, <2>2, <2>3 DEF TypeOK, playVars
<1>9. rows' = rows /\ (\A f \in Nat : Row(f)' = Row(f)) /\ Len(rows) \in Nat
      /\ Len(rows) = at[1] - 1
  BY <1>1, <1>3, <1>4 DEF DiskInv, rows, Row
<1>10. /\ \A f \in 1..Len(rows) : \A p \in 1..frames[f].count : OnDisk(<<f, p>>)'
       /\ \A p \in 1..at[2] : OnDisk(<<at[1], p>>)'
  <2>1. losses' = 0 => part = "whole" /\ losses = 0
    BY <1>1, <1>2, BoundsAssumption DEF TypeOK
  <2>2. /\ \A f \in 1..Len(rows) : \A p \in 1..frames[f].count :
             files'[<<f, p>>] = files[<<f, p>>]
        /\ \A p \in 1..(at[2] - 1) : files'[<<at[1], p>>] = files[<<at[1], p>>]
    BY <1>3, <1>4, <1>7, OthersStay
  <2>3. /\ \A f \in 1..Len(rows) : \A p \in 1..frames[f].count : OnDisk(<<f, p>>)
        /\ \A p \in 1..(at[2] - 1) : OnDisk(<<at[1], p>>)
    BY <1>1, <1>3, <1>4 DEF DiskInv, Closed
  <2>4. files'[at].of = Packet(at[1], at[2]) /\ (losses' = 0 => files'[at].part = "whole")
    <3>1. files[at] \in FileType /\ files[at].of = Packet(at[1], at[2])
      BY <1>1, <1>3, <1>4, <1>5 DEF DiskInv, TypeOK
    <3>2. files'[at].of = Packet(at[1], at[2]) /\ files'[at].part = part
      BY <1>1, <1>5, <1>7, <3>1 DEF TypeOK, FileType
    <3> QED BY <2>1, <3>2
  <2>5. ASSUME NEW p \in 1..at[2]
        PROVE  /\ files'[<<at[1], p>>].of = Packet(at[1], p)
               /\ losses' = 0 => files'[<<at[1], p>>].part = "whole"
    <3>1. p \in 1..(at[2] - 1) \/ p = at[2]
      BY <1>5
    <3>2. CASE p \in 1..(at[2] - 1)
      BY <2>1, <2>2, <2>3, <3>2 DEF OnDisk
    <3> QED BY <1>5, <2>4, <3>1, <3>2
  <2> QED BY <1>3, <1>6, <2>1, <2>2, <2>3, <2>5 DEF OnDisk, Packet
<1>11. DiskInv'
  BY <1>1, <1>3, <1>4, <1>6, <1>9, <1>10 DEF DiskInv, Whole
<1> QED BY <1>8, <1>11 DEF IInv

LEMMA WriteRowPreserves == ASSUME IInv, WriteRow PROVE IInv'
<1>1. TypeOK /\ DiskInv
  BY DEF IInv
<1>2. /\ rec = "row" /\ csv' = [csv EXCEPT !.content.rows = Append(@, Row(at[1]))]
      /\ UNCHANGED <<run, override, frames, files, losses, playVars>>
      /\ \/ at[1] < Len(frames) /\ rec' = "packet" /\ at' = <<at[1] + 1, 1>>
         \/ ~(at[1] < Len(frames)) /\ rec' = "save" /\ at' = at
  BY DEF WriteRow, histVars
<1>3. Saving /\ Saving'
  BY <1>2 DEF Saving
<1>4. /\ at[1] \in 1..Len(frames) /\ Len(frames) \in Nat /\ MaxPackets \in Nat
      /\ at[1] \in Nat /\ at \in Nat \X Nat
      /\ at[2] = frames[at[1]].count /\ frames[at[1]].count \in 1..MaxPackets
      /\ csv = [state |-> "writing", content |-> Whole(rows)]
      /\ rows \in Seq(RowType) /\ Len(rows) = at[1] - 1
      /\ Closed = at[2]
  BY <1>1, <1>2, <1>3, CursorTyped, Typed DEF DiskInv, TypeOK, Closed
<1>5. Row(at[1]) \in RowType
  <2>1. frames[at[1]].count \in Nat
    BY <1>4
  <2>2. [p \in 1..frames[at[1]].count |-> <<at[1], p>>] \in Seq(Nat \X Nat)
    <3>1. \A p \in 1..frames[at[1]].count : <<at[1], p>> \in Nat \X Nat
      BY <1>4, <2>1
    <3> QED BY <2>1, <3>1, IsASeq
  <2> QED BY <1>4, <2>2 DEF Row, RowType
<1>6. /\ rows' \in Seq(RowType) /\ Len(rows') = at[1]
      /\ \A f \in 1..(at[1] - 1) : rows'[f] = rows[f]
      /\ rows'[at[1]] = Row(at[1])
      /\ csv' = [state |-> "writing", content |-> Whole(rows')]
  <2>1. csv' = [state |-> "writing", content |-> Whole(Append(rows, Row(at[1])))]
    BY <1>2, <1>4 DEF Whole
  <2>2. rows' = Append(rows, Row(at[1]))
    BY <2>1 DEF rows, Whole
  <2>3. at[1] - 1 + 1 = at[1]
    BY <1>4
  <2> QED BY <1>4, <1>5, <2>1, <2>2, <2>3, AppendProperties
<1>7. ASSUME NEW f \in 1..at[1] PROVE f \in 1..(at[1] - 1) \/ f = at[1]
  BY <1>4
<1>8. \A f \in 1..Len(rows') : rows'[f] = Row(f)'
  <2>1. \A f \in 1..Len(rows) : rows[f] = Row(f)
    BY <1>1, <1>3 DEF DiskInv
  <2> QED BY <1>2, <1>4, <1>6, <1>7, <2>1 DEF Row
<1>9. ASSUME NEW f \in 1..at[1], NEW p \in 1..frames[f].count
      PROVE  OnDisk(<<f, p>>)'
  <2>1. OnDisk(<<f, p>>)
    <3>1. CASE f = at[1]
      BY <1>1, <1>2, <1>3, <1>4, <1>9, <3>1 DEF DiskInv
    <3>2. CASE f \in 1..(at[1] - 1)
      BY <1>1, <1>3, <1>4, <1>9, <3>2 DEF DiskInv
    <3> QED BY <1>7, <3>1, <3>2
  <2> QED BY <1>2, <2>1 DEF OnDisk, Packet
<1>10. CASE rec' = "save"
  <2>1. at[1] = Len(frames) /\ at' = at /\ frames # <<>>
    <3>1. Len(frames) # 0
      BY <1>4
    <3> QED BY <1>2, <1>4, <1>10, <3>1, EmptySeq
  <2>2. TypeOK'
    BY <1>1, <1>2, <1>3, <1>6, <1>10, <2>1 DEF TypeOK, playVars
  <2>3. DiskInv'
    BY <1>2, <1>3, <1>6, <1>8, <1>9, <1>10, <2>1 DEF DiskInv, Whole
  <2> QED BY <2>2, <2>3 DEF IInv
<1>11. CASE rec' = "packet"
  <2>1. at' = <<at[1] + 1, 1>> /\ at[1] + 1 \in 1..Len(frames) /\ at' \in Nat \X Nat
    BY <1>2, <1>4, <1>11
  <2>2. Captured(at)'
    <3>1. frames[at[1] + 1].count \in 1..MaxPackets
      BY <1>1, <2>1, Typed
    <3>2. 1 \in 1..frames[at[1] + 1].count
      BY <1>4, <3>1
    <3> QED BY <1>2, <2>1, <3>2 DEF Captured
  <2>3. TypeOK'
    BY <1>1, <1>2, <1>3, <1>6, <1>11, <2>1, <2>2 DEF TypeOK, playVars
  <2>4. Closed' = 0 /\ Len(rows') = at'[1] - 1
    BY <1>4, <1>6, <1>11, <2>1 DEF Closed
  <2>5. DiskInv'
    <3>1. \A p \in 1..Closed' : OnDisk(<<at[1], p>>)'
      BY <2>4
    <3>2. losses' = losses /\ (\A f \in Nat : frames'[f] = frames[f])
      BY <1>2
    <3> QED BY <1>3, <1>4, <1>6, <1>8, <1>9, <1>11, <2>4, <3>1, <3>2 DEF DiskInv
  <2> QED BY <2>3, <2>5 DEF IInv
<1> QED BY <1>2, <1>10, <1>11

-----------------------------------------------------------------------------
(* The player changes nothing of this *)

LEMMA PlayerPreserves == ASSUME IInv, Player PROVE IInv'
<1>1. TypeOK /\ DiskInv
  BY DEF IInv
<1>2. UNCHANGED <<recVars, dirVars, histVars>>
      /\ player' \in {"idle", "loaded", "playing", "done"}
      /\ rc' \in {0, 2, 3, 4, 5, 6} /\ unread' \in BOOLEAN
      /\ next' \in Nat \X Nat
  <2>1. CASE Load
    BY <1>1, <2>1 DEF Load, TypeOK
  <2>2. CASE Play
    <3>1. next \in Nat \X Nat
      BY <1>1 DEF TypeOK
    <3>2. next' \in Nat \X Nat
      BY <2>2, <3>1 DEF Play, Advance
    <3> QED BY <1>1, <2>2, <3>2 DEF Play, TypeOK
  <2>3. CASE PlayEnds
    BY <1>1, <2>3 DEF PlayEnds, TypeOK
  <2>4. CASE Connect
    BY <1>1, <2>4 DEF Connect, TypeOK
  <2> QED BY <2>1, <2>2, <2>3, <2>4 DEF Player
<1>3. UNCHANGED <<run, rec, override, frames, at, live, csv, files, losses>>
  BY <1>2 DEF recVars, dirVars, histVars
<1>4. TypeOK'
  BY <1>1, <1>2, <1>3 DEF TypeOK, Saving, Captured
<1>5. DiskInv'
  BY <1>1, <1>3 DEF DiskInv, Saving, rows, Closed, OnDisk, Packet, Row, Whole
<1> QED BY <1>4, <1>5 DEF IInv

LEMMA StutterPreserves == ASSUME IInv, UNCHANGED vars PROVE IInv'
<1>1. UNCHANGED <<run, rec, override, frames, at, live, csv, files, losses, player, next, rc,
                 unread>>
  BY DEF vars, recVars, dirVars, playVars, histVars
<1>2. TypeOK'
  BY <1>1 DEF IInv, TypeOK, Saving, Captured
<1>3. DiskInv'
  BY <1>1 DEF IInv, DiskInv, Saving, rows, Closed, OnDisk, Packet, Row, Whole
<1> QED BY <1>2, <1>3 DEF IInv

-----------------------------------------------------------------------------
(* Theorems *)

LEMMA NextInv == IInv /\ [Next]_vars => IInv'
<1> SUFFICES ASSUME IInv, [Next]_vars PROVE IInv'
  OBVIOUS
<1>1. ASSUME NEW f \in Overrides, Start(f) PROVE IInv'
  BY <1>1, StartPreserves
<1>2. ASSUME NEW n \in 1..MaxPackets, CaptureFrame(n) PROVE IInv'
  BY <1>2, CaptureFramePreserves
<1>3. CASE Refuse \/ OpenFails \/ Replay
  BY <1>3, QuietPreserves
<1>4. CASE Override
  BY <1>4, OverridePreserves
<1>5. CASE OpenCsv
  BY <1>5, OpenCsvPreserves
<1>6. CASE OpenPacket
  BY <1>6, OpenPacketPreserves
<1>7. CASE PacketFails \/ WriteFails \/ Saved \/ Crash
  BY <1>7, StopPreserves
<1>8. CASE ClosePacket
  BY <1>8, ClosePacketPreserves
<1>9. CASE WriteRow
  BY <1>9, WriteRowPreserves
<1>10. CASE Player
  BY <1>10, PlayerPreserves
<1>11. CASE UNCHANGED vars
  BY <1>11, StutterPreserves
<1> QED
  BY <1>1, <1>2, <1>3, <1>4, <1>5, <1>6, <1>7, <1>8, <1>9, <1>10, <1>11 DEF Next, Recorder

THEOREM Inductive == Spec => []IInv
BY InitInv, NextInv, PTL DEF Spec

\* The variables of recorder and player stay in their types, and while a
\* capture is saved the cursor is at a packet that was captured
\* (save_capture_to_disk).
THEOREM TypeCorrect == Spec => []TypeOK
<1>1. IInv => TypeOK
  BY DEF IInv
<1> QED BY <1>1, Inductive, PTL

\* Each row that save_capture_to_disk has written stands for its frame, and
\* its packets are on disk before it: of this run, not of an older capture
\* whose files have the same names, and whole if no file was cut.
THEOREM RowsAreTrue == Spec => []RowsNameSavedPackets
<1>1. IInv => RowsNameSavedPackets
  BY DEF IInv, DiskInv, RowsNameSavedPackets, rows, Whole
<1> QED BY <1>1, Inductive, PTL

-----------------------------------------------------------------------------
(* What a replay sends *)

\* A capture: packets that say which frame they are of, and which of its packets.
Numbered(c) ==
  /\ c \in Seq(Seq(PacketType)) /\ Len(c) <= MaxFrames
  /\ \A f \in 1..Len(c) :
       /\ Len(c[f]) \in 1..MaxPackets
       /\ \A p \in 1..Len(c[f]) : c[f][p].frame = f /\ c[f][p].packet = p

\* The rows of capture c, or of its first frames.
WholeRows(rs, c) ==
  /\ Len(rs) <= Len(c)
  /\ \A i \in 1..Len(rs) :
       rs[i] = [index |-> i, files |-> [p \in 1..Len(c[i]) |-> <<i, p>>]]

\* Rows of which the last may be cut: each names the first packets of its frame.
CutShort(rs, c) ==
  /\ rs \in Seq(RowType) /\ Len(rs) <= Len(c)
  /\ \A i \in 1..Len(rs) :
       /\ Len(rs[i].files) \in 1..Len(c[i])
       /\ i < Len(rs) => Len(rs[i].files) = Len(c[i])
       /\ \A j \in 1..Len(rs[i].files) : rs[i].files[j] \in {<<i, j>>, TornName}

\* In directory d, the files that the rows name hold the packets of capture c.
Stored(rs, c, d, lost) ==
  \A i \in 1..Len(rs) : \A j \in 1..Len(rs[i].files) :
    rs[i].files[j] # TornName =>
      /\ d[<<i, j>>].of = c[i][j]
      /\ lost = 0 => d[<<i, j>>].part = "whole"

\* The timestamp is set in the frame that --set-pts names, and what is being
\* saved is what should be.
StampInv ==
  /\ rec = "capture" => \A f \in 1..Len(frames) : frames[f].ts = "own"
  /\ rec \in {"open", "replay"} \/ Saving =>
       \A f \in 1..Len(frames) : frames[f].ts = IF f = override THEN "set" ELSE "own"
  /\ Saving => recorded = Wanted

\* The recorder's own replay.
LiveInv ==
  /\ live \in Seq(PacketType)
  /\ Begins(live, Wanted)
  /\ rec \notin {"off", "replay"} => live = <<>>
  /\ rec = "replay" => at = Place(live, Wanted, Len(live) + 1)

\* A capture.csv that is closed is cut short, and one that was saved on a disk
\* that was not full is whole.
ClosedInv ==
  /\ Numbered(recorded)
  /\ csv.state \in {"absent", "writing", "closed"}
  /\ csv.state = "closed" =>
       CutShort(rows, recorded) /\ Stored(rows, recorded, files, losses)
  /\ saved => csv.state = "closed" /\ recorded # <<>>
  /\ saved /\ losses = 0 =>
       csv.content = Whole(rows) /\ WholeRows(rows, recorded) /\ Len(rows) = Len(recorded)

Following == Place(Packets(sent), promised.packets, Len(sent) + 1)

\* What the player was promised is whole, and it reads what is there.
Trusted == promised.saved /\ promised.losses = 0 /\ ~unread

\* The player: what it loaded names files that hold what it was promised, and it
\* is at the packet that follows those it sent, unless it is at the end.
SentInv ==
  /\ sent \in Seq(FileType) /\ Packets(sent) \in Seq(PacketType)
  /\ Numbered(promised.packets)
  /\ Begins(Packets(sent), promised.packets)
  /\ promised.losses = 0 => \A i \in 1..Len(sent) : sent[i].part = "whole"
  /\ player = "idle" => sent = <<>> /\ next = <<1, 1>> /\ ~promised.saved
  /\ player = "done" /\ Trusted =>
       /\ rc \in {0, 3, 4, 6}
       /\ rc = 0 => Following[1] > Len(promised.packets)

LoadedInv ==
  Replaying =>
    /\ rc = 0 /\ promised.packets = recorded
    /\ CutShort(loaded, recorded) /\ Stored(loaded, recorded, files, promised.losses)
    /\ Saving => Len(loaded) <= Len(rows)
    /\ next[1] <= Len(loaded) =>
         next = Following /\ next[1] >= 1 /\ next[2] \in 1..Len(loaded[next[1]].files)
    /\ Trusted =>
         WholeRows(loaded, recorded) /\ Len(loaded) = Len(recorded) /\ next = Following

RInv == StampInv /\ LiveInv /\ ClosedInv /\ SentInv /\ LoadedInv

-----------------------------------------------------------------------------
(* Captures and their beginnings *)

LEMMA WantedNumbered ==
  ASSUME TypeOK
  PROVE  /\ Numbered(Wanted) /\ Len(Wanted) = Len(frames)
         /\ \A f \in 1..Len(frames) : Len(Wanted[f]) = frames[f].count
<1> DEFINE w(f) == [p \in 1..frames[f].count |->
                      [run |-> run, frame |-> f, packet |-> p,
                       ts |-> IF f = override THEN "set" ELSE "own"]]
<1>1. Wanted = [f \in 1..Len(frames) |-> w(f)]
  BY DEF Wanted
<1>2. Len(frames) \in 0..MaxFrames /\ MaxFrames \in Nat /\ MaxPackets \in Nat /\ run \in Nat
  BY Typed
<1>3. ASSUME NEW f \in 1..Len(frames)
      PROVE  /\ w(f) \in Seq(PacketType) /\ Len(w(f)) = frames[f].count
             /\ Len(w(f)) \in 1..MaxPackets
             /\ \A p \in 1..Len(w(f)) : w(f)[p].frame = f /\ w(f)[p].packet = p
  <2>1. frames[f].count \in 1..MaxPackets
    BY Typed
  <2>2. \A p \in 1..frames[f].count :
          [run |-> run, frame |-> f, packet |-> p,
           ts |-> IF f = override THEN "set" ELSE "own"] \in PacketType
    BY <1>2, <2>1 DEF PacketType
  <2>3. w(f) \in Seq(PacketType) /\ Len(w(f)) = frames[f].count
    BY <1>2, <2>1, <2>2, IsASeq
  <2> QED BY <2>1, <2>3
<1> HIDE DEF w
<1>4. Wanted \in Seq(Seq(PacketType)) /\ Len(Wanted) = Len(frames)
  BY <1>1, <1>2, <1>3, IsASeq
<1> QED BY <1>1, <1>2, <1>3, <1>4 DEF Numbered

LEMMA PacketIsWanted ==
  ASSUME TypeOK, StampInv, rec \in {"open", "replay"} \/ Saving,
         NEW f \in 1..Len(frames), NEW p \in 1..frames[f].count
  PROVE  Packet(f, p) = Wanted[f][p]
BY DEF StampInv, Wanted, Packet

\* A place is that of a packet, or behind the last frame.
LEMMA PlaceGood ==
  ASSUME NEW c, Numbered(c), NEW s \in Seq(PacketType), Begins(s, c),
         NEW i \in 1..(Len(s) + 1)
  PROVE  LET n == Place(s, c, i) IN
           /\ n \in Nat \X Nat /\ n[1] >= 1
           /\ n[1] <= Len(c) => n[2] \in 1..Len(c[n[1]])
<1>1. c \in Seq(Seq(PacketType)) /\ Len(c) \in Nat /\ Len(s) \in Nat
  BY DEF Numbered
<1>2. \A f \in 1..Len(c) : Len(c[f]) \in Nat /\ 1 \in 1..Len(c[f])
  BY <1>1, BoundsAssumption DEF Numbered
<1>3. CASE i = 1
  BY <1>1, <1>2, <1>3 DEF Place
<1>4. CASE i # 1
  <2> DEFINE m == Place(s, c, i - 1)
  <2>1. i - 1 \in 1..Len(s)
    BY <1>1, <1>4
  <2>2. m[1] \in 1..Len(c) /\ m[2] \in 1..Len(c[m[1]]) /\ s[i-1] = c[m[1]][m[2]]
    BY <2>1 DEF Begins
  <2>3. s[i-1].frame = m[1] /\ s[i-1].packet = m[2]
    BY <2>2 DEF Numbered
  <2>4. Place(s, c, i) = Advance(<<m[1], m[2]>>, Len(c[m[1]]))
    BY <1>4, <2>3 DEF Place
  <2> HIDE DEF m
  <2>5. m[1] \in Nat /\ m[1] >= 1 /\ m[2] \in Nat /\ m[2] >= 1 /\ Len(c[m[1]]) \in Nat
    BY <1>1, <1>2, <2>2
  <2>6. CASE m[2] < Len(c[m[1]])
    <3>1. Place(s, c, i) = <<m[1], m[2] + 1>>
      BY <2>4, <2>6 DEF Advance
    <3>2. m[2] + 1 \in 1..Len(c[m[1]]) /\ m[1] >= 1 /\ m[2] + 1 \in Nat
      BY <2>2, <2>5, <2>6
    <3>3. /\ Place(s, c, i) \in Nat \X Nat
          /\ Place(s, c, i)[1] = m[1] /\ Place(s, c, i)[2] = m[2] + 1
      BY <2>5, <3>1, <3>2
    <3> QED BY <3>2, <3>3
  <2>7. CASE ~(m[2] < Len(c[m[1]]))
    <3>1. Place(s, c, i) = <<m[1] + 1, 1>>
      BY <2>4, <2>7 DEF Advance
    <3>2. m[1] + 1 \in Nat /\ m[1] + 1 >= 1
      BY <2>5
    <3>3. m[1] + 1 <= Len(c) => 1 \in 1..Len(c[m[1] + 1])
      BY <1>1, <1>2, <3>2
    <3>4. /\ Place(s, c, i) \in Nat \X Nat
          /\ Place(s, c, i)[1] = m[1] + 1 /\ Place(s, c, i)[2] = 1
      BY <3>1, <3>2
    <3> QED BY <3>2, <3>3, <3>4
  <2> QED BY <2>6, <2>7
<1> QED BY <1>3, <1>4

\* The packet that follows is sent.
LEMMA BeginsAppend ==
  ASSUME NEW c, Numbered(c), NEW s \in Seq(PacketType), Begins(s, c),
         NEW f \in 1..Len(c), NEW p \in 1..Len(c[f]), <<f, p>> = Place(s, c, Len(s) + 1)
  PROVE  /\ Append(s, c[f][p]) \in Seq(PacketType)
         /\ Begins(Append(s, c[f][p]), c)
         /\ Place(Append(s, c[f][p]), c, Len(Append(s, c[f][p])) + 1)
              = Advance(<<f, p>>, Len(c[f]))
<1> DEFINE t == Append(s, c[f][p])
<1>1. c[f][p] \in PacketType /\ c[f][p].frame = f /\ c[f][p].packet = p
  <2>1. c[f] \in Seq(PacketType)
    BY ElementOfSeq DEF Numbered
  <2> QED BY <2>1, ElementOfSeq DEF Numbered
<1>2. /\ t \in Seq(PacketType) /\ Len(t) = Len(s) + 1 /\ t[Len(s) + 1] = c[f][p]
      /\ \A i \in 1..Len(s) : t[i] = s[i]
      /\ Len(s) \in Nat
  BY <1>1, AppendProperties
<1> HIDE DEF t
<1>3. ASSUME NEW i \in 1..(Len(s) + 1) PROVE Place(t, c, i) = Place(s, c, i)
  <2>1. i # 1 => i - 1 \in 1..Len(s)
    BY <1>2
  <2> QED BY <1>2, <2>1 DEF Place
<1>4. ASSUME NEW i \in 1..Len(t)
      PROVE  LET n == Place(t, c, i) IN
               n[1] \in 1..Len(c) /\ n[2] \in 1..Len(c[n[1]]) /\ t[i] = c[n[1]][n[2]]
  <2>1. i \in 1..Len(s) \/ i = Len(s) + 1
    BY <1>2
  <2>2. CASE i \in 1..Len(s)
    <3>1. Place(t, c, i) = Place(s, c, i) /\ t[i] = s[i]
      BY <1>2, <1>3, <2>2
    <3> QED BY <2>2, <3>1 DEF Begins
  <2>3. CASE i = Len(s) + 1
    <3>1. Place(t, c, i) = <<f, p>> /\ t[i] = c[f][p]
      BY <1>2, <1>3, <2>3
    <3> QED BY <3>1
  <2> QED BY <2>1, <2>2, <2>3
<1>5. Begins(t, c)
  BY <1>4 DEF Begins
<1>6. Place(t, c, Len(t) + 1) = Advance(<<f, p>>, Len(c[f]))
  <2>1. Len(t) + 1 # 1 /\ Len(t) + 1 - 1 = Len(s) + 1
    BY <1>2
  <2>2. Place(t, c, Len(t) + 1)
          = Advance(<<t[Len(t) + 1 - 1].frame, t[Len(t) + 1 - 1].packet>>,
                    Len(c[t[Len(t) + 1 - 1].frame]))
    BY <2>1 DEF Place
  <2>3. t[Len(t) + 1 - 1] = c[f][p]
    BY <1>2, <2>1
  <2> QED BY <1>1, <2>2, <2>3
<1> QED BY <1>2, <1>5, <1>6 DEF t

LEMMA NothingBegins ==
  ASSUME NEW c
  PROVE  /\ Begins(<<>>, c) /\ <<>> \in Seq(PacketType)
         /\ Place(<<>>, c, Len(<<>>) + 1) = <<1, 1>> /\ Packets(<<>>) = <<>>
BY EmptySeq DEF Begins, Place, Packets

-----------------------------------------------------------------------------
(* Rows, whole and cut *)

LEMMA WholeIsCutShort ==
  ASSUME NEW c, Numbered(c), NEW rs \in Seq(RowType), WholeRows(rs, c)
  PROVE  CutShort(rs, c)
<1>1. Len(rs) \in Nat /\ Len(c) \in Nat /\ MaxPackets \in Nat
  BY BoundsAssumption DEF Numbered
<1>2. ASSUME NEW i \in 1..Len(rs)
      PROVE  /\ Len(rs[i].files) = Len(c[i]) /\ Len(rs[i].files) \in 1..Len(c[i])
             /\ \A j \in 1..Len(rs[i].files) : rs[i].files[j] = <<i, j>>
  <2>1. i \in 1..Len(c)
    BY <1>1 DEF WholeRows
  <2>2. Len(c[i]) \in Nat /\ Len(c[i]) >= 1
    BY <1>1, <2>1 DEF Numbered
  <2>3. rs[i].files = [p \in 1..Len(c[i]) |-> <<i, p>>]
    <3>1. rs[i] = [index |-> i, files |-> [p \in 1..Len(c[i]) |-> <<i, p>>]]
      BY DEF WholeRows
    <3> QED BY <3>1
  <2>4. Len(rs[i].files) = Len(c[i])
    BY <2>2, <2>3
  <2> QED BY <2>2, <2>3, <2>4
<1> QED BY <1>2 DEF CutShort, WholeRows

LEMMA CutRow ==
  ASSUME NEW c, Numbered(c), NEW i \in 1..Len(c),
         NEW cut \in CutRows([index |-> i, files |-> [p \in 1..Len(c[i]) |-> <<i, p>>]])
  PROVE  /\ cut \in RowType /\ Len(cut.files) \in 1..Len(c[i])
         /\ \A j \in 1..Len(cut.files) : cut.files[j] \in {<<i, j>>, TornName}
<1> DEFINE names == [p \in 1..Len(c[i]) |-> <<i, p>>]
           row == [index |-> i, files |-> names]
<1>1. Len(c[i]) \in Nat /\ i \in Nat
  BY BoundsAssumption DEF Numbered
<1>2. names \in Seq(Nat \X Nat) /\ Len(names) = Len(c[i])
  <2>1. \A p \in 1..Len(c[i]) : <<i, p>> \in Nat \X Nat
    BY <1>1
  <2> QED BY <1>1, <2>1, IsASeq
<1>3. \A p \in 1..Len(c[i]) : names[p] = <<i, p>>
  OBVIOUS
<1>4. row.files = names /\ row.index = i /\ cut \in CutRows(row)
  OBVIOUS
<1> HIDE DEF names
<1>5. CASE \E k \in 1..Len(row.files) : cut = [row EXCEPT !.files = SubSeq(@, 1, k)]
  <2>1. PICK k \in 1..Len(names) : cut = [index |-> i, files |-> SubSeq(names, 1, k)]
    BY <1>4, <1>5
  <2>2. /\ SubSeq(names, 1, k) \in Seq(Nat \X Nat) /\ Len(SubSeq(names, 1, k)) = k
        /\ \A j \in 1..k : SubSeq(names, 1, k)[j] = names[j]
    BY <1>1, <1>2, SubSeqProperties
  <2> QED BY <1>1, <1>2, <1>3, <2>1, <2>2 DEF RowType
<1>6. CASE \E k \in 0..Len(row.files) - 1 :
             cut = [row EXCEPT !.files = Append(SubSeq(@, 1, k), TornName)]
  <2>1. PICK k \in 0..Len(names) - 1 :
          cut = [index |-> i, files |-> Append(SubSeq(names, 1, k), TornName)]
    BY <1>4, <1>6
  <2>2. /\ SubSeq(names, 1, k) \in Seq(Nat \X Nat) /\ Len(SubSeq(names, 1, k)) = k
        /\ \A j \in 1..k : SubSeq(names, 1, k)[j] = names[j]
    <3>1. k \in 0..Len(names) /\ 1 \in 1..(Len(names) + 1)
      BY <1>1, <1>2
    <3>2. \A j \in 1..k : names[1 + j - 1] = names[j]
      OBVIOUS
    <3> QED BY <1>1, <1>2, <3>1, <3>2, SubSeqProperties
  <2>3. TornName \in Nat \X Nat
    BY DEF TornName
  <2>4. /\ cut.files \in Seq(Nat \X Nat) /\ Len(cut.files) = k + 1
        /\ cut.files[k + 1] = TornName
        /\ \A j \in 1..k : cut.files[j] = SubSeq(names, 1, k)[j]
    BY <2>1, <2>2, <2>3, AppendProperties
  <2>5. cut \in RowType
    BY <1>1, <2>1, <2>4 DEF RowType
  <2>6. ASSUME NEW j \in 1..Len(cut.files) PROVE cut.files[j] \in {<<i, j>>, TornName}
    <3>1. j \in 1..k \/ j = k + 1
      BY <2>4
    <3>2. CASE j \in 1..k
      <4>1. j \in 1..Len(c[i])
        BY <1>1, <1>2, <3>2
      <4> QED BY <1>3, <2>2, <2>4, <3>2, <4>1
    <3> QED BY <2>4, <3>1, <3>2
  <2> QED BY <1>1, <1>2, <2>4, <2>5, <2>6
<1> QED BY <1>4, <1>5, <1>6 DEF CutRows

\* What is on disk of whole rows is cut short, and what was stored still is.
LEMMA CutsAreShort ==
  ASSUME NEW c, Numbered(c), NEW rs \in Seq(RowType), WholeRows(rs, c), NEW d, NEW lost,
         Stored(rs, c, d, lost), NEW k \in Cuts(rs)
  PROVE  /\ CutShort(k.rows, c) /\ Stored(k.rows, c, d, lost)
         /\ Len(k.rows) <= Len(rs)
<1>1. Len(rs) \in Nat /\ Len(c) \in Nat /\ Len(rs) <= Len(c)
  BY DEF Numbered, WholeRows
<1>2. CutShort(rs, c)
  BY WholeIsCutShort
<1>3. ASSUME NEW n \in 0..Len(rs)
      PROVE  /\ SubSeq(rs, 1, n) \in Seq(RowType) /\ Len(SubSeq(rs, 1, n)) = n
             /\ \A i \in 1..n : SubSeq(rs, 1, n)[i] = rs[i]
  BY <1>1, SubSeqProperties
<1>4. ASSUME NEW i \in 1..Len(rs), NEW row, row = rs[i],
             NEW j \in 1..Len(row.files), row.files[j] # TornName
      PROVE  d[<<i, j>>].of = c[i][j] /\ (lost = 0 => d[<<i, j>>].part = "whole")
  BY <1>4 DEF Stored
<1>5. ASSUME NEW i \in 1..Len(rs)
      PROVE  /\ Len(rs[i].files) = Len(c[i]) /\ i \in 1..Len(c)
             /\ rs[i] = [index |-> i, files |-> [p \in 1..Len(c[i]) |-> <<i, p>>]]
             /\ \A j \in 1..Len(c[i]) :
                  d[<<i, j>>].of = c[i][j] /\ (lost = 0 => d[<<i, j>>].part = "whole")
  <2>1. i \in 1..Len(c)
    BY <1>1
  <2>2. rs[i] = [index |-> i, files |-> [p \in 1..Len(c[i]) |-> <<i, p>>]]
    BY DEF WholeRows
  <2>3. Len(c[i]) \in Nat
    BY <2>1, BoundsAssumption DEF Numbered
  <2>4. Len(rs[i].files) = Len(c[i])
    BY <2>2, <2>3
  <2>5. \A j \in 1..Len(c[i]) : rs[i].files[j] # TornName
    BY <1>1, <2>2 DEF TornName
  <2> QED BY <2>1, <2>2, <2>4, <2>5 DEF Stored
<1>6. CASE \E n \in 0..Len(rs) : k.rows = SubSeq(rs, 1, n)
  <2>1. PICK n \in 0..Len(rs) : k.rows = SubSeq(rs, 1, n)
    BY <1>6
  <2>2. /\ k.rows \in Seq(RowType) /\ Len(k.rows) = n
        /\ \A i \in 1..n : k.rows[i] = rs[i] /\ i \in 1..Len(rs)
    BY <1>1, <1>3, <2>1
  <2>3. CutShort(k.rows, c)
    BY <1>1, <1>2, <2>2 DEF CutShort
  <2>4. Stored(k.rows, c, d, lost)
    BY <2>2 DEF Stored
  <2> QED BY <1>1, <2>2, <2>3, <2>4
<1>7. CASE \E n \in 0..Len(rs) - 1 : \E cut \in CutRows(rs[n + 1]) :
             k.rows = Append(SubSeq(rs, 1, n), cut)
  <2>0. PICK n \in 0..Len(rs) - 1 : \E cut \in CutRows(rs[n + 1]) :
          k.rows = Append(SubSeq(rs, 1, n), cut)
    BY <1>7
  <2>1. PICK cut \in CutRows(rs[n + 1]) : k.rows = Append(SubSeq(rs, 1, n), cut)
    BY <2>0
  <2>2. n \in Nat /\ n + 1 \in 1..Len(rs) /\ n \in 0..Len(rs)
    BY <1>1
  <2>3. /\ cut \in RowType /\ Len(cut.files) \in 1..Len(c[n + 1])
        /\ \A j \in 1..Len(cut.files) : cut.files[j] \in {<<n + 1, j>>, TornName}
    BY <1>5, <2>2, CutRow
  <2>4. /\ k.rows \in Seq(RowType) /\ Len(k.rows) = n + 1 /\ k.rows[n + 1] = cut
        /\ \A i \in 1..n : k.rows[i] = rs[i]
    BY <1>3, <2>1, <2>2, <2>3, AppendProperties
  <2>5. ASSUME NEW i \in 1..(n + 1) PROVE i = n + 1 \/ (i \in 1..n /\ i \in 1..Len(rs))
    BY <1>1, <2>2
  <2>6. ASSUME NEW i \in 1..(n + 1)
        PROVE  /\ Len(k.rows[i].files) \in 1..Len(c[i])
               /\ i < n + 1 => Len(k.rows[i].files) = Len(c[i])
               /\ \A j \in 1..Len(k.rows[i].files) : k.rows[i].files[j] \in {<<i, j>>, TornName}
    <3>1. CASE i = n + 1
      BY <2>2, <2>3, <2>4, <3>1
    <3>2. CASE i \in 1..n /\ i \in 1..Len(rs)
      BY <1>2, <1>5, <2>4, <3>2 DEF CutShort
    <3> QED BY <2>5, <3>1, <3>2
  <2>7. CutShort(k.rows, c)
    BY <1>1, <2>2, <2>4, <2>6 DEF CutShort
  <2>8. ASSUME NEW i \in 1..(n + 1), NEW j \in 1..Len(k.rows[i].files)
        PROVE  d[<<i, j>>].of = c[i][j] /\ (lost = 0 => d[<<i, j>>].part = "whole")
    <3>1. i \in 1..Len(rs)
      BY <2>2, <2>5
    <3>2. Len(k.rows[i].files) \in 1..Len(c[i]) /\ Len(c[i]) \in Nat
      <4>1. Len(c[i]) \in 1..MaxPackets
        BY <1>5, <3>1 DEF Numbered
      <4> QED BY <2>6, <4>1
    <3>3. j \in 1..Len(c[i])
      BY <3>2
    <3> QED BY <1>5, <3>1, <3>3
  <2>9. Stored(k.rows, c, d, lost)
    BY <2>4, <2>8 DEF Stored
  <2> QED BY <1>1, <2>2, <2>4, <2>7, <2>9
<1>8. \/ \E n \in 0..Len(rs) : k = [rows |-> SubSeq(rs, 1, n), malformed |-> FALSE]
      \/ \E n \in 0..Len(rs) - 1 : k = [rows |-> SubSeq(rs, 1, n), malformed |-> TRUE]
      \/ \E n \in 0..Len(rs) - 1 : \E cut \in CutRows(rs[n + 1]) :
           k = [rows |-> Append(SubSeq(rs, 1, n), cut), malformed |-> FALSE]
  BY DEF Cuts
<1>9. \A n \in 0..Len(rs) - 1 : n \in 0..Len(rs)
  BY <1>1
<1>10. CASE \E n \in 0..Len(rs) - 1 : k = [rows |-> SubSeq(rs, 1, n), malformed |-> TRUE]
  <2>1. PICK n \in 0..Len(rs) - 1 : k = [rows |-> SubSeq(rs, 1, n), malformed |-> TRUE]
    BY <1>10
  <2> QED BY <1>6, <1>9, <2>1
<1>11. CASE \E n \in 0..Len(rs) - 1 : \E cut \in CutRows(rs[n + 1]) :
              k = [rows |-> Append(SubSeq(rs, 1, n), cut), malformed |-> FALSE]
  <2>1. \A cut : [rows |-> cut, malformed |-> FALSE].rows = cut
    OBVIOUS
  <2>2. \E n \in 0..Len(rs) - 1 : \E cut \in CutRows(rs[n + 1]) :
          k.rows = Append(SubSeq(rs, 1, n), cut)
    BY <1>11, <2>1, Zenon
  <2> QED BY <1>7, <2>2
<1>12. CASE \E n \in 0..Len(rs) : k = [rows |-> SubSeq(rs, 1, n), malformed |-> FALSE]
  <2>1. PICK n \in 0..Len(rs) : k = [rows |-> SubSeq(rs, 1, n), malformed |-> FALSE]
    BY <1>12
  <2> QED BY <1>6, <2>1
<1> QED BY <1>8, <1>10, <1>11, <1>12
-----------------------------------------------------------------------------
(* What is on disk of the rows *)

\* While a capture is saved, its rows are whole and name files that hold it.
LEMMA WritingRows ==
  ASSUME IInv, StampInv, Saving
  PROVE  /\ Numbered(recorded) /\ rows \in Seq(RowType) /\ WholeRows(rows, recorded)
         /\ Stored(rows, recorded, files, losses)
         /\ csv.state = "writing" /\ csv.content = Whole(rows)
         /\ rec = "save" => Len(rows) = Len(recorded) /\ recorded # <<>>
<1>1. TypeOK /\ DiskInv /\ recorded = Wanted
  BY DEF IInv, StampInv
<1>2. /\ Numbered(recorded) /\ Len(recorded) = Len(frames)
      /\ \A f \in 1..Len(frames) : Len(recorded[f]) = frames[f].count
  BY <1>1, WantedNumbered
<1>3. /\ csv = [state |-> "writing", content |-> Whole(rows)] /\ rows \in Seq(RowType)
      /\ \A f \in 1..Len(rows) : rows[f] = Row(f)
      /\ \A f \in 1..Len(rows) : \A p \in 1..frames[f].count : OnDisk(<<f, p>>)
  BY <1>1 DEF DiskInv
<1>4. Len(rows) \in Nat /\ Len(frames) \in Nat /\ Len(rows) <= Len(frames)
  <2>1. CASE rec = "save"
    BY <1>1, <1>3, <2>1, Typed DEF DiskInv
  <2>2. CASE rec # "save"
    <3>1. at[1] \in 1..Len(frames) /\ Len(frames) \in Nat /\ Len(rows) = at[1] - 1
      BY <1>1, <2>2, CursorTyped, Typed DEF DiskInv
    <3> QED BY <3>1
  <2> QED BY <2>1, <2>2
<1>5. \A f \in 1..Len(rows) : f \in 1..Len(frames)
  BY <1>4
<1>6. WholeRows(rows, recorded)
  BY <1>2, <1>3, <1>4, <1>5 DEF WholeRows, Row
<1>7. ASSUME NEW i \in 1..Len(rows), NEW j \in 1..Len(rows[i].files)
      PROVE  /\ files[<<i, j>>].of = recorded[i][j]
             /\ losses = 0 => files[<<i, j>>].part = "whole"
  <2>1. frames[i].count \in 1..MaxPackets /\ MaxPackets \in Nat
    BY <1>1, <1>5, Typed
  <2>2. rows[i].files = [p \in 1..frames[i].count |-> <<i, p>>]
    <3>1. rows[i] = Row(i)
      BY <1>3
    <3> QED BY <3>1 DEF Row
  <2>3. j \in 1..frames[i].count
    BY <2>1, <2>2
  <2>4. Packet(i, j) = recorded[i][j]
    BY <1>1, <1>5, <2>3, PacketIsWanted
  <2>5. OnDisk(<<i, j>>)
    BY <1>3, <2>3
  <2> QED BY <2>4, <2>5 DEF OnDisk
<1>8. Stored(rows, recorded, files, losses)
  BY <1>7 DEF Stored
<1>9. rec = "save" => Len(rows) = Len(recorded) /\ recorded # <<>>
  <2> SUFFICES ASSUME rec = "save" PROVE Len(rows) = Len(recorded) /\ recorded # <<>>
    OBVIOUS
  <2>1. Len(rows) = Len(frames) /\ frames # <<>> /\ frames \in Seq(FrameType)
    BY <1>1 DEF DiskInv, TypeOK
  <2>2. Len(frames) # 0
    BY <2>1, EmptySeq
  <2> QED BY <1>2, <2>1, <2>2, EmptySeq
<1> QED BY <1>2, <1>3, <1>6, <1>8, <1>9

\* Files that are as they were still hold what they held.
LEMMA StoredStays ==
  ASSUME NEW rs, NEW c, NEW d, NEW l, Stored(rs, c, d, l), NEW e, NEW m, m = 0 => l = 0,
         \A i \in 1..Len(rs) : \A j \in 1..Len(rs[i].files) : e[<<i, j>>] = d[<<i, j>>]
  PROVE  Stored(rs, c, e, m)
BY DEF Stored

\* The cursor's file is named by no row, and by none that the player loaded.
LEMMA NoRowNamesIt ==
  ASSUME IInv, StampInv, LoadedInv, Saving, rec \in {"packet", "close_packet"},
         NEW v, files' = [files EXCEPT ![at] = v]
  PROVE  /\ \A i \in 1..Len(rows) : \A j \in 1..Len(rows[i].files) :
              files'[<<i, j>>] = files[<<i, j>>]
         /\ Replaying =>
              \A i \in 1..Len(loaded) : \A j \in 1..Len(loaded[i].files) :
                files'[<<i, j>>] = files[<<i, j>>]
<1>1. TypeOK /\ DiskInv /\ recorded = Wanted
  BY DEF IInv, StampInv
<1>2. /\ Len(recorded) = Len(frames)
      /\ \A f \in 1..Len(frames) : Len(recorded[f]) = frames[f].count
  BY <1>1, WantedNumbered
<1>3. /\ \A f \in 1..Len(rows) : \A p \in 1..frames[f].count :
           files'[<<f, p>>] = files[<<f, p>>]
  BY OthersStay
<1>4. at[1] \in 1..Len(frames) /\ Len(frames) \in Nat /\ Len(rows) = at[1] - 1
  BY <1>1, CursorTyped, Typed DEF DiskInv
<1>5. ASSUME NEW i \in 1..Len(rows), NEW j \in 1..Len(rows[i].files)
      PROVE  files'[<<i, j>>] = files[<<i, j>>]
  <2>1. frames[i].count \in 1..MaxPackets /\ MaxPackets \in Nat
    BY <1>1, <1>4, Typed
  <2>2. rows[i].files = [p \in 1..frames[i].count |-> <<i, p>>]
    <3>1. rows[i] = Row(i)
      BY <1>1 DEF DiskInv
    <3> QED BY <3>1 DEF Row
  <2> QED BY <1>3, <2>1, <2>2
<1>6. ASSUME Replaying, NEW i \in 1..Len(loaded), NEW j \in 1..Len(loaded[i].files)
      PROVE  files'[<<i, j>>] = files[<<i, j>>]
  <2>1. CutShort(loaded, recorded) /\ Len(loaded) <= Len(rows)
    BY <1>6 DEF LoadedInv
  <2>2. Len(loaded) \in Nat /\ Len(loaded[i].files) \in 1..Len(recorded[i])
    BY <2>1 DEF CutShort
  <2>3. i \in 1..Len(rows) /\ i \in 1..Len(frames)
    BY <1>4, <2>1, <2>2
  <2>4. frames[i].count \in 1..MaxPackets /\ MaxPackets \in Nat
    BY <1>1, <2>3, Typed
  <2>5. j \in 1..frames[i].count
    BY <1>2, <2>2, <2>3, <2>4
  <2> QED BY <1>3, <2>3, <2>5
<1> QED BY <1>5, <1>6

\* The player's part while the recorder works.
LEMMA PlayerStays ==
  ASSUME SentInv, LoadedInv, UNCHANGED playVars,
         Replaying =>
           /\ recorded' = recorded
           /\ Saving' => Saving /\ Len(rows) \in Nat /\ Len(rows') \in Nat
                           /\ Len(rows) <= Len(rows')
           /\ \A i \in 1..Len(loaded) : \A j \in 1..Len(loaded[i].files) :
                files'[<<i, j>>] = files[<<i, j>>]
  PROVE  SentInv' /\ LoadedInv'
<1>1. /\ UNCHANGED <<player, loaded, next, sent, rc, unread, promised>>
      /\ UNCHANGED <<Following, Replaying, Trusted>>
  BY DEF playVars, Following, Replaying, Trusted
<1>2. SentInv'
  BY <1>1 DEF SentInv
<1>3. CASE Replaying
  <2>1. Stored(loaded, recorded, files', promised.losses)
    BY <1>3, StoredStays DEF LoadedInv
  <2>2. Saving' => Len(loaded) <= Len(rows')
    <3>1. Len(loaded) \in Nat
      BY <1>3 DEF LoadedInv, CutShort
    <3> QED BY <1>3, <3>1 DEF LoadedInv
  <2> QED BY <1>1, <1>2, <1>3, <2>1, <2>2 DEF LoadedInv
<1>4. CASE ~Replaying
  BY <1>1, <1>2, <1>4 DEF LoadedInv
<1> QED BY <1>3, <1>4

\* Closing capture.csv leaves what is cut short at worst, and all of it if
\* nothing is lost.
LEMMA Closes ==
  ASSUME IInv, StampInv, Saving, NEW k \in Cuts(rows) \cup {Whole(rows)},
         csv' = [state |-> "closed", content |-> k], NEW l, l = 0 => losses = 0, NEW d,
         \A i \in 1..Len(rows) : \A j \in 1..Len(rows[i].files) : d[<<i, j>>] = files[<<i, j>>]
  PROVE  rows' = k.rows /\ CutShort(k.rows, recorded) /\ Stored(k.rows, recorded, d, l)
<1>1. /\ Numbered(recorded) /\ rows \in Seq(RowType) /\ WholeRows(rows, recorded)
      /\ Stored(rows, recorded, files, losses)
  BY WritingRows
<1>2. Stored(rows, recorded, d, l)
  BY <1>1, StoredStays
<1>3. rows' = k.rows
  BY DEF rows
<1>4. CASE k \in Cuts(rows)
  BY <1>1, <1>2, <1>3, <1>4, CutsAreShort
<1>5. CASE k = Whole(rows)
  BY <1>1, <1>2, <1>3, <1>5, WholeIsCutShort DEF Whole
<1> QED BY <1>4, <1>5

LEMMA CloseCsvCloses ==
  ASSUME IInv, StampInv, Saving, CloseCsv,
         \A i \in 1..Len(rows) : \A j \in 1..Len(rows[i].files) : files'[<<i, j>>] = files[<<i, j>>]
  PROVE  /\ csv'.state = "closed"
         /\ CutShort(rows', recorded) /\ Stored(rows', recorded, files', losses')
         /\ losses' = 0 => csv'.content = Whole(rows') /\ rows' = rows
<1>1. losses \in Nat
  BY BoundsAssumption DEF IInv, TypeOK
<1>2. csv.content.rows = rows
  BY DEF rows
<1>3. CASE csv' = [state |-> "closed", content |-> Whole(rows)] /\ losses' = losses
  <2>1. /\ rows' = Whole(rows).rows
        /\ CutShort(rows', recorded) /\ Stored(rows', recorded, files', losses')
    BY <1>3, Closes
  <2> QED BY <1>3, <2>1 DEF Whole
<1>4. CASE losses' = losses + 1 /\ \E c \in Cuts(rows) : csv' = [state |-> "closed", content |-> c]
  <2>1. PICK c \in Cuts(rows) : csv' = [state |-> "closed", content |-> c]
    BY <1>4
  <2>2. losses' # 0
    BY <1>1, <1>4
  <2>3. CutShort(rows', recorded) /\ Stored(rows', recorded, files', losses')
    BY <2>1, <2>2, Closes
  <2> QED BY <2>1, <2>2, <2>3
<1> QED BY <1>2, <1>3, <1>4 DEF CloseCsv
-----------------------------------------------------------------------------
(* Steps *)

LEMMA InitReplay == Init => RInv
<1> SUFFICES ASSUME Init PROVE RInv
  OBVIOUS
<1>1. /\ rec = "off" /\ frames = <<>> /\ live = <<>> /\ csv.state = "absent" /\ ~saved
      /\ recorded = <<>> /\ sent = <<>> /\ player = "idle" /\ next = <<1, 1>>
      /\ promised = [packets |-> <<>>, saved |-> FALSE, losses |-> 0]
  BY DEF Init
<1>2. ~Saving
  BY <1>1 DEF Saving
<1>3. Numbered(<<>>)
  <2>1. Len(<<>>) = 0 /\ MaxFrames \in Nat /\ <<>> \in Seq(Seq(PacketType))
    BY EmptySeq, BoundsAssumption
  <2> QED BY <2>1 DEF Numbered
<1>4. StampInv
  BY <1>1, <1>2 DEF StampInv
<1>5. LiveInv
  BY <1>1, NothingBegins DEF LiveInv
<1>6. ClosedInv
  BY <1>1, <1>3 DEF ClosedInv
<1>7. SentInv
  <2>1. sent \in Seq(FileType) /\ Len(sent) = 0
    BY <1>1, EmptySeq
  <2>2. Packets(sent) = <<>>
    BY <1>1, NothingBegins
  <2>3. Begins(Packets(sent), promised.packets) /\ Packets(sent) \in Seq(PacketType)
    BY <2>2, NothingBegins
  <2> QED BY <1>1, <1>3, <2>1, <2>3 DEF SentInv
<1>8. LoadedInv
  BY <1>1 DEF LoadedInv, Replaying
<1> QED BY <1>4, <1>5, <1>6, <1>7, <1>8 DEF RInv

\* Steps that leave the directory, what it is meant to hold, and the player.
LEMMA DirectoryStays ==
  ASSUME RInv, UNCHANGED <<dirVars, playVars, histVars>>, Saving' => Saving
  PROVE  ClosedInv' /\ SentInv' /\ LoadedInv'
<1>1. UNCHANGED <<csv, files, recorded, saved, losses, rows>>
  BY DEF dirVars, histVars, rows
<1>2. ClosedInv'
  BY <1>1 DEF RInv, ClosedInv
<1>3. ASSUME Replaying, Saving'
      PROVE  Saving /\ Len(loaded) <= Len(rows')
  BY <1>1, <1>3 DEF RInv, LoadedInv
<1>4. SentInv'
  BY DEF RInv, SentInv, playVars, Following, Trusted
<1>5. LoadedInv'
  BY <1>1, <1>3 DEF RInv, LoadedInv, playVars, Following, Replaying, Trusted
<1> QED BY <1>2, <1>4, <1>5

LEMMA StartReplay == ASSUME IInv, RInv, NEW i \in Overrides, Start(i) PROVE RInv'
<1>1. /\ rec' = "capture" /\ frames' = <<>> /\ live' = <<>>
      /\ UNCHANGED <<dirVars, playVars, histVars>>
  BY DEF Start
<1>2. ~Saving'
  BY <1>1 DEF Saving
<1>3. StampInv'
  BY <1>1, <1>2 DEF StampInv
<1>4. LiveInv'
  BY <1>1, NothingBegins DEF LiveInv
<1> QED BY <1>1, <1>2, <1>3, <1>4, DirectoryStays DEF RInv

LEMMA CaptureFrameReplay ==
  ASSUME IInv, RInv, NEW n \in 1..MaxPackets, CaptureFrame(n) PROVE RInv'
<1>1. /\ rec = "capture" /\ rec' = rec /\ live' = live
      /\ frames' = Append(frames, [count |-> n, ts |-> "own"])
      /\ UNCHANGED <<dirVars, playVars, histVars>>
  BY DEF CaptureFrame
<1>2. ~Saving'
  BY <1>1 DEF Saving
<1>3. StampInv'
  <2>1. frames \in Seq(FrameType) /\ [count |-> n, ts |-> "own"] \in FrameType
    BY DEF IInv, TypeOK, FrameType
  <2>2. /\ Len(frames') = Len(frames) + 1 /\ Len(frames) \in Nat
        /\ frames'[Len(frames) + 1].ts = "own"
        /\ \A f \in 1..Len(frames) : frames'[f] = frames[f]
    BY <1>1, <2>1, AppendProperties
  <2>3. ASSUME NEW f \in 1..Len(frames') PROVE frames'[f].ts = "own"
    <3>1. f \in 1..Len(frames) \/ f = Len(frames) + 1
      BY <2>2
    <3> QED BY <1>1, <2>2, <3>1 DEF RInv, StampInv
  <2> QED BY <1>1, <1>2, <2>3 DEF StampInv
<1>4. LiveInv'
  <2>1. live' = <<>>
    BY <1>1 DEF RInv, LiveInv
  <2> QED BY <1>1, <2>1, NothingBegins DEF LiveInv
<1> QED BY <1>1, <1>2, <1>3, <1>4, DirectoryStays DEF RInv

LEMMA OverrideReplay == ASSUME IInv, RInv, Override PROVE RInv'
<1>1. /\ rec = "capture" /\ rec' \in {"open", "replay"} /\ live' = live
      /\ UNCHANGED <<override, at>>
      /\ frames' = [f \in 1..Len(frames) |->
                      IF f = override THEN [frames[f] EXCEPT !.ts = "set"] ELSE frames[f]]
      /\ UNCHANGED <<dirVars, playVars, histVars>>
  BY DEF Override, overwrite_frame_timestamp
<1>2. ~Saving'
  BY <1>1 DEF Saving
<1>3. StampInv'
  <2>1. TypeOK
    BY DEF IInv
  <2>2. Len(frames) \in Nat
    BY <2>1, Typed
  <2>3. Len(frames') = Len(frames)
    BY <1>1, <2>2
  <2>4. ASSUME NEW f \in 1..Len(frames)
        PROVE  frames'[f].ts = IF f = override THEN "set" ELSE "own"
    <3>1. frames[f] \in FrameType /\ frames[f].ts = "own"
      BY <1>1, <2>1, Typed DEF RInv, StampInv
    <3> QED BY <1>1, <3>1 DEF FrameType
  <2> QED BY <1>1, <1>2, <2>3, <2>4 DEF StampInv
<1>4. LiveInv'
  <2>1. live' = <<>> /\ at' = <<1, 1>>
    BY <1>1 DEF RInv, LiveInv, IInv, TypeOK
  <2> QED BY <2>1, NothingBegins DEF LiveInv
<1> QED BY <1>1, <1>2, <1>3, <1>4, DirectoryStays DEF RInv

LEMMA QuietReplay == ASSUME IInv, RInv, Refuse \/ OpenFails PROVE RInv'
<1>1. /\ rec' = "off" /\ UNCHANGED <<run, override, frames, live>>
      /\ UNCHANGED <<dirVars, playVars, histVars>>
  BY DEF Refuse, OpenFails
<1>2. ~Saving'
  BY <1>1 DEF Saving
<1>3. StampInv'
  BY <1>1, <1>2 DEF StampInv
<1>4. LiveInv'
  <2>1. Wanted' = Wanted
    BY <1>1 DEF Wanted
  <2> QED BY <1>1, <2>1 DEF RInv, LiveInv
<1> QED BY <1>1, <1>2, <1>3, <1>4, DirectoryStays DEF RInv

\* The recorder sends the packet that follows.
LEMMA ReplayReplay == ASSUME IInv, RInv, Replay PROVE RInv'
<1>1. /\ rec = "replay" /\ UNCHANGED <<run, override, frames>>
      /\ UNCHANGED <<dirVars, playVars, histVars>>
      /\ \/ /\ at[1] <= Len(frames) /\ rec' = rec
            /\ live' = Append(live, Packet(at[1], at[2]))
            /\ at' = Advance(at, frames[at[1]].count)
         \/ rec' = "off" /\ UNCHANGED <<live, at>>
  BY DEF Replay
<1>2. ~Saving' /\ ~Saving
  BY <1>1 DEF Saving
<1>3. StampInv'
  BY <1>1, <1>2 DEF RInv, StampInv
<1>4. Wanted' = Wanted
  BY <1>1 DEF Wanted
<1>5. CASE rec' = "off" /\ UNCHANGED <<live, at>>
  <2>1. LiveInv'
    BY <1>4, <1>5 DEF RInv, LiveInv
  <2> QED BY <1>1, <1>2, <1>3, <2>1, DirectoryStays DEF RInv
<1>6. CASE /\ at[1] <= Len(frames) /\ rec' = rec
           /\ live' = Append(live, Packet(at[1], at[2]))
           /\ at' = Advance(at, frames[at[1]].count)
  <2>1. TypeOK /\ StampInv /\ LiveInv
    BY DEF IInv, RInv
  <2>2. /\ Numbered(Wanted) /\ Len(Wanted) = Len(frames)
        /\ \A f \in 1..Len(frames) : Len(Wanted[f]) = frames[f].count
    BY <2>1, WantedNumbered
  <2>3. /\ live \in Seq(PacketType) /\ Begins(live, Wanted)
        /\ at = Place(live, Wanted, Len(live) + 1)
    BY <1>1, <2>1 DEF LiveInv
  <2>4. Len(live) + 1 \in 1..(Len(live) + 1)
    BY <2>3
  <2>5. /\ at \in Nat \X Nat /\ at[1] >= 1
        /\ at[1] <= Len(Wanted) => at[2] \in 1..Len(Wanted[at[1]])
    BY <2>2, <2>3, <2>4, PlaceGood
  <2>6. /\ at[1] \in 1..Len(Wanted) /\ at[2] \in 1..Len(Wanted[at[1]])
        /\ at = <<at[1], at[2]>>
    BY <1>6, <2>2, <2>5
  <2>7. Packet(at[1], at[2]) = Wanted[at[1]][at[2]] /\ Len(Wanted[at[1]]) = frames[at[1]].count
    BY <1>1, <2>1, <2>2, <2>6, PacketIsWanted
  <2>8. PICK f, p : at = <<f, p>> /\ f = at[1] /\ p = at[2]
    BY <2>6
  <2>9. /\ live' \in Seq(PacketType) /\ Begins(live', Wanted)
        /\ Place(live', Wanted, Len(live') + 1) = Advance(at, Len(Wanted[at[1]]))
    <3>1. live' = Append(live, Wanted[f][p])
      BY <1>6, <2>7, <2>8
    <3>2. f \in 1..Len(Wanted) /\ p \in 1..Len(Wanted[f])
          /\ <<f, p>> = Place(live, Wanted, Len(live) + 1)
      BY <2>3, <2>6, <2>8
    <3> QED BY <2>2, <2>3, <2>8, <3>1, <3>2, BeginsAppend
  <2>10. LiveInv'
    BY <1>1, <1>4, <1>6, <2>7, <2>9 DEF LiveInv
  <2> QED BY <1>1, <1>2, <1>3, <2>10, DirectoryStays DEF RInv
<1> QED BY <1>1, <1>5, <1>6

\* A new capture.csv: nobody is playing, and it is not saved yet.
LEMMA OpenCsvReplay == ASSUME IInv, RInv, OpenCsv PROVE RInv'
<1>1. /\ rec = "open" /\ rec' = "packet" /\ ~Replaying /\ csv'.state = "writing"
      /\ recorded' = Wanted /\ saved' = FALSE
      /\ UNCHANGED <<run, override, frames, live>> /\ UNCHANGED playVars
  BY DEF OpenCsv
<1>2. Wanted' = Wanted
  BY <1>1 DEF Wanted
<1>3. StampInv'
  BY <1>1, <1>2 DEF RInv, StampInv
<1>4. LiveInv'
  BY <1>1, <1>2 DEF RInv, LiveInv
<1>5. ClosedInv'
  BY <1>1, WantedNumbered DEF ClosedInv, IInv
<1>6. SentInv' /\ LoadedInv'
  BY <1>1, PlayerStays DEF RInv
<1> QED BY <1>3, <1>4, <1>5, <1>6 DEF RInv

\* A step of a save that goes on.
LEMMA SaveGoesOn ==
  ASSUME IInv, RInv, Saving, Saving', csv'.state = "writing", UNCHANGED playVars,
         UNCHANGED <<run, override, frames, live, recorded, saved>>,
         Len(rows) \in Nat /\ Len(rows') \in Nat /\ Len(rows) <= Len(rows'),
         Replaying =>
           \A i \in 1..Len(loaded) : \A j \in 1..Len(loaded[i].files) :
             files'[<<i, j>>] = files[<<i, j>>]
  PROVE  RInv'
<1>1. Wanted' = Wanted
  BY DEF Wanted
<1>2. rec' \notin {"capture", "off", "replay"}
  BY DEF Saving
<1>3. StampInv'
  BY <1>1, <1>2 DEF RInv, StampInv
<1>4. LiveInv'
  <2>1. live = <<>>
    BY DEF RInv, LiveInv, Saving
  <2> QED BY <1>2, <2>1, NothingBegins DEF LiveInv
<1>5. ClosedInv'
  <2>1. csv.state = "writing"
    BY WritingRows DEF RInv
  <2>2. ~saved
    BY <2>1 DEF RInv, ClosedInv
  <2> QED BY <2>2 DEF RInv, ClosedInv
<1>6. SentInv' /\ LoadedInv'
  BY PlayerStays DEF RInv
<1> QED BY <1>3, <1>4, <1>5, <1>6 DEF RInv

LEMMA PacketReplay == ASSUME IInv, IInv', RInv, OpenPacket \/ ClosePacket PROVE RInv'
<1>1. /\ rec \in {"packet", "close_packet"} /\ rec' \in {"packet", "close_packet", "row"}
      /\ UNCHANGED <<run, override, frames, live, csv, recorded, saved>> /\ UNCHANGED playVars
  BY DEF OpenPacket, ClosePacket, histVars
<1>2. Saving /\ Saving'
  BY <1>1 DEF Saving
<1>3. \E v : files' = [files EXCEPT ![at] = v]
  <2>1. CASE OpenPacket
    BY <2>1 DEF OpenPacket
  <2>2. CASE ClosePacket
    <3>1. PICK part \in {"whole", "short", "empty"} : files' = [files EXCEPT ![at].part = part]
      BY <2>2 DEF ClosePacket
    <3>2. files' = [files EXCEPT ![at] = [files[at] EXCEPT !.part = part]]
      BY <3>1
    <3> QED BY <3>2
  <2> QED BY <2>1, <2>2
<1>4. PICK v : files' = [files EXCEPT ![at] = v]
  BY <1>3
<1>5. Replaying =>
        \A i \in 1..Len(loaded) : \A j \in 1..Len(loaded[i].files) :
          files'[<<i, j>>] = files[<<i, j>>]
  BY <1>1, <1>2, <1>4, NoRowNamesIt DEF RInv
<1>6. csv'.state = "writing" /\ rows' = rows /\ Len(rows) \in Nat /\ Len(rows) <= Len(rows')
  <2>1. rows \in Seq(RowType) /\ csv.state = "writing"
    BY <1>2, WritingRows DEF RInv
  <2> QED BY <1>1, <2>1 DEF rows
<1> QED BY <1>1, <1>2, <1>5, <1>6, SaveGoesOn

LEMMA WriteRowReplay == ASSUME IInv, RInv, WriteRow PROVE RInv'
<1>1. /\ rec = "row" /\ rec' \in {"packet", "save"}
      /\ csv' = [csv EXCEPT !.content.rows = Append(@, Row(at[1]))]
      /\ UNCHANGED <<run, override, frames, live, files, recorded, saved>> /\ UNCHANGED playVars
  BY DEF WriteRow, histVars
<1>2. Saving /\ Saving'
  BY <1>1 DEF Saving
<1>3. rows \in Seq(RowType) /\ csv = [state |-> "writing", content |-> Whole(rows)]
  BY <1>2 DEF IInv, DiskInv
<1>4. csv'.state = "writing" /\ rows' = Append(rows, Row(at[1]))
  BY <1>1, <1>3 DEF rows, Whole
<1>5. Len(rows') = Len(rows) + 1 /\ Len(rows) \in Nat
  BY <1>3, <1>4
<1>6. Len(rows') \in Nat /\ Len(rows) <= Len(rows')
  BY <1>5
<1> QED BY <1>1, <1>2, <1>4, <1>5, <1>6, SaveGoesOn

\* A save that ends: what is on disk is cut short, or whole if it was saved.
LEMMA StopReplay ==
  ASSUME IInv, RInv, PacketFails \/ WriteFails \/ Saved \/ Crash PROVE RInv'
<1>1. /\ Saving /\ UNCHANGED <<run, override, frames, live, recorded>> /\ UNCHANGED playVars
      /\ ~saved /\ csv.state = "writing" /\ rows \in Seq(RowType)
      /\ TypeOK /\ StampInv /\ LoadedInv
      /\ Numbered(recorded) /\ WholeRows(rows, recorded)
      /\ rec = "save" => Len(rows) = Len(recorded) /\ recorded # <<>>
  <2>1. Saving
    <3>1. CASE Crash
      BY <3>1 DEF Crash, Saving, IInv, TypeOK
    <3> QED BY <3>1 DEF PacketFails, WriteFails, Saved, Saving
  <2>2. UNCHANGED <<run, override, frames, live, recorded>> /\ UNCHANGED playVars
    BY DEF PacketFails, WriteFails, Saved, Crash, histVars
  <2>3. /\ csv.state = "writing" /\ rows \in Seq(RowType)
        /\ Numbered(recorded) /\ WholeRows(rows, recorded)
        /\ rec = "save" => Len(rows) = Len(recorded) /\ recorded # <<>>
    BY <2>1, WritingRows DEF RInv
  <2>4. ~saved
    BY <2>3 DEF RInv, ClosedInv
  <2> QED BY <2>1, <2>2, <2>3, <2>4 DEF RInv, IInv
<1>2. /\ \/ rec' = "off" /\ saved' = saved
         \/ Saved /\ rec = "save" /\ rec' = "replay" /\ at' = <<1, 1>> /\ saved' = TRUE
      /\ ~Saving'
  BY DEF PacketFails, WriteFails, Saved, Crash, Saving, histVars
<1>3. /\ \A i \in 1..Len(rows) : \A j \in 1..Len(rows[i].files) :
           files'[<<i, j>>] = files[<<i, j>>]
      /\ Replaying =>
           \A i \in 1..Len(loaded) : \A j \in 1..Len(loaded[i].files) :
             files'[<<i, j>>] = files[<<i, j>>]
  <2>1. CASE files' = files
    BY <2>1
  <2>2. CASE WriteFails
    <3>1. PICK part \in {"short", "empty"} : files' = [files EXCEPT ![at].part = part]
      BY <2>2 DEF WriteFails
    <3>2. files' = [files EXCEPT ![at] = [files[at] EXCEPT !.part = part]]
      BY <3>1
    <3>3. rec \in {"packet", "close_packet"}
      BY <2>2 DEF WriteFails
    <3> QED BY <1>1, <3>2, <3>3, NoRowNamesIt
  <2> QED BY <2>1, <2>2 DEF PacketFails, Saved, Crash
<1>4. /\ csv'.state = "closed" /\ CutShort(rows', recorded)
      /\ Stored(rows', recorded, files', losses')
      /\ ~Crash /\ losses' = 0 => csv'.content = Whole(rows') /\ rows' = rows
  <2>1. CASE Crash
    <3>1. PICK k \in Cuts(rows) : csv' = [state |-> "closed", content |-> k]
      BY <2>1 DEF Crash, rows
    <3>2. losses' = losses
      BY <2>1 DEF Crash, histVars
    <3>3. rows' = k.rows /\ CutShort(k.rows, recorded) /\ Stored(k.rows, recorded, files', losses')
      BY <1>1, <1>3, <3>1, <3>2, Closes
    <3> QED BY <2>1, <3>1, <3>3
  <2>2. CASE CloseCsv
    BY <1>1, <1>3, <2>2, CloseCsvCloses
  <2> QED BY <2>1, <2>2 DEF PacketFails, WriteFails, Saved
<1>5. StampInv'
  BY <1>1, <1>2 DEF StampInv, Saving
<1>6. LiveInv'
  <2>1. live = <<>>
    BY <1>1 DEF RInv, LiveInv, Saving
  <2> QED BY <1>1, <1>2, <2>1, NothingBegins DEF LiveInv
<1>7. ClosedInv'
  <2>1. saved' => recorded' # <<>>
    BY <1>1, <1>2
  <2>2. saved' /\ losses' = 0 =>
          csv'.content = Whole(rows') /\ WholeRows(rows', recorded) /\ Len(rows') = Len(recorded)
    <3>1. saved' => Saved /\ ~Crash /\ rec = "save"
      BY <1>1, <1>2 DEF Saved, Crash
    <3> QED BY <1>1, <1>4, <3>1
  <2> QED BY <1>1, <1>4, <2>1, <2>2 DEF ClosedInv
<1>8. SentInv' /\ LoadedInv'
  BY <1>1, <1>2, <1>3, PlayerStays DEF RInv
<1> QED BY <1>5, <1>6, <1>7, <1>8 DEF RInv
-----------------------------------------------------------------------------
(* The player *)

LEMMA RecorderStays ==
  ASSUME RInv, UNCHANGED <<recVars, dirVars, histVars>>
  PROVE  StampInv' /\ LiveInv' /\ ClosedInv'
<1>1. UNCHANGED <<run, rec, override, frames, at, live, csv, files, recorded, saved, losses>>
  BY DEF recVars, dirVars, histVars
<1>2. Wanted' = Wanted /\ rows' = rows /\ Saving' = Saving
  BY <1>1 DEF Wanted, rows, Saving
<1>3. StampInv'
  BY <1>1, <1>2 DEF RInv, StampInv
<1>4. LiveInv'
  BY <1>1, <1>2 DEF RInv, LiveInv
<1>5. ClosedInv'
  BY <1>1, <1>2 DEF RInv, ClosedInv
<1> QED BY <1>3, <1>4, <1>5

\* What can be read of capture.csv names files that hold the capture, and is all
\* of it once it was saved.
LEMMA ReadableIsCutShort ==
  ASSUME IInv, RInv, NEW c \in Readable
  PROVE  /\ c.rows # <<>> =>
              /\ CutShort(c.rows, recorded) /\ Stored(c.rows, recorded, files, losses)
              /\ Saving => Len(c.rows) <= Len(rows)
         /\ saved /\ losses = 0 =>
              Loads(c) /\ WholeRows(c.rows, recorded) /\ Len(c.rows) = Len(recorded)
<1>1. CASE csv.state = "absent"
  <2>1. c.rows = <<>> /\ ~saved
    BY <1>1 DEF Readable, Whole, RInv, ClosedInv
  <2> QED BY <2>1
<1>2. CASE csv.state = "writing"
  <2>1. c \in Cuts(rows) /\ Saving /\ ~saved
    BY <1>2 DEF Readable, rows, IInv, TypeOK, RInv, ClosedInv
  <2> QED BY <2>1, WritingRows, CutsAreShort DEF RInv
<1>3. CASE csv.state = "closed"
  <2>1. c = csv.content /\ c.rows = rows /\ ~Saving
    BY <1>3 DEF Readable, rows, IInv, TypeOK
  <2>2. CutShort(rows, recorded) /\ Stored(rows, recorded, files, losses)
    BY <1>3 DEF RInv, ClosedInv
  <2>3. ASSUME saved, losses = 0
        PROVE  Loads(c) /\ WholeRows(c.rows, recorded) /\ Len(c.rows) = Len(recorded)
    <3>1. /\ csv.content = Whole(rows) /\ WholeRows(rows, recorded)
          /\ Len(rows) = Len(recorded) /\ recorded # <<>> /\ Numbered(recorded)
      BY <2>3 DEF RInv, ClosedInv
    <3>2. ASSUME NEW i \in 1..Len(rows) PROVE rows[i].index = i
      <4>1. rows[i] = [index |-> i, files |-> [p \in 1..Len(recorded[i]) |-> <<i, p>>]]
        BY <3>1 DEF WholeRows
      <4> QED BY <4>1
    <3>3. rows # <<>>
      <4>1. Len(recorded) # 0
        BY <3>1, EmptySeq DEF Numbered
      <4> QED BY <3>1, <4>1
    <3>4. ~c.malformed
      BY <2>1, <3>1 DEF Whole
    <3> QED BY <2>1, <3>1, <3>2, <3>3, <3>4 DEF Loads
  <2> QED BY <2>1, <2>2, <2>3
<1> QED BY <1>1, <1>2, <1>3 DEF RInv, ClosedInv

\* The rows before a read that fails.
LEMMA ReadToIsCutShort ==
  ASSUME NEW k, NEW c, NEW d, NEW l, CutShort(k.rows, c), Stored(k.rows, c, d, l),
         NEW t \in ReadTo(k)
  PROVE  CutShort(t.rows, c) /\ Stored(t.rows, c, d, l) /\ Len(t.rows) <= Len(k.rows)
<1>1. PICK n \in 0..Len(k.rows) : t.rows = SubSeq(k.rows, 1, n)
  BY DEF ReadTo
<1>2. k.rows \in Seq(RowType) /\ Len(k.rows) \in Nat /\ Len(k.rows) <= Len(c)
  BY DEF CutShort
<1>3. /\ t.rows \in Seq(RowType) /\ Len(t.rows) = n
      /\ \A i \in 1..n : t.rows[i] = k.rows[i]
  BY <1>1, <1>2, SubSeqProperties
<1>4. \A i \in 1..n : i \in 1..Len(k.rows) /\ (i < n => i < Len(k.rows))
  BY <1>2
<1>5. CutShort(t.rows, c)
  <2>1. \A i \in 1..n :
          /\ Len(t.rows[i].files) \in 1..Len(c[i])
          /\ i < n => Len(t.rows[i].files) = Len(c[i])
          /\ \A j \in 1..Len(t.rows[i].files) : t.rows[i].files[j] \in {<<i, j>>, TornName}
    BY <1>3, <1>4 DEF CutShort
  <2>2. Len(t.rows) <= Len(c)
    <3>1. CASE n = 0
      <4>1. Len(c) \in Nat \/ Len(k.rows) = 0
        BY <1>2
      <4> QED BY <1>1, <1>2, <1>3, <3>1
    <3>2. CASE n = Len(k.rows)
      BY <1>2, <1>3, <3>2
    <3> QED BY <1>1, <1>2, <1>3
  <2> QED BY <1>3, <2>1, <2>2 DEF CutShort
<1>6. Stored(t.rows, c, d, l)
  BY <1>3, <1>4 DEF Stored
<1> QED BY <1>2, <1>3, <1>5, <1>6

LEMMA LoadReplay == ASSUME IInv, RInv, Load PROVE RInv'
<1>1. /\ player = "idle" /\ UNCHANGED <<recVars, dirVars, histVars>>
      /\ UNCHANGED <<next, sent>>
      /\ promised' = [packets |-> recorded, saved |-> saved, losses |-> losses]
  BY DEF Load
<1>2. PICK k \in Readable : \E c \in {k} \cup ReadTo(k) :
        /\ \/ Loads(c) /\ player' = "loaded" /\ rc' = 0 /\ loaded' = c.rows
           \/ ~Loads(c) /\ player' = "done" /\ rc' = 2
        /\ unread' = (c # k)
  BY DEF Load
<1>3. PICK c \in {k} \cup ReadTo(k) :
        /\ \/ Loads(c) /\ player' = "loaded" /\ rc' = 0 /\ loaded' = c.rows
           \/ ~Loads(c) /\ player' = "done" /\ rc' = 2
        /\ unread' = (c # k)
  BY <1>2
<1>4. StampInv' /\ LiveInv' /\ ClosedInv'
  BY <1>1, RecorderStays
<1>5. /\ sent' = <<>> /\ next' = <<1, 1>> /\ UNCHANGED <<recorded, files, rows, Saving>>
      /\ Numbered(recorded)
      /\ promised'.packets = recorded /\ promised'.saved = saved /\ promised'.losses = losses
  BY <1>1 DEF RInv, SentInv, ClosedInv, recVars, dirVars, histVars, rows, Saving
<1>6. /\ Packets(sent') = <<>> /\ Len(sent') = 0 /\ sent' \in Seq(FileType)
      /\ Begins(Packets(sent'), recorded) /\ Packets(sent') \in Seq(PacketType)
      /\ Place(Packets(sent'), recorded, Len(sent') + 1) = <<1, 1>>
  <2>1. Packets(sent') = <<>> /\ sent' = <<>>
    BY <1>5, NothingBegins
  <2> QED BY <2>1, NothingBegins, EmptySeq
<1>7. Following' = <<1, 1>> /\ Packets(sent)' = Packets(sent')
  BY <1>5, <1>6 DEF Following, Packets
<1>8. Trusted' => player' = "loaded"
  BY <1>5, <1>3, ReadableIsCutShort DEF Trusted
<1>9. SentInv'
  BY <1>3, <1>5, <1>6, <1>7, <1>8 DEF SentInv
<1>10. CASE player' = "loaded"
  <2>1. c.rows # <<>> /\ rc' = 0 /\ loaded' = c.rows
    BY <1>3, <1>10 DEF Loads
  <2>2. /\ CutShort(loaded', recorded) /\ Stored(loaded', recorded, files, losses)
        /\ Saving => Len(loaded') <= Len(rows)
        /\ Trusted' => WholeRows(loaded', recorded) /\ Len(loaded') = Len(recorded)
    <3>1. CASE c = k
      BY <1>5, <2>1, <3>1, ReadableIsCutShort DEF Trusted
    <3>2. CASE c \in ReadTo(k) /\ c # k
      <4>1. k.rows # <<>>
        BY <2>1, <3>2, EmptySeq DEF ReadTo
      <4>2. /\ CutShort(k.rows, recorded) /\ Stored(k.rows, recorded, files, losses)
            /\ Saving => Len(k.rows) <= Len(rows)
        BY <4>1, ReadableIsCutShort
      <4>3. /\ CutShort(c.rows, recorded) /\ Stored(c.rows, recorded, files, losses)
            /\ Len(c.rows) <= Len(k.rows)
        BY <3>2, <4>2, ReadToIsCutShort
      <4>4. Saving => Len(c.rows) <= Len(rows)
        <5>1. Saving => rows \in Seq(RowType)
          BY DEF IInv, DiskInv
        <5> QED BY <4>2, <4>3, <5>1 DEF CutShort
      <4> QED BY <1>3, <2>1, <3>2, <4>3, <4>4 DEF Trusted
    <3> QED BY <3>1, <3>2
  <2>3. 1 \in 1..Len(loaded'[1].files)
    <3>1. loaded' \in Seq(RowType) /\ loaded' # <<>>
      BY <2>1, <2>2 DEF CutShort
    <3>2. 1 \in 1..Len(loaded')
      BY <3>1, EmptySeq
    <3>3. loaded'[1] \in RowType
      BY <3>1, <3>2, ElementOfSeq
    <3>4. Len(loaded'[1].files) \in Nat
      BY <3>3 DEF RowType
    <3>5. Len(recorded[1]) \in Nat /\ Len(loaded'[1].files) \in 1..Len(recorded[1])
      <4>1. 1 \in 1..Len(recorded)
        BY <1>5, <2>2, <3>1, <3>2 DEF CutShort, Numbered
      <4>2. Len(recorded[1]) \in 1..MaxPackets /\ MaxPackets \in Nat
        BY <1>5, <4>1, BoundsAssumption DEF Numbered
      <4> QED BY <2>2, <3>2, <4>2 DEF CutShort
    <3> QED BY <3>4, <3>5
  <2>4. LoadedInv'
    BY <1>5, <1>7, <2>1, <2>2, <2>3 DEF LoadedInv
  <2> QED BY <1>4, <1>9, <2>4 DEF RInv
<1>11. CASE player' = "done"
  BY <1>4, <1>9, <1>11 DEF RInv, LoadedInv, Replaying
<1> QED BY <1>3, <1>10, <1>11

\* The player has its stream, or ends before it has read a packet.
LEMMA ConnectReplay == ASSUME IInv, RInv, Connect PROVE RInv'
<1>1. /\ player = "loaded" /\ UNCHANGED <<recVars, dirVars, loaded, next, sent, unread, promised, histVars>>
      /\ \/ player' = "done" /\ rc' \in {3, 4}
         \/ player' = "playing" /\ rc' = rc
  BY DEF Connect
<1>2. StampInv' /\ LiveInv' /\ ClosedInv'
  BY <1>1, RecorderStays
<1>3. UNCHANGED <<Following, Trusted, recorded, files, rows, Saving>>
  BY <1>1 DEF Following, Trusted, recVars, dirVars, histVars, rows, Saving
<1>4. SentInv'
  BY <1>1, <1>3 DEF RInv, SentInv
<1>5. LoadedInv'
  BY <1>1, <1>3 DEF RInv, LoadedInv, Replaying
<1> QED BY <1>2, <1>4, <1>5 DEF RInv

LEMMA SentAppend ==
  ASSUME NEW c \in FileType, sent \in Seq(FileType), sent' = Append(sent, c)
  PROVE  /\ sent' \in Seq(FileType) /\ Len(sent') = Len(sent) + 1
         /\ Packets(sent)' = Append(Packets(sent), c.of)
         /\ Len(Packets(sent)) = Len(sent) /\ Len(sent) \in Nat
         /\ Len(Append(Packets(sent), c.of)) = Len(sent) + 1
         /\ \A i \in 1..Len(sent') : sent'[i] = IF i = Len(sent) + 1 THEN c ELSE sent[i]
<1>1. /\ sent' \in Seq(FileType) /\ Len(sent') = Len(sent) + 1 /\ Len(sent) \in Nat
      /\ sent'[Len(sent) + 1] = c /\ \A i \in 1..Len(sent) : sent'[i] = sent[i]
  BY AppendProperties
<1>2. ASSUME NEW i \in 1..Len(sent')
      PROVE  (i = Len(sent) + 1 \/ i \in 1..Len(sent))
             /\ sent'[i] = IF i = Len(sent) + 1 THEN c ELSE sent[i]
  BY <1>1
<1> DEFINE of(x) == x.of
           S == {of(x) : x \in FileType}
           t == Packets(sent)
           u == [i \in 1..Len(sent') |-> sent'[i].of]
<1>3. t \in Seq(S) /\ Len(t) = Len(sent) /\ \A i \in 1..Len(sent) : t[i] = sent[i].of
  <2>1. \A i \in 1..Len(sent) : sent[i].of \in S
    BY ElementOfSeq
  <2> QED BY <1>1, <2>1, IsASeq DEF Packets
<1>4. u \in Seq(S) /\ Len(u) = Len(sent') /\ \A i \in 1..Len(sent') : u[i] = sent'[i].of
  <2>1. \A i \in 1..Len(sent') : sent'[i].of \in S
    BY <1>1, ElementOfSeq
  <2> QED BY <1>1, <2>1, IsASeq
<1>5. c.of \in S
  OBVIOUS
<1> HIDE DEF S, t, u
<1>6. /\ Append(t, c.of) \in Seq(S) /\ Len(Append(t, c.of)) = Len(sent) + 1
      /\ Append(t, c.of)[Len(sent) + 1] = c.of
      /\ \A i \in 1..Len(sent) : Append(t, c.of)[i] = t[i]
  BY <1>1, <1>3, <1>5, AppendProperties
<1>7. u = Append(t, c.of)
  <2>1. \A i \in 1..Len(u) : u[i] = Append(t, c.of)[i]
    BY <1>1, <1>2, <1>3, <1>4, <1>6
  <2> QED BY <1>1, <1>4, <1>6, <2>1, SeqEqual
<1>8. Packets(sent)' = u
  BY DEF Packets, u
<1> QED BY <1>1, <1>2, <1>3, <1>6, <1>7, <1>8 DEF t

\* The next packet is that of its row, and holds what it should.
LEMMA NextPacket ==
  ASSUME IInv, RInv, player = "playing", next[1] <= Len(loaded),
         NEW name, name = loaded[next[1]].files[next[2]]
  PROVE  /\ next = <<next[1], next[2]>> /\ next = Following
         /\ next[1] \in 1..Len(loaded) /\ next[2] \in 1..Len(loaded[next[1]].files)
         /\ next[1] \in 1..Len(recorded) /\ next[2] \in 1..Len(recorded[next[1]])
         /\ Len(loaded[next[1]].files) \in 1..Len(recorded[next[1]])
         /\ Len(recorded[next[1]]) \in Nat /\ Len(loaded) \in Nat
         /\ next[1] < Len(loaded) => Len(loaded[next[1]].files) = Len(recorded[next[1]])
         /\ name # TornName =>
              /\ Content(name) \in FileType
              /\ Content(name).of = recorded[next[1]][next[2]]
              /\ promised.losses = 0 => Content(name).part = "whole"
         /\ Trusted =>
              /\ name # TornName
              /\ Len(loaded[next[1]].files) = Len(recorded[next[1]])
<1>1. /\ CutShort(loaded, recorded) /\ Stored(loaded, recorded, files, promised.losses)
      /\ next = Following /\ next[1] >= 1 /\ next[2] \in 1..Len(loaded[next[1]].files)
      /\ Numbered(recorded) /\ next \in Nat \X Nat /\ files \in [Names -> FileType]
      /\ Trusted => WholeRows(loaded, recorded)
  BY DEF RInv, LoadedInv, Replaying, ClosedInv, IInv, TypeOK
<1>2. Len(loaded) \in Nat /\ Len(loaded) <= Len(recorded) /\ next[1] \in 1..Len(loaded)
      /\ Len(recorded) \in 0..MaxFrames /\ MaxFrames \in Nat /\ MaxPackets \in Nat
  BY <1>1, BoundsAssumption DEF CutShort, Numbered
<1>3. next[1] \in 1..Len(recorded) /\ next[1] \in 1..MaxFrames
  BY <1>2
<1>4. Len(recorded[next[1]]) \in 1..MaxPackets
  BY <1>1, <1>3 DEF Numbered
<1>5. /\ Len(loaded[next[1]].files) \in 1..Len(recorded[next[1]])
      /\ next[1] < Len(loaded) => Len(loaded[next[1]].files) = Len(recorded[next[1]])
      /\ name \in {<<next[1], next[2]>>, TornName}
  BY <1>1, <1>2 DEF CutShort
<1>6. next[2] \in 1..Len(recorded[next[1]]) /\ next[2] \in 1..MaxPackets
  BY <1>1, <1>2, <1>4, <1>5
<1>7. ASSUME name # TornName
      PROVE  /\ Content(name) \in FileType
             /\ Content(name).of = recorded[next[1]][next[2]]
             /\ promised.losses = 0 => Content(name).part = "whole"
  <2>1. name = <<next[1], next[2]>> /\ Content(name) = files[name] /\ name \in Names
    BY <1>3, <1>5, <1>6, <1>7 DEF Content, Names
  <2> QED BY <1>1, <1>2, <1>7, <2>1 DEF Stored
<1>8. ASSUME Trusted
      PROVE  name # TornName /\ Len(loaded[next[1]].files) = Len(recorded[next[1]])
  <2>1. loaded[next[1]] =
          [index |-> next[1], files |-> [p \in 1..Len(recorded[next[1]]) |-> <<next[1], p>>]]
    BY <1>1, <1>2, <1>8 DEF WholeRows
  <2>2. loaded[next[1]].files = [p \in 1..Len(recorded[next[1]]) |-> <<next[1], p>>]
    BY <2>1
  <2>3. name = <<next[1], next[2]>>
    BY <1>6, <2>2
  <2>4. Len(loaded[next[1]].files) = Len(recorded[next[1]])
    BY <1>2, <1>4, <2>2
  <2> QED BY <1>2, <2>3, <2>4 DEF TornName
<1> QED BY <1>1, <1>2, <1>3, <1>4, <1>5, <1>6, <1>7, <1>8

LEMMA PlayReplay == ASSUME IInv, RInv, Play PROVE RInv'
<1>1. /\ player = "playing" /\ next[1] <= Len(loaded)
      /\ UNCHANGED <<recVars, dirVars, loaded, promised, histVars>>
  BY DEF Play
<1>2. StampInv' /\ LiveInv' /\ ClosedInv'
  BY <1>1, RecorderStays
<1>3. PICK name : name = loaded[next[1]].files[next[2]]
  OBVIOUS
<1>4. \/ /\ player' = "done" /\ rc' = 5 /\ UNCHANGED <<next, sent>>
         /\ unread' = (unread \/ Content(name).part # "missing")
      \/ player' = "done" /\ rc' = 6 /\ UNCHANGED <<next, sent, unread>>
      \/ /\ Content(name).part \in {"whole", "short"} /\ sent' = Append(sent, Content(name))
         /\ next' = Advance(next, Len(loaded[next[1]].files)) /\ UNCHANGED <<player, rc, unread>>
  BY <1>3 DEF Play
<1>5. CASE player' = "done" /\ UNCHANGED <<next, sent>> /\ rc' # 0
           /\ (Trusted' => rc' = 6)
  <2>1. SentInv'
    BY <1>1, <1>5 DEF RInv, SentInv, Following
  <2>2. LoadedInv'
    BY <1>5 DEF LoadedInv, Replaying
  <2> QED BY <1>2, <2>1, <2>2 DEF RInv
<1>6. CASE /\ player' = "done" /\ rc' = 5 /\ UNCHANGED <<next, sent>>
           /\ unread' = (unread \/ Content(name).part # "missing")
  <2>1. ~Trusted'
    <3> SUFFICES ASSUME Trusted' PROVE FALSE
      OBVIOUS
    <3>1. Trusted /\ Content(name).part = "missing"
      BY <1>1, <1>6 DEF Trusted
    <3>2. Content(name).part = "whole"
      BY <1>1, <1>3, <3>1, NextPacket DEF Trusted
    <3> QED BY <3>1, <3>2
  <2> QED BY <1>5, <1>6, <2>1
<1>7. CASE player' = "done" /\ rc' = 6 /\ UNCHANGED <<next, sent, unread>>
  BY <1>5, <1>7
<1>8. CASE /\ Content(name).part \in {"whole", "short"} /\ sent' = Append(sent, Content(name))
           /\ next' = Advance(next, Len(loaded[next[1]].files)) /\ UNCHANGED <<player, rc, unread>>
  <2> DEFINE f == next[1]
             p == next[2]
             n == Len(loaded[f].files)
  <2>1. name # TornName
    BY <1>8 DEF Content, Missing
  <2>2. /\ next = <<f, p>> /\ next = Following
        /\ f \in 1..Len(loaded) /\ p \in 1..n
        /\ f \in 1..Len(recorded) /\ p \in 1..Len(recorded[f])
        /\ n \in 1..Len(recorded[f]) /\ Len(recorded[f]) \in Nat /\ Len(loaded) \in Nat
        /\ f < Len(loaded) => n = Len(recorded[f])
        /\ Content(name) \in FileType /\ Content(name).of = recorded[f][p]
        /\ promised.losses = 0 => Content(name).part = "whole"
        /\ Trusted => n = Len(recorded[f])
    BY <1>1, <1>3, <2>1, NextPacket
  <2>3. /\ sent \in Seq(FileType) /\ Packets(sent) \in Seq(PacketType)
        /\ Numbered(recorded) /\ promised.packets = recorded
        /\ Begins(Packets(sent), recorded)
        /\ promised.losses = 0 => \A i \in 1..Len(sent) : sent[i].part = "whole"
        /\ CutShort(loaded, recorded)
    BY <1>1 DEF RInv, SentInv, LoadedInv, Replaying, ClosedInv
  <2>4. /\ sent' \in Seq(FileType) /\ Len(sent') = Len(sent) + 1
        /\ Packets(sent)' = Append(Packets(sent), recorded[f][p])
        /\ Len(Packets(sent)) = Len(sent)
        /\ Len(Append(Packets(sent), recorded[f][p])) = Len(sent) + 1
        /\ \A i \in 1..Len(sent') :
             sent'[i] = IF i = Len(sent) + 1 THEN Content(name) ELSE sent[i]
        /\ Len(sent) \in Nat
    BY <1>8, <2>2, <2>3, SentAppend
  <2>5. <<f, p>> = Place(Packets(sent), recorded, Len(Packets(sent)) + 1)
    BY <2>2, <2>3, <2>4 DEF Following
  <2> HIDE DEF f, p, n
  <2>6. /\ Packets(sent)' \in Seq(PacketType) /\ Begins(Packets(sent)', recorded)
        /\ Place(Packets(sent)', recorded, Len(sent') + 1) = Advance(<<f, p>>, Len(recorded[f]))
    BY <2>2, <2>3, <2>4, <2>5, BeginsAppend
  <2>7. promised' = promised /\ recorded' = recorded /\ loaded' = loaded /\ files' = files
        /\ UNCHANGED <<rows, Saving, Trusted, Replaying>>
    BY <1>1, <1>8 DEF histVars, dirVars, recVars, rows, Saving, Trusted, Replaying
  <2>8. Following' = Advance(<<f, p>>, Len(recorded[f]))
    BY <2>3, <2>6, <2>7 DEF Following
  <2>9. promised.losses = 0 => \A i \in 1..Len(sent') : sent'[i].part = "whole"
    <3> SUFFICES ASSUME promised.losses = 0, NEW i \in 1..Len(sent') PROVE sent'[i].part = "whole"
      OBVIOUS
    <3>1. i = Len(sent) + 1 \/ i \in 1..Len(sent)
      BY <2>4
    <3> QED BY <2>2, <2>3, <2>4, <3>1
  <2>10. SentInv'
    BY <1>1, <1>8, <2>3, <2>4, <2>6, <2>7, <2>9 DEF SentInv
  <2>11. next' = Advance(<<f, p>>, n)
    BY <1>8, <2>2 DEF f, n
  <2>12. n = Len(recorded[f]) => next' = Following'
    BY <2>8, <2>11
  <2>13. ASSUME next'[1] <= Len(loaded)
         PROVE  next' = Following' /\ next'[1] >= 1 /\ next'[2] \in 1..Len(loaded[next'[1]].files)
    <3>1. CASE p < n
      <4>1. p < Len(recorded[f]) /\ p \in Nat
        BY <2>2, <3>1
      <4>2. next' = <<f, p + 1>> /\ Following' = <<f, p + 1>>
        BY <2>8, <2>11, <3>1, <4>1 DEF Advance
      <4>3. p + 1 \in 1..n /\ f >= 1
        BY <2>2, <3>1
      <4> QED BY <4>2, <4>3 DEF n
    <3>2. CASE ~(p < n)
      <4>1. next' = <<f + 1, 1>>
        BY <2>11, <3>2 DEF Advance
      <4>2. f \in Nat /\ f + 1 \in 1..Len(loaded) /\ f < Len(loaded)
        BY <2>2, <2>13, <4>1
      <4>3. Len(loaded[f + 1].files) \in 1..Len(recorded[f + 1])
        BY <2>3, <4>2 DEF CutShort
      <4>4. Len(recorded[f + 1]) \in Nat
        <5>1. f + 1 \in 1..Len(recorded)
          BY <2>3, <4>2 DEF CutShort, Numbered
        <5>2. Len(recorded[f + 1]) \in 1..MaxPackets /\ MaxPackets \in Nat
          BY <2>3, <5>1, BoundsAssumption DEF Numbered
        <5> QED BY <5>2
      <4>5. 1 \in 1..Len(loaded[f + 1].files)
        BY <4>3, <4>4
      <4> QED BY <2>2, <2>12, <4>1, <4>2, <4>5
    <3> QED BY <3>1, <3>2
  <2>14. LoadedInv'
    BY <1>1, <1>8, <2>2, <2>7, <2>12, <2>13 DEF RInv, LoadedInv, Replaying
  <2> QED BY <1>2, <2>10, <2>14 DEF RInv
<1> QED BY <1>4, <1>6, <1>7, <1>8

LEMMA PlayEndsReplay == ASSUME IInv, RInv, PlayEnds PROVE RInv'
<1>1. /\ player = "playing" /\ player' = "done" /\ next[1] > Len(loaded)
      /\ UNCHANGED <<recVars, dirVars, loaded, next, sent, rc, unread, promised, histVars>>
  BY DEF PlayEnds
<1>2. StampInv' /\ LiveInv' /\ ClosedInv'
  BY <1>1, RecorderStays
<1>3. rc = 0 /\ (Trusted => Following[1] > Len(promised.packets))
  BY <1>1 DEF RInv, LoadedInv, Replaying
<1>4. SentInv'
  BY <1>1, <1>3 DEF RInv, SentInv, Following, Trusted
<1>5. LoadedInv'
  BY <1>1 DEF LoadedInv, Replaying
<1> QED BY <1>2, <1>4, <1>5 DEF RInv

LEMMA NextReplay == IInv /\ RInv /\ IInv' /\ [Next]_vars => RInv'
<1> SUFFICES ASSUME IInv, RInv, IInv', [Next]_vars PROVE RInv'
  OBVIOUS
<1>1. ASSUME NEW f \in Overrides, Start(f) PROVE RInv'
  BY <1>1, StartReplay
<1>2. ASSUME NEW n \in 1..MaxPackets, CaptureFrame(n) PROVE RInv'
  BY <1>2, CaptureFrameReplay
<1>3. CASE Refuse \/ OpenFails
  BY <1>3, QuietReplay
<1>4. CASE Replay
  BY <1>4, ReplayReplay
<1>5. CASE Override
  BY <1>5, OverrideReplay
<1>6. CASE OpenCsv
  BY <1>6, OpenCsvReplay
<1>7. CASE OpenPacket \/ ClosePacket
  BY <1>7, PacketReplay
<1>8. CASE PacketFails \/ WriteFails \/ Saved \/ Crash
  BY <1>8, StopReplay
<1>9. CASE WriteRow
  BY <1>9, WriteRowReplay
<1>10. CASE Player
  BY <1>10, LoadReplay, ConnectReplay, PlayReplay, PlayEndsReplay DEF Player
<1>11. CASE UNCHANGED vars
  <2>1. UNCHANGED <<recVars, dirVars, histVars>> /\ UNCHANGED playVars
    BY <1>11 DEF vars
  <2>2. UNCHANGED <<recorded, files, rows, Saving>>
    BY <2>1 DEF recVars, dirVars, histVars, rows, Saving
  <2>3. SentInv'
    BY <2>1 DEF RInv, SentInv, playVars, Following, Trusted
  <2>4. LoadedInv'
    BY <2>1, <2>2 DEF RInv, LoadedInv, playVars, Following, Replaying, Trusted
  <2> QED BY <2>1, <2>3, <2>4, RecorderStays DEF RInv
<1> QED
  BY <1>1, <1>2, <1>3, <1>4, <1>5, <1>6, <1>7, <1>8, <1>9, <1>10, <1>11 DEF Next, Recorder

THEOREM ReplayInductive == Spec => []RInv
<1>1. Init => IInv /\ RInv
  BY InitInv, InitReplay
<1>2. IInv /\ RInv /\ [Next]_vars => (IInv /\ RInv)'
  BY NextInv, NextReplay
<1> QED BY <1>1, <1>2, PTL DEF Spec

\* What replay_buffered_packets and capture_replay send is the beginning of what
\* one run captured, whatever crashes, failures and full disks the directory
\* has seen, and whatever older capture it held.
THEOREM ReplaysBegin == Spec => []ReplayIsPrefix
<1>1. RInv => ReplayIsPrefix
  BY DEF RInv, LiveInv, SentInv, ReplayIsPrefix
<1> QED BY <1>1, ReplayInductive, PTL

\* A capture for which save_capture_to_disk returned true is replayed packet by
\* packet and to its end, if no file was cut, no read of a file that is there
\* fails, the player gets its session and stream, and the network takes the
\* packets.
THEOREM SavedIsReplayed == Spec => []SavedReplaysWhole
<1>1. RInv => SavedReplaysWhole
  <2> SUFFICES ASSUME RInv PROVE SavedReplaysWhole
    OBVIOUS
  <2>1. Len(Packets(sent)) = Len(sent)
    <3>1. Len(sent) \in Nat
      BY DEF RInv, SentInv
    <3> QED BY <3>1 DEF Packets
  <2> QED BY <2>1 DEF RInv, SentInv, SavedReplaysWhole, SentAll, Following, Trusted
<1> QED BY <1>1, ReplayInductive, PTL

=============================================================================
