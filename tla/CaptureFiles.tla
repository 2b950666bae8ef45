----------------------------- MODULE CaptureFiles -----------------------------
(***************************************************************************)
(* A capture on disk: opencv_send_logger in buffered mode (the recorder)   *)
(* pushes frames in capture-only mode, may set the RTP timestamp of one of *)
(* them, saves the packets and replays them; capture_replay (the player)   *)
(* reads what is in the directory and sends it.  The recorder is run       *)
(* several times on one directory, the player, which changes nothing in    *)
(* it, once and at any time.  The recorder can die at any point, sends     *)
(* fail, and the disk can be full: ofstream buffers what it is given, so   *)
(* the loss is met only when the file is closed, where nobody looks.  The  *)
(* player may fail to read a file that is there.                           *)
(*                                                                         *)
(* A packet is its run, frame and number and whether its timestamp was     *)
(* set.  Assumed: nobody replays the directory while a recording into it   *)
(* begins; the player may start at any time after that.                    *)
(***************************************************************************)
EXTENDS Integers, Sequences

CONSTANTS
  MaxRuns,     \* bound on the recorder's runs
  MaxFrames,   \* bound on the frames of a run
  MaxPackets,  \* bound on the packets of a frame
  MaxLosses,   \* bound on the files of a run that a full disk cuts
  Overrides    \* the frames --set-pts may name; 0 when it is not given

ASSUME BoundsAssumption == {MaxRuns, MaxFrames, MaxPackets, MaxLosses} \subseteq Nat
ASSUME OverridesAssumption == Overrides \subseteq Nat

VARIABLES
  \* the recorder
  run,         \* number of the run
  rec,         \* off, capture, open, packet, close_packet, row, save, replay
  override,    \* override_frame_index
  frames,      \* buffered_frames: packet count and timestamp of each
  at,          \* the frame and packet that save or replay is at
  live,        \* packets sent by replay_buffered_packets
  \* the directory
  csv,         \* capture.csv: absent, being written, or closed; its rows
  files,       \* packet files: name -> content, or Missing
  \* the player
  player,      \* idle, loaded, playing, done
  loaded,      \* out_frames: the rows it loaded
  next,        \* the row and file it sends next
  sent,        \* what it sent
  rc,          \* its exit code
  unread,      \* history: it failed to read a file that is there
  \* history
  recorded,    \* what the run that capture.csv belongs to is meant to save
  saved,       \* save_capture_to_disk returned true for that run
  losses,      \* how many of that run's files a full disk cut
  promised     \* of what the player loaded: the packets, saved, losses

recVars == <<run, rec, override, frames, at, live>>
dirVars == <<csv, files>>
playVars == <<player, loaded, next, sent, rc, unread, promised>>
histVars == <<recorded, saved, losses>>
vars == <<recVars, dirVars, playVars, histVars>>

Missing == [of |-> <<>>, part |-> "missing"]
Names == (1..MaxFrames) \X (1..MaxPackets)
TornName == <<0, 0>>  \* the beginning of a name: no file is called so

Packet(f, p) == [run |-> run, frame |-> f, packet |-> p, ts |-> frames[f].ts]

\* What a run should send: its frames as they were captured, with the timestamp
\* set in one of them.
Wanted ==
  [f \in 1..Len(frames) |->
    [p \in 1..frames[f].count |->
      [run |-> run, frame |-> f, packet |-> p,
       ts |-> IF f = override THEN "set" ELSE "own"]]]

\* The loops of both replays: the next packet of a frame of n, or the first of
\* the next frame.
Advance(place, n) ==
  IF place[2] < n THEN <<place[1], place[2] + 1>> ELSE <<place[1] + 1, 1>>

-----------------------------------------------------------------------------
(* capture.csv *)

Row(f) == [index |-> f, files |-> [p \in 1..frames[f].count |-> <<f, p>>]]

\* What is left of a row cut in the list of names: some of them, and perhaps
\* the beginning of the next one.
CutRows(row) ==
  {[row EXCEPT !.files = SubSeq(@, 1, k)] : k \in 1..Len(row.files)}
  \cup {[row EXCEPT !.files = Append(SubSeq(@, 1, k), TornName)] :
          k \in 0..Len(row.files) - 1}

\* What can be on disk of rows that have not been closed: a prefix of the
\* bytes.  A row cut before its list of names is malformed.
Cuts(rows) ==
  {[rows |-> SubSeq(rows, 1, k), malformed |-> FALSE] : k \in 0..Len(rows)}
  \cup {[rows |-> SubSeq(rows, 1, k), malformed |-> TRUE] : k \in 0..Len(rows) - 1}
  \cup UNION {{[rows |-> Append(SubSeq(rows, 1, k), cut), malformed |-> FALSE] :
                 cut \in CutRows(rows[k + 1])} : k \in 0..Len(rows) - 1}

Whole(rows) == [rows |-> rows, malformed |-> FALSE]

\* Closing the stream writes the rest, or what fits on the disk.
CloseCsv ==
  \/ /\ csv' = [state |-> "closed", content |-> Whole(csv.content.rows)]
     /\ UNCHANGED losses
  \/ /\ losses < MaxLosses
     /\ losses' = losses + 1
     /\ \E c \in Cuts(csv.content.rows) : csv' = [state |-> "closed", content |-> c]

-----------------------------------------------------------------------------
(* The recorder *)

Start(index) ==
  /\ rec = "off" /\ run < MaxRuns
  /\ run' = run + 1
  /\ rec' = "capture"
  /\ override' = index
  /\ frames' = <<>> /\ live' = <<>> /\ at' = <<1, 1>>
  /\ UNCHANGED <<dirVars, playVars, histVars>>

\* The capture callback is given a frame of n packets.
CaptureFrame(n) ==
  /\ rec = "capture" /\ Len(frames) < MaxFrames
  /\ frames' = Append(frames, [count |-> n, ts |-> "own"])
  /\ UNCHANGED <<run, rec, override, at, live, dirVars, playVars, histVars>>

\* push_frame fails, or --set-pts names a frame that was not captured: nothing
\* is saved or sent.
Refuse ==
  /\ rec = "capture"
  /\ rec' = "off"
  /\ UNCHANGED <<run, override, frames, at, live, dirVars, playVars, histVars>>

\* The timestamp is set in every packet of the frame.
overwrite_frame_timestamp(index) ==
  [f \in 1..Len(frames) |->
     IF f = index THEN [frames[f] EXCEPT !.ts = "set"] ELSE frames[f]]

Override ==
  /\ rec = "capture" /\ frames # <<>>
  /\ override \in 0..Len(frames)
  /\ frames' = overwrite_frame_timestamp(override)
  /\ rec' \in {"open", "replay"}  \* with and without --capture-dir
  /\ UNCHANGED <<run, override, at, live, dirVars, playVars, histVars>>

\* The directory cannot be made, or capture.csv not opened.
OpenFails ==
  /\ rec = "open"
  /\ rec' = "off"
  /\ UNCHANGED <<run, override, frames, at, live, dirVars, playVars, histVars>>

\* The player has read capture.csv and still needs the packet files.
Replaying == player \in {"loaded", "playing"}

\* Mutant: capture.csv is appended to.
OpenCsv_Appends ==
  /\ rec = "open" /\ ~Replaying
  /\ csv' = [state |-> "writing",
             content |-> IF csv.state = "absent" THEN Whole(<<>>) ELSE csv.content]
  /\ recorded' = Wanted /\ saved' = FALSE /\ losses' = 0
  /\ rec' = "packet"
  /\ UNCHANGED <<run, override, frames, at, live, files, playVars>>

\* capture.csv is truncated before anything else.
OpenCsv ==
  /\ rec = "open" /\ ~Replaying
  /\ csv' = [state |-> "writing", content |-> Whole(<<>>)]
  /\ recorded' = Wanted /\ saved' = FALSE /\ losses' = 0
  /\ rec' = "packet"
  /\ UNCHANGED <<run, override, frames, at, live, files, playVars>>

\* Mutant: a file that is there is not emptied.
OpenPacket_Keeps ==
  /\ rec = "packet"
  /\ files' = IF files[at] = Missing
              THEN [files EXCEPT ![at] = [of |-> Packet(at[1], at[2]), part |-> "empty"]]
              ELSE files
  /\ rec' = "close_packet"
  /\ UNCHANGED <<run, override, frames, at, live, csv, playVars, histVars>>

\* A packet file is opened, which empties the one of an earlier run.
OpenPacket ==
  /\ rec = "packet"
  /\ files' = [files EXCEPT ![at] = [of |-> Packet(at[1], at[2]), part |-> "empty"]]
  /\ rec' = "close_packet"
  /\ UNCHANGED <<run, override, frames, at, live, csv, playVars, histVars>>

\* Mutant: a packet file that cannot be opened is left out.
PacketFails_GoesOn ==
  /\ rec = "packet"
  /\ IF at[2] < frames[at[1]].count
     THEN rec' = "packet" /\ at' = <<at[1], at[2] + 1>>
     ELSE rec' = "row" /\ UNCHANGED at
  /\ UNCHANGED <<run, override, frames, live, dirVars, playVars, histVars>>

\* A packet file cannot be opened: save_capture_to_disk returns, which closes
\* capture.csv.
PacketFails ==
  /\ rec = "packet"
  /\ CloseCsv
  /\ rec' = "off"
  /\ UNCHANGED <<run, override, frames, at, live, files, playVars, recorded, saved>>

\* The write fails at once, for a packet larger than the stream's buffer.
WriteFails ==
  /\ rec = "close_packet"
  /\ \E part \in {"short", "empty"} : files' = [files EXCEPT ![at].part = part]
  /\ CloseCsv
  /\ rec' = "off"
  /\ UNCHANGED <<run, override, frames, at, live, playVars, recorded, saved>>

\* The file goes out of scope.  Its packet was in the stream's buffer; on a
\* full disk it stays there in whole or in part.
ClosePacket ==
  /\ rec = "close_packet"
  /\ \E part \in {"whole", "short", "empty"} :
       /\ files' = [files EXCEPT ![at].part = part]
       /\ losses' = IF part = "whole" THEN losses ELSE losses + 1
       /\ losses' <= MaxLosses
  /\ IF at[2] < frames[at[1]].count
     THEN rec' = "packet" /\ at' = <<at[1], at[2] + 1>>
     ELSE rec' = "row" /\ UNCHANGED at
  /\ UNCHANGED <<run, override, frames, live, csv, playVars, recorded, saved>>

\* The row of a frame is written after its packets; after the last one the
\* function returns true.
WriteRow ==
  /\ rec = "row"
  /\ csv' = [csv EXCEPT !.content.rows = Append(@, Row(at[1]))]
  /\ IF at[1] < Len(frames)
     THEN rec' = "packet" /\ at' = <<at[1] + 1, 1>>
     ELSE rec' = "save" /\ UNCHANGED at
  /\ UNCHANGED <<run, override, frames, live, files, playVars, histVars>>

Saved ==
  /\ rec = "save"
  /\ CloseCsv
  /\ saved' = TRUE
  /\ rec' = "replay" /\ at' = <<1, 1>>
  /\ UNCHANGED <<run, override, frames, live, files, playVars, recorded>>

\* replay_buffered_packets sends packet after packet, and gives up when one
\* fails.
Replay ==
  /\ rec = "replay"
  /\ \/ /\ at[1] <= Len(frames)
        /\ live' = Append(live, Packet(at[1], at[2]))
        /\ at' = Advance(at, frames[at[1]].count)
        /\ UNCHANGED rec
     \/ /\ rec' = "off"
        /\ UNCHANGED <<live, at>>
  /\ UNCHANGED <<run, override, frames, dirVars, playVars, histVars>>

\* The recorder dies; of an open capture.csv a prefix is on disk.
Crash ==
  /\ rec \notin {"off", "capture", "open", "replay"}
  /\ \E c \in Cuts(csv.content.rows) : csv' = [state |-> "closed", content |-> c]
  /\ rec' = "off"
  /\ UNCHANGED <<run, override, frames, at, live, files, playVars, histVars>>

-----------------------------------------------------------------------------
(* The player *)

Readable == CASE csv.state = "absent"  -> {Whole(<<>>)}
              [] csv.state = "writing" -> Cuts(csv.content.rows)
              [] csv.state = "closed"  -> {csv.content}

\* load_capture: rows well formed and numbered from one.
Loads(c) ==
  /\ ~c.malformed /\ c.rows # <<>>
  /\ \A i \in 1..Len(c.rows) : c.rows[i].index = i

\* What a read of it that fails leaves: the rows before that point, which are
\* taken for the whole of it, or none, as when it cannot be opened.
ReadTo(c) ==
  {[rows |-> SubSeq(c.rows, 1, k), malformed |-> FALSE] : k \in 0..Len(c.rows)}

Load ==
  /\ player = "idle"
  /\ rec # "open"
  /\ \E c \in Readable : \E read \in {c} \cup ReadTo(c) :
       /\ IF Loads(read)
          THEN player' = "loaded" /\ rc' = 0 /\ loaded' = read.rows
          ELSE player' = "done" /\ rc' = 2 /\ UNCHANGED loaded
       /\ unread' = (read # c)
  /\ promised' = [packets |-> recorded, saved |-> saved, losses |-> losses]
  /\ UNCHANGED <<recVars, dirVars, next, sent, histVars>>

\* create_session fails, or create_stream, or neither.
Connect ==
  /\ player = "loaded"
  /\ \/ player' = "done" /\ rc' \in {3, 4}
     \/ player' = "playing" /\ UNCHANGED rc
  /\ UNCHANGED <<recVars, dirVars, loaded, next, sent, unread, promised, histVars>>

Content(name) == IF name = TornName THEN Missing ELSE files[name]

\* A packet is read and sent, if the network takes it.
Play ==
  /\ player = "playing" /\ next[1] <= Len(loaded)
  /\ LET row == loaded[next[1]]
         c == Content(row.files[next[2]])
     IN \/ /\ player' = "done" /\ rc' = 5  \* read_packet fails
           /\ unread' = (unread \/ c.part # "missing")
           /\ UNCHANGED <<next, sent>>
        \/ /\ c.part # "missing"  \* an empty packet is refused
           /\ player' = "done" /\ rc' = 6
           /\ UNCHANGED <<next, sent, unread>>
        \/ /\ c.part \in {"whole", "short"}
           /\ sent' = Append(sent, c)
           /\ next' = Advance(next, Len(row.files))
           /\ UNCHANGED <<player, rc, unread>>
  /\ UNCHANGED <<recVars, dirVars, loaded, promised, histVars>>

PlayEnds ==
  /\ player = "playing" /\ next[1] > Len(loaded)
  /\ player' = "done"
  /\ UNCHANGED <<recVars, dirVars, loaded, next, sent, rc, unread, promised, histVars>>

-----------------------------------------------------------------------------
Init ==
  /\ run = 0 /\ rec = "off" /\ override = 0
  /\ frames = <<>> /\ at = <<1, 1>> /\ live = <<>>
  /\ csv = [state |-> "absent", content |-> Whole(<<>>)]
  /\ files = [n \in Names |-> Missing]
  /\ player = "idle" /\ loaded = <<>> /\ next = <<1, 1>> /\ sent = <<>> /\ rc = 0
  /\ unread = FALSE
  /\ recorded = <<>> /\ saved = FALSE /\ losses = 0
  /\ promised = [packets |-> <<>>, saved |-> FALSE, losses |-> 0]

Recorder ==
  \/ \E f \in Overrides : Start(f)
  \/ \E n \in 1..MaxPackets : CaptureFrame(n)
  \/ Refuse \/ Override \/ OpenFails \/ OpenCsv \/ OpenPacket \/ PacketFails \/ WriteFails
  \/ ClosePacket \/ WriteRow \/ Saved \/ Replay \/ Crash

Player == Load \/ Connect \/ Play \/ PlayEnds

Next == Recorder \/ Player

Spec == Init /\ [][Next]_vars

-----------------------------------------------------------------------------
(* Properties *)

FrameType == [count : 1..MaxPackets, ts : {"own", "set"}]
PacketType == [run : Nat, frame : Nat, packet : Nat, ts : {"own", "set"}]
FileType == [of : PacketType \cup {<<>>}, part : {"missing", "empty", "short", "whole"}]

Saving == rec \in {"packet", "close_packet", "row", "save"}
Captured(name) == name[1] \in 1..Len(frames) /\ name[2] \in 1..frames[name[1]].count

\* The variables stay in their types, and the cursor of the recorder points
\* at a packet that was captured while it saves.
TypeOK ==
  /\ run \in 0..MaxRuns /\ override \in Overrides \cup {0}
  /\ rec \in {"off", "capture", "open", "replay"} \/ Saving
  /\ frames \in Seq(FrameType) /\ Len(frames) <= MaxFrames
  /\ at \in Nat \X Nat
  /\ Saving /\ rec # "save" => Captured(at)
  /\ rec \in {"open", "save", "replay"} => frames # <<>>
  /\ rec \in {"capture", "open"} => at = <<1, 1>>
  /\ Saving <=> csv.state = "writing"
  /\ files \in [Names -> FileType]
  /\ losses \in 0..MaxLosses
  /\ player \in {"idle", "loaded", "playing", "done"} /\ next \in Nat \X Nat
  /\ rc \in {0, 2, 3, 4, 5, 6} /\ unread \in BOOLEAN

\* The file has its packet of this run, whole if no file was cut.
OnDisk(name) ==
  /\ files[name].of = Packet(name[1], name[2])
  /\ losses = 0 => files[name].part = "whole"

\* A row of capture.csv stands for its frame, in order, and names files that
\* have its packets: of this run, and whole unless a full disk cut one.  A crash
\* or a failure leaves a prefix of such rows.
RowsNameSavedPackets ==
  Saving =>
    /\ ~csv.content.malformed
    /\ \A f \in 1..Len(csv.content.rows) :
         /\ csv.content.rows[f] = Row(f)
         /\ \A p \in 1..frames[f].count : OnDisk(<<f, p>>)

\* The place in capture c of the packet that follows the first i - 1 of s.
Place(s, c, i) ==
  IF i = 1 THEN <<1, 1>>
  ELSE Advance(<<s[i-1].frame, s[i-1].packet>>, Len(c[s[i-1].frame]))

\* s is the beginning of capture c, frame after frame; or all of it.
Begins(s, c) ==
  \A i \in 1..Len(s) :
    LET n == Place(s, c, i) IN
      n[1] \in 1..Len(c) /\ n[2] \in 1..Len(c[n[1]]) /\ s[i] = c[n[1]][n[2]]

SentAll(s, c) == Place(s, c, Len(s) + 1)[1] > Len(c)

Packets(s) == [i \in 1..Len(s) |-> s[i].of]

\* What the recorder and the player send is the beginning of what one run of
\* the recorder captured, with the timestamp set in the frame that --set-pts
\* names and in no other, wherever that run, the one before it or a save that
\* failed stopped: never packets of two runs, never one twice, none left out.
ReplayIsPrefix ==
  /\ Begins(live, Wanted)
  /\ Begins(Packets(sent), promised.packets)

\* If the disk was not full, the player sends whole packets only; and a capture
\* that was saved is there to be read: unless a read of it fails, the player
\* ends early only when it gets no session or stream, or the network refuses a
\* packet, and its exit code is 0 only when it has sent everything.
SavedReplaysWhole ==
  promised.losses = 0 =>
    /\ \A i \in 1..Len(sent) : sent[i].part = "whole"
    /\ promised.saved /\ player = "done" /\ ~unread =>
         /\ rc \in {0, 3, 4, 6}
         /\ rc = 0 => SentAll(Packets(sent), promised.packets)
=============================================================================
