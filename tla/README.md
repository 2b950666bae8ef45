# Verification of uvg-send-receive-local

TLA+ models, model checks and machine-checked proofs for this repository: the
changes it makes to uvgRTP (packet capture in the sending path, raw sending,
generic media, the media stream) and the programs around it (logger, sender,
replay, and two receivers).

## The system

| part | source | state | operations | interacts with |
|---|---|---|---|---|
| frame queue | `updates/uvgRTP/src/frame_queue.{cc,hh}` | transaction `active_`, headers, packets, sync point, capture callback | `init_transaction`, `enqueue_message`, `flush_queue`, `deinit_transaction`, `set_packet_capture`, `set_fps`, `set_pace` | socket, RTP context (sequence numbers), the callback |
| generic media | `updates/uvgRTP/src/formats/media.{cc,hh}` | fragments of incomplete frames | `push_frame`, `packet_handler` | calls the frame queue; called by the stream and by reception |
| media stream | `updates/uvgRTP/src/media_stream.cc` | the stream's parts, `initialized_`, configuration | `init`, `start_zrtp`, `add_srtp_ctx`, `push_frame`, `configure_ctx`, `set_packet_capture`, `send_raw_rtp_packet`, destructor | all of the above; ZRTP, SRTP, RTCP, reception |
| capture registry | `uvgRTP/customizations/packet_capture.cpp` | capture configuration per frame queue, one mutex | `set_capture`, `clear_capture`, `prepare_frame`, `emit_frame` | the patched `flush_queue` of `README_DIFF.md`; the callback, called without the lock |
| logger | `examples/opencv_send_logger.cc` | pending access unit, captured frames, files | encode, push, capture, override a timestamp, save, replay | media stream, file system |
| replay | `examples/capture_replay.cc` | frames it loaded | `load_capture`, `read_packet`, send | file system, `send_raw_rtp_packet` |
| receiver | `examples/simple_receiver.cpp` | counters, `finished_`, exit code, queue of frames to save | receive hook, `wait_until_done`, `save_worker`, shutdown | uvgRTP's reception thread, decoder, file system |
| sender | `examples/opencv_sender.cc` | images, pending access unit, access units | load, `Encoder::encode`, `flush`, push with timestamps | libav's encoder, media stream |
| polling receiver | `examples/simple_receiver copy.cpp` | frame count, time of the last progress | `pull_frame` loop, two time-outs | media stream |

The socket, the RTP context, reception, RTCP, SRTP, ZRTP and the H.26x and V3C
formats are uvgRTP code that is not in this repository; the models take from
the calls made here what those parts must do and mark it external.

What is hard about it, and what would make each part correct:

* **A frame is many packets.** A send may fail between two of them, when
  sequence numbers have been spent and a capture is under way. The caller, the
  wire and the callback must agree on what happened.
* **Packets are lost, copied and reordered**, and a frame is put together from
  sequence numbers that wrap. What is handed over should be what was pushed,
  and nothing should be held for ever.
* **The capture registry is shared by threads** and looked up twice per frame
  with no lock in between.
* **A stream is a sequence of calls** that create, replace and destroy its
  parts; what was configured should survive.
* **Streams of a session share one ZRTP object** and its lock, with time-outs.
* **The receiver has three threads**, two condition variables, a time limit and
  a shutdown that races all of them.
* **A capture is written file by file** and read back, perhaps after a crash or
  over an older capture.
* **An encoder hands its packets out late**, several for an image or none, and
  the last access unit is known to be complete only when the encoder is drained.
* **Frames are sent by a clock** that others set, with late frames, early ones,
  and a synchronisation that is given up and found again.

`PROJECT.json` lists each hazard at its line with the properties that cover it.

## Modules

| module | models | role |
|---|---|---|
| `FrameDelivery` | the promise: frames accepted one at a time, sent in order, observed once and only on success | abstract specification |
| `FrameQueue` | a push through `media::push_frame` and the frame queue, one step per packet | implements `FrameDelivery` (`FramesAreDelivered`) |
| `FramePacing` | when `flush_queue` sends: frame-rate synchronisation and pacing against a clock | |
| `PacketCapture` | the registry and the `flush_queue` of `README_DIFF.md` that uses it, several queues, configuration between or during pushes | each queue implements `FrameDelivery` (`QueuesDeliver`) when it is configured between pushes |
| `Reassembly` | `media::packet_handler` behind a network | |
| `MediaStream` | all sequences of calls on one stream, with failures | |
| `ZrtpStart` | `start_zrtp` by many streams at once | |
| `Receiver` | hook, main and saver of `simple_receiver.cpp` | |
| `CaptureFiles` | recorder and player on one directory | |
| `Sender` | `opencv_sender`, and `opencv_send_logger` up to its capture | |
| `PollingReceiver` | the loop of `simple_receiver copy.cpp` | |
| `SendReceive` | | composes `Sender` and `PollingReceiver` with a network |
| `FrameQueueProofs`, `FramePacingProofs`, `PacketCaptureProofs`, `ReassemblyProofs`, `ReceiverProofs`, `CaptureFilesProofs`, `SenderProofs` | | theorems about the module they are named for |
| `StreamProofs` | | theorems about `MediaStream` and `ZrtpStart` |

`MC*` modules give the constants of the runs.

### Correspondence

* **FrameQueue.** `pc` is the place in `push_media_frame` or `flush_queue`;
  `rtp_headers` and `packets` are the members of `active_`; `heap` holds what a
  transaction allocated; `wire`, `captured` and `history` record what left, what
  the callback got and what each push returned. `EnqueueWhole`,
  `EnqueueFragment` and `EnqueueLast` are the three ways `push_media_frame`
  calls `enqueue_message`; `SendPaced`, `SendPacedFails`, `SendAll` and
  `SendAllFails` the two ways to send. A packet is the slice `[pos, pos+len)` of
  its frame.
* **Reassembly.** `frames` is `minfo->frames`. `Key` is the map key that places
  numbers below the first one seen behind the wrap; `Expected` is the width of
  the range; `CompleteFrame`, `KeepFragment`, `OpenFrame` and `SinglePacket` are
  the branches of `packet_handler`.
* **PacketCapture.** A push is `PrepareFrame`, its sends, `EmitLookup` and
  `CallBack`; each of the critical sections of the mutex is one action. A copy
  taken under the lock (`capture_only`, the callback) is a variable of the push.
* **MediaStream.** One action per public function and outcome. `resources`
  stands for the members `free_resources` resets together, `media` for `media_`
  with what its frame queue was told; `ipv6` and `addressed` are what the stream
  knows of its remote address. `ret` is what the last call returned; `null`
  means that it used a pointer that is not there, and the model stops. `told`
  and `mtu` are history: whether a call that starts the stream has returned an
  error, and the last MTU that was accepted. `Invalid`, `Dereferences`,
  `ConfiguredMedia` and `ConfigurePayload` say of each flag of `configure_ctx`
  what it refuses, which object it needs, and what it sets; of the members only
  frame rate, pace and payload size are kept.
* **ZrtpStart.** `pc[s]` is the place of stream `s` in `start_zrtp`; `stray` is
  history: somebody opened a lock that was another's.
* **Receiver.** One action per stretch between two lock operations. `hook` is
  uvgRTP's reception thread inside `Receiver::hook`, `main` and `saver` the
  other two. A condition variable is a wait state that a notification, the time
  limit or a spurious wake-up leaves. `attempts` holds each frame given to
  `write_job` and whether its image file was stored: when `imwrite` returns false
  or throws, `write_job` carries on and the frame is not on disk
  (`simple_receiver.cpp:391-400`).
* **CaptureFiles.** `rec` is the place in the buffered part of
  `send_rtsp_annexb_sequence` and in `save_capture_to_disk`; `csv` holds the
  rows put into the stream while it is open, and afterwards what is on disk. Any
  prefix of the bytes can be on disk of a stream that was not closed: `Cuts`
  gives the prefixes `load_capture` tells apart (whole rows, a row cut before or
  in its list of names). A packet file is whole, short, empty or missing. `at`
  is the frame and packet of the loops of `save_capture_to_disk` and
  `replay_buffered_packets`, `next` that of `capture_replay`'s; `Advance` is the
  step of both replays' loops. Between loading and sending the player may get no
  session (exit 3) or no stream (exit 4) (`Connect`), and a file that is there
  may fail to be read: of `capture.csv` the loop then sees the rows before
  (`ReadTo`), and a packet file ends the player with 5. `unread` is history:
  a file that is there was not read to its end.
* **Sender.** `pc` is the place in `main`, `Encoder::encode`, `flush` and
  `send_rtsp_annexb_sequence`; `pending` is `pending_` with `has_pending_`,
  `aus` the output vector, `coder` the place of libav's encoder in what it was
  fed. `AppendPayload` is `append_annexb_payload`, which emits the pending unit
  when the timestamp changes; `Timestamp` is `av_rescale_q` with its rounding and
  the cast to 32 bits. `EncoderFails`, `StartFails` and `SendFails` are the exits.
* **PollingReceiver.** `poll` is the place in the loop; `elapsed` is the time
  since the last frame, in polls; `inbox` is the queue behind `pull_frame`.
* **FramePacing.** `pc` is the place in `flush_queue`: reading the clock
  (`Begin`), deciding (`SyncNow`, `SleepForSlot`), the end of the sleep
  (`SlotComes`, `LimitComes`), sending (`SendAll`, `SleepForPacket`,
  `SendPacket`). `sync`, `frames`, `force`, `interval` and `pace` are the members.
  `now` is the time that passes, `now + skew` what the code reads; `lag`, `slot`,
  `starts` and `sets` are history.

## Runs

| run | question | result |
|---|---|---|
| `frame_queue` | Do wire, callback and return code agree over pushes, failures and changes of the callback? | yes; and `FrameDelivery` is implemented |
| `frame_pacing` | Are frames kept apart, waits limited, packets paced within their share, in spite of delays and of a clock that is set? | yes, once the forced synchronisation has ended |
| `frame_rate_forced` | Is the frame rate enforced (`util.hh:264`)? | no: frames pushed back to back stay in the forced synchronisation |
| `reassembly` | What does each kind of network do to a frame? | whole frames unless something overtakes the first fragment or is copied; a hole needs a copy |
| `reassembly_duplicate` | Are frames reconstructed when all fragments arrive (`media_stream.hh:126`)? | no: a copy is counted |
| `packet_capture` | Do frames stay whole while queues are configured between pushes, and during them? | yes; between pushes nothing is dropped and `FrameDelivery` is implemented, during them a frame is still sent whole or not at all and offsets stay consistent |
| `media_stream` | Do keys come before frames, does configuration survive, are errors announced before objects are missing? | yes; over IPv6 packets exceed the MTU that was set by what the header has more |
| `zrtp_start` | Order of keys, release of the lock, end of every start | yes; exclusion until a stray unlock |
| `zrtp_start_exclusive` | One multistream negotiation at a time (`media_stream.cc:421`)? | no |
| `receiver` | What is stored, counted and returned; does everybody stop? | files come in order; missing are the frame in flight at the stop and frames that `imwrite` did not store |
| `capture_files` | What can a replay send after crashes, failed saves, full disks, failed reads? | the beginning of one run's capture, all of it if it was saved and read and the network takes it; what `capture.csv` says is true of the files |
| `send_receive` | Is every image sent once, in one unit, under a timestamp of its own, and does the receiver return? | yes |

### Bounds, and why they are enough

* `frame_queue`: three frames in a sequence space of four, so that numbers wrap
  in a frame and between frames; payloads of two bytes with empty frames, one
  full payload, and three fragments with a short last one; four sets of flags,
  three formats. A third frame is needed to see a callback replaced, then
  cleared.
* `reassembly`: two frames, since the handler keeps frames apart by timestamp
  and its state is otherwise per frame; one to four fragments, so that there are
  a first, a last and two between; a space of six with every start.
* `receiver`: four packets and `max_frames` up to two: a frame before, at and
  after the limit, and one more while main shuts down; any image file may not be
  written.
* `packet_capture`: one run of two scenarios. Two queues with two frames each
  and two registrations, configured between pushes: one is enough to disturb the
  other. One queue with three frames, a clock of two ticks and another thread
  that configures at any time: a registration can be made, replaced and cleared
  during one push, with frames before and after.
* `media_stream`: no bound on the calls (the state is finite); every
  configuration flag and one that is none, with values zero, small and too large,
  and one value for frame rate and pace, whose values nothing compares; seven
  kinds of streams, with and without user-managed keys, ZRTP and authentication,
  over IPv4 and IPv6, with and without a remote address.
* `zrtp_start`: two Diffie-Hellman and three multistream streams.
* `capture_files`: two runs of two frames of up to two packets; the second can
  be shorter or longer than the first, whose files stay; one file cut by a full
  disk per run; the player runs once because it changes nothing in the
  directory, at any time but one: assumed is that nobody replays a directory
  while a recording into it begins, which no line of the programs prevents
  (`OpenCsv`). `Begins`, by which `ReplayIsPrefix` says that packets are the beginning
  of a capture, is compared with a prefix of the concatenated frames for all
  captures of that size (`WalkIsPrefix`).
* `send_receive`: three images of up to two payloads, so that a unit has a
  predecessor, a successor and a split; a clock of three ticks at two frames a
  second in a timestamp space of three, so that timestamps are rounded and wrap;
  a receiver that stops by time and one that stops by count and never times out.
* `frame_pacing`: four frames of up to three packets, intervals of four and two
  units, a delay of one unit per push, 13 units of time: enough to find the
  rhythm, lose it and find it again, to be reconfigured in between, and for one
  setting of the clock by more than an interval back, or forward.
  `frame_rate_forced`: five frames of one packet and no delays, since the claim
  allows two frames to find the rhythm.

### Fairness

* `Reassembly`: the oldest packet in flight arrives (weak fairness of its
  arrival): the reception thread takes what the socket has.
* `Receiver`: weak fairness of each thread, which the operating system gives;
  strong fairness of the time limit, because `wait_for` with a predicate waits
  for one point in time however often main wakes before it.
* `ZrtpStart`: weak fairness of each stream's step: threads run, time passes,
  and `zrtp::init` gives up by itself. No fairness says that it succeeds.

* `SendReceive`: weak fairness of each of the two programs, nothing of the
  network. It is enough for the receiver to return because each poll that finds
  nothing adds to the time since the last frame; the sender must end for that,
  and does, because the images are finite.

Safety properties are checked without any use of fairness. `FrameQueue`,
`FramePacing` and `MediaStream` have no liveness property: nothing in them waits
for another thread, and a sleep ends when its time has come (`WaitIsLimited`
bounds it).

## Proofs

Checked by `tlapm` for every value of the constants that satisfies the named
assumptions of the modules.

**`FrameQueueProofs`.** `TypeCorrect`, `CaptureOnlyIsLocal` and
`CapturesAreWhole`. That a capture is whole is known only when the callback is
called, many steps after the packets were numbered, so the invariant relates,
for every place of a push, the packets enqueued so far to the bytes of the frame
consumed (consecutive slices from 0, consecutive numbers across the wrap, the
header of packet `i` is header `i`), the flattened packets to the first `next - 1`
of them, and the marker to the last one once `flush_queue` has set it. Every
capture and every packet on the wire was then made from such a prefix.
`Inductive` is that strengthening. `NothingLeaks` needs less: between pushes the
heap holds nothing of a transaction but what `DeinitBlocks` leaves out
(`HeapInv`).

`ReturnCodesTell`, `QueueImplementsDelivery` and `GapsAreDrops` are about what
has left and what the caller was told, so a second invariant (`OutcomeInductive`)
follows the wire. `CutInv`: the packets of a frame lie end to end, all but the
last are full, and they are as many as `PacketCount` says, which is what the cut
at `> payload_size` must give for every length. `OrderInv`: the packets of each
frame are an interval of the wire, and those of the last frame its end.
`SentInv`: of a live frame being pushed, that interval is what the place in
`flush_queue` says was sent. With these the refinement needs one lemma per kind
of step: accepting a frame is `Accept`, packets that leave are `Transmit`, the end
of the push is `Succeed` or `Fail`, and every other step is invisible. `NumberInv`
says that the number of each packet, waiting or on the wire, is in step, modulo
the wrap, with how many packets were numbered before it; two such equations,
subtracted, give `GapsAreDrops`.

**`StreamProofs`**, on one stream: `StreamTypeCorrect`, `NoFramesBeforeKeys`,
`NullIsAnnounced`, `ConfigurationIsKept` and `MtuIsKept`, for any settings and
sizes and any sequence of calls and failures. None of them is inductive, since
each depends on what a stream is that has not got so far: a new stream has the
defaults and no media object; a stream that waits for its user's keys is not
initialised, whatever was called in the meantime; one that is initialised and
has its socket has a media object; and one that has lost its socket has told its
user (`StreamInductive`).

**`StreamProofs`**, on the starts of a session: `ZrtpTypeCorrect`,
`KeysComeFirst`, `NoLockLeaks` and `ExclusiveUntilStray` for any sets of streams. Needed in addition to the
properties: a Diffie-Hellman stream never waits; an MSM stream past its first
wait has seen the flag; the flag means that some Diffie-Hellman stream is past
its negotiation for good; a closed lock has an owner; and, until a stray unlock,
an owner finds the lock closed and is alone. `ReturnsPreserve` is the lemma that
all steps that end a start share.

**`ReassemblyProofs`.** `TypeCorrect` over any network. Under the hypothesis
`NoOvertaking` (no network of the model lets a fragment overtake the first of its
frame; with reordering of that kind the claims are false), for every width of the
sequence numbers, every set of frame sizes below it and any losses:
`CompleteFramesHandedOver`, and `FramesIntact`. The handler knows nothing of a
frame but a count, a size, two sequence numbers and a map, and decides by modular
arithmetic on them, so the invariant ties them to history: there is a function
`first` from frames to sequence numbers such that packets in flight are numbered
from it, and a frame under reassembly is exactly `StateOf(first, n, A)` for the
set `A` of its fragments that arrived, the first among them. `Expected` is then
the width of the frame once the last fragment is in `A`, and the count equals it
exactly when `A` is everything; and since `Key` places wrapped numbers behind the
others, the ascending keys give the fragments in order. Copies break this: the
count is then no longer the cardinality of `A`.

`HandedOverIsTail` and `HeldIsIncomplete` are about the networks that keep the
order and may lose or copy anything, and have no hypothesis but the properties'
own. Here the first fragment the handler sees need not be the frame's first, so
their invariant (`RInv`) describes a frame by the first fragment *seen*, `a`
(`SeenFrom`): the handler has the fragments from `a` on that arrived, under
ascending keys, and its count is at least their number. What the count has over
that number is bounded by the copies: the packets counted and those in flight are
together no more than the fragments they bring and the copies made (`Budget`).
When `Expected` equals the count the last fragment is there, so what is handed
over ends where the frame does, and its holes are as many as the count has too
much. After the last fragment only copies of it can come (`Finished`), so a
frame that was handed over is not opened again by another fragment.

**`PacketCaptureProofs`.** `TypeCorrect`, `SentWholeOrNotAtAll`,
`OffsetsFromFirstFrame` and `SentOrCaptured`, for any queues, callbacks and
scenarios. The invariant is a conjunction over the queues of six parts: what is
on the wire of the frame being pushed is what `k` says; how far the push is and
what it knows of the time; a registration's base time is that of its first frame
and not later than any push that may use it; a pending call agrees with its
registration; all calls of a registration lie on one line through its base time;
and, unless others configure, a registration seen by a push is still there.
For `QueuesImplementDelivery` the callback that `emit_frame` copied is, unless
others configure, still that of the registration (`CallbackInv`), so the call that
ends a push is the one promised when the frame was accepted. `OtherQueue` shows
that a step of one queue, or a registration made for it, leaves these parts true
of the others.

**`ReceiverProofs`.** `FilesAreInOrder` (any decoder), `LosesOnlyInFlight`,
`CountsUpToMax`, `FirstOutcomeReturned`, `TypeCorrect`. Everything decoded was
given to `write_job`, is in the saver's hands, queued or in the hook's hands, in
this order (`Chain`), and `Tried` ties what was given to `write_job` to what is on
disk and what was refused; `Phases` says what the places of main and saver tell of `finished`,
`rc` and `save_stop`. The properties that count frames have the hypothesis
`FramesPerPacket \subseteq {0, 1}`: a packet yields one frame at most, as the
H.264 decoder does.

**`SenderProofs`.** `GroupingIsCorrect`, `NothingIsSkipped`, `FramesAreToldApart`,
`TypeCorrect`. What the encoder has handed out of each image so far is in the
pending unit or a finished one (`Coverage`), the pending unit belongs to the
encoder's place, finished ones are whole and older. That timestamps differ is
arithmetic: two rounded multiples of `Clock / Fps >= 1` that follow each other
differ by at least one and by less than the space, which `TsSpaceAssumption`
asks for.

**`FramePacingProofs`.** `RateIsKept`, `WaitLimited`, `PacingStaysInShare`,
`TypeCorrect`, for all rates, paces, delays and settings of the clock. Until the
clock is set, the time lost in a push is exactly the distance between the slot
and what the code read; `Spread` carries it through the packets, and the integer
divisions only shorten the distances.

**`CaptureFilesProofs`.** `TypeCorrect`, `RowsAreTrue`, `ReplaysBegin` and
`SavedIsReplayed`. While a capture is saved, the rows are those of the frames
before the cursor, and their files and those of the cursor's frame before the
cursor hold packets of this run, whole if nothing was cut (`Inductive`);
`OthersStay` is the lemma that writing a packet's file touches no file that a row
names. `ReplayInductive` carries this past the end of the save: whatever prefix of
the rows is on disk is `CutShort`, each row naming the first packets of its frame
and only the last fewer than all, and `Stored`, the files holding the packets of
the capture that the rows belong to (`CutsAreShort`). The player's rows stay so
because the recorder, should it still be saving, is past them (`LoadedInv`), and
the packet it sends next is the one that follows those it sent. After a save in
which no file was cut the rows are all there, so a player that could read them
all (`Trusted`) ends at the end, unless it is stopped with one of its exit codes.

Only model-checked: liveness under fairness (`EventuallyDelivered`,
`FinishedReturns`, `TimeoutReturns`, `StartsReturn`, `ReceiverReturns`), which is
out of this prover's reach. Every invariant that a passing run checks, and both
refinements, are proved as well.

## What was found

Shown by a violation run, with the line it contradicts in `PROJECT.json`:

* a duplicated fragment holds a frame for ever, or stands in for a lost one;
* the unlock at the end of a Diffie-Hellman start, or of a stream that gave up
  waiting, opens the ZRTP lock of another stream;
* an application that pushes frames back to back never leaves the forced
  synchronisation, and its frames are not held to the frame rate.

Seen in the models, and not a run of its own:

* clearing a capture during a push, between `prepare_frame` and `emit_frame`,
  drops a capture-only frame: it is neither sent nor captured, and the push
  succeeds (`packet_capture.cpp:124`). `NothingDropped` and `QueuesDeliver` are
  about scenarios in which nobody configures during a push;
* `set_packet_capture` before the keys of a user-keyed stream is lost, and adding
  keys again removes the callback (`media_stream.cc:664-670`, `:188-291`); on other
  streams there is only one media object, from the time they are handed over;
* `configure_ctx` subtracts the IPv4 header from the MTU whatever the family of
  the stream (`media_stream.cc:880`, while `:534` tells them apart): over IPv6
  packets exceed the MTU that was set, and `util.hh:329` calls a maximum, by
  20 bytes. `PacketsFitMtuUnlessRekeyed` says that it is no more than that;
* `load_capture` does not tell an error while it reads `capture.csv` from the
  end of the file, and plays the rows before it (`capture_replay.cc:105-166`);
* an image that `imwrite` cannot store is missing on disk and the exit code does
  not tell (`simple_receiver.cpp:391-400`);
* a clock set back during a paced frame stalls the frame for as long as the step
  (`frame_queue.cc:377`); only the wait for a slot is limited;
* with `--wait-ms 0` the polling receiver never comes to its total time-out,
  although the help promises an exit (`simple_receiver copy.cpp:29,161`), hence the
  premise of `ReceiverReturns`;
* `set_fps` divides as integers before it converts (`frame_queue.hh:165`), so
  30000/1001 becomes 29 and a rate below one converts infinity to an integer,
  which is undefined: `RatesAssumption` excludes it;
* a fragment that overtakes the first of its frame spoils the frame
  (`media.cc:131,181`), which is why the `reassembly` networks exclude it;
* when `sendto` fails in a paced frame, packets that left are in no capture
  (`frame_queue.cc:388`);
* the media headers of an ATLAS transaction are never freed
  (`frame_queue.cc:190`): `TransactionReleased` says exactly that;
* `enqueue_message` never compares with the room for headers
  (`frame_queue.cc:222`);
* main can stop the saver between the count of the last frame and its queueing,
  and the frame is not stored (`simple_receiver.cpp:272-276`):
  `LostOnlyInFlight` allows that one frame and no other;
* keys added again reset the payload size of an authenticated stream above the
  MTU that was set (`media_stream.cc:535`): `PacketsFitMtuUnlessRekeyed` excepts
  the user-keyed authenticated streams; the MTU reads back without its headers (`:1016`);
* after a refused `start_zrtp` or `add_srtp_ctx`, `send_raw_rtp_packet` passes
  its guard and uses a null socket (`media_stream.cc:300,683`):
  `NullOnlyAfterError` says that nothing of the kind happens to a stream whose
  user was told of no error;
* `save_capture_to_disk` never looks at what happens when its streams are
  closed, so on a full disk it returns true for a capture that is cut
  (`opencv_send_logger.cc:338`): `SavedReplaysWhole` excludes that case.

## Not modelled, and assumptions

* `RTP_COPY` and `install_dealloc_hook` (the hook is stored and never called in
  the code here): who frees a caller's memory is decided by the caller.
* The room for headers, `max_mcount_` (`frame_queue.cc:222`), which no code
  compares with: the number of packets of a frame is a bound of the model.
* Sockets of a stream, hole punching, RTCP, `pull_frame`, user packets: they
  configure or call uvgRTP code that is not here. Of the addresses, the family and
  whether there is one are modelled. The payload size a stream begins with is set
  by the RTP context, which is not here either: assumed is that it is the default
  MTU without the header of the stream's family.
* `FrameQueue` takes each branch of the synchronisation freely; `FramePacing`
  has the clock and takes the frame's packets as a number. The two modules share
  `flush_queue` and differ in what they say of it.
* The H.264 decoder is assumed to yield at most one frame for a packet.
* `Receiver` ends where main returns: the objects are then destroyed in the
  reverse order of their creation, the receiver before the stream whose thread
  calls it.
* The patched `flush_queue` of the customised library is known only from
  `README_DIFF.md`; it is external in `PacketCapture`. A registry entry that
  outlives its queue is not modelled: nothing here says when queues are destroyed.
* libav's encoder and bit-stream filter are external; the conversions of AVCC
  data, start codes and parameter sets are bytes no property is about. The times
  at which the sender and the replays send (`sleep_until`) are left out.
* `opencv_sender.cc.bak` is an earlier sender that is not built; the scripts and
  the build files start programs and keep no state.
