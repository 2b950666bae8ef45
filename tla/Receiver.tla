------------------------------ MODULE Receiver ------------------------------
(***************************************************************************)
(* examples/simple_receiver.cpp after the receive hook is installed: three *)
(* threads share a Receiver.  uvgRTP's reception thread runs the hook,     *)
(* which decodes and counts frames and queues them for saving; the saver   *)
(* thread writes them; main waits until the receiver is finished or the    *)
(* time is up, then stops the saver.                                       *)
(*                                                                         *)
(* A critical section is one step, and so is the code between two of them. *)
(* A thread asleep in a condition variable wakes by a notification or      *)
(* spuriously and then tests its predicate again.  The model ends where    *)
(* main returns, before the Receiver is destroyed.                         *)
(***************************************************************************)
EXTENDS Integers, Sequences

CONSTANTS
  Options,          \* the command lines: [max_frames, timeout, saving]
  FramesPerPacket,  \* how many frames the decoder may yield for one packet
  MaxPackets        \* bound on the packets received

ASSUME OptionsAssumption ==
  Options \subseteq [max_frames : Nat, timeout : BOOLEAN, saving : BOOLEAN]
ASSUME DecoderAssumption == FramesPerPacket \subseteq Nat /\ MaxPackets \in Nat

DecodeError == -5   \* what avcodec_receive_frame returned (r < 0)
ScaleError == -3    \* sws_getContext or sws_scale failed (-2 or -3)
NoOutcome == -1

VARIABLES
  opt,
  hook,       \* reception thread: idle, receive, handle, enqueue, signal,
              \* notify, decoder_failed, conversion_failed
  left,       \* frames the decoder still yields for the packet at hand
  packets,    \* packets received
  frame_index,
  decoded, finished, exit_code,   \* shared, under mutex_
  main,       \* start, waiting, woken, timed_out, stop, notify, join, clear, returned
  rc,         \* what main returns
  saver,      \* check, waiting, write, exited, or none without saving
  job,        \* the saver's job at hand
  save_queue, save_stop, saver_started,   \* shared, under save_mutex_
  attempts,   \* history: the frames given to write_job, in order, and
              \* whether imwrite has stored them
  outcome     \* history: the exit code of the first outcome

shared == <<decoded, finished, exit_code>>
hookVars == <<hook, left, packets, frame_index>>
saverVars == <<saver, job, attempts>>
saveShared == <<save_queue, save_stop, saver_started>>
mainVars == <<main, rc>>
vars == <<opt, hookVars, shared, mainVars, saverVars, saveShared, outcome>>

-----------------------------------------------------------------------------
(* Condition variables *)

NotifyMain == main' = IF main = "waiting" THEN "woken" ELSE main
NotifySaver == saver' = IF saver = "waiting" THEN "check" ELSE saver

\* The receiver is finished with this exit code.
SetFinished(code) ==
  /\ finished' = TRUE
  /\ exit_code' = code
  /\ outcome' = IF finished THEN outcome ELSE code

-----------------------------------------------------------------------------
(* The reception thread: hook, on_packet, handle_frame, enqueue_save_job *)

\* Mutant: is_finished is not asked.
Packet_NoCheck(n) ==
  /\ hook = "idle"
  /\ packets < MaxPackets
  /\ packets' = packets + 1
  /\ left' = n
  /\ hook' = "receive"
  /\ UNCHANGED <<opt, frame_index, shared, mainVars, saverVars, saveShared, outcome>>

\* A packet arrives and the receiver is not finished; the decoder takes it.
Packet(n) ==
  /\ hook = "idle"
  /\ packets < MaxPackets
  /\ ~finished
  /\ packets' = packets + 1
  /\ left' = n
  /\ hook' = "receive"
  /\ UNCHANGED <<opt, frame_index, shared, mainVars, saverVars, saveShared, outcome>>

\* A packet that the decoder refuses, or one after the end, is dropped.
DropPacket ==
  /\ hook = "idle"
  /\ packets < MaxPackets
  /\ packets' = packets + 1
  /\ UNCHANGED <<opt, hook, left, frame_index, shared, mainVars, saverVars, saveShared, outcome>>

\* The decoder has another frame, or is done with the packet.
ReceiveFrame ==
  /\ hook = "receive"
  /\ \/ left > 0 /\ hook' = "handle" /\ left' = left - 1
     \/ left = 0 /\ hook' = "idle" /\ left' = left
  /\ UNCHANGED <<opt, packets, frame_index, shared, mainVars, saverVars, saveShared, outcome>>

\* Mutant: the last outcome wins.
Finish_Overwrites(code) == SetFinished(code)

\* finish(code), its notification apart: the first outcome stays.
Finish(code) ==
  IF finished THEN UNCHANGED <<finished, exit_code, outcome>> ELSE SetFinished(code)

\* The decoder fails: on_packet returns.
DecoderFails ==
  /\ hook = "receive"
  /\ Finish(DecodeError)
  /\ left' = 0
  /\ hook' = IF finished THEN "idle" ELSE "decoder_failed"
  /\ UNCHANGED <<opt, packets, frame_index, decoded, mainVars, saverVars, saveShared>>

\* The frame cannot be converted: handle_frame returns, on_packet goes on.
ConversionFails ==
  /\ hook = "handle"
  /\ Finish(ScaleError)
  /\ hook' = IF finished THEN "receive" ELSE "conversion_failed"
  /\ UNCHANGED <<opt, left, packets, frame_index, decoded, mainVars, saverVars, saveShared>>

\* The notification of finish.
FinishNotify ==
  /\ hook \in {"decoder_failed", "conversion_failed"}
  /\ NotifyMain
  /\ hook' = IF hook = "decoder_failed" THEN "idle" ELSE "receive"
  /\ UNCHANGED <<opt, left, packets, frame_index, shared, rc, saverVars, saveShared, outcome>>

Enough(n) == opt.max_frames > 0 /\ n >= opt.max_frames

\* The frame is counted, and the receiver is finished when it was the last.
CountFrame ==
  /\ hook = "handle"
  /\ frame_index' = decoded
  /\ decoded' = decoded + 1
  /\ IF Enough(decoded + 1)
     THEN SetFinished(0)
     ELSE UNCHANGED <<finished, exit_code, outcome>>
  /\ hook' = IF opt.saving THEN "enqueue" ELSE "notify"
  /\ UNCHANGED <<opt, left, packets, mainVars, saverVars, saveShared>>

EnqueueSaveJob ==
  /\ hook = "enqueue"
  /\ save_queue' = Append(save_queue, frame_index)
  /\ hook' = "signal"
  /\ UNCHANGED <<opt, left, packets, frame_index, shared, mainVars, saverVars,
                 save_stop, saver_started, outcome>>

SignalSaver ==
  /\ hook = "signal"
  /\ NotifySaver
  /\ hook' = "notify"
  /\ UNCHANGED <<opt, left, packets, frame_index, shared, mainVars, job, attempts,
                 saveShared, outcome>>

\* Mutant: no notification.
HandleNotify_Silent ==
  /\ hook = "notify"
  /\ hook' = "receive"
  /\ UNCHANGED <<opt, left, packets, frame_index, shared, mainVars, saverVars, saveShared, outcome>>

HandleNotify ==
  /\ hook = "notify"
  /\ NotifyMain
  /\ hook' = "receive"
  /\ UNCHANGED <<opt, left, packets, frame_index, shared, rc, saverVars, saveShared, outcome>>

HookStep ==
  \/ ReceiveFrame \/ DecoderFails \/ ConversionFails \/ FinishNotify
  \/ CountFrame \/ EnqueueSaveJob \/ SignalSaver \/ HandleNotify

-----------------------------------------------------------------------------
(* main: wait_until_done, then shutdown_saver_internal *)

\* Both tests of finished_: at the start and after each wake-up.
TestFinished ==
  /\ main \in {"start", "woken"}
  /\ IF finished
     THEN rc' = exit_code /\ main' = "stop"
     ELSE main' = "waiting" /\ UNCHANGED rc
  /\ UNCHANGED <<opt, hookVars, shared, saverVars, saveShared, outcome>>

SpuriousWake ==
  /\ main = "waiting"
  /\ main' = "woken"
  /\ UNCHANGED <<opt, hookVars, shared, rc, saverVars, saveShared, outcome>>

\* The time is up; wait_for returns what the predicate says then.
TimedOut ==
  /\ opt.timeout
  /\ main = "waiting"
  /\ main' = "timed_out"
  /\ UNCHANGED <<opt, hookVars, shared, rc, saverVars, saveShared, outcome>>

AfterTimeout ==
  /\ main = "timed_out"
  /\ IF finished
     THEN rc' = exit_code /\ UNCHANGED <<finished, exit_code, outcome>>
     ELSE LET code == IF decoded > 0 THEN 0 ELSE 1
          IN  SetFinished(code) /\ rc' = code
  /\ main' = "stop"
  /\ UNCHANGED <<opt, hookVars, decoded, saverVars, saveShared>>

StopSaver ==
  /\ main = "stop"
  /\ IF saver_started
     THEN save_stop' = TRUE /\ main' = "notify"
     ELSE main' = "returned" /\ UNCHANGED save_stop
  /\ UNCHANGED <<opt, hookVars, shared, rc, saverVars, save_queue, saver_started, outcome>>

\* Mutant: no notification.
NotifyStop_Silent ==
  /\ main = "notify"
  /\ main' = "join"
  /\ UNCHANGED <<opt, hookVars, shared, rc, saverVars, saveShared, outcome>>

NotifyStop ==
  /\ main = "notify"
  /\ NotifySaver
  /\ main' = "join"
  /\ UNCHANGED <<opt, hookVars, shared, rc, job, attempts, saveShared, outcome>>

Join ==
  /\ main = "join"
  /\ saver = "exited"
  /\ main' = "clear"
  /\ UNCHANGED <<opt, hookVars, shared, rc, saverVars, saveShared, outcome>>

ClearSaver ==
  /\ main = "clear"
  /\ save_queue' = <<>>
  /\ saver_started' = FALSE
  /\ save_stop' = FALSE
  /\ main' = "returned"
  /\ UNCHANGED <<opt, hookVars, shared, rc, saverVars, outcome>>

MainStep ==
  \/ TestFinished \/ AfterTimeout \/ StopSaver \/ NotifyStop \/ Join \/ ClearSaver

-----------------------------------------------------------------------------
(* The saver thread: save_worker, write_job *)

SaverSleeps ==
  /\ saver = "check"
  /\ save_queue = <<>> /\ ~save_stop
  /\ saver' = "waiting"
  /\ UNCHANGED <<opt, hookVars, shared, mainVars, job, attempts, saveShared, outcome>>

\* Mutant: the saver leaves the queue behind when it is told to stop.
SaverExits_AtOnce ==
  /\ saver = "check"
  /\ save_stop
  /\ saver' = "exited"
  /\ UNCHANGED <<opt, hookVars, shared, mainVars, job, attempts, saveShared, outcome>>

SaverExits ==
  /\ saver = "check"
  /\ save_queue = <<>> /\ save_stop
  /\ saver' = "exited"
  /\ UNCHANGED <<opt, hookVars, shared, mainVars, job, attempts, saveShared, outcome>>

\* Mutant: the newest job first.
TakeJob_Newest ==
  /\ saver = "check"
  /\ save_queue # <<>>
  /\ job' = save_queue[Len(save_queue)]
  /\ save_queue' = SubSeq(save_queue, 1, Len(save_queue) - 1)
  /\ saver' = "write"
  /\ UNCHANGED <<opt, hookVars, shared, mainVars, attempts, save_stop, saver_started, outcome>>

TakeJob ==
  /\ saver = "check"
  /\ save_queue # <<>>
  /\ job' = Head(save_queue)
  /\ save_queue' = Tail(save_queue)
  /\ saver' = "write"
  /\ UNCHANGED <<opt, hookVars, shared, mainVars, attempts, save_stop, saver_started, outcome>>

\* imwrite stores the frame, or fails or throws: either way the saver goes on.
WriteJob ==
  /\ saver = "write"
  /\ \E stored \in BOOLEAN :
       attempts' = Append(attempts, [frame |-> job, stored |-> stored])
  /\ saver' = "check"
  /\ UNCHANGED <<opt, hookVars, shared, mainVars, job, saveShared, outcome>>

SaverSpuriousWake ==
  /\ saver = "waiting"
  /\ saver' = "check"
  /\ UNCHANGED <<opt, hookVars, shared, mainVars, job, attempts, saveShared, outcome>>

SaverStep == SaverSleeps \/ SaverExits \/ TakeJob \/ WriteJob

-----------------------------------------------------------------------------
\* The state main is in when it calls wait_until_done: init has started the
\* saver, and the hook has been installed.
Init ==
  /\ opt \in Options
  /\ hook = "idle" /\ left = 0 /\ packets = 0 /\ frame_index = 0
  /\ decoded = 0 /\ finished = FALSE /\ exit_code = 0
  /\ main = "start" /\ rc = NoOutcome
  /\ saver = (IF opt.saving THEN "check" ELSE "none")
  /\ job = 0
  /\ save_queue = <<>> /\ save_stop = FALSE /\ saver_started = opt.saving
  /\ attempts = <<>> /\ outcome = NoOutcome

Next ==
  \/ \E n \in FramesPerPacket : Packet(n)
  \/ DropPacket
  \/ HookStep
  \/ MainStep \/ SpuriousWake \/ TimedOut
  \/ SaverStep \/ SaverSpuriousWake

Spec == Init /\ [][Next]_vars

\* Every thread that can run is scheduled.  wait_for waits for a fixed point in
\* time, which comes however often main wakes before it.
FairSpec ==
  /\ Spec
  /\ WF_vars(HookStep) /\ WF_vars(MainStep) /\ WF_vars(SaverStep) /\ SF_vars(TimedOut)
-----------------------------------------------------------------------------
(* Properties *)

Outcomes == {DecodeError, ScaleError, 0, 1}

\* The variables stay in their types; the saver runs only when there is an
\* output directory, and it is told to stop only while it is started.
TypeOK ==
  /\ opt \in Options
  /\ hook \in {"idle", "receive", "handle", "enqueue", "signal", "notify",
               "decoder_failed", "conversion_failed"}
  /\ left \in Nat /\ packets \in 0..MaxPackets
  /\ frame_index \in Nat /\ decoded \in Nat
  /\ finished \in BOOLEAN /\ exit_code \in Outcomes
  /\ main \in {"start", "waiting", "woken", "timed_out", "stop", "notify",
               "join", "clear", "returned"}
  /\ rc \in Outcomes \cup {NoOutcome} /\ outcome \in Outcomes \cup {NoOutcome}
  /\ saver \in {"none", "check", "waiting", "write", "exited"}
  /\ saver = "none" <=> ~opt.saving
  /\ job \in Nat
  /\ save_queue \in Seq(Nat) /\ attempts \in Seq([frame : Nat, stored : BOOLEAN])
  /\ saver_started \in BOOLEAN /\ save_stop \in BOOLEAN
  /\ save_stop => saver_started

Frames(stored) ==
  {attempts[i].frame : i \in {n \in 1..Len(attempts) : attempts[n].stored = stored}}

OnDisk == Frames(TRUE)     \* the frames that have a file
Refused == Frames(FALSE)   \* the frames that imwrite did not store

\* The files appear in the order in which the frames were decoded, one for a
\* frame, and no frame before the newest file is missing but those that
\* imwrite did not store.
SavedInOrder ==
  /\ \A i, k \in 1..Len(attempts) :
       i < k => attempts[i].frame < attempts[k].frame
  /\ \A n \in OnDisk : 0..n \subseteq OnDisk \cup Refused

\* Once the saver has been joined, every frame counted is on disk or was
\* refused by imwrite, but for one: the last, which the hook was at when main
\* stopped the saver.
LostOnlyInFlight ==
  opt.saving /\ main \in {"clear", "returned"} =>
    0..decoded - 2 \subseteq OnDisk \cup Refused

\* No frame is decoded and counted beyond max_frames.
StopsAfterMax == opt.max_frames > 0 => decoded <= opt.max_frames

\* main returns the first outcome, whatever the hook meets afterwards, and 0
\* only if frames were decoded: all it was asked for, unless time was up.
ReturnsFirstOutcome ==
  rc # NoOutcome =>
    /\ rc = outcome
    /\ rc = 0 => decoded > 0 /\ (~opt.timeout => decoded >= opt.max_frames)

\* No wake-up is lost: when the receiver is finished, main returns.
FinishedReturns == finished ~> main = "returned"

\* With a time limit main returns, however the threads are interleaved.
TimeoutReturns == opt.timeout ~> main = "returned"
=============================================================================
