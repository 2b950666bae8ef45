----------------------------- MODULE FramePacing -----------------------------
(***************************************************************************)
(* When frame_queue::flush_queue sends: the frame-rate synchronisation     *)
(* (RCE_FRAME_RATE) and the pacing of a frame's packets                    *)
(* (RCE_PACE_FRAGMENT_SENDING).  What it sends is FrameQueue's subject.    *)
(*                                                                         *)
(* The code reads high_resolution_clock, which is the clock of the system  *)
(* (now + skew) and may be set while the program runs; it sleeps by the    *)
(* time that really passes (now).  The application pushes when it likes;   *)
(* a sleep may be overslept and any step may take time (lag).              *)
(***************************************************************************)
EXTENDS Integers, Sequences

CONSTANTS
  Flags,      \* RCE_ flags of the stream: "frame_rate", "pace"
  Rates,      \* numerators and denominators given to set_fps
  Paces,      \* numerators and denominators given to set_pace
  Second,     \* units of time in a second
  MaxPackets, \* bound on the packets of a frame
  MaxFrames,  \* bound on the frames pushed
  MaxTime,    \* bound on the time
  MaxLag,     \* bound on the time lost in a push
  Steps       \* by how much the clock is set, once

ASSUME PacingBounds ==
  /\ {MaxPackets, MaxFrames, MaxTime, MaxLag} \subseteq Nat
  /\ Flags \subseteq {"frame_rate", "pace"} /\ Steps \subseteq Int
\* A quotient of 0 makes set_fps convert infinity to an integer, which is
\* undefined; a pace above 1 does not fit an interval.
ASSUME RatesAssumption == \A r \in Rates : r \in Nat \X Nat /\ r[1] >= r[2] /\ r[2] > 0
ASSUME PacesAssumption == \A p \in Paces : p \in Nat \X Nat /\ p[1] <= p[2] /\ p[2] > 0
ASSUME SecondAssumption == Second \in Nat

VARIABLES
  now, skew,     \* the time, and how far the system's clock is ahead of it
  interval,      \* frame_interval_
  pace,          \* pace_numerator_, pace_denominator_
  sync,          \* fps_sync_point_
  frames,        \* frames_since_sync_
  force,         \* force_sync_
  pc,            \* idle, sync, wait, limit, send, pace
  base,          \* the local variable now
  n, k,          \* packets of the frame, and how many of them are sent
  wake,          \* when the sleep ends
  lag,           \* history: time lost in this push
  slot,          \* history: when the frame of this push was due
  starts,        \* history: when the frames since set_fps were begun
  sets           \* history: how often the clock was set

timeVars == <<now, skew, lag, sets>>
configVars == <<interval, pace>>
syncVars == <<sync, frames, force>>
pushVars == <<pc, base, n, k, wake, slot, starts>>
vars == <<timeVars, configVars, syncVars, pushVars>>

Clock == now + skew

-----------------------------------------------------------------------------
(* Configuration, between two frames *)

\* The quotient is taken in integers: 30000 / 1001 is 29.
IntervalOf(rate) == Second \div (rate[1] \div rate[2])

set_fps(rate) ==
  /\ pc = "idle"
  /\ interval' = IntervalOf(rate)
  /\ frames' = 0
  /\ force' = ("frame_rate" \in Flags)
  /\ starts' = <<>>
  /\ UNCHANGED <<timeVars, pace, sync, pc, base, n, k, wake, slot>>

set_pace(p) ==
  /\ pc = "idle"
  /\ pace' = p
  /\ UNCHANGED <<timeVars, interval, syncVars, pushVars>>

-----------------------------------------------------------------------------
(* Frame-rate synchronisation *)

\* this_frame_time() - now
WaitTime == sync + frames * interval - base

\* flush_queue reads the clock.
Begin(packets) ==
  /\ pc = "idle" /\ Len(starts) < MaxFrames
  /\ n' = packets /\ k' = 0 /\ lag' = 0
  /\ base' = Clock
  /\ slot' = IF "frame_rate" \in Flags THEN slot ELSE now
  /\ pc' = IF "frame_rate" \in Flags THEN "sync" ELSE "send"
  /\ UNCHANGED <<now, skew, sets, configVars, syncVars, wake, starts>>

\* Mutant: a late frame keeps the old synchronisation point.
SyncNow_KeepsPoint ==
  /\ pc = "sync" /\ (WaitTime < 0 \/ force)
  /\ force' = (force /\ ~(WaitTime >= 0 /\ 2 * WaitTime < interval))
  /\ IF force THEN sync' = Clock /\ frames' = 1
     ELSE frames' = frames + 1 /\ UNCHANGED sync
  /\ slot' = now
  /\ pc' = "send"
  /\ UNCHANGED <<timeVars, configVars, base, n, k, wake, starts>>

\* A late frame, and every frame of a forced synchronisation, is sent at once,
\* and the slots are counted from it.  A frame that is at most half an
\* interval early ends the forced synchronisation.
SyncNow ==
  /\ pc = "sync" /\ (WaitTime < 0 \/ force)
  /\ force' = (force /\ ~(WaitTime >= 0 /\ 2 * WaitTime < interval))
  /\ sync' = Clock /\ frames' = 1
  /\ slot' = now
  /\ pc' = "send"
  /\ UNCHANGED <<timeVars, configVars, base, n, k, wake, starts>>

\* Mutant: the wait is not limited.
SleepForSlot_Unlimited ==
  /\ pc = "sync" /\ WaitTime >= 0 /\ ~force
  /\ wake' = now + WaitTime
  /\ pc' = "wait"
  /\ UNCHANGED <<timeVars, configVars, syncVars, base, n, k, slot, starts>>

\* An early frame waits for its slot, or for one interval.
SleepForSlot ==
  /\ pc = "sync" /\ WaitTime >= 0 /\ ~force
  /\ IF WaitTime > interval
     THEN wake' = now + interval /\ pc' = "limit"
     ELSE wake' = now + WaitTime /\ pc' = "wait"
  /\ UNCHANGED <<timeVars, configVars, syncVars, base, n, k, slot, starts>>

Awake == now >= wake

SlotComes ==
  /\ pc = "wait" /\ Awake
  /\ frames' = frames + 1
  /\ base' = Clock
  /\ slot' = sync + frames * interval - skew
  /\ pc' = "send"
  /\ UNCHANGED <<timeVars, configVars, sync, force, n, k, wake, starts>>

LimitComes ==
  /\ pc = "limit" /\ Awake
  /\ sync' = Clock /\ frames' = 1
  /\ base' = Clock
  /\ slot' = now
  /\ pc' = "send"
  /\ UNCHANGED <<timeVars, configVars, force, n, k, wake, starts>>

-----------------------------------------------------------------------------
(* Sending *)

Paced == "pace" \in Flags /\ ~force

\* Mutant: the packets are spread over the interval and the pace is forgotten.
PacketInterval_Whole == interval

PacketInterval == (pace[1] * interval) \div (pace[2] * n)

\* Due time of the next packet, by the clock of the system.
PacketDue == base + k * PacketInterval

Begun == IF k = 0 THEN Append(starts, now) ELSE starts

Return == pc' = "idle" /\ base' = 0 /\ n' = 0 /\ k' = 0 /\ wake' = 0

\* All packets at once; whether they leave makes no difference to the time.
SendAll ==
  /\ pc = "send" /\ ~Paced
  /\ starts' = Begun
  /\ Return
  /\ UNCHANGED <<timeVars, configVars, syncVars, slot>>

\* The next packet of a paced frame; a time that has passed is not waited for.
SleepForPacket ==
  /\ pc = "send" /\ Paced
  /\ wake' = now + (IF PacketDue > Clock THEN PacketDue - Clock ELSE 0)
  /\ pc' = "pace"
  /\ UNCHANGED <<timeVars, configVars, syncVars, base, n, k, slot, starts>>

SendPacket(ok) ==
  /\ pc = "pace" /\ Awake
  /\ starts' = Begun
  /\ IF ok /\ k + 1 < n
     THEN k' = k + 1 /\ pc' = "send" /\ UNCHANGED <<base, n, wake>>
     ELSE Return
  /\ UNCHANGED <<timeVars, configVars, syncVars, slot>>

-----------------------------------------------------------------------------
(* Time *)

Asleep == pc \in {"wait", "limit", "pace"} /\ ~Awake
Busy == pc # "idle" /\ ~Asleep

Tick ==
  /\ now < MaxTime
  /\ Busy => lag < MaxLag
  /\ now' = now + 1
  /\ lag' = IF Busy THEN lag + 1 ELSE lag
  /\ UNCHANGED <<skew, sets, configVars, syncVars, pushVars>>

\* The clock is set, but not to a time before the epoch.
SetClock(step) ==
  /\ sets = 0 /\ Clock + step > 0
  /\ skew' = skew + step
  /\ sets' = 1
  /\ UNCHANGED <<now, lag, configVars, syncVars, pushVars>>

-----------------------------------------------------------------------------
\* fps_sync_point_ begins at the epoch.
Init ==
  /\ now = 1 /\ skew = 0 /\ sets = 0
  /\ interval \in {IntervalOf(r) : r \in Rates} /\ pace \in Paces
  /\ sync = 0 /\ frames = 0 /\ force = ("frame_rate" \in Flags)
  /\ pc = "idle" /\ base = 0 /\ n = 0 /\ k = 0 /\ wake = 0
  /\ lag = 0 /\ slot = 0 /\ starts = <<>>

Next ==
  \/ \E r \in Rates : set_fps(r)
  \/ \E p \in Paces : set_pace(p)
  \/ \E packets \in 1..MaxPackets : Begin(packets)
  \/ SyncNow \/ SleepForSlot \/ SlotComes \/ LimitComes
  \/ SendAll \/ SleepForPacket \/ \E ok \in BOOLEAN : SendPacket(ok)
  \/ Tick \/ \E step \in Steps : SetClock(step)

Spec == Init /\ [][Next]_vars

-----------------------------------------------------------------------------
(* Properties *)

\* The variables stay in their types.
TypeOK ==
  /\ now \in Nat /\ wake \in Nat /\ lag \in Nat /\ sets \in Nat
  /\ interval \in Nat /\ frames \in Nat /\ n \in Nat /\ k \in Nat
  /\ skew \in Int /\ sync \in Int /\ base \in Int /\ slot \in Int
  /\ pace \in Paces
  /\ force \in BOOLEAN
  /\ pc \in {"idle", "sync", "wait", "limit", "send", "pace"}
  /\ starts \in Seq(Nat)

\* Once the forced synchronisation has ended, frames are sent at the rate set
\* or below it: each is due an interval after the one before and is not sent
\* before it is due, and the time that late frames lost is not made up for by
\* a burst.
RateKept ==
  [][(pc \in {"sync", "wait", "limit"} /\ pc' = "send" /\ ~force /\ sets = 0)
       => (slot' >= slot + interval /\ now' >= slot')]_vars

\* The synchronisation delays a frame by one interval at most, also when the
\* clock was set back.
WaitIsLimited == pc \in {"wait", "limit"} => wake <= now + interval

\* The packets of a paced frame are sent within the share of the interval that
\* set_pace allows, counted from when the frame was due, so that pacing alone
\* makes no frame late.
PacedWithinShare ==
  pc = "pace" /\ sets = 0 =>
    pace[2] * (wake - slot - lag) <= pace[1] * interval

\* "Force uvgRTP to send packets at certain framerate" (util.hh:264), with two
\* frames allowed for finding the rhythm.
RateForced ==
  \A j \in 1..Len(starts) : starts[j] - starts[1] >= (j - 3) * interval
=============================================================================
