---------------------------- MODULE PacketCapture ----------------------------
(***************************************************************************)
(* The registry of capture callbacks that the customised library keeps     *)
(* outside the frame queue (customizations/packet_capture.cpp), used by    *)
(* flush_queue around its sends: prepare_frame before, emit_frame after.   *)
(* Each queue has one pushing thread; set_capture and clear_capture are    *)
(* called by that thread between frames or, in a concurrent scenario, by   *)
(* any thread at any time.  Every critical section of g_mutex is one step. *)
(***************************************************************************)
EXTENDS Integers, Sequences

CONSTANTS
  Queues,       \* the frame queues
  Callbacks, Nobody,
  MaxPackets,   \* bound on the packets of a frame
  MaxSets,      \* bound on the calls of set_capture
  Scenarios     \* [queues, frames, time, concurrent]: the queues in use, the
                \* bounds on the frames of each and on the clock, and whether
                \* configuration may happen during a push

ASSUME NobodyAssumption == Nobody \notin Callbacks
ASSUME CaptureBounds ==
  /\ {MaxPackets, MaxSets} \subseteq Nat
  /\ Scenarios \subseteq [queues : SUBSET Queues, frames : Nat, time : Nat,
                           concurrent : BOOLEAN]

NoTime == -1

VARIABLES
  scenario,   \* which of them this is
  g_configs,  \* queue -> its capture configuration
  sets,       \* number of set_capture calls so far; names a registration
  now,        \* steady_clock
  push,       \* the pushing thread of each queue
  wire,       \* packets sent: <<frame, number in the frame>>
  calls,      \* history: calls of callbacks
  done        \* history: what the pushes returned

vars == <<scenario, g_configs, sets, now, push, wire, calls, done>>

Idle == [pc |-> "idle", n |-> 0, k |-> 0, paced |-> FALSE, active |-> FALSE,
         capture_only |-> FALSE, at |-> NoTime,
         callback |-> Nobody, reg |-> 0, base |-> NoTime]

Frame(q) == Len(done[q]) + 1
Registered(q) == q \in DOMAIN g_configs

-----------------------------------------------------------------------------
(* set_capture, clear_capture *)

MayConfigure(q) == scenario.concurrent \/ push[q].pc = "idle"

\* Mutant: the whole registry is cleared.
Without_All(q) == [r \in {} |-> g_configs[r]]

Without(q) == [r \in DOMAIN g_configs \ {q} |-> g_configs[r]]
With(q, config) ==
  [r \in DOMAIN g_configs \cup {q} |-> IF r = q THEN config ELSE g_configs[r]]

\* An empty callback removes the configuration.
SetCapture(q, cb, only) ==
  /\ MayConfigure(q)
  /\ sets < MaxSets
  /\ sets' = sets + 1
  /\ g_configs' = IF cb = Nobody THEN Without(q)
                  ELSE With(q, [callback |-> cb, capture_only |-> only,
                                base |-> NoTime, reg |-> sets + 1])
  /\ UNCHANGED <<now, push, wire, calls, done>>

ClearCapture(q) ==
  /\ MayConfigure(q)
  /\ g_configs' = Without(q)
  /\ UNCHANGED <<sets, now, push, wire, calls, done>>

-----------------------------------------------------------------------------
(* flush_queue *)

\* prepare_frame: whether the frame is captured, and whether it is sent, is
\* decided here once.
PrepareFrame(q, n, paced) ==
  /\ push[q].pc = "idle"
  /\ Len(done[q]) < scenario.frames
  /\ push' = [push EXCEPT ![q] =
       [Idle EXCEPT !.pc = "send", !.n = n, !.paced = paced,
                    !.active = Registered(q),
                    !.capture_only = Registered(q) /\ g_configs[q].capture_only]]
  /\ UNCHANGED <<g_configs, sets, now, wire, calls, done>>

Numbers(q, m) == [j \in 1..m |-> <<Frame(q), push[q].k + j>>]

\* Mutant: capture_only is looked up again for every packet.
SendPaced_LooksAgain(q) ==
  /\ push[q].pc = "send" /\ push[q].paced
  /\ wire' = IF Registered(q) /\ g_configs[q].capture_only THEN wire
             ELSE [wire EXCEPT ![q] = @ \o Numbers(q, 1)]
  /\ push' = [push EXCEPT ![q].k = @ + 1,
                          ![q].at = IF push[q].active /\ @ = NoTime THEN now ELSE @,
                          ![q].pc = IF push[q].k + 1 = push[q].n THEN "emit" ELSE "send"]
  /\ UNCHANGED <<g_configs, sets, now, calls, done>>

\* One packet of a paced frame; the first one sets the time of the capture.
SendPaced(q) ==
  /\ push[q].pc = "send" /\ push[q].paced
  /\ wire' = IF push[q].capture_only THEN wire
             ELSE [wire EXCEPT ![q] = @ \o Numbers(q, 1)]
  /\ push' = [push EXCEPT ![q].k = @ + 1,
                          ![q].at = IF push[q].active /\ @ = NoTime THEN now ELSE @,
                          ![q].pc = IF push[q].k + 1 = push[q].n THEN "emit" ELSE "send"]
  /\ UNCHANGED <<g_configs, sets, now, calls, done>>

\* Mutant: the packets leave in capture-only mode, too.
SendAll_Always(q) ==
  /\ push[q].pc = "send" /\ ~push[q].paced
  /\ wire' = [wire EXCEPT ![q] = @ \o Numbers(q, push[q].n)]
  /\ push' = [push EXCEPT ![q].k = push[q].n,
                          ![q].at = IF push[q].active THEN now ELSE @,
                          ![q].pc = "emit"]
  /\ UNCHANGED <<g_configs, sets, now, calls, done>>

\* All packets at once; the time of the capture is taken afterwards.
SendAll(q) ==
  /\ push[q].pc = "send" /\ ~push[q].paced
  /\ wire' = IF push[q].capture_only THEN wire
             ELSE [wire EXCEPT ![q] = @ \o Numbers(q, push[q].n)]
  /\ push' = [push EXCEPT ![q].k = push[q].n,
                          ![q].at = IF push[q].active THEN now ELSE @,
                          ![q].pc = "emit"]
  /\ UNCHANGED <<g_configs, sets, now, calls, done>>

Return(q, ret) ==
  /\ done' = [done EXCEPT ![q] = Append(@, ret)]
  /\ push' = [push EXCEPT ![q] = Idle]

\* sendto fails; m packets of an unpaced frame have left before.
SendFails(q, m) ==
  /\ push[q].pc = "send" /\ ~push[q].capture_only
  /\ m < push[q].n - push[q].k
  /\ push[q].paced => m = 0
  /\ wire' = [wire EXCEPT ![q] = @ \o Numbers(q, m)]
  /\ Return(q, "SEND_ERROR")
  /\ UNCHANGED <<g_configs, sets, now, calls>>

\* emit_frame has nothing to do: the frame is not captured, or the
\* configuration has gone since prepare_frame.
EmitNothing(q) ==
  /\ push[q].pc = "emit"
  /\ ~(push[q].active /\ Registered(q))
  /\ Return(q, "OK")
  /\ UNCHANGED <<g_configs, sets, now, wire, calls>>

\* Mutant: the base time moves with every frame.
EmitLookup_Rebases(q) ==
  /\ push[q].pc = "emit"
  /\ push[q].active /\ Registered(q)
  /\ g_configs' = [g_configs EXCEPT ![q].base = push[q].at]
  /\ push' = [push EXCEPT ![q].pc = "call",
                          ![q].callback = g_configs[q].callback,
                          ![q].reg = g_configs[q].reg,
                          ![q].base = g_configs'[q].base]
  /\ UNCHANGED <<sets, now, wire, calls, done>>

\* The critical section of emit_frame: the callback of now is copied, and the
\* first frame of a configuration sets its base time.
EmitLookup(q) ==
  /\ push[q].pc = "emit"
  /\ push[q].active /\ Registered(q)
  /\ g_configs' = [g_configs EXCEPT ![q].base = IF @ = NoTime THEN push[q].at ELSE @]
  /\ push' = [push EXCEPT ![q].pc = "call",
                          ![q].callback = g_configs[q].callback,
                          ![q].reg = g_configs[q].reg,
                          ![q].base = g_configs'[q].base]
  /\ UNCHANGED <<sets, now, wire, calls, done>>

\* The callback is called outside the lock.
CallBack(q) ==
  /\ push[q].pc = "call"
  /\ LET p == push[q]
         offset == IF p.at >= p.base THEN p.at - p.base ELSE 0
     IN  calls' = [calls EXCEPT ![q] = Append(@,
           [frame |-> Frame(q), callback |-> p.callback, reg |-> p.reg,
            offset |-> offset, at |-> p.at])]
  /\ Return(q, "OK")
  /\ UNCHANGED <<g_configs, sets, now, wire>>

Tick == now < scenario.time /\ now' = now + 1
        /\ UNCHANGED <<g_configs, sets, push, wire, calls, done>>

-----------------------------------------------------------------------------
Init ==
  /\ scenario \in Scenarios
  /\ g_configs = <<>>
  /\ sets = 0
  /\ now = 0
  /\ push = [q \in Queues |-> Idle]
  /\ wire = [q \in Queues |-> <<>>]
  /\ calls = [q \in Queues |-> <<>>]
  /\ done = [q \in Queues |-> <<>>]

Configure(q) ==
  \/ \E cb \in Callbacks \cup {Nobody}, only \in BOOLEAN : SetCapture(q, cb, only)
  \/ ClearCapture(q)

Flush(q) ==
  \/ \E n \in 1..MaxPackets, paced \in BOOLEAN : PrepareFrame(q, n, paced)
  \/ SendPaced(q) \/ SendAll(q)
  \/ \E m \in 0..MaxPackets : SendFails(q, m)
  \/ EmitNothing(q) \/ EmitLookup(q) \/ CallBack(q)

Next ==
  /\ Tick \/ \E q \in scenario.queues : Configure(q) \/ Flush(q)
  /\ UNCHANGED scenario

Spec == Init /\ [][Next]_vars

-----------------------------------------------------------------------------
(* Properties *)

Config == [callback : Callbacks, capture_only : BOOLEAN,
           base : {NoTime} \cup Nat, reg : 1..MaxSets]
Thread == [pc : {"idle", "send", "emit", "call"}, n : 0..MaxPackets,
           k : 0..MaxPackets, paced : BOOLEAN, active : BOOLEAN,
           capture_only : BOOLEAN, at : {NoTime} \cup Nat,
           callback : Callbacks \cup {Nobody}, reg : 0..MaxSets,
           base : {NoTime} \cup Nat]
Call == [frame : Nat, callback : Callbacks, reg : 1..MaxSets,
         offset : Nat, at : Nat]

\* The variables stay in their types: an entry of the registry always has a
\* callback, and a captured frame has a time when its callback is called.
TypeOK ==
  /\ DOMAIN g_configs \subseteq Queues
  /\ \A q \in DOMAIN g_configs : g_configs[q] \in Config
  /\ sets \in 0..MaxSets /\ now \in Nat /\ scenario \in Scenarios
  /\ push \in [Queues -> Thread]
  /\ calls \in [Queues -> Seq(Call)]
  /\ wire \in [Queues -> Seq(Nat \X (1..MaxPackets))]
  /\ done \in [Queues -> Seq({"OK", "SEND_ERROR"})]

Sent(q, f) == {i \in 1..Len(wire[q]) : wire[q][i][1] = f}

\* A push that succeeds has sent its frame whole or not at all, even if
\* capture-only mode is switched on or off by another thread meanwhile.
WholeOrNothing ==
  \A q \in Queues : push[q].pc \in {"emit", "call"} =>
    \/ Sent(q, Frame(q)) = {} /\ push[q].capture_only
    \/ {wire[q][i][2] : i \in Sent(q, Frame(q))} = 1..push[q].n

\* The offsets of one registration start at 0 and keep the distances between
\* the frames' times, whatever happens to the registration during a push.
OffsetsKeepDistance ==
  \A q \in Queues : \A i, j \in 1..Len(calls[q]) :
    LET a == calls[q][i]
        b == calls[q][j]
    IN  a.reg = b.reg => /\ b.offset - a.offset = b.at - a.at
                         /\ \E h \in 1..i : calls[q][h].reg = a.reg /\ calls[q][h].offset = 0

\* "every RTP packet flushed from the frame queue is provided to the callback"
\* (media_stream.hh:302): a frame that is flushed without being sent is handed
\* to a callback.
NothingDropped ==
  ~scenario.concurrent => \A q \in Queues : \A f \in 1..Len(done[q]) :
    done[q][f] = "OK" =>
      \/ Sent(q, f) # {}
      \/ \E i \in 1..Len(calls[q]) : calls[q][i].frame = f

\* The frame of queue q in delivery, as FrameDelivery sees it.
InFlight(q) ==
  IF push[q].pc = "idle" THEN {}
  ELSE {[n |-> push[q].n,
         k |-> IF push[q].capture_only THEN 0 ELSE push[q].k,
         live |-> ~push[q].capture_only,
         observer |-> IF push[q].active THEN g_configs[q].callback ELSE Nobody]}

Delivery(q) ==
  INSTANCE FrameDelivery WITH
    Counts <- 1..MaxPackets, Observers <- Callbacks,
    sent <- wire[q], done <- done[q], cur <- InFlight(q),
    logged <- [i \in 1..Len(calls[q]) |-> <<calls[q][i].frame, calls[q][i].callback>>]

\* Configured between frames, each queue delivers its frames as FrameDelivery
\* says: prepare_frame and emit_frame then see the same configuration.
QueuesDeliver ==
  /\ \A q \in Queues : Delivery(q)!DInit
  /\ [][scenario.concurrent
         \/ \A q \in Queues : [Delivery(q)!DNext]_(Delivery(q)!dvars)]_vars
=============================================================================
