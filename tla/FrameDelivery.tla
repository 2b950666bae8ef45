---------------------------- MODULE FrameDelivery ----------------------------
(***************************************************************************)
(* What pushing frames promises, without transactions, headers or clocks:  *)
(* frames are delivered one at a time, in the order they are accepted; a   *)
(* live frame's packets leave in order; a frame succeeds only when nothing *)
(* of it is left to send, and only a frame that succeeds is captured, once *)
(* and by the callback that was installed when it was accepted.            *)
(***************************************************************************)
EXTENDS Integers, Sequences

CONSTANTS
  Counts,      \* the numbers of packets a frame may have
  Observers,   \* who may capture
  Nobody

VARIABLES
  sent,    \* packets on the network: <<frame, number in the frame>>
  logged,  \* captured frames: <<frame, observer>>
  done,    \* outcome of each finished frame
  cur      \* the frame in delivery, or {} when there is none

dvars == <<sent, logged, done, cur>>

id == Len(done) + 1

DInit == sent = <<>> /\ logged = <<>> /\ done = <<>> /\ cur = {}

\* A frame of n packets is accepted; without an observer it must go out.
Accept(n, live, observer) ==
  /\ cur = {}
  /\ observer = Nobody => live
  /\ cur' = {[n |-> n, k |-> 0, live |-> live, observer |-> observer]}
  /\ UNCHANGED <<sent, logged, done>>

\* The next m packets of the frame d leave.
Numbers(d, m) == [j \in 1..m |-> <<id, d.k + j>>]

Transmit(d, m) ==
  /\ d.live
  /\ d.k + m <= d.n
  /\ sent' = sent \o Numbers(d, m)
  /\ cur' = {[d EXCEPT !.k = d.k + m]}
  /\ UNCHANGED <<logged, done>>

Succeed(d) ==
  /\ d.live => d.k = d.n
  /\ logged' = IF d.observer = Nobody THEN logged
               ELSE Append(logged, <<id, d.observer>>)
  /\ done' = Append(done, "OK")
  /\ cur' = {}
  /\ UNCHANGED sent

\* The network fails after m more packets, short of the whole frame.
Fail(d, m) ==
  /\ d.live
  /\ d.k + m < d.n
  /\ sent' = sent \o Numbers(d, m)
  /\ done' = Append(done, "SEND_ERROR")
  /\ cur' = {}
  /\ UNCHANGED logged

DNext ==
  \/ \E n \in Counts, live \in BOOLEAN, o \in Observers \cup {Nobody} :
        Accept(n, live, o)
  \/ \E d \in cur : \E m \in 0..d.n : Transmit(d, m) \/ Succeed(d) \/ Fail(d, m)

DSpec == DInit /\ [][DNext]_dvars
=============================================================================
