----------------------------- MODULE Reassembly -----------------------------
(***************************************************************************)
(* media::packet_handler: RTP packets of generic frames arrive from the    *)
(* network and are put together again.  The sender numbers the fragments   *)
(* of a frame consecutively and marks the last one (media::                *)
(* push_media_frame with RCE_FRAGMENT_GENERIC); the network may lose,      *)
(* duplicate and reorder packets as far as the constants allow.            *)
(*                                                                         *)
(* A fragment's payload is its number in the frame, one unit long; the RTP *)
(* timestamp of a frame is its number in push order.                       *)
(***************************************************************************)
EXTENDS Integers, Sequences, FiniteSets, SequencesExt

CONSTANTS
  SeqSpace,    \* size of the sequence number space (0x10000 in the code)
  Sizes,       \* how many fragments a frame may have
  MaxFrames,   \* bound on the frames pushed
  Networks,    \* what the network may do; see Network
  FirstSeqs    \* where the first sequence number may lie

INVALID_SEQ == -1  \* 0xffffffff, no 16-bit sequence number

ASSUME SizeAssumption == Sizes \subseteq 1..SeqSpace - 1
ASSUME SpaceAssumption == SeqSpace \in Nat /\ FirstSeqs \subseteq 0..SeqSpace - 1

\* With "behind_first" a fragment may overtake anything but the first fragment
\* of its frame; losses and copies are bounded.
Network == [reordering : {"none", "behind_first", "any"}, losses : Nat, copies : Nat]

ASSUME NetworkAssumption == Networks \subseteq Network /\ MaxFrames \in Nat

VARIABLES
  network,     \* which of Networks this stream runs over
  seq,         \* the sender's next sequence number
  pushed,      \* number of fragments of each frame pushed
  net,         \* packets in flight, in the order they were sent
  lost, duplicated,
  frames,      \* minfo->frames: timestamp -> reassembly state
  delivered,   \* frames returned with RTP_PKT_READY
  arrived      \* history: the fragments of each frame that arrived

vars == <<network, seq, pushed, net, lost, duplicated, frames, delivered, arrived>>
senderVars == <<seq, pushed>>
faultVars == <<network, lost, duplicated>>
handlerVars == <<frames, delivered, arrived>>

-----------------------------------------------------------------------------
(* The sender and the network *)

Fragments(n) ==
  [i \in 1..n |-> [ts |-> Len(pushed) + 1, seq |-> (seq + i - 1) % SeqSpace,
                   marker |-> i = n, frag |-> i]]

PushFrame(n) ==
  /\ Len(pushed) < MaxFrames
  /\ pushed' = Append(pushed, n)
  /\ net' = net \o Fragments(n)
  /\ seq' = (seq + n) % SeqSpace
  /\ arrived' = Append(arrived, {})
  /\ UNCHANGED <<faultVars, frames, delivered>>

MayArrive(i) ==
  \/ i = 1
  \/ network.reordering = "any"
  \/ /\ network.reordering = "behind_first"
     /\ \A j \in 1..i - 1 : ~(net[j].ts = net[i].ts /\ net[j].frag = 1)

Lose(i) ==
  /\ lost < network.losses
  /\ lost' = lost + 1
  /\ net' = RemoveAt(net, i)
  /\ UNCHANGED <<network, senderVars, duplicated, handlerVars>>

\* The copy is in flight right behind the original.
Duplicate(i) ==
  /\ duplicated < network.copies
  /\ duplicated' = duplicated + 1
  /\ net' = InsertAt(net, i, net[i])
  /\ UNCHANGED <<network, senderVars, lost, handlerVars>>

-----------------------------------------------------------------------------
(* packet_handler *)

Known(ts) == ts \in DOMAIN frames

\* Mutant: no wrap in the key.
Key_NoWrap(info, p) == p.seq

\* The map key that keeps fragments in order across the wrap: numbers below
\* the first one seen come after it.
Key(info, p) == IF p.seq < info.s_seq THEN p.seq + SeqSpace ELSE p.seq

\* Mutant: an end numbered below the start is ignored.
AddFragment_EndNotWrapped(info, p) ==
  [npkts |-> info.npkts + 1,
   size  |-> info.size + 1,
   s_seq |-> info.s_seq,
   e_seq |-> IF p.marker /\ p.seq >= info.s_seq THEN p.seq ELSE info.e_seq,
   fragments |-> [k \in DOMAIN info.fragments \cup {Key(info, p)} |->
                    IF k = Key(info, p) THEN p.frag ELSE info.fragments[k]]]

\* The state of a known frame once p is added: markers end it, and a packet
\* numbered just before the first one seen becomes the first.
AddFragment(info, p) ==
  [npkts |-> info.npkts + 1,
   size  |-> info.size + 1,
   s_seq |-> IF ~p.marker /\ p.seq = info.s_seq - 1 THEN p.seq ELSE info.s_seq,
   e_seq |-> IF p.marker THEN p.seq ELSE info.e_seq,
   fragments |-> [k \in DOMAIN info.fragments \cup {Key(info, p)} |->
                    IF k = Key(info, p) THEN p.frag ELSE info.fragments[k]]]

\* Mutant: one packet too few across the wrap.
Expected_ShortOnWrap(info) ==
  IF info.s_seq > info.e_seq
  THEN SeqSpace - info.s_seq + info.e_seq
  ELSE info.e_seq - info.s_seq + 1

\* How many packets lie between the first and the last sequence number.
Expected(info) ==
  IF info.s_seq > info.e_seq
  THEN SeqSpace - info.s_seq + info.e_seq + 1
  ELSE info.e_seq - info.s_seq + 1

\* Mutant: the marker alone completes a frame.
AllThere_MarkerSeen(info) == info.e_seq # INVALID_SEQ

\* Mutant: one packet more than needed.
AllThere_OneMore(info) ==
  /\ info.e_seq # INVALID_SEQ
  /\ Expected(info) < info.npkts

AllThere(info) ==
  /\ info.e_seq # INVALID_SEQ
  /\ Expected(info) = info.npkts

\* The payload handed to the user: the map gives the fragments in the order of
\* their keys.
Concat(info) ==
  LET keys == DOMAIN info.fragments
      NthKey(i) == CHOOSE k \in keys : Cardinality({m \in keys : m <= k}) = i
  IN  [i \in 1..Cardinality(keys) |-> info.fragments[NthKey(i)]]

\* A first packet without marker opens a frame.
OpenFrame(p) ==
  /\ ~Known(p.ts)
  /\ ~p.marker
  /\ frames' = [t \in DOMAIN frames \cup {p.ts} |->
                  IF t = p.ts
                  THEN [npkts |-> 1, size |-> 1, s_seq |-> p.seq,
                        e_seq |-> INVALID_SEQ,
                        fragments |-> [k \in {p.seq} |-> p.frag]]
                  ELSE frames[t]]
  /\ UNCHANGED delivered

\* A first packet with the marker is taken for a whole frame.
SinglePacket(p) ==
  /\ ~Known(p.ts)
  /\ p.marker
  /\ delivered' = Append(delivered, [ts |-> p.ts, payload |-> <<p.frag>>, size |-> 1])
  /\ UNCHANGED frames

KeepFragment(p) ==
  /\ Known(p.ts)
  /\ ~AllThere(AddFragment(frames[p.ts], p))
  /\ frames' = [frames EXCEPT ![p.ts] = AddFragment(frames[p.ts], p)]
  /\ UNCHANGED delivered

CompleteFrame(p) ==
  /\ Known(p.ts)
  /\ AllThere(AddFragment(frames[p.ts], p))
  /\ delivered' = LET info == AddFragment(frames[p.ts], p) IN
       Append(delivered, [ts |-> p.ts, payload |-> Concat(info), size |-> info.size])
  /\ frames' = [t \in DOMAIN frames \ {p.ts} |-> frames[t]]

Arrive(i) ==
  /\ MayArrive(i)
  /\ net' = RemoveAt(net, i)
  /\ \/ OpenFrame(net[i])
     \/ SinglePacket(net[i])
     \/ KeepFragment(net[i])
     \/ CompleteFrame(net[i])
  /\ arrived' = [arrived EXCEPT ![net[i].ts] = @ \cup {net[i].frag}]
  /\ UNCHANGED <<senderVars, faultVars>>

-----------------------------------------------------------------------------
Init ==
  /\ network \in Networks
  /\ seq \in FirstSeqs
  /\ pushed = <<>>
  /\ net = <<>>
  /\ lost = 0 /\ duplicated = 0
  /\ frames = <<>>
  /\ delivered = <<>>
  /\ arrived = <<>>

Next ==
  \/ \E n \in Sizes : PushFrame(n)
  \/ \E i \in 1..Len(net) : Arrive(i)
  \/ \E i \in 1..Len(net) : Lose(i) \/ Duplicate(i)

Spec == Init /\ [][Next]_vars

\* The oldest packet in flight arrives in the end: uvgRTP's reception thread
\* handles what the socket has received.
FairSpec == Spec /\ WF_vars(net # <<>> /\ Arrive(1))

-----------------------------------------------------------------------------
(* Properties *)

Info == [npkts : Nat \ {0}, size : Nat \ {0}, s_seq : 0..SeqSpace - 1,
         e_seq : {INVALID_SEQ} \cup 0..SeqSpace - 1]

\* The variables stay in their types; a frame under reassembly has at least
\* one fragment and no more than it counted.
TypeOK ==
  /\ seq \in 0..SeqSpace - 1
  /\ pushed \in Seq(Sizes) /\ Len(pushed) <= MaxFrames
  /\ DOMAIN frames \subseteq 1..Len(pushed)
  /\ \A t \in DOMAIN frames :
       /\ [npkts |-> frames[t].npkts, size |-> frames[t].size,
           s_seq |-> frames[t].s_seq, e_seq |-> frames[t].e_seq] \in Info
       /\ Cardinality(DOMAIN frames[t].fragments) \in 1..frames[t].npkts
  /\ network \in Networks
  /\ lost \in 0..network.losses /\ duplicated \in 0..network.copies
  /\ Len(arrived) = Len(pushed)

Intact(d) == /\ d.payload = [i \in 1..pushed[d.ts] |-> i]
             /\ d.size = pushed[d.ts]

\* A network that keeps the order of fragments, and one that delivers all.
InOrder == network.reordering = "none"
Faultless == network.losses = 0 /\ network.copies = 0

\* A frame of which every fragment has arrived has been handed over intact
\* (media_stream.hh:126).
Reconstructed ==
  \A f \in 1..Len(pushed) :
    arrived[f] = 1..pushed[f] =>
      \E k \in 1..Len(delivered) : delivered[k].ts = f /\ Intact(delivered[k])

\* That holds as long as no packet is duplicated and none overtakes the first
\* of its frame, whatever is lost besides.
ReconstructedWithoutCopies == network.copies = 0 => Reconstructed

\* Over such a network the frames handed over are byte for byte the frames
\* pushed, if nothing is lost, and none is handed over twice.
DeliveredIntact ==
  Faultless =>
    /\ \A k \in 1..Len(delivered) : Intact(delivered[k])
    /\ \A k, l \in 1..Len(delivered) : delivered[k].ts = delivered[l].ts => k = l

\* When the order is kept, what is handed over is the end of a frame: lost
\* first fragments go unnoticed.  A hole inside needs a copy that was counted
\* in the place of the lost fragment, and then the size covers the hole.
HolesAreCopies ==
  InOrder =>
    \A k \in 1..Len(delivered) :
      LET d == delivered[k]
          missing == (d.payload[1]..pushed[d.ts]) \ ToSet(d.payload)
      IN  /\ \A i \in 2..Len(d.payload) : d.payload[i - 1] < d.payload[i]
          /\ Last(d.payload) = pushed[d.ts]
          /\ Cardinality(missing) <= duplicated
          /\ d.size = Len(d.payload) + Cardinality(missing)

\* In order and without copies, a frame is held only while its last fragment
\* or one in the middle is missing: with the last fragment there and nothing
\* missing after the first one seen, it has been handed over.
HeldHasHole ==
  InOrder /\ network.copies = 0 =>
    \A f \in DOMAIN frames :
      \/ pushed[f] \notin arrived[f]
      \/ \E i \in 1..pushed[f] : i \notin arrived[f] /\ \E j \in arrived[f] : j < i

\* Over a faultless network every pushed frame is handed over in the end.
EventuallyDelivered ==
  \A f \in 1..MaxFrames :
    Faultless /\ Len(pushed) >= f ~> \E k \in 1..Len(delivered) : delivered[k].ts = f
=============================================================================
