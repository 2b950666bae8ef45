--------------------------- MODULE ReassemblyProofs ---------------------------
(***************************************************************************)
(* Theorems of Reassembly for any sequence space and frames of any size    *)
(* below it.  The first part is about networks that lose what they like    *)
(* but neither copy packets nor let a fragment overtake the first one of   *)
(* its frame; over networks that copy, a frame that is complete can be     *)
(* held forever, see Reconstructed.  The second part is about networks     *)
(* that keep the order, whatever they lose or copy.                        *)
(***************************************************************************)
EXTENDS Reassembly, FiniteSetTheorems, SequenceTheorems, TLAPS

-----------------------------------------------------------------------------
(* Sequence numbers *)

\* Reducing a number below twice the space.
LEMMA Wrap ==
  ASSUME NEW x \in Nat, NEW m \in Nat, m > 0, x < 2 * m
  PROVE  x % m = IF x < m THEN x ELSE x - m
OBVIOUS

\* The number of the j-th packet of a frame that begins at s.
Num(s, j) == (s + j - 1) % SeqSpace

\* A number is below the start exactly when the frame wraps.
LEMMA NumWraps ==
  ASSUME NEW s \in 0..SeqSpace - 1, NEW j \in 1..SeqSpace - 1
  PROVE  /\ Num(s, j) \in 0..SeqSpace - 1
         /\ Num(s, j) = IF s + j - 1 < SeqSpace THEN s + j - 1 ELSE s + j - 1 - SeqSpace
<1> DEFINE x == s + j - 1
<1>1. SeqSpace \in Nat /\ SeqSpace > 0 /\ x \in Nat /\ x < 2 * SeqSpace
  BY SpaceAssumption
<1>2. Num(s, j) = x % SeqSpace
  BY DEF Num
<1> HIDE DEF x
<1>3. Num(s, j) = IF x < SeqSpace THEN x ELSE x - SeqSpace
  BY <1>1, <1>2, Wrap
<1>4. Num(s, j) \in 0..SeqSpace - 1
  BY <1>1, <1>3
<1> QED BY <1>1, <1>3, <1>4 DEF x

\* The key takes the wrap out of a number.
LEMMA KeyIsPlace ==
  ASSUME NEW info, NEW p, NEW j \in 1..SeqSpace - 1, info.s_seq \in 0..SeqSpace - 1,
         p.seq = Num(info.s_seq, j)
  PROVE  Key(info, p) = info.s_seq + j - 1
<1> DEFINE s == info.s_seq
<1>1. SeqSpace \in Nat /\ s \in 0..SeqSpace - 1 /\ p.seq = Num(s, j)
  BY SpaceAssumption
<1>2. Key(info, p) = IF p.seq < s THEN p.seq + SeqSpace ELSE p.seq
  BY DEF Key
<1> HIDE DEF s
<1>3. p.seq = IF s + j - 1 < SeqSpace THEN s + j - 1 ELSE s + j - 1 - SeqSpace
  BY <1>1, NumWraps
<1>4. Key(info, p) = s + j - 1
  BY <1>1, <1>2, <1>3
<1> QED BY <1>4 DEF s

\* The range from the first to the last number is the size of the frame.
LEMMA ExpectedIsSize ==
  ASSUME NEW info, NEW n \in 1..SeqSpace - 1, info.s_seq \in 0..SeqSpace - 1,
         info.e_seq = Num(info.s_seq, n)
  PROVE  Expected(info) = n
<1> DEFINE s == info.s_seq
           e == info.e_seq
<1>1. SeqSpace \in Nat /\ s \in 0..SeqSpace - 1 /\ e = Num(s, n)
  BY SpaceAssumption
<1>2. Expected(info) = IF s > e THEN SeqSpace - s + e + 1 ELSE e - s + 1
  BY DEF Expected
<1> HIDE DEF s, e
<1>3. e = IF s + n - 1 < SeqSpace THEN s + n - 1 ELSE s + n - 1 - SeqSpace
  BY <1>1, NumWraps
<1> QED BY <1>1, <1>2, <1>3

\* No packet but the last can be numbered just before the first.
LEMMA NotBeforeFirst ==
  ASSUME NEW s \in 0..SeqSpace - 1, NEW n \in 1..SeqSpace - 1, NEW j \in 1..n, j # n
  PROVE  Num(s, j) # s - 1
<1>1. SeqSpace \in Nat /\ j \in 1..SeqSpace - 1 /\ j < SeqSpace - 1
  BY SpaceAssumption
<1>2. Num(s, j) = IF s + j - 1 < SeqSpace THEN s + j - 1 ELSE s + j - 1 - SeqSpace
  BY <1>1, NumWraps
<1> QED BY <1>1, <1>2

\* The fragments of a frame that begins at key s, in the order of the keys.
LEMMA ConcatInOrder ==
  ASSUME NEW info, NEW s \in Nat, NEW n \in Nat, n > 0,
         info.fragments = [k \in s..(s + n - 1) |-> k - s + 1]
  PROVE  Concat(info) = [i \in 1..n |-> i]
<1> DEFINE keys == s..(s + n - 1)
           Rank(k) == Cardinality({m \in keys : m <= k})
           NthKey(i) == CHOOSE k \in keys : Rank(k) = i
<1>1. Cardinality(keys) = n
  BY FS_Interval
<1>2. ASSUME NEW k \in keys PROVE Rank(k) = k - s + 1
  <2>1. {m \in keys : m <= k} = s..k
    OBVIOUS
  <2>2. k \in Int /\ s \in Int /\ s <= k
    OBVIOUS
  <2>3. Cardinality(s..k) = k - s + 1
    BY <2>2, FS_Interval
  <2> QED BY <2>1, <2>3
<1>3. ASSUME NEW i \in 1..n PROVE NthKey(i) = s + i - 1 /\ s + i - 1 \in keys
  <2>1. s + i - 1 \in keys
    OBVIOUS
  <2> HIDE DEF Rank
  <2>2. Rank(s + i - 1) = i
    BY <1>2, <2>1
  <2>3. \A k \in keys : Rank(k) = i => k = s + i - 1
    BY <1>2
  <2> HIDE DEF keys
  <2> QED BY <2>1, <2>2, <2>3
<1>4. Concat(info) = [i \in 1..Cardinality(keys) |-> info.fragments[NthKey(i)]]
  BY DEF Concat
<1> HIDE DEF NthKey
<1>5. ASSUME NEW i \in 1..n PROVE info.fragments[NthKey(i)] = i
  BY <1>3
<1> QED BY <1>1, <1>4, <1>5

-----------------------------------------------------------------------------
(* Packets in flight *)

\* Taking a packet out of the network.
LEMMA Removed ==
  ASSUME NEW S, NEW s \in Seq(S), NEW i \in 1..Len(s)
  PROVE  /\ RemoveAt(s, i) \in Seq(S) /\ Len(RemoveAt(s, i)) = Len(s) - 1
         /\ \A k \in 1..(Len(s) - 1) : RemoveAt(s, i)[k] = s[IF k < i THEN k ELSE k + 1]
<1> DEFINE a == SubSeq(s, 1, i - 1)
           b == SubSeq(s, i + 1, Len(s))
<1>1. Len(s) \in Nat /\ i \in Nat /\ i >= 1 /\ i <= Len(s)
  OBVIOUS
<1>2. a \in Seq(S) /\ Len(a) = i - 1 /\ \A k \in 1..(i - 1) : a[k] = s[k]
  BY <1>1, SubSeqProperties
<1>3. b \in Seq(S) /\ Len(b) = Len(s) - i /\ \A k \in 1..(Len(s) - i) : b[k] = s[i + k]
  BY <1>1, SubSeqProperties
<1> HIDE DEF a, b
<1>4. a \o b \in Seq(S) /\ Len(a \o b) = Len(s) - 1
  <2>1. a \o b \in Seq(S) /\ Len(a \o b) = Len(a) + Len(b)
    BY <1>2, <1>3, ConcatProperties
  <2>2. Len(a) + Len(b) = Len(s) - 1
    BY <1>1, <1>2, <1>3
  <2> QED BY <2>1, <2>2
<1>5. ASSUME NEW k \in 1..(Len(s) - 1) PROVE (a \o b)[k] = s[IF k < i THEN k ELSE k + 1]
  <2>1. CASE k < i
    BY <1>1, <1>2, <1>3, <2>1, ConcatProperties
  <2>2. CASE k >= i
    <3>1. (a \o b)[k] = b[k - (i - 1)] /\ k - (i - 1) \in 1..(Len(s) - i)
      BY <1>1, <1>2, <1>3, <2>2, ConcatProperties
    <3>2. i + (k - (i - 1)) = k + 1
      BY <1>1
    <3> QED BY <1>3, <2>2, <3>1, <3>2
  <2>3. k < i \/ k >= i
    BY <1>1
  <2> QED BY <2>1, <2>2, <2>3
<1> QED BY <1>4, <1>5 DEF RemoveAt, a, b

\* Putting a packet into the network.
LEMMA Inserted ==
  ASSUME NEW S, NEW s \in Seq(S), NEW i \in 1..Len(s), NEW e \in S
  PROVE  InsertAt(s, i, e) \in Seq(S)
<1> DEFINE a == SubSeq(s, 1, i - 1)
           b == SubSeq(s, i, Len(s))
<1>1. Len(s) \in Nat /\ i \in Nat /\ i >= 1 /\ i <= Len(s)
  OBVIOUS
<1>2. a \in Seq(S) /\ b \in Seq(S)
  BY <1>1, SubSeqProperties
<1> HIDE DEF a, b
<1>3. <<e>> \in Seq(S)
  OBVIOUS
<1>4. a \o <<e>> \in Seq(S)
  BY <1>2, <1>3, ConcatProperties
<1>5. a \o <<e>> \o b \in Seq(S)
  BY <1>2, <1>4, ConcatProperties
<1> QED BY <1>5 DEF InsertAt, a, b

\* Adding an element of any kind to a list.
LEMMA Appended ==
  ASSUME NEW S, NEW s \in Seq(S), NEW e
  PROVE  /\ Append(s, e) \in Seq(S \cup {e})
         /\ Len(Append(s, e)) = Len(s) + 1
         /\ \A k \in 1..(Len(s) + 1) :
              Append(s, e)[k] = IF k <= Len(s) THEN s[k] ELSE e
<1>1. s \in Seq(S \cup {e})
  BY SeqMonotonic
<1>2. Append(s, e) \in Seq(S \cup {e}) /\ Len(Append(s, e)) = Len(s) + 1
  BY <1>1, AppendProperties
<1>3. \A k \in 1..(Len(s) + 1) :
        Append(s, e)[k] = IF k <= Len(s) THEN s[k] ELSE e
  BY <1>1, AppendProperties
<1> QED BY <1>2, <1>3

-----------------------------------------------------------------------------
(* The state of a frame of n fragments numbered from s, its first fragment  *)
(* among those of A that have arrived                                       *)

StateOf(s, n, A) ==
  [npkts |-> Cardinality(A), size |-> Cardinality(A), s_seq |-> s,
   e_seq |-> IF n \in A THEN Num(s, n) ELSE INVALID_SEQ,
   fragments |-> [k \in {s + j - 1 : j \in A} |-> k - s + 1]]

\* Another fragment, whichever it is.
LEMMA AddedState ==
  ASSUME NEW s \in 0..SeqSpace - 1, NEW n \in 1..SeqSpace - 1, NEW A \in SUBSET (1..n),
         NEW j \in 1..n, j \notin A,
         NEW p, p.seq = Num(s, j), p.marker <=> j = n, p.frag = j
  PROVE  AddFragment(StateOf(s, n, A), p) = StateOf(s, n, A \cup {j})
<1> DEFINE old == StateOf(s, n, A)
           B == A \cup {j}
           new == AddFragment(old, p)
<1>1. /\ old.npkts = Cardinality(A) /\ old.size = Cardinality(A) /\ old.s_seq = s
      /\ old.e_seq = IF n \in A THEN Num(s, n) ELSE INVALID_SEQ
      /\ old.fragments = [k \in {s + i - 1 : i \in A} |-> k - s + 1]
  BY DEF StateOf
<1>2. Cardinality(B) = Cardinality(A) + 1
  <2>1. IsFiniteSet(A)
    <3>1. IsFiniteSet(1..n) /\ A \subseteq 1..n
      BY FS_Interval
    <3> QED BY <3>1, FS_Subset
  <2> QED BY <2>1, FS_AddElement
<1>3. Key(old, p) = s + j - 1
  <2>1. j \in 1..SeqSpace - 1
    BY SpaceAssumption
  <2>2. old.s_seq = s /\ p.seq = Num(old.s_seq, j)
    BY <1>1
  <2> HIDE DEF old
  <2>3. Key(old, p) = old.s_seq + j - 1
    BY <2>1, <2>2, KeyIsPlace
  <2> QED BY <2>2, <2>3
<1>4. (IF ~p.marker /\ p.seq = s - 1 THEN p.seq ELSE s) = s
  BY NotBeforeFirst
<1>5. (IF p.marker THEN p.seq ELSE old.e_seq) = IF n \in B THEN Num(s, n) ELSE INVALID_SEQ
  BY <1>1
<1>6. [k \in DOMAIN old.fragments \cup {Key(old, p)} |->
         IF k = Key(old, p) THEN p.frag ELSE old.fragments[k]]
      = [k \in {s + i - 1 : i \in B} |-> k - s + 1]
  <2>1. DOMAIN old.fragments \cup {Key(old, p)} = {s + i - 1 : i \in B}
    BY <1>1, <1>3
  <2>2. ASSUME NEW k \in {s + i - 1 : i \in B}
        PROVE  (IF k = Key(old, p) THEN p.frag ELSE old.fragments[k]) = k - s + 1
    <3>1. CASE k = s + j - 1
      <4>1. k - s + 1 = j
        BY <3>1
      <4> QED BY <1>3, <3>1, <4>1
    <3>2. CASE k # s + j - 1
      <4>1. k \in {s + i - 1 : i \in A}
        BY <3>2
      <4>2. old.fragments[k] = k - s + 1
        BY <1>1, <4>1
      <4> QED BY <1>3, <3>2, <4>2
    <3> QED BY <3>1, <3>2
  <2> QED BY <2>1, <2>2
<1> HIDE DEF old
<1>7. new = [npkts |-> old.npkts + 1, size |-> old.size + 1,
             s_seq |-> IF ~p.marker /\ p.seq = old.s_seq - 1 THEN p.seq ELSE old.s_seq,
             e_seq |-> IF p.marker THEN p.seq ELSE old.e_seq,
             fragments |-> [k \in DOMAIN old.fragments \cup {Key(old, p)} |->
                              IF k = Key(old, p) THEN p.frag ELSE old.fragments[k]]]
  BY DEF AddFragment
<1>8. new = [npkts |-> Cardinality(B), size |-> Cardinality(B), s_seq |-> s,
             e_seq |-> IF n \in B THEN Num(s, n) ELSE INVALID_SEQ,
             fragments |-> [k \in {s + i - 1 : i \in B} |-> k - s + 1]]
  BY <1>1, <1>2, <1>4, <1>5, <1>6, <1>7
<1> QED BY <1>8 DEF StateOf, old

\* The frame counts as complete exactly when it is.
LEMMA CompleteState ==
  ASSUME NEW s \in 0..SeqSpace - 1, NEW n \in 1..SeqSpace - 1, NEW A \in SUBSET (1..n)
  PROVE  AllThere(StateOf(s, n, A)) <=> A = 1..n
<1> DEFINE info == StateOf(s, n, A)
<1>1. /\ info.npkts = Cardinality(A) /\ info.s_seq = s
      /\ info.e_seq = IF n \in A THEN Num(s, n) ELSE INVALID_SEQ
  BY DEF StateOf
<1>2. AllThere(info) <=> info.e_seq # INVALID_SEQ /\ Expected(info) = info.npkts
  BY DEF AllThere
<1> HIDE DEF info
<1>3. Num(s, n) # INVALID_SEQ
  <2>1. Num(s, n) \in 0..SeqSpace - 1 /\ SeqSpace \in Nat
    BY NumWraps, SpaceAssumption
  <2> QED BY <2>1 DEF INVALID_SEQ
<1>4. info.e_seq # INVALID_SEQ <=> n \in A
  BY <1>1, <1>3
<1>5. n \in A => Expected(info) = n
  <2>1. SUFFICES ASSUME n \in A PROVE Expected(info) = n
    OBVIOUS
  <2>2. info.e_seq = Num(info.s_seq, n) /\ info.s_seq \in 0..SeqSpace - 1
    BY <1>1, <2>1
  <2> QED BY <2>2, ExpectedIsSize
<1>6. Cardinality(A) = n <=> A = 1..n
  <2>1. IsFiniteSet(1..n) /\ Cardinality(1..n) = n
    BY FS_Interval
  <2> QED BY <2>1, FS_Subset
<1>7. n \in 1..n
  OBVIOUS
<1>8. info.npkts = Cardinality(A)
  BY <1>1
<1>9. AllThere(info) => A = 1..n
  BY <1>2, <1>4, <1>5, <1>6, <1>8
<1>10. A = 1..n => AllThere(info)
  BY <1>2, <1>4, <1>5, <1>6, <1>7, <1>8
<1> QED BY <1>9, <1>10 DEF info

\* A complete frame is handed over as it was pushed.
LEMMA CompletePayload ==
  ASSUME NEW s \in 0..SeqSpace - 1, NEW n \in 1..SeqSpace - 1
  PROVE  /\ Concat(StateOf(s, n, 1..n)) = [i \in 1..n |-> i]
         /\ StateOf(s, n, 1..n).size = n
<1> DEFINE info == StateOf(s, n, 1..n)
<1>1. info.fragments = [k \in {s + j - 1 : j \in 1..n} |-> k - s + 1]
  BY DEF StateOf
<1>2. {s + j - 1 : j \in 1..n} = s..(s + n - 1)
  <2>1. ASSUME NEW k \in s..(s + n - 1) PROVE \E j \in 1..n : k = s + j - 1
    <3>1. k - s + 1 \in 1..n /\ k = s + (k - s + 1) - 1
      OBVIOUS
    <3> QED BY <3>1
  <2>2. ASSUME NEW j \in 1..n PROVE s + j - 1 \in s..(s + n - 1)
    OBVIOUS
  <2> QED BY <2>1, <2>2
<1>3. info.fragments = [k \in s..(s + n - 1) |-> k - s + 1]
  BY <1>1, <1>2
<1>4. Cardinality(1..n) = n
  BY FS_Interval
<1>5. info.size = n
  BY <1>4 DEF StateOf
<1> HIDE DEF info
<1>6. Concat(info) = [i \in 1..n |-> i]
  BY <1>3, ConcatInOrder
<1> QED BY <1>5, <1>6 DEF info

\* The first fragment alone.
LEMMA FirstState ==
  ASSUME NEW s \in 0..SeqSpace - 1, NEW n \in 2..SeqSpace - 1
  PROVE  /\ Num(s, 1) = s
         /\ StateOf(s, n, {1}) = [npkts |-> 1, size |-> 1, s_seq |-> s, e_seq |-> INVALID_SEQ,
                                  fragments |-> [k \in {s} |-> 1]]
<1>1. SeqSpace \in Nat
  BY SpaceAssumption
<1>2. Num(s, 1) = s
  <2>1. Num(s, 1) = IF s + 1 - 1 < SeqSpace THEN s + 1 - 1 ELSE s + 1 - 1 - SeqSpace
    BY <1>1, NumWraps
  <2> QED BY <1>1, <2>1
<1>3. Cardinality({1}) = 1
  BY FS_Singleton
<1>4. {s + j - 1 : j \in {1}} = {s}
  OBVIOUS
<1>5. [k \in {s} |-> k - s + 1] = [k \in {s} |-> 1]
  OBVIOUS
<1>6. n \notin {1}
  OBVIOUS
<1>7. StateOf(s, n, {1}) =
        [npkts |-> Cardinality({1}), size |-> Cardinality({1}), s_seq |-> s,
         e_seq |-> IF n \in {1} THEN Num(s, n) ELSE INVALID_SEQ,
         fragments |-> [k \in {s + j - 1 : j \in {1}} |-> k - s + 1]]
  BY DEF StateOf
<1>8. StateOf(s, n, {1}) = [npkts |-> 1, size |-> 1, s_seq |-> s, e_seq |-> INVALID_SEQ,
                            fragments |-> [k \in {s} |-> 1]]
  BY <1>3, <1>4, <1>5, <1>6, <1>7
<1> QED BY <1>2, <1>8

-----------------------------------------------------------------------------
(* Types, over any network *)

InFlight(n) == [ts : 1..n, seq : 0..SeqSpace - 1, marker : BOOLEAN, frag : Nat]

InfoOK(info) ==
  /\ info.npkts \in Nat \ {0} /\ info.size \in Nat \ {0}
  /\ info.s_seq \in 0..SeqSpace - 1
  /\ info.e_seq \in {INVALID_SEQ} \cup 0..SeqSpace - 1
  /\ IsFiniteSet(DOMAIN info.fragments)
  /\ Cardinality(DOMAIN info.fragments) \in 1..info.npkts

SenderTypes ==
  /\ SeqSpace \in Nat /\ seq \in 0..SeqSpace - 1
  /\ pushed \in Seq(Sizes) /\ Len(pushed) <= MaxFrames
  /\ Len(arrived) = Len(pushed) /\ arrived \in Seq(SUBSET Nat)

NetTypes ==
  /\ network \in Networks
  /\ lost \in 0..network.losses /\ duplicated \in 0..network.copies
  /\ net \in Seq(InFlight(Len(pushed)))

FrameTypes ==
  /\ DOMAIN frames \subseteq 1..Len(pushed)
  /\ \A t \in DOMAIN frames : InfoOK(frames[t])
  /\ \E D : delivered \in Seq(D)

TInv == SenderTypes /\ NetTypes /\ FrameTypes

LEMMA TypesImplyTypeOK == ASSUME TInv PROVE TypeOK
<1> USE DEF TInv, SenderTypes, NetTypes, FrameTypes
<1>1. ASSUME NEW t \in DOMAIN frames
      PROVE  /\ [npkts |-> frames[t].npkts, size |-> frames[t].size,
                 s_seq |-> frames[t].s_seq, e_seq |-> frames[t].e_seq] \in Info
             /\ Cardinality(DOMAIN frames[t].fragments) \in 1..frames[t].npkts
  <2>1. InfoOK(frames[t])
    BY <1>1
  <2> QED BY <2>1 DEF InfoOK, Info
<1> QED BY <1>1 DEF TypeOK

LEMMA AddedInfo ==
  ASSUME NEW info, InfoOK(info), NEW n, NEW p \in InFlight(n), SeqSpace \in Nat
  PROVE  InfoOK(AddFragment(info, p))
<1> DEFINE new == AddFragment(info, p)
           keys == DOMAIN info.fragments
<1>1. p.seq \in 0..SeqSpace - 1
  BY DEF InFlight
<1>2. /\ new.npkts = info.npkts + 1 /\ new.size = info.size + 1
      /\ new.s_seq \in {p.seq, info.s_seq} /\ new.e_seq \in {p.seq, info.e_seq}
      /\ DOMAIN new.fragments = keys \cup {Key(info, p)}
  BY DEF AddFragment
<1>3. IsFiniteSet(keys \cup {Key(info, p)})
      /\ Cardinality(keys \cup {Key(info, p)}) \in {Cardinality(keys), Cardinality(keys) + 1}
  <2>1. IsFiniteSet(keys)
    BY DEF InfoOK
  <2> HIDE DEF keys
  <2> QED BY <2>1, FS_AddElement
<1>4. Cardinality(keys) \in 1..info.npkts /\ info.npkts \in Nat
  BY DEF InfoOK
<1> HIDE DEF new, keys
<1>5. Cardinality(keys \cup {Key(info, p)}) \in 1..(info.npkts + 1)
  BY <1>3, <1>4
<1>6. InfoOK(new)
  BY <1>1, <1>2, <1>3, <1>5 DEF InfoOK
<1> QED BY <1>6 DEF new

LEMMA OpenedInfo ==
  ASSUME NEW s \in 0..SeqSpace - 1, NEW j
  PROVE  InfoOK([npkts |-> 1, size |-> 1, s_seq |-> s, e_seq |-> INVALID_SEQ,
                 fragments |-> [k \in {s} |-> j]])
<1>1. IsFiniteSet({s}) /\ Cardinality({s}) = 1
  BY FS_Singleton
<1> QED BY <1>1 DEF InfoOK

LEMMA InitTypes == ASSUME Init PROVE TInv
<1> USE DEF Init
<1>1. SenderTypes
  <2>1. pushed \in Seq(Sizes) /\ arrived \in Seq(SUBSET Nat) /\ Len(pushed) = 0
        /\ Len(arrived) = 0
    BY EmptySeq
  <2> QED BY <2>1, SpaceAssumption, NetworkAssumption DEF SenderTypes
<1>2. NetTypes
  <2>1. net \in Seq(InFlight(Len(pushed)))
    BY EmptySeq
  <2>2. network.losses \in Nat /\ network.copies \in Nat
    BY NetworkAssumption DEF Network
  <2> QED BY <2>1, <2>2 DEF NetTypes
<1>3. FrameTypes
  <2>1. delivered \in Seq({}) /\ DOMAIN frames = {}
    BY EmptySeq
  <2> QED BY <2>1 DEF FrameTypes
<1> QED BY <1>1, <1>2, <1>3 DEF TInv

\* The fragments that PushFrame sends.
LEMMA SentFragments ==
  ASSUME TInv, NEW n \in Sizes
  PROVE  /\ n \in 1..SeqSpace - 1
         /\ Fragments(n) \in Seq(InFlight(Len(pushed) + 1)) /\ Len(Fragments(n)) = n
         /\ \A i \in 1..n :
              /\ Fragments(n)[i].ts = Len(pushed) + 1
              /\ Fragments(n)[i].seq = Num(seq, i)
              /\ Fragments(n)[i].marker <=> i = n
              /\ Fragments(n)[i].frag = i
<1>1. SeqSpace \in Nat /\ n \in 1..SeqSpace - 1 /\ seq \in 0..SeqSpace - 1
  BY SizeAssumption, SpaceAssumption DEF TInv, SenderTypes
<1>2. Len(pushed) \in Nat
  BY LenProperties DEF TInv, SenderTypes
<1>3. Fragments(n) = [i \in 1..n |-> [ts |-> Len(pushed) + 1, seq |-> Num(seq, i),
                                      marker |-> i = n, frag |-> i]]
  BY DEF Fragments, Num
<1>4. ASSUME NEW i \in 1..n
      PROVE  [ts |-> Len(pushed) + 1, seq |-> Num(seq, i), marker |-> i = n, frag |-> i]
               \in InFlight(Len(pushed) + 1)
  <2>1. Num(seq, i) \in 0..SeqSpace - 1
    <3>1. i \in 1..SeqSpace - 1
      BY <1>1
    <3> QED BY <1>1, <3>1, NumWraps
  <2>2. Len(pushed) + 1 \in 1..(Len(pushed) + 1)
    BY <1>2
  <2> QED BY <2>1, <2>2 DEF InFlight
<1>5. Fragments(n) \in [1..n -> InFlight(Len(pushed) + 1)]
  BY <1>3, <1>4
<1>6. n \in Nat
  BY <1>1
<1>7. Fragments(n) \in Seq(InFlight(Len(pushed) + 1)) /\ Len(Fragments(n)) = n
  BY <1>5, <1>6
<1>8. ASSUME NEW i \in 1..n
      PROVE  /\ Fragments(n)[i].ts = Len(pushed) + 1
             /\ Fragments(n)[i].seq = Num(seq, i)
             /\ Fragments(n)[i].marker <=> i = n
             /\ Fragments(n)[i].frag = i
  <2> DEFINE last == i = n
  <2>1. Fragments(n)[i] = [ts |-> Len(pushed) + 1, seq |-> Num(seq, i),
                           marker |-> last, frag |-> i]
    BY <1>3
  <2>2. Fragments(n)[i].ts = Len(pushed) + 1 /\ Fragments(n)[i].seq = Num(seq, i)
        /\ Fragments(n)[i].frag = i
    BY <2>1
  <2> HIDE DEF last
  <2>3. Fragments(n)[i].marker = last
    BY <2>1
  <2>4. Fragments(n)[i].marker <=> i = n
    BY <2>3, Zenon DEF last
  <2> QED BY <2>2, <2>4
<1> QED BY <1>1, <1>7, <1>8

LEMMA PushTypes == ASSUME TInv, NEW n \in Sizes, PushFrame(n) PROVE TInv'
<1>1. /\ SeqSpace \in Nat /\ seq \in 0..SeqSpace - 1 /\ n \in Nat /\ SeqSpace > 0
      /\ pushed \in Seq(Sizes) /\ arrived \in Seq(SUBSET Nat) /\ Len(arrived) = Len(pushed)
  BY SentFragments, SizeAssumption DEF TInv, SenderTypes
<1>2. Len(pushed) < MaxFrames /\ pushed' = Append(pushed, n) /\ net' = net \o Fragments(n)
      /\ seq' = (seq + n) % SeqSpace /\ arrived' = Append(arrived, {})
      /\ network' = network /\ lost' = lost /\ duplicated' = duplicated
      /\ frames' = frames /\ delivered' = delivered
  BY DEF PushFrame, faultVars
<1>3. Len(pushed) \in Nat /\ pushed' \in Seq(Sizes) /\ Len(pushed') = Len(pushed) + 1
  BY <1>1, <1>2, AppendProperties, LenProperties
<1>4. {} \in SUBSET Nat
  OBVIOUS
<1>5. arrived' \in Seq(SUBSET Nat) /\ Len(arrived') = Len(arrived) + 1
  BY <1>1, <1>2, <1>4, AppendProperties
<1>6. SenderTypes'
  <2>1. seq + n \in Nat /\ (seq + n) % SeqSpace \in 0..SeqSpace - 1
    BY <1>1
  <2>2. Len(pushed') <= MaxFrames
    BY <1>2, <1>3, NetworkAssumption
  <2> QED BY <1>1, <1>2, <1>3, <1>5, <2>1, <2>2 DEF SenderTypes
<1>7. NetTypes'
  <2>1. InFlight(Len(pushed)) \subseteq InFlight(Len(pushed) + 1)
    BY <1>3 DEF InFlight
  <2>2. net \in Seq(InFlight(Len(pushed) + 1))
    BY <2>1, SeqMonotonic DEF TInv, NetTypes
  <2>3. net \o Fragments(n) \in Seq(InFlight(Len(pushed) + 1))
    BY <2>2, SentFragments, ConcatProperties
  <2> QED BY <1>2, <1>3, <2>3 DEF TInv, NetTypes
<1>8. FrameTypes'
  <2>1. 1..Len(pushed) \subseteq 1..(Len(pushed) + 1)
    BY <1>3
  <2>2. DOMAIN frames' \subseteq 1..Len(pushed')
    BY <1>2, <1>3, <2>1 DEF TInv, FrameTypes
  <2>3. ASSUME NEW t \in DOMAIN frames PROVE InfoOK(frames[t])
    BY DEF TInv, FrameTypes
  <2>4. \A t \in DOMAIN frames' : InfoOK(frames'[t])
    BY <1>2, <2>3
  <2>5. \A t \in DOMAIN frames' : InfoOK(frames[t])'
    BY <2>4 DEF InfoOK
  <2>6. \E D : delivered' \in Seq(D)
    BY <1>2 DEF TInv, FrameTypes
  <2> QED BY <2>2, <2>5, <2>6 DEF FrameTypes
<1> QED BY <1>6, <1>7, <1>8 DEF TInv

LEMMA FaultTypes ==
  ASSUME TInv, NEW i \in 1..Len(net), Lose(i) \/ Duplicate(i)
  PROVE  TInv'
<1>1. net \in Seq(InFlight(Len(pushed))) /\ network \in Networks
      /\ lost \in 0..network.losses /\ duplicated \in 0..network.copies
      /\ network.losses \in Nat /\ network.copies \in Nat
  BY NetworkAssumption DEF TInv, NetTypes, Network
<1>2. UNCHANGED <<network, seq, pushed, arrived, frames, delivered>>
  BY DEF Lose, Duplicate, senderVars, handlerVars
<1>3. SenderTypes' /\ FrameTypes'
  <2>1. SenderTypes /\ FrameTypes
    BY DEF TInv
  <2> QED BY <1>2, <2>1 DEF SenderTypes, FrameTypes, InfoOK
<1>4. NetTypes'
  <2>1. CASE Lose(i)
    <3>1. net' = RemoveAt(net, i) /\ lost < network.losses /\ lost' = lost + 1
          /\ duplicated' = duplicated
      BY <2>1 DEF Lose
    <3>2. net' \in Seq(InFlight(Len(pushed)))
      BY <1>1, <3>1, Removed
    <3> QED BY <1>1, <1>2, <3>1, <3>2 DEF NetTypes
  <2>2. CASE Duplicate(i)
    <3>1. net' = InsertAt(net, i, net[i]) /\ duplicated < network.copies
          /\ duplicated' = duplicated + 1 /\ lost' = lost
      BY <2>2 DEF Duplicate
    <3>2. net[i] \in InFlight(Len(pushed))
      BY <1>1, ElementOfSeq
    <3>3. net' \in Seq(InFlight(Len(pushed)))
      BY <1>1, <3>1, <3>2, Inserted
    <3> QED BY <1>1, <1>2, <3>1, <3>3 DEF NetTypes
  <2> QED BY <2>1, <2>2
<1> QED BY <1>3, <1>4 DEF TInv

\* The payloads that a packet hands over.
LEMMA Handled ==
  ASSUME TInv, NEW i \in 1..Len(net), Arrive(i)
  PROVE  /\ net[i] \in InFlight(Len(pushed))
         /\ \/ delivered' = delivered
            \/ \E d : d.ts = net[i].ts /\ delivered' = Append(delivered, d)
         /\ DOMAIN frames' \subseteq DOMAIN frames \cup {net[i].ts}
         /\ \A t \in DOMAIN frames' : InfoOK(frames'[t])
         /\ \A t \in 1..Len(pushed) : t # net[i].ts =>
              /\ t \in DOMAIN frames' <=> t \in DOMAIN frames
              /\ t \in DOMAIN frames => frames'[t] = frames[t]
<1> DEFINE p == net[i]
           info == AddFragment(frames[p.ts], p)
<1>1. p \in InFlight(Len(pushed)) /\ SeqSpace \in Nat
  BY ElementOfSeq DEF TInv, NetTypes, SenderTypes
<1>2. \A t \in DOMAIN frames : InfoOK(frames[t])
  BY DEF TInv, FrameTypes
<1>3. OpenFrame(p) \/ SinglePacket(p) \/ KeepFragment(p) \/ CompleteFrame(p)
  BY DEF Arrive
<1>4. p.seq \in 0..SeqSpace - 1
  BY <1>1 DEF InFlight
<1> HIDE DEF p
<1>5. CASE OpenFrame(p)
  <2> DEFINE new == [npkts |-> 1, size |-> 1, s_seq |-> p.seq, e_seq |-> INVALID_SEQ,
                     fragments |-> [k \in {p.seq} |-> p.frag]]
  <2>1. delivered' = delivered
        /\ frames' = [t \in DOMAIN frames \cup {p.ts} |-> IF t = p.ts THEN new ELSE frames[t]]
    BY <1>5 DEF OpenFrame
  <2>2. InfoOK(new)
    BY <1>4, OpenedInfo
  <2> HIDE DEF new
  <2>3. \A t \in DOMAIN frames' : InfoOK(frames'[t])
    BY <1>2, <2>1, <2>2
  <2> QED BY <1>1, <2>1, <2>3 DEF p
<1>6. CASE SinglePacket(p)
  <2>1. frames' = frames
        /\ delivered' = Append(delivered, [ts |-> p.ts, payload |-> <<p.frag>>, size |-> 1])
    BY <1>6 DEF SinglePacket
  <2>2. \E d : d.ts = p.ts /\ delivered' = Append(delivered, d)
    BY <2>1
  <2> QED BY <1>1, <1>2, <2>1, <2>2 DEF p
<1>7. CASE KeepFragment(p)
  <2>1. p.ts \in DOMAIN frames /\ delivered' = delivered
        /\ frames' = [frames EXCEPT ![p.ts] = info]
    BY <1>7 DEF KeepFragment, Known
  <2>2. InfoOK(info)
    BY <1>1, <1>2, <2>1, AddedInfo DEF p
  <2> HIDE DEF info
  <2>3. \A t \in DOMAIN frames' : InfoOK(frames'[t])
    BY <1>2, <2>1, <2>2
  <2> QED BY <1>1, <2>1, <2>3 DEF p
<1>8. CASE CompleteFrame(p)
  <2>1. frames' = [t \in DOMAIN frames \ {p.ts} |-> frames[t]]
        /\ delivered' = Append(delivered, [ts |-> p.ts, payload |-> Concat(info),
                                           size |-> info.size])
    BY <1>8 DEF CompleteFrame
  <2>2. \E d : d.ts = p.ts /\ delivered' = Append(delivered, d)
    BY <2>1
  <2>3. \A t \in DOMAIN frames' : InfoOK(frames'[t])
    BY <1>2, <2>1
  <2> QED BY <1>1, <2>1, <2>2, <2>3 DEF p
<1> QED BY <1>3, <1>5, <1>6, <1>7, <1>8

LEMMA ArriveTypes == ASSUME TInv, NEW i \in 1..Len(net), Arrive(i) PROVE TInv'
<1>1. net \in Seq(InFlight(Len(pushed))) /\ arrived \in Seq(SUBSET Nat)
      /\ Len(arrived) = Len(pushed) /\ DOMAIN frames \subseteq 1..Len(pushed)
  BY DEF TInv, NetTypes, SenderTypes, FrameTypes
<1>2. net' = RemoveAt(net, i)
      /\ arrived' = [arrived EXCEPT ![net[i].ts] = @ \cup {net[i].frag}]
      /\ seq' = seq /\ pushed' = pushed /\ network' = network
      /\ lost' = lost /\ duplicated' = duplicated
  BY DEF Arrive, senderVars, faultVars
<1>3. net[i].ts \in 1..Len(pushed) /\ net[i].frag \in Nat
  BY Handled DEF InFlight
<1>4. SenderTypes'
  <2>1. arrived[net[i].ts] \in SUBSET Nat
    BY <1>1, <1>3, ElementOfSeq
  <2>2. arrived[net[i].ts] \cup {net[i].frag} \in SUBSET Nat
    BY <1>3, <2>1
  <2>3. arrived' \in Seq(SUBSET Nat) /\ Len(arrived') = Len(arrived)
    BY <1>1, <1>2, <1>3, <2>2, ExceptSeq
  <2> QED BY <1>2, <2>3 DEF TInv, SenderTypes
<1>5. NetTypes'
  <2>1. RemoveAt(net, i) \in Seq(InFlight(Len(pushed)))
    BY <1>1, Removed
  <2> QED BY <1>2, <2>1 DEF TInv, NetTypes
<1>6. FrameTypes'
  <2>1. DOMAIN frames' \subseteq 1..Len(pushed')
    BY <1>1, <1>2, <1>3, Handled
  <2>2. \A t \in DOMAIN frames' : InfoOK(frames'[t])
    BY Handled
  <2>3. \A t \in DOMAIN frames' : InfoOK(frames[t])'
    BY <2>2 DEF InfoOK
  <2>4. \E D : delivered' \in Seq(D)
    <3>1. PICK D : delivered \in Seq(D)
      BY DEF TInv, FrameTypes
    <3>2. CASE delivered' = delivered
      BY <3>1, <3>2
    <3>3. ASSUME NEW d, delivered' = Append(delivered, d) PROVE \E E : delivered' \in Seq(E)
      BY <3>1, <3>3, Appended
    <3> QED BY <3>2, <3>3, Handled
  <2> QED BY <2>1, <2>3, <2>4 DEF FrameTypes
<1> QED BY <1>4, <1>5, <1>6 DEF TInv

LEMMA NextTypes == ASSUME TInv, [Next]_vars PROVE TInv'
<1>1. ASSUME NEW n \in Sizes, PushFrame(n) PROVE TInv'
  BY <1>1, PushTypes
<1>2. ASSUME NEW i \in 1..Len(net), Arrive(i) PROVE TInv'
  BY <1>2, ArriveTypes
<1>3. ASSUME NEW i \in 1..Len(net), Lose(i) \/ Duplicate(i) PROVE TInv'
  BY <1>3, FaultTypes
<1>4. CASE UNCHANGED vars
  BY <1>4 DEF vars, TInv, SenderTypes, NetTypes, FrameTypes, InfoOK
<1> QED BY <1>1, <1>2, <1>3, <1>4 DEF Next

\* The types of the sender's and the handler's state hold over any network,
\* copies and reordering included.
THEOREM TypeCorrect == Spec => []TypeOK
<1>1. Init => TInv
  BY InitTypes
<1>2. TInv /\ [Next]_vars => TInv'
  BY NextTypes
<1>3. TInv => TypeOK
  BY TypesImplyTypeOK
<1> QED BY <1>1, <1>2, <1>3, PTL DEF Spec

-----------------------------------------------------------------------------
(* What the network holds and what the handler knows, when nothing is copied *)
(* and first[f] is the number of the first packet of frame f                 *)

\* The packets in flight are fragments of their frames, numbered and marked.
Numbered(first) ==
  \A i \in 1..Len(net) :
    /\ net[i].frag \in 1..pushed[net[i].ts]
    /\ net[i].seq = Num(first[net[i].ts], net[i].frag)
    /\ net[i].marker <=> net[i].frag = pushed[net[i].ts]

Fresh == \A i \in 1..Len(net) : net[i].frag \notin arrived[net[i].ts]

Ordered ==
  \A i, j \in 1..Len(net) :
    i < j /\ net[i].ts = net[j].ts => net[i].frag < net[j].frag

\* The first fragment of a frame arrives before the others or not at all.
FirstFirst ==
  \A f \in 1..Len(pushed) :
    arrived[f] # {} /\ 1 \notin arrived[f] =>
      \A i \in 1..Len(net) : ~(net[i].ts = f /\ net[i].frag = 1)

NoneLost ==
  network.losses = 0 =>
    \A f \in 1..Len(pushed) : \A j \in 1..pushed[f] :
      j \in arrived[f] \/ \E i \in 1..Len(net) : net[i].ts = f /\ net[i].frag = j

NotHanded(f) == \A k \in 1..Len(delivered) : delivered[k].ts # f

HandedOver(f) ==
  \E k \in 1..Len(delivered) :
    /\ delivered[k].ts = f /\ Intact(delivered[k])
    /\ \A l \in 1..Len(delivered) : delivered[l].ts = f => l = k

\* A frame whose first fragment has arrived is under reassembly, with exactly
\* what has arrived, until it is complete; then it has been handed over, once.
FrameInv(first, f) ==
  /\ arrived[f] = {} => f \notin DOMAIN frames /\ NotHanded(f)
  /\ 1 \in arrived[f] /\ arrived[f] = 1..pushed[f] =>
       f \notin DOMAIN frames /\ HandedOver(f)
  /\ 1 \in arrived[f] /\ arrived[f] # 1..pushed[f] =>
       /\ f \in DOMAIN frames
       /\ frames[f] = StateOf(first[f], pushed[f], arrived[f])
       /\ NotHanded(f)

ArrivedKnown ==
  /\ \A f \in 1..Len(pushed) : arrived[f] \subseteq 1..pushed[f]
  /\ \A k \in 1..Len(delivered) : delivered[k].ts \in 1..Len(pushed)

CInv(first) ==
  /\ first \in [1..Len(pushed) -> 0..SeqSpace - 1]
  /\ Numbered(first) /\ Fresh /\ Ordered /\ FirstFirst /\ NoneLost /\ ArrivedKnown
  /\ \A f \in 1..Len(pushed) : FrameInv(first, f)

FirstNumbers == [1..Len(pushed) -> 0..SeqSpace - 1]

IInv == TInv /\ (network.copies = 0 => \E first \in FirstNumbers : CInv(first))

\* What the types say of a packet in flight and of its frame.
LEMMA PacketTypes ==
  ASSUME TInv
  PROVE  /\ SeqSpace \in Nat /\ Len(net) \in Nat /\ Len(pushed) \in Nat
         /\ Len(delivered) \in Nat /\ Len(arrived) = Len(pushed)
         /\ \A f \in 1..Len(pushed) :
              pushed[f] \in 1..SeqSpace - 1 /\ pushed[f] \in Nat /\ arrived[f] \in SUBSET Nat
         /\ \A i \in 1..Len(net) :
              net[i].ts \in 1..Len(pushed) /\ net[i].frag \in Nat /\ net[i] \in InFlight(Len(pushed))
<1>1. /\ net \in Seq(InFlight(Len(pushed))) /\ pushed \in Seq(Sizes)
      /\ arrived \in Seq(SUBSET Nat) /\ Len(arrived) = Len(pushed)
      /\ SeqSpace \in Nat /\ \E D : delivered \in Seq(D)
  BY DEF TInv, NetTypes, SenderTypes, FrameTypes
<1>2. Len(net) \in Nat /\ Len(pushed) \in Nat /\ Len(delivered) \in Nat
  BY <1>1, LenProperties
<1>3. ASSUME NEW f \in 1..Len(pushed)
      PROVE  pushed[f] \in 1..SeqSpace - 1 /\ pushed[f] \in Nat /\ arrived[f] \in SUBSET Nat
  <2>1. pushed[f] \in Sizes /\ arrived[f] \in SUBSET Nat
    BY <1>1, <1>2, ElementOfSeq
  <2>2. pushed[f] \in 1..SeqSpace - 1
    BY <2>1, SizeAssumption
  <2>3. pushed[f] \in Nat
    BY <1>1, <2>2
  <2> QED BY <2>1, <2>2, <2>3
<1>4. ASSUME NEW i \in 1..Len(net)
      PROVE  net[i].ts \in 1..Len(pushed) /\ net[i].frag \in Nat /\ net[i] \in InFlight(Len(pushed))
  <2>1. net[i] \in InFlight(Len(pushed))
    BY <1>1, ElementOfSeq
  <2> QED BY <2>1 DEF InFlight
<1> QED BY <1>1, <1>2, <1>3, <1>4

\* A packet taken out of the network leaves the others in their order.
LEMMA Thinned ==
  ASSUME TInv, NEW i \in 1..Len(net), net' = RemoveAt(net, i)
  PROVE  \E pos \in [1..Len(net') -> 1..Len(net)] :
           /\ Len(net') \in Nat
           /\ \A k \in 1..Len(net') : pos[k] # i /\ net'[k] = net[pos[k]]
           /\ \A k, l \in 1..Len(net') : k < l => pos[k] < pos[l]
           /\ \A m \in 1..Len(net) : m # i => \E k \in 1..Len(net') : pos[k] = m
<1>1. net \in Seq(InFlight(Len(pushed))) /\ Len(net) \in Nat
  BY PacketTypes DEF TInv, NetTypes
<1>2. Len(net') = Len(net) - 1
      /\ \A k \in 1..(Len(net) - 1) : net'[k] = net[IF k < i THEN k ELSE k + 1]
  BY <1>1, Removed
<1> DEFINE pos == [k \in 1..Len(net') |-> IF k < i THEN k ELSE k + 1]
<1>3. pos \in [1..Len(net') -> 1..Len(net)]
  BY <1>1, <1>2
<1>4. \A k \in 1..Len(net') : pos[k] # i /\ net'[k] = net[pos[k]]
  BY <1>1, <1>2
<1>5. \A k, l \in 1..Len(net') : k < l => pos[k] < pos[l]
  BY <1>1, <1>2
<1>6. ASSUME NEW m \in 1..Len(net), m # i PROVE \E k \in 1..Len(net') : pos[k] = m
  <2>1. CASE m < i
    <3>1. m \in 1..Len(net') /\ pos[m] = m
      BY <1>1, <1>2, <2>1
    <3> QED BY <3>1
  <2>2. CASE m > i
    <3>1. m - 1 \in 1..Len(net') /\ pos[m - 1] = m
      BY <1>1, <1>2, <2>2
    <3> QED BY <3>1
  <2> QED BY <1>1, <1>6, <2>1, <2>2
<1>7. Len(net') \in Nat
  BY <1>1, <1>2
<1> HIDE DEF pos
<1> QED BY <1>3, <1>4, <1>5, <1>6, <1>7

LEMMA InitCorrect == ASSUME Init PROVE IInv
<1>1. TInv
  BY InitTypes
<1>2. pushed = <<>> /\ Len(pushed) = 0 /\ net = <<>> /\ Len(net) = 0
      /\ delivered = <<>> /\ Len(delivered) = 0
  BY EmptySeq DEF Init
<1> DEFINE none == [f \in 1..Len(pushed) |-> 0]
<1>3. 1..Len(pushed) = {}
  BY <1>2
<1>4. none \in FirstNumbers
  BY <1>3 DEF FirstNumbers
<1> HIDE DEF none
<1>5. CInv(none)
  BY <1>2, <1>3, <1>4
     DEF CInv, FirstNumbers, Numbered, Fresh, Ordered, FirstFirst, NoneLost, ArrivedKnown
<1> QED BY <1>1, <1>4, <1>5 DEF IInv

LEMMA LoseCorrect ==
  ASSUME TInv, NEW first \in FirstNumbers, CInv(first), NEW i \in 1..Len(net), Lose(i)
  PROVE  first \in FirstNumbers' /\ CInv(first)'
<1>1. /\ net' = RemoveAt(net, i) /\ lost < network.losses /\ network' = network
      /\ pushed' = pushed /\ frames' = frames /\ delivered' = delivered /\ arrived' = arrived
  BY DEF Lose, senderVars, handlerVars
<1>2. PICK pos \in [1..Len(net') -> 1..Len(net)] :
        /\ \A k \in 1..Len(net') : pos[k] # i /\ net'[k] = net[pos[k]]
        /\ \A k, l \in 1..Len(net') : k < l => pos[k] < pos[l]
  BY <1>1, Thinned
<1>3. \A k \in 1..Len(net') : pos[k] \in 1..Len(net) /\ net'[k] = net[pos[k]]
  BY <1>2
<1>4. Numbered(first)'
  BY <1>1, <1>3 DEF CInv, Numbered
<1>5. Fresh'
  BY <1>1, <1>3 DEF CInv, Fresh
<1>6. Ordered'
  <2>1. ASSUME NEW k \in 1..Len(net'), NEW l \in 1..Len(net'), k < l, net'[k].ts = net'[l].ts
        PROVE  net'[k].frag < net'[l].frag
    <3>1. pos[k] \in 1..Len(net) /\ pos[l] \in 1..Len(net) /\ pos[k] < pos[l]
          /\ net'[k] = net[pos[k]] /\ net'[l] = net[pos[l]]
      BY <1>2, <2>1
    <3> QED BY <2>1, <3>1 DEF CInv, Ordered
  <2> QED BY <2>1 DEF Ordered
<1>7. FirstFirst'
  BY <1>1, <1>3 DEF CInv, FirstFirst
<1>8. NoneLost'
  <2>1. network.losses # 0
    BY <1>1 DEF TInv, NetTypes
  <2> QED BY <1>1, <2>1 DEF NoneLost
<1>9. ArrivedKnown' /\ \A f \in 1..Len(pushed') : FrameInv(first, f)'
  <2>1. ArrivedKnown'
    BY <1>1 DEF CInv, ArrivedKnown
  <2>2. ASSUME NEW f \in 1..Len(pushed) PROVE FrameInv(first, f)'
    <3>1. FrameInv(first, f)
      BY DEF CInv
    <3>2. NotHanded(f)' <=> NotHanded(f)
      BY <1>1 DEF NotHanded
    <3>3. HandedOver(f)' <=> HandedOver(f)
      BY <1>1 DEF HandedOver, Intact
    <3> QED BY <1>1, <3>1, <3>2, <3>3 DEF FrameInv
  <2> QED BY <1>1, <2>1, <2>2
<1>10. first \in FirstNumbers'
  BY <1>1 DEF FirstNumbers
<1> QED BY <1>4, <1>5, <1>6, <1>7, <1>8, <1>9, <1>10 DEF CInv, FirstNumbers

\* What PushFrame adds: a frame that nothing is known of, and its packets
\* behind all others.
LEMMA PushEffect ==
  ASSUME TInv, NEW n \in Sizes, PushFrame(n)
  PROVE  /\ Len(pushed) \in Nat /\ n \in 1..SeqSpace - 1 /\ n \in Nat /\ SeqSpace \in Nat
         /\ seq \in 0..SeqSpace - 1 /\ Len(net) \in Nat
         /\ network' = network /\ duplicated' = duplicated
         /\ frames' = frames /\ delivered' = delivered
         /\ Len(pushed') = Len(pushed) + 1 /\ pushed'[Len(pushed) + 1] = n
         /\ arrived'[Len(pushed) + 1] = {} /\ Len(pushed) + 1 \notin DOMAIN frames
         /\ \A f \in 1..Len(pushed) : pushed'[f] = pushed[f] /\ arrived'[f] = arrived[f]
         /\ Len(net') = Len(net) + n
         /\ \A i \in 1..Len(net) : net'[i] = net[i] /\ net[i].ts \in 1..Len(pushed)
         /\ \A i \in 1..Len(net') : i > Len(net) =>
              /\ i - Len(net) \in 1..n
              /\ net'[i].ts = Len(pushed) + 1 /\ net'[i].frag = i - Len(net)
              /\ net'[i].seq = Num(seq, i - Len(net)) /\ (net'[i].marker <=> i - Len(net) = n)
<1> DEFINE N == Len(pushed)
<1>1. /\ N \in Nat /\ n \in 1..SeqSpace - 1 /\ n \in Nat /\ SeqSpace \in Nat
      /\ seq \in 0..SeqSpace - 1 /\ Len(net) \in Nat
  BY PacketTypes, SentFragments DEF TInv, SenderTypes
<1>2. /\ pushed' = Append(pushed, n) /\ net' = net \o Fragments(n)
      /\ arrived' = Append(arrived, {}) /\ network' = network /\ duplicated' = duplicated
      /\ frames' = frames /\ delivered' = delivered
  BY DEF PushFrame, faultVars
<1>3. Len(pushed') = N + 1 /\ pushed'[N + 1] = n /\ \A f \in 1..N : pushed'[f] = pushed[f]
  <2>1. pushed \in Seq(Sizes)
    BY DEF TInv, SenderTypes
  <2> QED BY <1>1, <1>2, <2>1, AppendProperties
<1>4. arrived'[N + 1] = {} /\ \A f \in 1..N : arrived'[f] = arrived[f]
  <2>1. arrived \in Seq(SUBSET Nat) /\ Len(arrived) = N
    BY DEF TInv, SenderTypes
  <2>2. {} \in SUBSET Nat
    OBVIOUS
  <2> QED BY <1>1, <1>2, <2>1, <2>2, AppendProperties
<1>5. /\ Len(net') = Len(net) + n
      /\ \A i \in 1..Len(net) : net'[i] = net[i]
      /\ \A i \in 1..Len(net') : i > Len(net) =>
           /\ i - Len(net) \in 1..n
           /\ net'[i] = Fragments(n)[i - Len(net)]
  <2>1. InFlight(N) \subseteq InFlight(N + 1)
    BY <1>1 DEF InFlight
  <2>2. net \in Seq(InFlight(N))
    BY DEF TInv, NetTypes
  <2>3. net \in Seq(InFlight(N + 1))
    BY <2>1, <2>2, SeqMonotonic
  <2>4. Fragments(n) \in Seq(InFlight(N + 1)) /\ Len(Fragments(n)) = n
    BY SentFragments
  <2>5. Len(net') = Len(net) + n
        /\ \A i \in 1..(Len(net) + n) :
             net'[i] = IF i <= Len(net) THEN net[i] ELSE Fragments(n)[i - Len(net)]
    BY <1>2, <2>3, <2>4, ConcatProperties
  <2> QED BY <1>1, <2>5
<1>6. \A i \in 1..Len(net) : net[i].ts \in 1..N
  BY PacketTypes
<1>7. \A i \in 1..Len(net') : i > Len(net) =>
        /\ net'[i].ts = N + 1 /\ net'[i].frag = i - Len(net)
        /\ net'[i].seq = Num(seq, i - Len(net)) /\ (net'[i].marker <=> i - Len(net) = n)
  BY <1>5, SentFragments
<1>8. N + 1 \notin DOMAIN frames
  BY <1>1 DEF TInv, FrameTypes
<1> QED BY <1>1, <1>2, <1>3, <1>4, <1>5, <1>6, <1>7, <1>8

\* The number of the first packet of the new frame is the sender's next.
LEMMA PushNumbers ==
  ASSUME TInv, NEW first \in FirstNumbers, Numbered(first), NEW n \in Sizes, PushFrame(n)
  PROVE  \E g \in FirstNumbers' :
           /\ g[Len(pushed) + 1] = seq /\ \A f \in 1..Len(pushed) : g[f] = first[f]
           /\ Numbered(g)'
<1> DEFINE N == Len(pushed)
<1>1. /\ N \in Nat /\ n \in Nat /\ seq \in 0..SeqSpace - 1 /\ Len(net) \in Nat
      /\ Len(pushed') = N + 1 /\ pushed'[N + 1] = n /\ \A f \in 1..N : pushed'[f] = pushed[f]
      /\ Len(net') = Len(net) + n
  BY PushEffect
<1>2. \A i \in 1..Len(net) : net'[i] = net[i] /\ net[i].ts \in 1..N
  BY PushEffect
<1>3. \A i \in 1..Len(net') : i > Len(net) =>
        /\ i - Len(net) \in 1..n
        /\ net'[i].ts = N + 1 /\ net'[i].frag = i - Len(net)
        /\ net'[i].seq = Num(seq, i - Len(net)) /\ (net'[i].marker <=> i - Len(net) = n)
  BY PushEffect
<1>4. PICK g \in [1..N + 1 -> 0..SeqSpace - 1] :
        g[N + 1] = seq /\ \A f \in 1..N : g[f] = first[f]
  <2> DEFINE h == [f \in 1..N + 1 |-> IF f <= N THEN first[f] ELSE seq]
  <2>1. h \in [1..N + 1 -> 0..SeqSpace - 1] /\ h[N + 1] = seq /\ \A f \in 1..N : h[f] = first[f]
    BY <1>1 DEF FirstNumbers
  <2> HIDE DEF h
  <2> QED BY <2>1
<1>5. Numbered(g)'
  <2>1. ASSUME NEW i \in 1..Len(net')
        PROVE  /\ net'[i].frag \in 1..pushed'[net'[i].ts]
               /\ net'[i].seq = Num(g[net'[i].ts], net'[i].frag)
               /\ net'[i].marker <=> net'[i].frag = pushed'[net'[i].ts]
    <3>1. CASE i \in 1..Len(net)
      <4>1. net'[i] = net[i] /\ net[i].ts \in 1..N
        BY <1>2, <3>1
      <4>2. pushed'[net[i].ts] = pushed[net[i].ts] /\ g[net[i].ts] = first[net[i].ts]
        BY <1>1, <1>4, <4>1
      <4> QED BY <3>1, <4>1, <4>2 DEF Numbered
    <3>2. CASE i > Len(net)
      <4>1. /\ net'[i].ts = N + 1 /\ net'[i].frag = i - Len(net)
            /\ net'[i].seq = Num(seq, i - Len(net)) /\ (net'[i].marker <=> i - Len(net) = n)
            /\ i - Len(net) \in 1..n
        BY <1>3, <3>2
      <4>2. pushed'[net'[i].ts] = n /\ g[net'[i].ts] = seq
        BY <1>1, <1>4, <4>1
      <4> QED BY <4>1, <4>2
    <3> QED BY <1>1, <3>1, <3>2
  <2> QED BY <2>1 DEF Numbered
<1>6. g \in FirstNumbers'
  BY <1>1, <1>4 DEF FirstNumbers
<1> QED BY <1>4, <1>5, <1>6

\* A frame pushed begins at the sender's next number; its packets are behind
\* all others.
LEMMA PushCorrect ==
  ASSUME TInv, NEW first \in FirstNumbers, CInv(first), NEW n \in Sizes, PushFrame(n)
  PROVE  \E g \in FirstNumbers' : CInv(g)'
<1> DEFINE N == Len(pushed)
<1>1. /\ N \in Nat /\ n \in 1..SeqSpace - 1 /\ n \in Nat /\ SeqSpace \in Nat
      /\ seq \in 0..SeqSpace - 1 /\ Len(net) \in Nat
  BY PushEffect
<1>2. network' = network /\ frames' = frames /\ delivered' = delivered
  BY PushEffect
<1>3. Len(pushed') = N + 1 /\ pushed'[N + 1] = n /\ \A f \in 1..N : pushed'[f] = pushed[f]
  BY PushEffect
<1>4. arrived'[N + 1] = {} /\ \A f \in 1..N : arrived'[f] = arrived[f]
  BY PushEffect
<1>5. /\ Len(net') = Len(net) + n
      /\ \A i \in 1..Len(net) : net'[i] = net[i]
      /\ \A i \in 1..Len(net') : i > Len(net) => i - Len(net) \in 1..n
  BY PushEffect
<1>6. \A i \in 1..Len(net) : net[i].ts \in 1..N /\ net[i].ts # N + 1
  BY <1>1, PacketTypes
<1>7. \A i \in 1..Len(net') : i > Len(net) =>
        net'[i].ts = N + 1 /\ net'[i].frag = i - Len(net)
  BY PushEffect
<1>8. PICK g \in FirstNumbers' : (\A f \in 1..N : g[f] = first[f]) /\ Numbered(g)'
  BY PushNumbers DEF CInv
<1>9. Numbered(g)'
  BY <1>8
<1>10. Fresh'
  <2>1. ASSUME NEW i \in 1..Len(net') PROVE net'[i].frag \notin arrived'[net'[i].ts]
    <3>1. CASE i \in 1..Len(net)
      <4>1. net'[i] = net[i] /\ net[i].ts \in 1..N
        BY <1>5, <1>6, <3>1
      <4>2. arrived'[net[i].ts] = arrived[net[i].ts]
        BY <1>4, <4>1
      <4> QED BY <3>1, <4>1, <4>2 DEF CInv, Fresh
    <3>2. CASE i > Len(net)
      <4>1. net'[i].ts = N + 1
        BY <1>7, <3>2
      <4> QED BY <1>4, <4>1
    <3> QED BY <1>1, <1>5, <3>1, <3>2
  <2> QED BY <2>1 DEF Fresh
<1>11. Ordered'
  <2>1. ASSUME NEW i \in 1..Len(net'), NEW j \in 1..Len(net'), i < j, net'[i].ts = net'[j].ts
        PROVE  net'[i].frag < net'[j].frag
    <3>1. CASE j \in 1..Len(net)
      <4>1. i \in 1..Len(net)
        BY <1>1, <2>1, <3>1
      <4>2. net'[i] = net[i] /\ net'[j] = net[j]
        BY <1>5, <3>1, <4>1
      <4> QED BY <2>1, <3>1, <4>1, <4>2 DEF CInv, Ordered
    <3>2. CASE j > Len(net)
      <4>1. net'[j].ts = N + 1 /\ net'[j].frag = j - Len(net)
        BY <1>7, <3>2
      <4>2. i > Len(net)
        <5>1. SUFFICES ASSUME i \in 1..Len(net) PROVE FALSE
          BY <1>1, <1>5
        <5>2. net'[i] = net[i] /\ net[i].ts # N + 1
          BY <1>5, <1>6, <5>1
        <5> QED BY <2>1, <4>1, <5>2
      <4>3. net'[i].frag = i - Len(net)
        BY <1>7, <4>2
      <4> QED BY <1>1, <1>5, <2>1, <4>1, <4>3
    <3> QED BY <1>1, <1>5, <3>1, <3>2
  <2> QED BY <2>1 DEF Ordered
<1>12. FirstFirst'
  <2>1. ASSUME NEW f \in 1..N + 1, arrived'[f] # {}, 1 \notin arrived'[f],
               NEW i \in 1..Len(net'), net'[i].ts = f, net'[i].frag = 1
        PROVE  FALSE
    <3>1. f \in 1..N /\ f # N + 1
      BY <1>1, <1>4, <2>1
    <3>2. i \in 1..Len(net)
      <4>1. ~(i > Len(net))
        BY <1>7, <2>1, <3>1
      <4> QED BY <1>1, <1>5, <4>1
    <3>3. net'[i] = net[i] /\ arrived'[f] = arrived[f]
      BY <1>4, <1>5, <3>1, <3>2
    <3> QED BY <2>1, <3>1, <3>2, <3>3 DEF CInv, FirstFirst
  <2> QED BY <1>3, <2>1 DEF FirstFirst
<1>13. NoneLost'
  <2>1. ASSUME network.losses = 0, NEW f \in 1..N + 1, NEW j \in 1..pushed'[f], j \notin arrived'[f]
        PROVE  \E i \in 1..Len(net') : net'[i].ts = f /\ net'[i].frag = j
    <3>1. CASE f \in 1..N
      <4>1. pushed'[f] = pushed[f] /\ arrived'[f] = arrived[f]
        BY <1>3, <1>4, <3>1
      <4>2. PICK i \in 1..Len(net) : net[i].ts = f /\ net[i].frag = j
        BY <2>1, <3>1, <4>1 DEF CInv, NoneLost
      <4>3. i \in 1..Len(net') /\ net'[i] = net[i]
        BY <1>1, <1>5
      <4> QED BY <4>2, <4>3
    <3>2. CASE f = N + 1
      <4>1. j \in 1..n
        BY <1>3, <3>2
      <4>2. Len(net) + j \in 1..Len(net') /\ Len(net) + j > Len(net) /\ Len(net) + j - Len(net) = j
        BY <1>1, <1>5, <4>1
      <4>3. net'[Len(net) + j].ts = N + 1 /\ net'[Len(net) + j].frag = j
        BY <1>7, <4>2
      <4> QED BY <3>2, <4>2, <4>3
    <3> QED BY <1>1, <3>1, <3>2
  <2>2. network'.losses = 0 =>
          \A f \in 1..Len(pushed') : \A j \in 1..pushed'[f] :
            j \in arrived'[f] \/ \E i \in 1..Len(net') : net'[i].ts = f /\ net'[i].frag = j
    <3>1. Len(pushed') = N + 1 /\ network'.losses = network.losses
      BY <1>2, <1>3
    <3> HIDE DEF N
    <3> QED BY <2>1, <3>1
  <2> QED BY <2>2 DEF NoneLost
<1>14. ArrivedKnown'
  <2>1. ASSUME NEW f \in 1..N + 1 PROVE arrived'[f] \subseteq 1..pushed'[f]
    <3>1. CASE f \in 1..N
      BY <1>3, <1>4, <3>1 DEF CInv, ArrivedKnown
    <3>2. CASE f = N + 1
      BY <1>4, <3>2
    <3> QED BY <1>1, <3>1, <3>2
  <2>2. ASSUME NEW k \in 1..Len(delivered) PROVE delivered[k].ts \in 1..N + 1
    BY <1>1 DEF CInv, ArrivedKnown
  <2> QED BY <1>2, <1>3, <2>1, <2>2 DEF ArrivedKnown
<1>15. ASSUME NEW f \in 1..N + 1 PROVE FrameInv(g, f)'
  <2>1. CASE f \in 1..N
    <3>1. FrameInv(first, f)
      BY <2>1 DEF CInv
    <3>2. pushed'[f] = pushed[f] /\ arrived'[f] = arrived[f] /\ g[f] = first[f]
      BY <1>3, <1>4, <1>8, <2>1
    <3>3. NotHanded(f)' <=> NotHanded(f)
      BY <1>2 DEF NotHanded
    <3>4. ASSUME NEW k \in 1..Len(delivered), delivered[k].ts = f
          PROVE  Intact(delivered[k])' <=> Intact(delivered[k])
      BY <1>2, <3>2, <3>4 DEF Intact
    <3>5. HandedOver(f)' <=> HandedOver(f)
      BY <1>2, <3>4 DEF HandedOver
    <3> QED BY <1>2, <3>1, <3>2, <3>3, <3>5 DEF FrameInv
  <2>2. CASE f = N + 1
    <3>1. f \notin DOMAIN frames
      BY <1>1, <2>2 DEF TInv, FrameTypes
    <3>2. NotHanded(f)
      BY <1>1, <2>2 DEF CInv, ArrivedKnown, NotHanded
    <3>3. NotHanded(f)'
      BY <1>2, <3>2 DEF NotHanded
    <3> QED BY <1>2, <1>4, <2>2, <3>1, <3>3 DEF FrameInv
  <2> QED BY <1>1, <2>1, <2>2
<1>16. g \in FirstNumbers'
  BY <1>8
<1>17. CInv(g)'
  BY <1>3, <1>9, <1>10, <1>11, <1>12, <1>13, <1>14, <1>15, <1>16 DEF CInv, FirstNumbers
<1> QED BY <1>16, <1>17

-----------------------------------------------------------------------------
(* A packet arrives *)

\* What the arrival of packet i changes besides the frames.
Arrival(i) ==
  /\ i \in 1..Len(net) /\ Arrive(i) /\ network.reordering # "any"

\* The other packets in flight, and what has arrived of every frame.
LEMMA ArrivalNet ==
  ASSUME TInv, NEW first \in FirstNumbers, CInv(first), NEW i, Arrival(i)
  PROVE  Numbered(first)' /\ Fresh' /\ Ordered' /\ FirstFirst' /\ NoneLost'
<1> DEFINE p == net[i]
<1>1. /\ net' = RemoveAt(net, i) /\ pushed' = pushed /\ network' = network
      /\ arrived' = [arrived EXCEPT ![net[i].ts] = @ \cup {net[i].frag}]
      /\ i \in 1..Len(net) /\ MayArrive(i) /\ network.reordering # "any"
  BY DEF Arrival, Arrive, senderVars, faultVars
<1>2. PICK pos \in [1..Len(net') -> 1..Len(net)] :
        /\ Len(net') \in Nat
        /\ \A k \in 1..Len(net') : pos[k] # i /\ net'[k] = net[pos[k]]
        /\ \A k, l \in 1..Len(net') : k < l => pos[k] < pos[l]
        /\ \A m \in 1..Len(net) : m # i => \E k \in 1..Len(net') : pos[k] = m
  BY <1>1, Thinned
<1>3. \A k \in 1..Len(net') : pos[k] \in 1..Len(net) /\ pos[k] # i /\ net'[k] = net[pos[k]]
  BY <1>2
<1>4. /\ p.ts \in 1..Len(pushed) /\ p.frag \in 1..pushed[p.ts] /\ p.frag \in Nat
      /\ Len(net) \in Nat /\ DOMAIN arrived = 1..Len(pushed)
      /\ \A m \in 1..Len(net) : net[m].ts \in 1..Len(pushed) /\ net[m].frag \in Nat
      /\ \A f \in 1..Len(pushed) : pushed[f] \in Nat
  <2>1. DOMAIN arrived = 1..Len(pushed)
    BY LenProperties DEF TInv, SenderTypes
  <2> QED BY <1>1, <2>1, PacketTypes DEF CInv, Numbered
<1>5. \A f \in 1..Len(pushed) :
        arrived'[f] = IF f = p.ts THEN arrived[f] \cup {p.frag} ELSE arrived[f]
  BY <1>1, <1>4
<1> HIDE DEF p
<1>6. Numbered(first)'
  BY <1>1, <1>3 DEF CInv, Numbered
<1>7. Fresh'
  <2>1. ASSUME NEW k \in 1..Len(net') PROVE net'[k].frag \notin arrived'[net'[k].ts]
    <3>1. PICK m \in 1..Len(net) : m # i /\ net'[k] = net[m]
      BY <1>3
    <3>2. net[m].frag \notin arrived[net[m].ts] /\ net[m].ts \in 1..Len(pushed)
      BY <1>4 DEF CInv, Fresh
    <3>3. net[m].ts = p.ts => net[m].frag # p.frag
      <4>1. m < i => (net[m].ts = p.ts => net[m].frag < p.frag)
        BY <1>1 DEF CInv, Ordered, p
      <4>2. i < m => (p.ts = net[m].ts => p.frag < net[m].frag)
        BY <1>1 DEF CInv, Ordered, p
      <4>3. m < i \/ i < m
        BY <1>1, <3>1
      <4>4. net[m].frag \in Nat /\ p.frag \in Nat
        BY <1>4
      <4> QED BY <4>1, <4>2, <4>3, <4>4
    <3> QED BY <1>5, <3>1, <3>2, <3>3
  <2> QED BY <2>1 DEF Fresh
<1>8. Ordered'
  <2>1. ASSUME NEW k \in 1..Len(net'), NEW l \in 1..Len(net'), k < l, net'[k].ts = net'[l].ts
        PROVE  net'[k].frag < net'[l].frag
    <3>1. pos[k] \in 1..Len(net) /\ pos[l] \in 1..Len(net) /\ pos[k] < pos[l]
          /\ net'[k] = net[pos[k]] /\ net'[l] = net[pos[l]]
      BY <1>2, <2>1
    <3> QED BY <2>1, <3>1 DEF CInv, Ordered
  <2> QED BY <2>1 DEF Ordered
<1>9. FirstFirst'
  <2>1. ASSUME NEW f \in 1..Len(pushed), arrived'[f] # {}, 1 \notin arrived'[f],
               NEW k \in 1..Len(net'), net'[k].ts = f, net'[k].frag = 1
        PROVE  FALSE
    <3>1. PICK m \in 1..Len(net) : m # i /\ net'[k] = net[m]
      BY <1>3
    <3>2. net[m].ts = f /\ net[m].frag = 1
      BY <2>1, <3>1
    <3>3. CASE f # p.ts
      BY <1>5, <2>1, <3>2, <3>3 DEF CInv, FirstFirst
    <3>4. CASE f = p.ts
      <4>1. p.frag # 1
        BY <1>5, <2>1, <3>4
      <4>2. ~(i < m)
        <5>1. i < m => p.frag < net[m].frag
          BY <1>1, <3>2, <3>4 DEF CInv, Ordered, p
        <5> QED BY <1>4, <3>2, <5>1
      <4>3. m < i
        BY <1>1, <3>1, <4>2
      <4>4. m \in 1..i - 1 /\ i # 1
        BY <1>1, <4>3
      <4>5. ~(net[m].ts = p.ts /\ net[m].frag = 1)
        BY <1>1, <4>4 DEF MayArrive, p
      <4> QED BY <3>2, <3>4, <4>5
    <3> QED BY <3>3, <3>4
  <2> QED BY <1>1, <2>1 DEF FirstFirst
<1>10. NoneLost'
  <2>1. ASSUME network.losses = 0, NEW f \in 1..Len(pushed), NEW j \in 1..pushed[f],
               j \notin arrived'[f]
        PROVE  \E k \in 1..Len(net') : net'[k].ts = f /\ net'[k].frag = j
    <3>1. j \notin arrived[f] /\ ~(f = p.ts /\ j = p.frag)
      BY <1>5, <2>1
    <3>2. PICK m \in 1..Len(net) : net[m].ts = f /\ net[m].frag = j
      BY <2>1, <3>1 DEF CInv, NoneLost
    <3>3. m # i
      BY <3>1, <3>2 DEF p
    <3>4. PICK k \in 1..Len(net') : pos[k] = m
      BY <1>2, <3>3
    <3> QED BY <1>3, <3>2, <3>4
  <2>2. network'.losses = 0 =>
          \A f \in 1..Len(pushed') : \A j \in 1..pushed'[f] :
            j \in arrived'[f] \/ \E k \in 1..Len(net') : net'[k].ts = f /\ net'[k].frag = j
    BY <1>1, <2>1
  <2> QED BY <2>2 DEF NoneLost
<1> QED BY <1>6, <1>7, <1>8, <1>9, <1>10

\* What is delivered of the other frames.
LEMMA ArrivalOthers ==
  ASSUME TInv, NEW first \in FirstNumbers, CInv(first), NEW i, Arrival(i)
  PROVE  /\ ArrivedKnown'
         /\ \A f \in 1..Len(pushed) : f # net[i].ts => FrameInv(first, f)'
<1> DEFINE p == net[i]
<1>1. /\ pushed' = pushed /\ i \in 1..Len(net)
      /\ arrived' = [arrived EXCEPT ![net[i].ts] = @ \cup {net[i].frag}]
  BY DEF Arrival, Arrive, senderVars
<1>2. p.ts \in 1..Len(pushed) /\ p.frag \in 1..pushed[p.ts] /\ DOMAIN arrived = 1..Len(pushed)
  <2>1. DOMAIN arrived = 1..Len(pushed)
    BY LenProperties DEF TInv, SenderTypes
  <2> QED BY <1>1, <2>1, PacketTypes DEF CInv, Numbered
<1>3. \A f \in 1..Len(pushed) :
        arrived'[f] = IF f = p.ts THEN arrived[f] \cup {p.frag} ELSE arrived[f]
  BY <1>1, <1>2
<1>4. Len(delivered) \in Nat
  BY PacketTypes
<1>5. \/ delivered' = delivered
      \/ \E d : /\ d.ts = p.ts /\ Len(delivered') = Len(delivered) + 1
                /\ delivered'[Len(delivered) + 1] = d
                /\ \A k \in 1..Len(delivered) : delivered'[k] = delivered[k]
  <2>1. CASE delivered' = delivered
    BY <2>1
  <2>2. ASSUME NEW d, d.ts = p.ts, delivered' = Append(delivered, d)
        PROVE  /\ Len(delivered') = Len(delivered) + 1
               /\ delivered'[Len(delivered) + 1] = d
               /\ \A k \in 1..Len(delivered) : delivered'[k] = delivered[k]
    <3>1. PICK D : delivered \in Seq(D)
      BY DEF TInv, FrameTypes
    <3>2. Len(Append(delivered, d)) = Len(delivered) + 1
          /\ \A k \in 1..(Len(delivered) + 1) :
               Append(delivered, d)[k] = IF k <= Len(delivered) THEN delivered[k] ELSE d
      BY <3>1, Appended
    <3> QED BY <1>4, <2>2, <3>2
  <2> QED BY <1>1, <2>1, <2>2, Handled DEF Arrival
<1>6. \A t \in 1..Len(pushed) : t # p.ts =>
        /\ t \in DOMAIN frames' <=> t \in DOMAIN frames
        /\ t \in DOMAIN frames => frames'[t] = frames[t]
  BY <1>1, Handled DEF Arrival
<1> HIDE DEF p
<1>7. ArrivedKnown'
  <2>1. ASSUME NEW f \in 1..Len(pushed) PROVE arrived'[f] \subseteq 1..pushed[f]
    <3>1. arrived[f] \subseteq 1..pushed[f]
      BY DEF CInv, ArrivedKnown
    <3>2. CASE f = p.ts
      BY <1>2, <1>3, <3>1, <3>2
    <3>3. CASE f # p.ts
      BY <1>3, <3>1, <3>3
    <3> QED BY <3>2, <3>3
  <2>2. \A k \in 1..Len(delivered) : delivered[k].ts \in 1..Len(pushed)
    BY DEF CInv, ArrivedKnown
  <2>3. \A k \in 1..Len(delivered') : delivered'[k].ts \in 1..Len(pushed)
    BY <1>2, <1>4, <1>5, <2>2
  <2> QED BY <1>1, <2>1, <2>3 DEF ArrivedKnown
<1>8. ASSUME NEW f \in 1..Len(pushed), f # p.ts PROVE FrameInv(first, f)'
  <2>1. FrameInv(first, f)
    BY DEF CInv
  <2>2. NotHanded(f) => NotHanded(f)'
    <3>1. CASE delivered' = delivered
      BY <3>1 DEF NotHanded
    <3>2. CASE delivered' # delivered
      BY <1>4, <1>5, <1>8, <3>2 DEF NotHanded
    <3> QED BY <3>1, <3>2
  <2>3. HandedOver(f) => HandedOver(f)'
    <3>1. CASE delivered' = delivered
      BY <1>1, <3>1 DEF HandedOver, Intact
    <3>2. CASE delivered' # delivered
      <4>1. SUFFICES ASSUME HandedOver(f) PROVE HandedOver(f)'
        OBVIOUS
      <4>2. PICK k \in 1..Len(delivered) :
              /\ delivered[k].ts = f /\ Intact(delivered[k])
              /\ \A l \in 1..Len(delivered) : delivered[l].ts = f => l = k
        BY <4>1 DEF HandedOver
      <4>3. k \in 1..Len(delivered') /\ delivered'[k] = delivered[k]
            /\ \A l \in 1..Len(delivered') : delivered'[l].ts = f => l = k
        BY <1>4, <1>5, <1>8, <3>2, <4>2
      <4>4. Intact(delivered[k])'
        BY <1>1, <4>2, <4>3 DEF Intact
      <4> QED BY <4>2, <4>3, <4>4 DEF HandedOver
    <3> QED BY <3>1, <3>2
  <2>4. pushed'[f] = pushed[f] /\ arrived'[f] = arrived[f]
    BY <1>1, <1>3, <1>8
  <2> QED BY <1>6, <1>8, <2>1, <2>2, <2>3, <2>4 DEF FrameInv
<1> QED BY <1>7, <1>8 DEF p

\* The frame the packet belongs to.  Its first fragment opens it, or is all of
\* it; the others are added to it when the first one is there.
LEMMA ArrivalFrame ==
  ASSUME TInv, NEW first \in FirstNumbers, CInv(first), NEW i, Arrival(i),
         NEW f, f = net[i].ts
  PROVE  FrameInv(first, f)'
<1> DEFINE p == net[i]
           j == p.frag
           n == pushed[f]
           A == arrived[f]
           s == first[f]
<1>1. /\ i \in 1..Len(net) /\ pushed' = pushed
      /\ arrived' = [arrived EXCEPT ![f] = @ \cup {j}]
      /\ OpenFrame(p) \/ SinglePacket(p) \/ KeepFragment(p) \/ CompleteFrame(p)
  BY DEF Arrival, Arrive, senderVars
<1>2. /\ f \in 1..Len(pushed) /\ n \in 1..SeqSpace - 1 /\ n \in Nat
      /\ s \in 0..SeqSpace - 1 /\ SeqSpace \in Nat
  BY <1>1, PacketTypes DEF FirstNumbers
<1>3. j \in 1..n /\ p.seq = Num(s, j) /\ (p.marker <=> j = n)
  BY <1>1 DEF CInv, Numbered
<1>4. j \notin A /\ A \in SUBSET (1..n)
  BY <1>1, <1>2 DEF CInv, Fresh, ArrivedKnown
<1>5. arrived'[f] = A \cup {j}
  <2>1. DOMAIN arrived = 1..Len(pushed)
    BY LenProperties DEF TInv, SenderTypes
  <2> QED BY <1>1, <1>2, <2>1
<1>6. FrameInv(first, f)
  BY <1>2 DEF CInv
<1>7. j = 1 => A = {}
  <2>1. SUFFICES ASSUME j = 1 PROVE A = {}
    OBVIOUS
  <2>2. 1 \notin arrived[f] /\ p.ts = f /\ p.frag = 1
    BY <1>4, <2>1
  <2> QED BY <1>1, <1>2, <2>2 DEF CInv, FirstFirst
<1>8. PICK D : delivered \in Seq(D)
  BY DEF TInv, FrameTypes
<1>9. Len(delivered) \in Nat
  BY PacketTypes
<1>10. ASSUME NEW d, d.ts = f, d.payload = [k \in 1..n |-> k], d.size = n,
              delivered' = Append(delivered, d), NotHanded(f)
       PROVE  HandedOver(f)'
  <2>1. Len(delivered') = Len(delivered) + 1
        /\ \A k \in 1..(Len(delivered) + 1) :
             delivered'[k] = IF k <= Len(delivered) THEN delivered[k] ELSE d
    BY <1>8, <1>10, Appended
  <2> DEFINE last == Len(delivered) + 1
  <2>2. last \in 1..Len(delivered') /\ delivered'[last] = d
    BY <1>9, <2>1
  <2>3. \A l \in 1..Len(delivered') : delivered'[l].ts = f => l = last
    BY <1>9, <1>10, <2>1 DEF NotHanded
  <2>4. PICK k \in 1..Len(delivered') :
          delivered'[k] = d /\ \A l \in 1..Len(delivered') : delivered'[l].ts = f => l = k
    BY <2>2, <2>3
  <2>5. Intact(delivered[k])'
    BY <1>1, <1>10, <2>4 DEF Intact
  <2>6. \E m \in 1..Len(delivered') :
          /\ delivered'[m].ts = f /\ Intact(delivered[m])'
          /\ \A l \in 1..Len(delivered') : delivered'[l].ts = f => l = m
    BY <1>10, <2>4, <2>5
  <2> QED BY <2>6 DEF HandedOver
<1>11. /\ p.ts = f /\ p.frag = j /\ pushed'[f] = n /\ (Known(f) <=> f \in DOMAIN frames)
  BY <1>1 DEF Known
<1> HIDE DEF p, j, n, A, s
<1>12. CASE j = 1 /\ n = 1
  <2>1. f \notin DOMAIN frames /\ NotHanded(f) /\ A = {} /\ p.marker
    BY <1>3, <1>6, <1>7, <1>12 DEF FrameInv, A
  <2>2. SinglePacket(p)
    BY <1>1, <1>11, <2>1 DEF OpenFrame, KeepFragment, CompleteFrame
  <2> DEFINE d == [ts |-> f, payload |-> <<1>>, size |-> 1]
  <2>3. frames' = frames /\ delivered' = Append(delivered, d)
    BY <1>11, <1>12, <2>2 DEF SinglePacket
  <2>4. d.ts = f /\ d.payload = [k \in 1..n |-> k] /\ d.size = n
    BY <1>12
  <2>5. HandedOver(f)'
    BY <1>10, <2>1, <2>3, <2>4
  <2>6. arrived'[f] = 1..n /\ 1 \in arrived'[f]
    BY <1>5, <1>12, <2>1
  <2> QED BY <1>11, <2>1, <2>3, <2>5, <2>6 DEF FrameInv
<1>13. CASE j = 1 /\ n # 1
  <2>1. f \notin DOMAIN frames /\ NotHanded(f) /\ A = {} /\ ~p.marker
    BY <1>3, <1>6, <1>7, <1>13 DEF FrameInv, A
  <2>2. OpenFrame(p)
    BY <1>1, <1>11, <2>1 DEF SinglePacket, KeepFragment, CompleteFrame
  <2>3. n \in 2..SeqSpace - 1
    BY <1>2, <1>13
  <2>4. Num(s, 1) = s
        /\ StateOf(s, n, {1}) = [npkts |-> 1, size |-> 1, s_seq |-> s, e_seq |-> INVALID_SEQ,
                                 fragments |-> [k \in {s} |-> 1]]
    BY <1>2, <2>3, FirstState
  <2>5. p.seq = s
    BY <1>3, <1>13, <2>4
  <2>6. delivered' = delivered
        /\ frames' = [t \in DOMAIN frames \cup {f} |->
                        IF t = f THEN StateOf(s, n, {1}) ELSE frames[t]]
    BY <1>11, <1>13, <2>2, <2>4, <2>5 DEF OpenFrame
  <2>7. arrived'[f] = {1} /\ {1} # 1..n
    BY <1>2, <1>5, <1>13, <2>1, <2>3
  <2>8. f \in DOMAIN frames' /\ frames'[f] = StateOf(s, n, {1})
    BY <2>6
  <2>9. NotHanded(f)'
    BY <2>1, <2>6 DEF NotHanded
  <2>10. StateOf(s, n, {1}) = StateOf(first[f], pushed'[f], arrived'[f])
    BY <1>11, <2>7 DEF s
  <2> QED BY <1>11, <2>7, <2>8, <2>9, <2>10 DEF FrameInv
<1>14. CASE j # 1 /\ 1 \notin A
  <2>1. arrived'[f] # {} /\ 1 \notin arrived'[f]
    BY <1>5, <1>14
  <2> QED BY <2>1 DEF FrameInv
<1>15. CASE j # 1 /\ 1 \in A
  <2> DEFINE B == A \cup {j}
  <2>1. A # 1..n
    BY <1>3, <1>4
  <2>2. f \in DOMAIN frames /\ frames[f] = StateOf(s, n, A) /\ NotHanded(f)
    BY <1>6, <1>15, <2>1 DEF FrameInv, A, s, n
  <2>3. AddFragment(frames[f], p) = StateOf(s, n, B)
    BY <1>2, <1>3, <1>4, <1>11, <2>2, AddedState
  <2>4. B \in SUBSET (1..n) /\ 1 \in B /\ arrived'[f] = B
    BY <1>3, <1>4, <1>5, <1>15
  <2>5. AllThere(AddFragment(frames[f], p)) <=> B = 1..n
    <3>1. AllThere(StateOf(s, n, B)) <=> B = 1..n
      BY <1>2, <2>4, CompleteState
    <3> HIDE DEF B
    <3> QED BY <2>3, <3>1
  <2>6. CASE B = 1..n
    <3>1. CompleteFrame(p)
      BY <1>1, <1>11, <2>2, <2>5, <2>6 DEF OpenFrame, SinglePacket, KeepFragment
    <3> DEFINE d == [ts |-> f, payload |-> Concat(StateOf(s, n, B)),
                     size |-> StateOf(s, n, B).size]
    <3>2. delivered' = Append(delivered, d)
          /\ frames' = [t \in DOMAIN frames \ {f} |-> frames[t]]
      BY <1>11, <2>3, <3>1 DEF CompleteFrame
    <3>3. Concat(StateOf(s, n, 1..n)) = [k \in 1..n |-> k] /\ StateOf(s, n, 1..n).size = n
      BY <1>2, CompletePayload
    <3>4. d.ts = f /\ d.payload = [k \in 1..n |-> k] /\ d.size = n
      BY <2>6, <3>3
    <3> HIDE DEF d
    <3>5. HandedOver(f)'
      BY <1>10, <2>2, <3>2, <3>4
    <3>6. f \notin DOMAIN frames'
      BY <3>2
    <3> QED BY <1>11, <2>4, <2>6, <3>5, <3>6 DEF FrameInv
  <2>7. CASE B # 1..n
    <3>1. KeepFragment(p)
      BY <1>1, <1>11, <2>2, <2>5, <2>7 DEF OpenFrame, SinglePacket, CompleteFrame
    <3>2. delivered' = delivered /\ frames' = [frames EXCEPT ![f] = StateOf(s, n, B)]
      BY <1>11, <2>3, <3>1 DEF KeepFragment
    <3>3. f \in DOMAIN frames' /\ frames'[f] = StateOf(s, n, B)
      BY <2>2, <3>2
    <3>4. NotHanded(f)'
      BY <2>2, <3>2 DEF NotHanded
    <3>5. StateOf(s, n, B) = StateOf(first[f], pushed'[f], arrived'[f])
      BY <1>11, <2>4 DEF s
    <3> QED BY <1>11, <2>4, <2>7, <3>3, <3>4, <3>5 DEF FrameInv
  <2> QED BY <2>6, <2>7
<1> QED BY <1>12, <1>13, <1>14, <1>15

LEMMA ArriveCorrect ==
  ASSUME TInv, NEW first \in FirstNumbers, CInv(first), NEW i, Arrival(i)
  PROVE  first \in FirstNumbers' /\ CInv(first)'
<1>1. pushed' = pushed
  BY DEF Arrival, Arrive, senderVars
<1>2. first \in FirstNumbers'
  BY <1>1 DEF FirstNumbers
<1>3. Numbered(first)' /\ Fresh' /\ Ordered' /\ FirstFirst' /\ NoneLost'
  BY ArrivalNet
<1>4. ArrivedKnown' /\ \A f \in 1..Len(pushed) : f # net[i].ts => FrameInv(first, f)'
  BY ArrivalOthers
<1>5. ASSUME NEW f \in 1..Len(pushed) PROVE FrameInv(first, f)'
  <2>1. CASE f = net[i].ts
    BY <2>1, ArrivalFrame
  <2>2. CASE f # net[i].ts
    BY <1>4, <2>2
  <2> QED BY <2>1, <2>2
<1> QED BY <1>1, <1>2, <1>3, <1>4, <1>5 DEF CInv, FirstNumbers

-----------------------------------------------------------------------------
(* The theorems *)

NoOvertaking == \A w \in Networks : w.reordering # "any"

LEMMA NextCorrect == ASSUME NoOvertaking, IInv, [Next]_vars PROVE IInv'
<1>1. TInv /\ TInv'
  BY NextTypes DEF IInv
<1>2. ASSUME network.copies = 0 PROVE \E first \in FirstNumbers' : CInv(first)'
  <2>1. PICK first \in FirstNumbers : CInv(first)
    BY <1>2 DEF IInv
  <2>2. ASSUME NEW n \in Sizes, PushFrame(n) PROVE \E g \in FirstNumbers' : CInv(g)'
    BY <1>1, <2>1, <2>2, PushCorrect
  <2>3. ASSUME NEW i \in 1..Len(net), Arrive(i) PROVE \E g \in FirstNumbers' : CInv(g)'
    <3>1. Arrival(i)
      BY <1>1, <2>3 DEF Arrival, NoOvertaking, TInv, NetTypes
    <3> QED BY <1>1, <2>1, <3>1, ArriveCorrect
  <2>4. ASSUME NEW i \in 1..Len(net), Lose(i) PROVE \E g \in FirstNumbers' : CInv(g)'
    BY <1>1, <2>1, <2>4, LoseCorrect
  <2>5. ASSUME NEW i \in 1..Len(net), Duplicate(i) PROVE FALSE
    BY <1>1, <1>2, <2>5 DEF Duplicate, TInv, NetTypes
  <2>6. CASE UNCHANGED vars
    <3>1. first \in FirstNumbers'
      BY <2>1, <2>6 DEF FirstNumbers, vars
    <3>2. Numbered(first)' /\ Fresh' /\ Ordered' /\ FirstFirst' /\ NoneLost' /\ ArrivedKnown'
      <4>1. Numbered(first)' /\ Fresh'
        BY <2>1, <2>6 DEF vars, CInv, Numbered, Fresh
      <4>2. Ordered' /\ FirstFirst'
        BY <2>1, <2>6 DEF vars, CInv, Ordered, FirstFirst
      <4>3. NoneLost' /\ ArrivedKnown'
        BY <2>1, <2>6 DEF vars, CInv, NoneLost, ArrivedKnown
      <4> QED BY <4>1, <4>2, <4>3
    <3>3. ASSUME NEW f \in 1..Len(pushed) PROVE FrameInv(first, f)'
      <4>1. FrameInv(first, f)
        BY <2>1 DEF CInv
      <4>2. (NotHanded(f)' <=> NotHanded(f)) /\ (HandedOver(f)' <=> HandedOver(f))
        BY <2>6 DEF vars, NotHanded, HandedOver, Intact
      <4> QED BY <2>6, <4>1, <4>2 DEF vars, FrameInv
    <3>4. CInv(first)'
      BY <2>6, <3>1, <3>2, <3>3 DEF vars, CInv, FirstNumbers
    <3> QED BY <3>1, <3>4
  <2> QED BY <2>2, <2>3, <2>4, <2>5, <2>6 DEF Next
<1>3. network' = network
  BY DEF Next, PushFrame, Arrive, Lose, Duplicate, vars, faultVars
<1> QED BY <1>1, <1>2, <1>3 DEF IInv

LEMMA InvReconstructed == ASSUME IInv PROVE ReconstructedWithoutCopies
<1>1. SUFFICES ASSUME network.copies = 0, NEW f \in 1..Len(pushed), arrived[f] = 1..pushed[f]
               PROVE  \E k \in 1..Len(delivered) : delivered[k].ts = f /\ Intact(delivered[k])
  BY DEF ReconstructedWithoutCopies, Reconstructed
<1>2. PICK first : CInv(first)
  BY <1>1 DEF IInv
<1>3. 1 \in arrived[f]
  BY <1>1, PacketTypes DEF IInv
<1> QED BY <1>1, <1>2, <1>3 DEF CInv, FrameInv, HandedOver

LEMMA InvIntact == ASSUME IInv PROVE DeliveredIntact
<1>1. SUFFICES ASSUME Faultless
               PROVE  \A k \in 1..Len(delivered) :
                        /\ Intact(delivered[k])
                        /\ \A l \in 1..Len(delivered) : delivered[k].ts = delivered[l].ts => k = l
  BY DEF DeliveredIntact
<1>2. network.copies = 0 /\ network.losses = 0
  BY <1>1 DEF Faultless
<1>3. PICK first : CInv(first)
  BY <1>2 DEF IInv
<1>4. ASSUME NEW k \in 1..Len(delivered)
      PROVE  /\ Intact(delivered[k])
             /\ \A l \in 1..Len(delivered) : delivered[k].ts = delivered[l].ts => k = l
  <2>1. PICK f \in 1..Len(pushed) : f = delivered[k].ts
    BY <1>3 DEF CInv, ArrivedKnown
  <2>2. FrameInv(first, f)
    BY <1>3 DEF CInv
  <2>3. ~NotHanded(f)
    BY <2>1 DEF NotHanded
  <2>4. arrived[f] # {}
    BY <2>2, <2>3 DEF FrameInv
  <2>5. 1 \in arrived[f]
    <3>1. SUFFICES ASSUME 1 \notin arrived[f] PROVE FALSE
      OBVIOUS
    <3>2. 1 \in 1..pushed[f]
      BY PacketTypes DEF IInv
    <3>3. \E i \in 1..Len(net) : net[i].ts = f /\ net[i].frag = 1
      BY <1>2, <1>3, <3>1, <3>2 DEF CInv, NoneLost
    <3> QED BY <1>3, <2>4, <3>1, <3>3 DEF CInv, FirstFirst
  <2>6. HandedOver(f)
    BY <2>2, <2>3, <2>5 DEF FrameInv
  <2>7. PICK m \in 1..Len(delivered) :
          /\ delivered[m].ts = f /\ Intact(delivered[m])
          /\ \A l \in 1..Len(delivered) : delivered[l].ts = f => l = m
    BY <2>6 DEF HandedOver
  <2>8. k = m
    BY <2>1, <2>7
  <2> QED BY <2>1, <2>7, <2>8
<1> QED BY <1>4

\* Over every network that copies nothing and lets no fragment overtake the
\* first of its frame, a frame of which every fragment has arrived has been
\* handed over as it was pushed, wherever the numbers wrap and whatever else
\* is lost.
THEOREM CompleteFramesHandedOver ==
  ASSUME NoOvertaking
  PROVE  Spec => []ReconstructedWithoutCopies
<1>1. Init => IInv
  BY InitCorrect
<1>2. IInv /\ [Next]_vars => IInv'
  BY NextCorrect
<1>3. IInv => ReconstructedWithoutCopies
  BY InvReconstructed
<1> QED BY <1>1, <1>2, <1>3, PTL DEF Spec

\* If such a network loses nothing either, every frame handed over is the frame
\* pushed, and none is handed over twice.
THEOREM FramesIntact ==
  ASSUME NoOvertaking
  PROVE  Spec => []DeliveredIntact
<1>1. Init => IInv
  BY InitCorrect
<1>2. IInv /\ [Next]_vars => IInv'
  BY NextCorrect
<1>3. IInv => DeliveredIntact
  BY InvIntact
<1> QED BY <1>1, <1>2, <1>3, PTL DEF Spec

-----------------------------------------------------------------------------
(* The state of a frame of n fragments numbered from s, when a was the first *)
(* fragment to arrive, A are those that have, and m packets brought them     *)

\* The fragments of A at their keys, when a has the key t.
KeptFrom(t, a, A) == [k \in {t + j - a : j \in A} |-> k - t + a]

SeenFrom(s, n, a, A, m) ==
  [npkts |-> m, size |-> m, s_seq |-> Num(s, a),
   e_seq |-> IF n \in A THEN Num(s, n) ELSE INVALID_SEQ,
   fragments |-> KeptFrom(Num(s, a), a, A)]

\* Counting from a later packet of the frame.
LEMMA NumFrom ==
  ASSUME NEW s \in 0..SeqSpace - 1, NEW j \in 1..SeqSpace - 1, NEW a \in 1..j
  PROVE  /\ Num(s, a) \in 0..SeqSpace - 1
         /\ j - a + 1 \in 1..SeqSpace - 1
         /\ Num(s, j) = Num(Num(s, a), j - a + 1)
<1>1. SeqSpace \in Nat /\ a \in 1..SeqSpace - 1 /\ j - a + 1 \in 1..SeqSpace - 1
  BY SpaceAssumption
<1>2. Num(s, a) \in 0..SeqSpace - 1
      /\ Num(s, a) = IF s + a - 1 < SeqSpace THEN s + a - 1 ELSE s + a - 1 - SeqSpace
  BY <1>1, NumWraps
<1>3. Num(s, j) = IF s + j - 1 < SeqSpace THEN s + j - 1 ELSE s + j - 1 - SeqSpace
  BY <1>1, NumWraps
<1> DEFINE t == Num(s, a)
           i == j - a + 1
<1>4. t \in 0..SeqSpace - 1 /\ i \in 1..SeqSpace - 1
  BY <1>1, <1>2
<1>5. t + i - 1 = t + j - a
  BY <1>1, <1>2
<1> HIDE DEF t, i
<1>6. Num(t, i) = IF t + i - 1 < SeqSpace THEN t + i - 1 ELSE t + i - 1 - SeqSpace
  BY <1>4, NumWraps
<1>7. t = IF s + a - 1 < SeqSpace THEN s + a - 1 ELSE s + a - 1 - SeqSpace
  BY <1>2 DEF t
<1>8. Num(t, i) = Num(s, j)
  <2>1. CASE s + a - 1 < SeqSpace
    <3>1. t + j - a = s + j - 1
      BY <1>1, <1>7, <2>1
    <3> QED BY <1>1, <1>3, <1>4, <1>5, <1>6, <3>1
  <2>2. CASE ~(s + a - 1 < SeqSpace)
    <3>1. t + j - a = s + j - 1 - SeqSpace /\ ~(s + j - 1 < SeqSpace)
          /\ s + j - 1 - SeqSpace < SeqSpace
      BY <1>1, <1>7, <2>2
    <3> QED BY <1>1, <1>3, <1>4, <1>5, <1>6, <3>1
  <2> QED BY <2>1, <2>2
<1> QED BY <1>1, <1>2, <1>8 DEF t, i

\* Another packet, of a new fragment or of one that is there.
LEMMA SeenAdded ==
  ASSUME NEW s \in 0..SeqSpace - 1, NEW n \in 1..SeqSpace - 1, NEW a \in 1..n,
         NEW A, NEW m, NEW j \in a..n,
         NEW p, p.seq = Num(s, j), p.marker <=> j = n, p.frag = j
  PROVE  AddFragment(SeenFrom(s, n, a, A, m), p) = SeenFrom(s, n, a, A \cup {j}, m + 1)
<1> DEFINE old == SeenFrom(s, n, a, A, m)
           B == A \cup {j}
           t == Num(s, a)
           new == AddFragment(old, p)
<1>1. /\ old.npkts = m /\ old.size = m /\ old.s_seq = t
      /\ old.e_seq = IF n \in A THEN Num(s, n) ELSE INVALID_SEQ
      /\ old.fragments = [k \in {t + i - a : i \in A} |-> k - t + a]
  BY DEF SeenFrom, KeptFrom
<1>2. /\ SeqSpace \in Nat /\ j \in 1..SeqSpace - 1 /\ a \in 1..j /\ j \in Int /\ a \in Int
  BY SpaceAssumption
<1>3. t \in 0..SeqSpace - 1 /\ j - a + 1 \in 1..SeqSpace - 1 /\ p.seq = Num(t, j - a + 1)
  BY <1>2, NumFrom
<1> HIDE DEF old, t
<1>4. Key(old, p) = t + j - a
  <2> DEFINE i == j - a + 1
  <2>1. i \in 1..SeqSpace - 1 /\ old.s_seq \in 0..SeqSpace - 1 /\ p.seq = Num(old.s_seq, i)
    BY <1>1, <1>3
  <2>2. t + i - 1 = t + j - a
    BY <1>2, <1>3
  <2> HIDE DEF i
  <2>3. Key(old, p) = old.s_seq + i - 1
    BY <2>1, KeyIsPlace
  <2> QED BY <1>1, <2>2, <2>3
<1>5. (IF ~p.marker /\ p.seq = t - 1 THEN p.seq ELSE t) = t
  <2>1. SUFFICES ASSUME ~p.marker PROVE p.seq # t - 1
    OBVIOUS
  <2>2. j # n
    BY <2>1
  <2>3. j - a + 1 \in 1..n /\ j - a + 1 # n - a + 1 /\ n - a + 1 \in 1..SeqSpace - 1
        /\ j - a + 1 \in 1..(n - a + 1)
    BY <1>2, <2>2
  <2> QED BY <1>3, <2>3, NotBeforeFirst
<1>6. (IF p.marker THEN p.seq ELSE old.e_seq) = IF n \in B THEN Num(s, n) ELSE INVALID_SEQ
  BY <1>1
<1>7. [k \in DOMAIN old.fragments \cup {Key(old, p)} |->
         IF k = Key(old, p) THEN p.frag ELSE old.fragments[k]]
      = [k \in {t + i - a : i \in B} |-> k - t + a]
  <2>1. DOMAIN old.fragments \cup {Key(old, p)} = {t + i - a : i \in B}
    BY <1>1, <1>4
  <2>2. ASSUME NEW k \in {t + i - a : i \in B}
        PROVE  (IF k = Key(old, p) THEN p.frag ELSE old.fragments[k]) = k - t + a
    <3>1. CASE k = t + j - a
      <4>1. k - t + a = j
        BY <1>2, <1>3, <3>1
      <4> QED BY <1>4, <3>1, <4>1
    <3>2. CASE k # t + j - a
      <4>1. k \in {t + i - a : i \in A}
        BY <3>2
      <4>2. old.fragments[k] = k - t + a
        BY <1>1, <4>1
      <4> QED BY <1>4, <3>2, <4>2
    <3> QED BY <3>1, <3>2
  <2> QED BY <2>1, <2>2
<1>8. new = [npkts |-> old.npkts + 1, size |-> old.size + 1,
             s_seq |-> IF ~p.marker /\ p.seq = old.s_seq - 1 THEN p.seq ELSE old.s_seq,
             e_seq |-> IF p.marker THEN p.seq ELSE old.e_seq,
             fragments |-> [k \in DOMAIN old.fragments \cup {Key(old, p)} |->
                              IF k = Key(old, p) THEN p.frag ELSE old.fragments[k]]]
  BY DEF AddFragment
<1>9. new = [npkts |-> m + 1, size |-> m + 1, s_seq |-> t,
             e_seq |-> IF n \in B THEN Num(s, n) ELSE INVALID_SEQ,
             fragments |-> [k \in {t + i - a : i \in B} |-> k - t + a]]
  BY <1>1, <1>5, <1>6, <1>7, <1>8
<1> QED BY <1>9 DEF SeenFrom, KeptFrom, old, t

\* The packet that opens the frame.
LEMMA SeenFirst ==
  ASSUME NEW s \in 0..SeqSpace - 1, NEW n \in 1..SeqSpace - 1, NEW a \in 1..n, a # n
  PROVE  SeenFrom(s, n, a, {a}, 1) =
           [npkts |-> 1, size |-> 1, s_seq |-> Num(s, a), e_seq |-> INVALID_SEQ,
            fragments |-> [k \in {Num(s, a)} |-> a]]
<1> DEFINE t == Num(s, a)
<1>1. t \in Int /\ a \in Int
  <2>1. a \in 1..SeqSpace - 1
    BY SpaceAssumption
  <2> QED BY <2>1, NumWraps
<1>2. SeenFrom(s, n, a, {a}, 1) =
        [npkts |-> 1, size |-> 1, s_seq |-> t,
         e_seq |-> IF n \in {a} THEN Num(s, n) ELSE INVALID_SEQ,
         fragments |-> [k \in {t + j - a : j \in {a}} |-> k - t + a]]
  BY DEF SeenFrom, KeptFrom
<1> HIDE DEF t
<1>3. {t + j - a : j \in {a}} = {t}
  BY <1>1
<1>4. [k \in {t} |-> k - t + a] = [k \in {t} |-> a]
  BY <1>1
<1>5. n \notin {a}
  OBVIOUS
<1>6. SeenFrom(s, n, a, {a}, 1) =
        [npkts |-> 1, size |-> 1, s_seq |-> t, e_seq |-> INVALID_SEQ,
         fragments |-> [k \in {t} |-> a]]
  BY <1>2, <1>3, <1>4, <1>5
<1> QED BY <1>6 DEF t

\* The frame counts as complete when the last fragment is there and as many
\* packets came as lie between the first one and it.
LEMMA SeenComplete ==
  ASSUME NEW s \in 0..SeqSpace - 1, NEW n \in 1..SeqSpace - 1, NEW a \in 1..n, NEW A, NEW m
  PROVE  AllThere(SeenFrom(s, n, a, A, m)) <=> n \in A /\ m = n - a + 1
<1> DEFINE info == SeenFrom(s, n, a, A, m)
<1>1. /\ info.npkts = m /\ info.s_seq = Num(s, a)
      /\ info.e_seq = IF n \in A THEN Num(s, n) ELSE INVALID_SEQ
  BY DEF SeenFrom
<1>2. AllThere(info) <=> info.e_seq # INVALID_SEQ /\ Expected(info) = info.npkts
  BY DEF AllThere
<1> HIDE DEF info
<1>3. Num(s, n) # INVALID_SEQ
  <2>1. Num(s, n) \in 0..SeqSpace - 1 /\ SeqSpace \in Nat
    BY NumWraps, SpaceAssumption
  <2> QED BY <2>1 DEF INVALID_SEQ
<1>4. info.e_seq # INVALID_SEQ <=> n \in A
  BY <1>1, <1>3
<1>5. ASSUME n \in A PROVE Expected(info) = n - a + 1
  <2> DEFINE i == n - a + 1
  <2>1. i \in 1..SeqSpace - 1 /\ info.s_seq \in 0..SeqSpace - 1
        /\ info.e_seq = Num(info.s_seq, i)
    BY <1>1, <1>5, NumFrom
  <2> HIDE DEF i
  <2>2. Expected(info) = i
    BY <2>1, ExpectedIsSize
  <2> QED BY <2>2 DEF i
<1>6. AllThere(info) <=> n \in A /\ m = n - a + 1
  BY <1>1, <1>2, <1>4, <1>5
<1> QED BY <1>6 DEF info

-----------------------------------------------------------------------------
(* The payload of a frame with holes                                        *)

\* Counting the members up to k numbers a finite set of integers in order.
LEMMA Ranked ==
  ASSUME NEW K \in SUBSET Int, IsFiniteSet(K), NEW r,
         r = [k \in K |-> Cardinality({m \in K : m <= k})]
  PROVE  /\ Cardinality(K) \in Nat
         /\ r \in [K -> 1..Cardinality(K)]
         /\ \A k, l \in K : k < l => r[k] < r[l]
         /\ \A i \in 1..Cardinality(K) : \E k \in K : r[k] = i
<1> DEFINE UpTo(k) == {m \in K : m <= k}
<1>1. ASSUME NEW k \in K
      PROVE  /\ IsFiniteSet(UpTo(k)) /\ Cardinality(UpTo(k)) \in Nat
             /\ Cardinality(UpTo(k)) <= Cardinality(K)
  <2>1. UpTo(k) \in SUBSET K
    OBVIOUS
  <2> HIDE DEF UpTo
  <2> QED BY <2>1, FS_Subset, FS_CardinalityType
<1>2. ASSUME NEW k \in K PROVE Cardinality(UpTo(k)) # 0
  <2>1. k \in UpTo(k)
    OBVIOUS
  <2> HIDE DEF UpTo
  <2> QED BY <1>1, <2>1, FS_EmptySet
<1>3. ASSUME NEW k \in K, NEW l \in K, k < l
      PROVE  Cardinality(UpTo(k)) < Cardinality(UpTo(l))
  <2>1. UpTo(k) \in SUBSET UpTo(l) /\ UpTo(k) # UpTo(l)
    <3>1. l \in UpTo(l) /\ l \notin UpTo(k)
      BY <1>3
    <3>2. ASSUME NEW m \in UpTo(k) PROVE m \in UpTo(l)
      <4>1. m \in Int /\ k \in Int /\ l \in Int /\ m \in K /\ m <= k
        OBVIOUS
      <4>2. m <= l
        BY <1>3, <4>1
      <4> QED BY <4>1, <4>2
    <3> QED BY <3>1, <3>2
  <2> HIDE DEF UpTo
  <2>2. Cardinality(UpTo(k)) <= Cardinality(UpTo(l))
        /\ Cardinality(UpTo(k)) # Cardinality(UpTo(l))
    BY <1>1, <2>1, FS_Subset
  <2> QED BY <1>1, <2>2
<1>4. Cardinality(K) \in Nat
  BY FS_CardinalityType
<1>5. \A k \in K : r[k] = Cardinality(UpTo(k))
  OBVIOUS
<1>6. DOMAIN r = K /\ r = [k \in K |-> r[k]]
  OBVIOUS
<1> HIDE DEF UpTo
<1>7. \A k \in K : r[k] \in 1..Cardinality(K)
  BY <1>1, <1>2, <1>4, <1>5
<1>8. r \in [K -> 1..Cardinality(K)]
  BY <1>6, <1>7
<1>9. \A k, l \in K : k < l => r[k] < r[l]
  BY <1>3, <1>5
<1>10. r \in Injection(K, 1..Cardinality(K))
  <2>1. \A k, l \in K : r[k] = r[l] => k = l
    <3>1. SUFFICES ASSUME NEW k \in K, NEW l \in K, r[k] = r[l], k # l PROVE FALSE
      OBVIOUS
    <3>2. k < l \/ l < k
      BY <3>1
    <3>3. r[k] \in Int /\ r[l] \in Int
      BY <1>7
    <3> QED BY <1>9, <3>1, <3>2, <3>3
  <2> QED BY <1>8, <2>1 DEF Injection, IsInjective
<1>11. IsFiniteSet(1..Cardinality(K)) /\ Cardinality(1..Cardinality(K)) = Cardinality(K)
  BY <1>4, FS_Interval
<1>12. r \in Surjection(K, 1..Cardinality(K))
  BY <1>10, <1>11, FS_Injection
<1>13. \A i \in 1..Cardinality(K) : \E k \in K : r[k] = i
  BY <1>12 DEF Surjection
<1> QED BY <1>4, <1>8, <1>9, <1>13

\* q lists the members of A, from a to n, in their order.
Lists(q, A, a, n) ==
  /\ Cardinality(A) \in Nat \ {0}
  /\ q \in [1..Cardinality(A) -> A]
  /\ \A x \in A : \E i \in 1..Cardinality(A) : q[i] = x
  /\ \A i, l \in 1..Cardinality(A) : i < l => q[i] < q[l]
  /\ q[1] = a /\ q[Cardinality(A)] = n

\* The payload is made of the fragments there, in their order.
LEMMA ConcatSeen ==
  ASSUME NEW info, NEW t \in Int, NEW a \in Int, NEW n \in Int, NEW A \in SUBSET (a..n),
         a \in A, n \in A,
         info.fragments = KeptFrom(t, a, A)
  PROVE  Lists(Concat(info), A, a, n)
<1> DEFINE K == {t + j - a : j \in A}
           r == [k \in K |-> Cardinality({m \in K : m <= k})]
           q == Concat(info)
           NthKey(i) == CHOOSE k \in K : Cardinality({m \in K : m <= k}) = i
<1>0. info.fragments = [k \in K |-> k - t + a]
  BY DEF KeptFrom
<1>1. IsFiniteSet(A)
  <2>1. IsFiniteSet(a..n)
    BY FS_Interval
  <2> QED BY <2>1, FS_Subset
<1>2. A \subseteq Int
  OBVIOUS
<1>3. IsFiniteSet(K) /\ Cardinality(K) = Cardinality(A) /\ K \in SUBSET Int
  <2> DEFINE b == [j \in A |-> t + j - a]
  <2>1. b \in [A -> K] /\ \A i, j \in A : b[i] = b[j] => i = j
    BY <1>2
  <2>2. \A k \in K : \E j \in A : b[j] = k
    OBVIOUS
  <2>3. K \in SUBSET Int
    BY <1>2
  <2> HIDE DEF b, K
  <2>4. b \in Bijection(A, K)
    BY <2>1, <2>2 DEF Bijection, Injection, IsInjective, Surjection
  <2>5. ExistsBijection(A, K)
    BY <2>4 DEF ExistsBijection
  <2> QED BY <1>1, <2>3, <2>5, FS_Bijection
<1>4. q = [i \in 1..Cardinality(K) |-> info.fragments[NthKey(i)]]
  <2>1. DOMAIN info.fragments = K
    BY <1>0
  <2> HIDE DEF K
  <2> QED BY <2>1 DEF Concat
<1>5. \A k \in K : info.fragments[k] = k - t + a
  BY <1>0
<1>6. \A k \in K : r[k] = Cardinality({m \in K : m <= k})
  OBVIOUS
<1>7. \A j \in A : t + j - a \in K /\ (t + j - a) - t + a = j
  BY <1>2
<1>8. \A k \in K : k - t + a \in A
  BY <1>2
<1> HIDE DEF K
<1>9. /\ Cardinality(K) \in Nat
      /\ r \in [K -> 1..Cardinality(K)]
      /\ \A k, l \in K : k < l => r[k] < r[l]
      /\ \A i \in 1..Cardinality(K) : \E k \in K : r[k] = i
  <2> HIDE DEF r
  <2>1. r = [k \in K |-> Cardinality({m \in K : m <= k})]
    BY DEF r
  <2> QED BY <1>3, <2>1, Ranked
<1>10. ASSUME NEW i \in 1..Cardinality(K) PROVE NthKey(i) \in K /\ r[NthKey(i)] = i
  <2>1. \E k \in K : Cardinality({m \in K : m <= k}) = i
    BY <1>6, <1>9
  <2>2. NthKey(i) \in K /\ Cardinality({m \in K : m <= NthKey(i)}) = i
    BY <2>1
  <2> QED BY <1>6, <2>2
<1> HIDE DEF r, NthKey
<1>11. ASSUME NEW i \in 1..Cardinality(K) PROVE q[i] = NthKey(i) - t + a
  BY <1>4, <1>5, <1>10
<1>12. q \in [1..Cardinality(A) -> A]
  <2>1. \A i \in 1..Cardinality(K) : q[i] \in A
    BY <1>8, <1>10, <1>11
  <2>2. q = [i \in 1..Cardinality(K) |-> q[i]]
    BY <1>4
  <2> HIDE DEF q
  <2> QED BY <1>3, <2>1, <2>2
<1>13. \A k, l \in K : r[k] = r[l] => k = l
  <2>1. SUFFICES ASSUME NEW k \in K, NEW l \in K, r[k] = r[l], k # l PROVE FALSE
    OBVIOUS
  <2>2. k < l \/ l < k
    BY <1>3, <2>1
  <2>3. r[k] \in Int /\ r[l] \in Int
    BY <1>9
  <2> QED BY <1>9, <2>1, <2>2, <2>3
<1>14. ASSUME NEW x \in A PROVE \E i \in 1..Cardinality(A) : q[i] = x
  <2> DEFINE k == t + x - a
             i == r[k]
  <2>1. k \in K /\ k - t + a = x
    BY <1>7
  <2> HIDE DEF k
  <2>2. i \in 1..Cardinality(K)
    BY <1>9, <2>1
  <2>3. NthKey(i) = k
    BY <1>10, <1>13, <2>1, <2>2
  <2> QED BY <1>3, <1>11, <2>1, <2>2, <2>3
<1>15. ASSUME NEW i \in 1..Cardinality(A), NEW l \in 1..Cardinality(A), i < l
       PROVE  q[i] < q[l]
  <2>1. NthKey(i) \in K /\ NthKey(l) \in K /\ NthKey(i) \in Int /\ NthKey(l) \in Int
        /\ r[NthKey(i)] = i /\ r[NthKey(l)] = l
    BY <1>3, <1>10
  <2>2. NthKey(i) < NthKey(l)
    <3>1. CASE NthKey(l) < NthKey(i)
      <4>1. l < i
        BY <1>9, <2>1, <3>1
      <4> QED BY <1>15, <4>1
    <3>2. CASE NthKey(l) = NthKey(i)
      BY <1>15, <2>1, <3>2
    <3> QED BY <2>1, <3>1, <3>2
  <2>3. q[i] = NthKey(i) - t + a /\ q[l] = NthKey(l) - t + a
    BY <1>3, <1>11
  <2> QED BY <2>1, <2>2, <2>3
<1> HIDE DEF q
<1>16. Cardinality(A) \in Nat \ {0}
  BY <1>1, FS_CardinalityType, FS_EmptySet
<1>17. \A i \in 1..Cardinality(A) : q[i] \in a..n
  BY <1>12
<1>18. q[1] = a
  <2>1. PICK i \in 1..Cardinality(A) : q[i] = a
    BY <1>14
  <2>2. 1 \in 1..Cardinality(A) /\ i \in Nat
    BY <1>16
  <2>3. CASE i = 1
    BY <2>1, <2>3
  <2>4. CASE 1 < i
    <3>1. q[1] < a /\ q[1] \in a..n
      BY <1>15, <1>17, <2>1, <2>2, <2>4
    <3> QED BY <3>1
  <2> QED BY <2>1, <2>2, <2>3, <2>4
<1>19. q[Cardinality(A)] = n
  <2> DEFINE c == Cardinality(A)
  <2>1. PICK i \in 1..c : q[i] = n
    BY <1>14
  <2>2. c \in 1..c /\ i \in Nat /\ c \in Nat
    BY <1>16
  <2>3. CASE i = c
    BY <2>1, <2>3
  <2>4. CASE i < c
    <3>1. n < q[c] /\ q[c] \in a..n
      BY <1>15, <1>17, <2>1, <2>2, <2>4
    <3> QED BY <3>1
  <2>5. i = c \/ i < c
    BY <2>1, <2>2
  <2> QED BY <2>3, <2>4, <2>5
<1> QED BY <1>12, <1>14, <1>15, <1>16, <1>18, <1>19 DEF q, Lists

-----------------------------------------------------------------------------
(* The packets of one frame in a list q of packets                          *)

Of(q, f) == {i \in 1..Len(q) : q[i].ts = f}
Flying(q, f) == {q[i].frag : i \in Of(q, f)}

LEMMA OfFinite ==
  ASSUME NEW q, NEW f, Len(q) \in Nat
  PROVE  IsFiniteSet(Of(q, f)) /\ Cardinality(Of(q, f)) \in Nat
<1>1. IsFiniteSet(1..Len(q)) /\ Of(q, f) \in SUBSET (1..Len(q))
  BY FS_Interval DEF Of
<1> QED BY <1>1, FS_Subset, FS_CardinalityType

\* One packet fewer: the others and the fragments they carry.
LEMMA OneLess ==
  ASSUME NEW S, NEW q \in Seq(S), NEW i \in 1..Len(q), NEW f
  PROVE  LET w == RemoveAt(q, i)
         IN  /\ Cardinality(Of(w, f)) = IF q[i].ts = f THEN Cardinality(Of(q, f)) - 1
                                                       ELSE Cardinality(Of(q, f))
             /\ Flying(w, f) \subseteq Flying(q, f)
             /\ Flying(q, f) \subseteq Flying(w, f) \cup {q[i].frag}
             /\ q[i].ts # f => Flying(w, f) = Flying(q, f)
<1> DEFINE w == RemoveAt(q, i)
           b == [k \in Of(w, f) |-> IF k < i THEN k ELSE k + 1]
           T == Of(q, f) \ {i}
<1>1. /\ Len(q) \in Nat /\ Len(w) = Len(q) - 1 /\ Len(w) \in Nat
      /\ \A k \in 1..Len(w) : w[k] = q[IF k < i THEN k ELSE k + 1]
  BY Removed, LenProperties
<1> HIDE DEF w
<1>2. b \in [Of(w, f) -> T] /\ \A k \in Of(w, f) : w[k] = q[b[k]]
  BY <1>1 DEF Of
<1>3. \A k, l \in Of(w, f) : b[k] = b[l] => k = l
  BY <1>1 DEF Of
<1>4. ASSUME NEW m \in T PROVE \E k \in Of(w, f) : b[k] = m
  <2>1. m \in 1..Len(q) /\ m # i /\ q[m].ts = f
    BY DEF Of
  <2>2. CASE m < i
    <3>1. m \in 1..Len(w) /\ w[m] = q[m]
      BY <1>1, <2>1, <2>2
    <3>2. m \in Of(w, f) /\ b[m] = m
      BY <2>1, <2>2, <3>1 DEF Of
    <3> QED BY <3>2
  <2>3. CASE m > i
    <3>1. m - 1 \in 1..Len(w) /\ ~(m - 1 < i) /\ m - 1 + 1 = m
      BY <1>1, <2>1, <2>3
    <3>2. w[m - 1] = q[m]
      BY <1>1, <3>1
    <3>3. m - 1 \in Of(w, f)
      BY <2>1, <3>1, <3>2 DEF Of
    <3>4. b[m - 1] = m
      BY <3>1, <3>3
    <3> QED BY <3>3, <3>4
  <2> QED BY <2>1, <2>2, <2>3
<1> HIDE DEF b
<1>5. b \in Bijection(Of(w, f), T)
  BY <1>2, <1>3, <1>4 DEF Bijection, Injection, IsInjective, Surjection
<1>6. Cardinality(T) = Cardinality(Of(w, f))
  <2>1. ExistsBijection(Of(w, f), T)
    BY <1>5 DEF ExistsBijection
  <2>2. IsFiniteSet(Of(w, f))
    BY <1>1, OfFinite
  <2> HIDE DEF T
  <2> QED BY <2>1, <2>2, FS_Bijection
<1>7. Cardinality(T) = IF q[i].ts = f THEN Cardinality(Of(q, f)) - 1 ELSE Cardinality(Of(q, f))
  <2>1. IsFiniteSet(Of(q, f))
    BY <1>1, OfFinite
  <2>2. i \in Of(q, f) <=> q[i].ts = f
    BY DEF Of
  <2> QED BY <2>1, <2>2, FS_RemoveElement
<1>8. ASSUME NEW x \in Flying(w, f) PROVE x \in Flying(q, f)
  <2>1. PICK k \in Of(w, f) : x = w[k].frag
    BY DEF Flying
  <2>2. b[k] \in Of(q, f) /\ x = q[b[k]].frag
    BY <1>2, <2>1
  <2> QED BY <2>2 DEF Flying
<1>9. ASSUME NEW x \in Flying(q, f), x # q[i].frag \/ q[i].ts # f PROVE x \in Flying(w, f)
  <2>1. PICK m \in Of(q, f) : x = q[m].frag
    BY DEF Flying
  <2>2. m # i
    BY <1>9, <2>1 DEF Of
  <2>3. PICK k \in Of(w, f) : b[k] = m
    BY <1>4, <2>2
  <2>4. w[k].frag = x
    BY <1>2, <2>1, <2>3
  <2> QED BY <2>4 DEF Flying
<1> QED BY <1>6, <1>7, <1>8, <1>9 DEF w

\* One packet twice: taking the copy out again gives the list back.
LEMMA CopyTakenOut ==
  ASSUME NEW S, NEW q \in Seq(S), NEW i \in 1..Len(q)
  PROVE  LET w == InsertAt(q, i, q[i])
         IN  /\ w \in Seq(S) /\ Len(w) = Len(q) + 1 /\ i \in 1..Len(w)
             /\ \A k \in 1..Len(w) : w[k] = q[IF k <= i THEN k ELSE k - 1]
             /\ RemoveAt(w, i) = q
<1> DEFINE w == InsertAt(q, i, q[i])
           x == SubSeq(q, 1, i - 1)
           y == SubSeq(q, i, Len(q))
           e == <<q[i]>>
           z == x \o e
<1>1. Len(q) \in Nat /\ i \in Nat /\ i >= 1 /\ i <= Len(q) /\ q[i] \in S
  BY LenProperties, ElementOfSeq
<1>2. x \in Seq(S) /\ Len(x) = i - 1 /\ \A k \in 1..(i - 1) : x[k] = q[k]
  BY <1>1, SubSeqProperties
<1>3. y \in Seq(S) /\ Len(y) = Len(q) - i + 1
      /\ \A k \in 1..(Len(q) - i + 1) : y[k] = q[i + k - 1]
  BY <1>1, SubSeqProperties
<1>4. w = z \o y /\ z = x \o e
  BY DEF InsertAt
<1>5. e \in Seq(S) /\ Len(e) = 1 /\ e[1] = q[i]
  BY <1>1
<1> HIDE DEF x, y, w, e, z
<1>6. z \in Seq(S) /\ Len(z) = i /\ \A k \in 1..i : z[k] = q[k]
  <2>1. z \in Seq(S) /\ Len(z) = Len(x) + Len(e) /\ Len(z) = i
    <3>1. z \in Seq(S) /\ Len(z) = Len(x) + Len(e)
      BY <1>2, <1>5, <1>4, ConcatProperties
    <3> QED BY <1>1, <1>2, <1>5, <3>1
  <2>2. ASSUME NEW k \in 1..i PROVE z[k] = q[k]
    <3>1. z[k] = IF k <= i - 1 THEN x[k] ELSE e[k - (i - 1)]
      <4>1. k \in 1..(Len(x) + Len(e))
        BY <2>1
      <4>2. z[k] = IF k <= Len(x) THEN x[k] ELSE e[k - Len(x)]
        BY <1>2, <1>5, <1>4, <4>1, ConcatProperties
      <4> QED BY <1>2, <4>2
    <3>2. CASE k < i
      BY <1>1, <1>2, <3>1, <3>2
    <3>3. CASE k = i
      <4>1. z[k] = e[k - (i - 1)] /\ k - (i - 1) = 1
        BY <1>1, <3>1, <3>3
      <4>2. z[k] = e[1]
        BY <4>1
      <4> QED BY <1>5, <3>3, <4>2
    <3> QED BY <1>1, <3>2, <3>3
  <2> QED BY <2>1, <2>2
<1>7. w \in Seq(S) /\ Len(w) = Len(q) + 1
  <2>1. w \in Seq(S) /\ Len(w) = Len(z) + Len(y)
    BY <1>3, <1>4, <1>6, ConcatProperties
  <2> QED BY <1>1, <1>3, <1>6, <2>1
<1>8. ASSUME NEW k \in 1..Len(w) PROVE w[k] = q[IF k <= i THEN k ELSE k - 1]
  <2>1. w[k] = IF k <= i THEN z[k] ELSE y[k - i]
    BY <1>1, <1>3, <1>4, <1>6, <1>7, ConcatProperties
  <2>2. CASE k <= i
    BY <1>1, <1>6, <2>1, <2>2
  <2>3. CASE k > i
    <3>1. w[k] = y[k - i] /\ k - i \in 1..(Len(q) - i + 1)
      BY <1>1, <1>7, <2>1, <2>3
    <3>2. i + (k - i) - 1 = k - 1
      BY <1>1, <2>3
    <3> QED BY <1>1, <1>3, <2>3, <3>1, <3>2
  <2> QED BY <1>1, <1>7, <2>2, <2>3
<1>9. i \in 1..Len(w)
  BY <1>1, <1>7
<1>10. RemoveAt(w, i) = q
  <2>1. RemoveAt(w, i) \in Seq(S) /\ Len(RemoveAt(w, i)) = Len(q)
    BY <1>1, <1>7, <1>9, Removed
  <2>2. ASSUME NEW k \in 1..Len(q) PROVE RemoveAt(w, i)[k] = q[k]
    <3>1. RemoveAt(w, i)[k] = w[IF k < i THEN k ELSE k + 1]
      <4>1. k \in 1..(Len(w) - 1)
        BY <1>1, <1>7
      <4> QED BY <1>7, <1>9, <4>1, Removed
    <3>2. CASE k < i
      BY <1>1, <1>7, <1>8, <3>1, <3>2
    <3>3. CASE ~(k < i)
      <4>1. k + 1 \in 1..Len(w) /\ ~(k + 1 <= i) /\ k + 1 - 1 = k
        BY <1>1, <1>7, <3>3
      <4> QED BY <1>8, <3>1, <3>3, <4>1
    <3> QED BY <3>2, <3>3
  <2> QED BY <2>1, <2>2, SeqEqual
<1> QED BY <1>7, <1>8, <1>9, <1>10 DEF w

-----------------------------------------------------------------------------
(* Networks that keep the order, whatever they lose or copy                 *)

Sorted ==
  \A i, j \in 1..Len(net) :
    i < j /\ net[i].ts = net[j].ts => net[i].frag <= net[j].frag

NotBehind == \A i \in 1..Len(net) : \A j \in arrived[net[i].ts] : j <= net[i].frag

\* A frame under reassembly: which fragment came first, and that what is there
\* does not count as complete.
HeldFrom(first, f) ==
  \E a \in arrived[f] :
    /\ a # pushed[f] /\ \A j \in arrived[f] : a <= j
    /\ frames[f] = SeenFrom(first[f], pushed[f], a, arrived[f], frames[f].npkts)
    /\ Cardinality(arrived[f]) <= frames[f].npkts
    /\ ~AllThere(frames[f])

Counted(f) == IF f \in DOMAIN frames THEN frames[f].npkts ELSE 0

\* The packets counted and those to come are no more than the fragments and the
\* copies.
Budget(f) ==
  f \in DOMAIN frames \/ arrived[f] = {} =>
    Counted(f) + Cardinality(Of(net, f))
      <= Cardinality(arrived[f] \cup Flying(net, f)) + duplicated

\* After the last fragment only copies of it can come.
Finished(f) == f \notin DOMAIN frames /\ arrived[f] # {} => pushed[f] \in arrived[f]

\* What is handed over of a frame of n fragments after c copies.
TailOf(d, n, c) ==
  LET missing == (d.payload[1]..n) \ ToSet(d.payload)
  IN  /\ d.payload \in Seq(1..n) /\ Len(d.payload) > 0
      /\ \A i \in 2..Len(d.payload) : d.payload[i - 1] < d.payload[i]
      /\ Last(d.payload) = n
      /\ Cardinality(missing) \in Nat /\ Cardinality(missing) <= c
      /\ d.size = Len(d.payload) + Cardinality(missing)

AllTails ==
  \A k \in 1..Len(delivered) : TailOf(delivered[k], pushed[delivered[k].ts], duplicated)

KInv(first) ==
  /\ first \in FirstNumbers
  /\ Numbered(first) /\ Sorted /\ NotBehind /\ ArrivedKnown /\ AllTails
  /\ \A f \in 1..Len(pushed) :
       (f \in DOMAIN frames => HeldFrom(first, f)) /\ Finished(f) /\ Budget(f)

RInv == TInv /\ (InOrder => \E first \in FirstNumbers : KInv(first))

LEMMA TailGrows ==
  ASSUME NEW d, NEW n, NEW c \in Nat, NEW e \in Nat, TailOf(d, n, c), c <= e
  PROVE  TailOf(d, n, e)
BY DEF TailOf

\* The last fragment alone, and a frame that counts as complete.
LEMMA TailAlone ==
  ASSUME NEW n \in Nat \ {0}, NEW c \in Nat, NEW d, d.payload = <<n>>, d.size = 1
  PROVE  TailOf(d, n, c)
<1> DEFINE missing == (d.payload[1]..n) \ ToSet(d.payload)
<1>1. d.payload \in Seq(1..n) /\ Len(d.payload) = 1 /\ d.payload[1] = n
  OBVIOUS
<1>2. ToSet(d.payload) = {n}
  BY <1>1 DEF ToSet
<1>3. missing = {}
  BY <1>1, <1>2
<1>4. Cardinality(missing) = 0
  BY <1>3, FS_EmptySet
<1> HIDE DEF missing
<1>5. \A i \in 2..Len(d.payload) : d.payload[i - 1] < d.payload[i]
  BY <1>1
<1>6. Last(d.payload) = n
  BY <1>1 DEF Last
<1>7. Cardinality(missing) \in Nat /\ Cardinality(missing) <= c
      /\ d.size = Len(d.payload) + Cardinality(missing)
  BY <1>1, <1>4
<1>8. Len(d.payload) > 0
  BY <1>1
<1> QED BY <1>1, <1>5, <1>6, <1>7, <1>8 DEF TailOf, missing

LEMMA TailSeen ==
  ASSUME NEW s, NEW n \in Nat, NEW a \in 1..n, NEW A \in SUBSET (a..n), a \in A, n \in A,
         NEW c \in Nat, n - a + 1 <= Cardinality(A) + c, NEW m, m = n - a + 1,
         Num(s, a) \in Int,
         NEW d, d.payload = Concat(SeenFrom(s, n, a, A, m)), d.size = m
  PROVE  TailOf(d, n, c)
<1> DEFINE info == SeenFrom(s, n, a, A, m)
           q == Concat(info)
           N == Cardinality(A)
           missing == (d.payload[1]..n) \ ToSet(d.payload)
<1>1. info.fragments = KeptFrom(Num(s, a), a, A)
  BY DEF SeenFrom
<1>2. d.payload = q /\ a \in Int /\ n \in Int
  OBVIOUS
<1> HIDE DEF info
<1>3. /\ N \in Nat \ {0}
      /\ q \in [1..N -> A]
      /\ \A x \in A : \E i \in 1..N : q[i] = x
      /\ \A i, l \in 1..N : i < l => q[i] < q[l]
      /\ q[1] = a /\ q[N] = n
  <2>1. /\ Num(s, a) \in Int /\ a \in Int /\ n \in Int /\ A \in SUBSET (a..n)
        /\ a \in A /\ n \in A
    BY <1>2
  <2> HIDE DEF q, N
  <2>2. Lists(Concat(info), A, a, n)
    BY <1>1, <2>1, ConcatSeen
  <2> QED BY <2>2 DEF q, N, Lists
<1> HIDE DEF q
<1>4. A \subseteq 1..n
  OBVIOUS
<1>5. q \in Seq(1..n) /\ Len(q) = N
  <2>1. q \in [1..N -> 1..n] /\ N \in Nat
    BY <1>3, <1>4
  <2> HIDE DEF N
  <2> QED BY <2>1
<1>6. ToSet(q) = A
  <2>1. ToSet(q) = {q[i] : i \in 1..N}
    BY <1>3 DEF ToSet
  <2> HIDE DEF N
  <2>2. \A i \in 1..N : q[i] \in A
    BY <1>3
  <2>3. \A x \in A : x \in ToSet(q)
    BY <1>3, <2>1
  <2>4. \A x \in ToSet(q) : x \in A
    BY <2>1, <2>2
  <2> QED BY <2>3, <2>4
<1>7. missing = (a..n) \ A
  BY <1>2, <1>3, <1>6
<1>8. Cardinality(missing) = n - a + 1 - N
  <2>1. IsFiniteSet(a..n) /\ Cardinality(a..n) = n - a + 1
    BY FS_Interval
  <2>2. (a..n) \cap A = A
    OBVIOUS
  <2>3. \A S, T : IsFiniteSet(S) =>
          Cardinality(S \ T) = Cardinality(S) - Cardinality(S \cap T)
    BY FS_Difference
  <2>4. Cardinality((a..n) \ A) = Cardinality(a..n) - Cardinality((a..n) \cap A)
    BY <2>1, <2>3, Zenon
  <2> HIDE DEF missing, N
  <2>5. N = Cardinality((a..n) \cap A)
    BY <2>2 DEF N
  <2> QED BY <1>3, <1>7, <2>1, <2>4, <2>5
<1>9. Cardinality(missing) \in Nat
  <2>1. IsFiniteSet(a..n)
    BY FS_Interval
  <2>2. IsFiniteSet(missing)
    BY <1>7, <2>1, FS_Difference
  <2> QED BY <2>2, FS_CardinalityType
<1> HIDE DEF N, missing
<1>10. \A i \in 2..Len(q) : q[i - 1] < q[i]
  <2>1. ASSUME NEW i \in 2..N PROVE q[i - 1] < q[i]
    <3>1. i - 1 \in 1..N /\ i \in 1..N /\ i - 1 < i
      BY <1>3
    <3> QED BY <1>3, <3>1
  <2> QED BY <1>5, <2>1
<1>11. Last(q) = n
  BY <1>3, <1>5 DEF Last
<1>12. Cardinality(missing) <= c /\ d.size = Len(q) + Cardinality(missing)
  <2>1. n - a + 1 <= N + c
    BY DEF N
  <2> QED BY <1>3, <1>5, <1>8, <2>1
<1>13. Len(q) > 0
  BY <1>3, <1>5
<1> QED BY <1>2, <1>5, <1>9, <1>10, <1>11, <1>12, <1>13 DEF TailOf, missing

\* The fragments of a frame are its own, hence finitely many.
LEMMA FlyingKnown ==
  ASSUME TInv, NEW first, Numbered(first), ArrivedKnown, NEW f \in 1..Len(pushed)
  PROVE  /\ Flying(net, f) \subseteq 1..pushed[f]
         /\ IsFiniteSet(arrived[f] \cup Flying(net, f))
         /\ Cardinality(arrived[f] \cup Flying(net, f)) \in Nat
         /\ IsFiniteSet(arrived[f]) /\ Cardinality(arrived[f]) \in Nat
         /\ Cardinality(Of(net, f)) \in Nat
         /\ duplicated \in Nat /\ Counted(f) \in Nat
<1>1. Flying(net, f) \subseteq 1..pushed[f]
  BY DEF Flying, Of, Numbered
<1>2. arrived[f] \subseteq 1..pushed[f]
  BY DEF ArrivedKnown
<1>3. pushed[f] \in Nat /\ Len(net) \in Nat
  BY PacketTypes
<1>4. IsFiniteSet(1..pushed[f])
  <2>1. 1 \in Int /\ pushed[f] \in Int
    BY <1>3
  <2> QED BY <2>1, FS_Interval
<1>5. IsFiniteSet(arrived[f] \cup Flying(net, f)) /\ IsFiniteSet(arrived[f])
  <2>1. arrived[f] \cup Flying(net, f) \in SUBSET (1..pushed[f])
        /\ arrived[f] \in SUBSET (1..pushed[f])
    BY <1>1, <1>2
  <2> QED BY <1>4, <2>1, FS_Subset
<1>6. Cardinality(Of(net, f)) \in Nat
  BY <1>3, OfFinite
<1>7. duplicated \in Nat
  BY NetworkAssumption DEF TInv, NetTypes, Network
<1>8. Counted(f) \in Nat
  BY DEF TInv, FrameTypes, InfoOK, Counted
<1> QED BY <1>1, <1>5, <1>6, <1>7, <1>8, FS_CardinalityType

LEMMA InitInOrder == ASSUME Init PROVE RInv
<1>1. TInv
  BY InitTypes
<1>2. pushed = <<>> /\ Len(pushed) = 0 /\ net = <<>> /\ Len(net) = 0
      /\ delivered = <<>> /\ Len(delivered) = 0
  BY EmptySeq DEF Init
<1> DEFINE none == [f \in 1..Len(pushed) |-> 0]
<1>3. 1..Len(pushed) = {}
  BY <1>2
<1>4. none \in FirstNumbers
  BY <1>3 DEF FirstNumbers
<1> HIDE DEF none
<1>5. KInv(none)
  BY <1>2, <1>3, <1>4 DEF KInv, Numbered, Sorted, NotBehind, ArrivedKnown, AllTails
<1> QED BY <1>1, <1>4, <1>5 DEF RInv

\* The packets left keep their numbers and their order.
LEMMA ThinnedOrder ==
  ASSUME TInv, NEW first, Numbered(first), Sorted, NEW i \in 1..Len(net),
         net' = RemoveAt(net, i), pushed' = pushed
  PROVE  /\ Numbered(first)' /\ Sorted'
         /\ \A k \in 1..Len(net') : \E m \in 1..Len(net) : m # i /\ net'[k] = net[m]
<1>1. PICK pos \in [1..Len(net') -> 1..Len(net)] :
        /\ \A k \in 1..Len(net') : pos[k] # i /\ net'[k] = net[pos[k]]
        /\ \A k, l \in 1..Len(net') : k < l => pos[k] < pos[l]
  BY Thinned
<1>2. \A k \in 1..Len(net') : pos[k] \in 1..Len(net) /\ pos[k] # i /\ net'[k] = net[pos[k]]
  BY <1>1
<1>3. Numbered(first)'
  BY <1>2 DEF Numbered
<1>4. Sorted'
  <2>1. ASSUME NEW k \in 1..Len(net'), NEW l \in 1..Len(net'), k < l, net'[k].ts = net'[l].ts
        PROVE  net'[k].frag <= net'[l].frag
    <3>1. pos[k] \in 1..Len(net) /\ pos[l] \in 1..Len(net) /\ pos[k] < pos[l]
          /\ net'[k] = net[pos[k]] /\ net'[l] = net[pos[l]]
      BY <1>1, <2>1
    <3> QED BY <2>1, <3>1 DEF Sorted
  <2> QED BY <2>1 DEF Sorted
<1> QED BY <1>2, <1>3, <1>4

\* One packet fewer for a fragment, and one packet more for a copy.
LEMMA OneLessEach ==
  ASSUME NEW c \in Nat, NEW p \in Nat, NEW q \in Nat, NEW x \in Nat, NEW y \in Nat, NEW d \in Nat,
         c + p <= x + d, x <= y + 1, q = p - 1
  PROVE  c + q <= y + d
OBVIOUS

LEMMA OneMoreEach ==
  ASSUME NEW c \in Nat, NEW p \in Nat, NEW q \in Nat, NEW x \in Nat, NEW y \in Nat, NEW d \in Nat,
         c + p <= x + d, x <= y, q <= p + 1
  PROVE  c + q <= y + (d + 1)
OBVIOUS

\* A packet lost.
LEMMA LoseInOrder ==
  ASSUME TInv, NEW first, KInv(first), NEW i \in 1..Len(net), Lose(i)
  PROVE  KInv(first)'
<1>1. /\ net' = RemoveAt(net, i) /\ network' = network /\ duplicated' = duplicated
      /\ pushed' = pushed /\ frames' = frames /\ delivered' = delivered /\ arrived' = arrived
  BY DEF Lose, senderVars, handlerVars
<1>2. /\ Numbered(first)' /\ Sorted'
      /\ \A k \in 1..Len(net') : \E m \in 1..Len(net) : m # i /\ net'[k] = net[m]
  BY <1>1, ThinnedOrder DEF KInv
<1>3. NotBehind'
  BY <1>1, <1>2 DEF KInv, NotBehind
<1>4. first \in FirstNumbers' /\ ArrivedKnown' /\ AllTails'
  BY <1>1 DEF KInv, FirstNumbers, ArrivedKnown, AllTails
<1>5. ASSUME NEW f \in 1..Len(pushed)
      PROVE  (f \in DOMAIN frames' => HeldFrom(first, f)') /\ Finished(f)' /\ Budget(f)'
  <2>1. f \in DOMAIN frames' => HeldFrom(first, f)'
    BY <1>1 DEF KInv, HeldFrom
  <2>2. Finished(f)'
    BY <1>1 DEF KInv, Finished
  <2>3. /\ Flying(net, f) \subseteq 1..pushed[f]
        /\ IsFiniteSet(arrived[f] \cup Flying(net, f))
        /\ Cardinality(arrived[f] \cup Flying(net, f)) \in Nat
        /\ IsFiniteSet(arrived[f]) /\ Cardinality(Of(net, f)) \in Nat
        /\ duplicated \in Nat /\ Counted(f) \in Nat
    BY FlyingKnown DEF KInv
  <2> DEFINE old == arrived[f] \cup Flying(net, f)
             new == arrived[f] \cup Flying(net', f)
  <2>4. /\ Cardinality(Of(net', f)) = IF net[i].ts = f THEN Cardinality(Of(net, f)) - 1
                                                       ELSE Cardinality(Of(net, f))
        /\ Flying(net', f) \subseteq Flying(net, f)
        /\ Flying(net, f) \subseteq Flying(net', f) \cup {net[i].frag}
        /\ net[i].ts # f => Flying(net', f) = Flying(net, f)
    BY <1>1, OneLess DEF TInv, NetTypes
  <2>5. new \in SUBSET old /\ old \in SUBSET (new \cup {net[i].frag})
    BY <2>4
  <2>6. IsFiniteSet(new) /\ Cardinality(new) \in Nat
    <3> HIDE DEF new, old
    <3>1. IsFiniteSet(old)
      BY <2>3 DEF old
    <3> QED BY <2>5, <3>1, FS_Subset, FS_CardinalityType
  <2>7. Cardinality(old) <= Cardinality(new) + 1
    <3> HIDE DEF new, old
    <3> DEFINE more == new \cup {net[i].frag}
    <3>1. IsFiniteSet(more) /\ Cardinality(more) \in {Cardinality(new), Cardinality(new) + 1}
      BY <2>6, FS_AddElement
    <3>2. old \in SUBSET more
      BY <2>5
    <3> HIDE DEF more
    <3>3. Cardinality(old) <= Cardinality(more) /\ Cardinality(old) \in Nat
      BY <3>1, <3>2, FS_Subset, FS_CardinalityType
    <3> QED BY <2>6, <3>1, <3>3
  <2>8. net[i].ts # f => new = old
    BY <2>4
  <2>9. Counted(f)' = Counted(f)
    BY <1>1 DEF Counted
  <2>10. f \in DOMAIN frames \/ arrived[f] = {} =>
           Counted(f) + Cardinality(Of(net, f)) <= Cardinality(old) + duplicated
    BY DEF KInv, Budget
  <2> HIDE DEF new, old
  <2>11. f \in DOMAIN frames \/ arrived[f] = {} =>
           Counted(f) + Cardinality(Of(net', f)) <= Cardinality(new) + duplicated
    <3>1. Cardinality(old) \in Nat
      BY <2>3 DEF old
    <3>2. CASE net[i].ts = f
      <4>1. Cardinality(Of(net', f)) = Cardinality(Of(net, f)) - 1
        BY <2>4, <3>2
      <4>2. SUFFICES ASSUME Counted(f) + Cardinality(Of(net, f)) <= Cardinality(old) + duplicated
                     PROVE  Counted(f) + Cardinality(Of(net', f)) <= Cardinality(new) + duplicated
        BY <2>10
      <4>3. Cardinality(Of(net', f)) \in Nat
        <5>1. Len(net') \in Nat
          BY <1>1, Thinned
        <5> QED BY <5>1, OfFinite
      <4>4. Counted(f) \in Nat /\ Cardinality(Of(net, f)) \in Nat /\ duplicated \in Nat
            /\ Cardinality(new) \in Nat
        BY <2>3, <2>6
      <4> QED BY <2>7, <3>1, <4>1, <4>2, <4>3, <4>4, OneLessEach
    <3>3. CASE net[i].ts # f
      <4>1. Cardinality(Of(net', f)) = Cardinality(Of(net, f)) /\ new = old
        BY <2>4, <2>8, <3>3
      <4> QED BY <2>10, <4>1
    <3> QED BY <3>2, <3>3
  <2>12. Budget(f)'
    BY <1>1, <2>9, <2>11 DEF Budget, new
  <2> QED BY <2>1, <2>2, <2>12
<1> QED BY <1>1, <1>2, <1>3, <1>4, <1>5 DEF KInv

\* A packet copied: one packet and one copy more.
LEMMA DuplicateInOrder ==
  ASSUME TInv, NEW first, KInv(first), NEW i \in 1..Len(net), Duplicate(i)
  PROVE  KInv(first)'
<1>1. /\ net' = InsertAt(net, i, net[i]) /\ network' = network /\ duplicated' = duplicated + 1
      /\ pushed' = pushed /\ frames' = frames /\ delivered' = delivered /\ arrived' = arrived
  BY DEF Duplicate, senderVars, handlerVars
<1>2. /\ net \in Seq(InFlight(Len(pushed))) /\ Len(net) \in Nat
      /\ \A k \in 1..Len(net) : net[k].frag \in Nat
      /\ duplicated \in Nat
  BY PacketTypes, NetworkAssumption DEF TInv, NetTypes, Network
<1>3. /\ net' \in Seq(InFlight(Len(pushed))) /\ Len(net') = Len(net) + 1 /\ i \in 1..Len(net')
      /\ \A k \in 1..Len(net') : net'[k] = net[IF k <= i THEN k ELSE k - 1]
      /\ RemoveAt(net', i) = net
  BY <1>1, <1>2, CopyTakenOut
<1> DEFINE pos(k) == IF k <= i THEN k ELSE k - 1
<1>4. /\ \A k \in 1..Len(net') : pos(k) \in 1..Len(net) /\ net'[k] = net[pos(k)]
      /\ \A k, l \in 1..Len(net') : k < l => pos(k) <= pos(l)
  <2>1. i \in 1..Len(net)
    OBVIOUS
  <2>2. \A k \in 1..Len(net') : pos(k) \in 1..Len(net)
    BY <1>2, <1>3, <2>1
  <2>3. \A k \in 1..Len(net') : net'[k] = net[pos(k)]
    BY <1>3
  <2>4. ASSUME NEW k \in 1..Len(net'), NEW l \in 1..Len(net'), k < l PROVE pos(k) <= pos(l)
    BY <1>2, <1>3, <2>1, <2>4
  <2> QED BY <2>2, <2>3, <2>4
<1> HIDE DEF pos
<1>5. first \in FirstNumbers' /\ ArrivedKnown'
  BY <1>1 DEF KInv, FirstNumbers, ArrivedKnown
<1>6. AllTails'
  <2>1. ASSUME NEW k \in 1..Len(delivered)
        PROVE  TailOf(delivered[k], pushed[delivered[k].ts], duplicated + 1)
    <3>1. TailOf(delivered[k], pushed[delivered[k].ts], duplicated)
      BY DEF KInv, AllTails
    <3>2. duplicated + 1 \in Nat /\ duplicated <= duplicated + 1
      BY <1>2
    <3> QED BY <1>2, <3>1, <3>2, TailGrows
  <2> QED BY <1>1, <2>1 DEF AllTails
<1>7. Numbered(first)' /\ NotBehind'
  <2>1. Numbered(first)'
    <3>1. Numbered(first)
      BY DEF KInv
    <3>2. \A k \in 1..Len(net') : \E m \in 1..Len(net) : net'[k] = net[m]
      BY <1>4
    <3> QED BY <1>1, <3>1, <3>2 DEF Numbered
  <2>2. NotBehind'
    BY <1>1, <1>4 DEF KInv, NotBehind
  <2> QED BY <2>1, <2>2
<1>8. Sorted'
  <2>1. ASSUME NEW k \in 1..Len(net'), NEW l \in 1..Len(net'), k < l, net'[k].ts = net'[l].ts
        PROVE  net'[k].frag <= net'[l].frag
    <3>1. pos(k) \in 1..Len(net) /\ pos(l) \in 1..Len(net) /\ pos(k) <= pos(l)
          /\ net'[k] = net[pos(k)] /\ net'[l] = net[pos(l)]
      BY <1>4, <2>1
    <3>2. CASE pos(k) = pos(l)
      <4>1. net'[k].frag = net'[l].frag /\ net'[k].frag \in Nat
        BY <1>2, <3>1, <3>2
      <4> QED BY <4>1
    <3>3. CASE pos(k) < pos(l)
      BY <2>1, <3>1, <3>3 DEF KInv, Sorted
    <3> QED BY <3>1, <3>2, <3>3
  <2> QED BY <2>1 DEF Sorted
<1>9. ASSUME NEW f \in 1..Len(pushed)
      PROVE  (f \in DOMAIN frames' => HeldFrom(first, f)') /\ Finished(f)' /\ Budget(f)'
  <2>1. f \in DOMAIN frames' => HeldFrom(first, f)'
    BY <1>1 DEF KInv, HeldFrom
  <2>2. Finished(f)'
    BY <1>1 DEF KInv, Finished
  <2>3. /\ Flying(net, f) \subseteq 1..pushed[f]
        /\ Cardinality(arrived[f] \cup Flying(net, f)) \in Nat
        /\ IsFiniteSet(arrived[f]) /\ Cardinality(Of(net, f)) \in Nat
        /\ Counted(f) \in Nat
    BY FlyingKnown DEF KInv
  <2> DEFINE old == arrived[f] \cup Flying(net, f)
             new == arrived[f] \cup Flying(net', f)
  <2>4. /\ Cardinality(Of(net, f)) = IF net'[i].ts = f THEN Cardinality(Of(net', f)) - 1
                                                       ELSE Cardinality(Of(net', f))
        /\ Flying(net, f) \subseteq Flying(net', f)
    BY <1>3, OneLess
  <2>5. old \in SUBSET new
    BY <2>4
  <2>6. IsFiniteSet(new) /\ Cardinality(new) \in Nat
    <3>1. Flying(net', f) \subseteq 1..pushed[f]
      BY <1>1, <1>7 DEF Flying, Of, Numbered
    <3>2. IsFiniteSet(1..pushed[f])
      <4>1. 1 \in Int /\ pushed[f] \in Int
        BY PacketTypes
      <4> QED BY <4>1, FS_Interval
    <3>3. arrived[f] \subseteq 1..pushed[f]
      BY DEF KInv, ArrivedKnown
    <3>4. new \in SUBSET (1..pushed[f])
      BY <3>1, <3>3
    <3> HIDE DEF new
    <3> QED BY <3>2, <3>4, FS_Subset, FS_CardinalityType
  <2>7. Counted(f)' = Counted(f)
    BY <1>1 DEF Counted
  <2>8. f \in DOMAIN frames \/ arrived[f] = {} =>
           Counted(f) + Cardinality(Of(net, f)) <= Cardinality(old) + duplicated
    BY DEF KInv, Budget
  <2>9. Cardinality(old) \in Nat
    BY <2>3
  <2>10. Cardinality(Of(net', f)) \in Nat
    BY <1>2, <1>3, OfFinite
  <2> HIDE DEF new, old
  <2>11. Cardinality(old) <= Cardinality(new)
    BY <2>5, <2>6, FS_Subset
  <2>12. f \in DOMAIN frames \/ arrived[f] = {} =>
           Counted(f) + Cardinality(Of(net', f)) <= Cardinality(new) + (duplicated + 1)
    <3> DEFINE before == Cardinality(Of(net, f))
               after == Cardinality(Of(net', f))
    <3>1. before \in Nat /\ after \in Nat
      BY <2>3, <2>10
    <3>2. before = IF net'[i].ts = f THEN after - 1 ELSE after
      BY <2>4
    <3> HIDE DEF before, after
    <3>3. after <= before + 1
      <4>1. CASE net'[i].ts = f
        BY <3>1, <3>2, <4>1
      <4>2. CASE net'[i].ts # f
        BY <3>1, <3>2, <4>2
      <4> QED BY <4>1, <4>2
    <3>4. f \in DOMAIN frames \/ arrived[f] = {} =>
            Counted(f) + before <= Cardinality(old) + duplicated
      BY <2>8 DEF before
    <3>5. f \in DOMAIN frames \/ arrived[f] = {} =>
            Counted(f) + after <= Cardinality(new) + (duplicated + 1)
      <4>1. SUFFICES ASSUME Counted(f) + before <= Cardinality(old) + duplicated
                     PROVE  Counted(f) + after <= Cardinality(new) + (duplicated + 1)
        BY <3>4
      <4>2. Counted(f) \in Nat /\ duplicated \in Nat /\ Cardinality(new) \in Nat
        BY <1>2, <2>3, <2>6
      <4> QED BY <2>9, <2>11, <3>1, <3>3, <4>1, <4>2, OneMoreEach
    <3> QED BY <3>5 DEF after
  <2>13. Budget(f)'
    BY <1>1, <2>7, <2>12 DEF Budget, new
  <2> QED BY <2>1, <2>2, <2>13
<1> QED BY <1>1, <1>5, <1>6, <1>7, <1>8, <1>9 DEF KInv

LEMMA PushInOrder ==
  ASSUME TInv, NEW first, KInv(first), NEW n \in Sizes, PushFrame(n)
  PROVE  \E g \in FirstNumbers' : KInv(g)'
<1> DEFINE N == Len(pushed)
<1>1. /\ N \in Nat /\ n \in Nat /\ Len(net) \in Nat
      /\ network' = network /\ duplicated' = duplicated
      /\ frames' = frames /\ delivered' = delivered
      /\ Len(pushed') = N + 1 /\ pushed'[N + 1] = n
      /\ arrived'[N + 1] = {} /\ N + 1 \notin DOMAIN frames
      /\ Len(net') = Len(net) + n
  BY PushEffect
<1>2. \A f \in 1..N : pushed'[f] = pushed[f] /\ arrived'[f] = arrived[f]
  BY PushEffect
<1>3. \A i \in 1..Len(net) : net'[i] = net[i] /\ net[i].ts \in 1..N
  BY PushEffect
<1>4. \A i \in 1..Len(net') : i > Len(net) =>
        i - Len(net) \in 1..n /\ net'[i].ts = N + 1 /\ net'[i].frag = i - Len(net)
  BY PushEffect
<1>5. PICK g \in FirstNumbers' : (\A f \in 1..N : g[f] = first[f]) /\ Numbered(g)'
  BY PushNumbers DEF KInv
<1>6. ASSUME NEW i \in 1..Len(net'), i > Len(net) PROVE i \in (Len(net) + 1)..(Len(net) + n)
  BY <1>1, <1>6
<1>7. ASSUME NEW i \in 1..Len(net'), ~(i > Len(net)) PROVE i \in 1..Len(net)
  BY <1>1, <1>7
<1>8. Sorted'
  <2>1. ASSUME NEW i \in 1..Len(net'), NEW j \in 1..Len(net'), i < j, net'[i].ts = net'[j].ts
        PROVE  net'[i].frag <= net'[j].frag
    <3>1. CASE ~(j > Len(net))
      <4>1. j \in 1..Len(net) /\ i \in 1..Len(net)
        BY <1>1, <1>7, <2>1, <3>1
      <4>2. net'[i] = net[i] /\ net'[j] = net[j]
        BY <1>3, <4>1
      <4> QED BY <2>1, <4>1, <4>2 DEF KInv, Sorted
    <3>2. CASE j > Len(net)
      <4>1. net'[j].ts = N + 1 /\ net'[j].frag = j - Len(net)
        BY <1>4, <3>2
      <4>2. i > Len(net)
        <5>1. SUFFICES ASSUME ~(i > Len(net)) PROVE FALSE
          OBVIOUS
        <5>2. net'[i] = net[i] /\ net[i].ts \in 1..N
          BY <1>3, <1>7, <5>1
        <5> QED BY <1>1, <2>1, <4>1, <5>2
      <4>3. net'[i].frag = i - Len(net)
        BY <1>4, <4>2
      <4> QED BY <1>1, <2>1, <4>1, <4>3
    <3> QED BY <3>1, <3>2
  <2> QED BY <2>1 DEF Sorted
<1>9. NotBehind'
  <2>1. ASSUME NEW i \in 1..Len(net'), NEW j \in arrived'[net'[i].ts]
        PROVE  j <= net'[i].frag
    <3>1. CASE ~(i > Len(net))
      <4>1. i \in 1..Len(net) /\ net'[i] = net[i] /\ net[i].ts \in 1..N
        BY <1>3, <1>7, <3>1
      <4>2. arrived'[net[i].ts] = arrived[net[i].ts]
        BY <1>2, <4>1
      <4> QED BY <2>1, <4>1, <4>2 DEF KInv, NotBehind
    <3>2. CASE i > Len(net)
      <4>1. arrived'[net'[i].ts] = {}
        BY <1>1, <1>4, <3>2
      <4> QED BY <2>1, <4>1
    <3> QED BY <3>1, <3>2
  <2> QED BY <2>1 DEF NotBehind
<1>10. ArrivedKnown' /\ AllTails'
  <2>1. ASSUME NEW f \in 1..N + 1 PROVE arrived'[f] \subseteq 1..pushed'[f]
    <3>1. CASE f \in 1..N
      BY <1>2, <3>1 DEF KInv, ArrivedKnown
    <3>2. CASE f = N + 1
      BY <1>1, <3>2
    <3> QED BY <1>1, <3>1, <3>2
  <2>2. ASSUME NEW k \in 1..Len(delivered)
        PROVE  /\ delivered[k].ts \in 1..N
               /\ TailOf(delivered[k], pushed[delivered[k].ts], duplicated)
    BY DEF KInv, ArrivedKnown, AllTails
  <2>3. ASSUME NEW k \in 1..Len(delivered)
        PROVE  /\ delivered[k].ts \in 1..N + 1
               /\ TailOf(delivered[k], pushed'[delivered[k].ts], duplicated)
    <3>1. pushed'[delivered[k].ts] = pushed[delivered[k].ts] /\ delivered[k].ts \in 1..N + 1
      BY <1>1, <1>2, <2>2
    <3> QED BY <2>2, <3>1
  <2>4. ArrivedKnown'
    BY <1>1, <2>1, <2>3 DEF ArrivedKnown
  <2>5. AllTails'
    BY <1>1, <2>3 DEF AllTails
  <2> QED BY <2>4, <2>5
<1>11. ASSUME NEW f \in 1..N
       PROVE  (f \in DOMAIN frames' => HeldFrom(g, f)') /\ Finished(f)' /\ Budget(f)'
  <2>1. pushed'[f] = pushed[f] /\ arrived'[f] = arrived[f] /\ frames' = frames /\ g[f] = first[f]
    BY <1>1, <1>2, <1>5, <1>11
  <2>2. f \in DOMAIN frames' => HeldFrom(g, f)'
    BY <2>1 DEF KInv, HeldFrom
  <2>3. Finished(f)'
    BY <2>1 DEF KInv, Finished
  <2>4. Of(net', f) = Of(net, f)
    <3>1. ASSUME NEW i \in Of(net', f) PROVE i \in Of(net, f)
      <4>1. i \in 1..Len(net') /\ net'[i].ts = f
        BY <3>1 DEF Of
      <4>2. ~(i > Len(net))
        BY <1>1, <1>4, <4>1
      <4>3. i \in 1..Len(net) /\ net'[i] = net[i]
        BY <1>3, <1>7, <4>1, <4>2
      <4> QED BY <4>1, <4>3 DEF Of
    <3>2. ASSUME NEW i \in Of(net, f) PROVE i \in Of(net', f)
      <4>1. i \in 1..Len(net) /\ net[i].ts = f
        BY <3>2 DEF Of
      <4>2. i \in 1..Len(net') /\ net'[i] = net[i]
        BY <1>1, <1>3, <4>1
      <4> QED BY <4>1, <4>2 DEF Of
    <3> QED BY <3>1, <3>2
  <2>5. Flying(net', f) = Flying(net, f)
    <3>1. \A i \in Of(net, f) : net'[i] = net[i]
      BY <1>3 DEF Of
    <3> QED BY <2>4, <3>1 DEF Flying
  <2>6. Counted(f)' = Counted(f)
    BY <1>1 DEF Counted
  <2>7. Budget(f)
    BY DEF KInv
  <2>8. Budget(f)'
    BY <1>1, <2>1, <2>4, <2>5, <2>6, <2>7 DEF Budget
  <2> QED BY <2>2, <2>3, <2>8
<1>12. ASSUME NEW f, f = N + 1
       PROVE  (f \in DOMAIN frames' => HeldFrom(g, f)') /\ Finished(f)' /\ Budget(f)'
  <2>1. f \notin DOMAIN frames' /\ arrived'[f] = {}
    BY <1>1, <1>12
  <2>2. Of(net', f) = (Len(net) + 1)..(Len(net) + n)
    <3>1. ASSUME NEW i \in Of(net', f) PROVE i \in (Len(net) + 1)..(Len(net) + n)
      <4>1. i \in 1..Len(net') /\ net'[i].ts = f
        BY <3>1 DEF Of
      <4>2. ~(i \in 1..Len(net))
        <5>1. SUFFICES ASSUME i \in 1..Len(net) PROVE FALSE
          OBVIOUS
        <5>2. net'[i].ts \in 1..N
          BY <1>3, <5>1
        <5> QED BY <1>1, <1>12, <4>1, <5>2
      <4> QED BY <1>6, <1>7, <4>1, <4>2
    <3>2. ASSUME NEW i \in (Len(net) + 1)..(Len(net) + n) PROVE i \in Of(net', f)
      <4>1. i \in 1..Len(net') /\ i > Len(net)
        BY <1>1, <3>2
      <4>2. net'[i].ts = f
        BY <1>4, <1>12, <4>1
      <4> QED BY <4>1, <4>2 DEF Of
    <3> QED BY <3>1, <3>2
  <2>3. Cardinality(Of(net', f)) = n
    <3>1. Len(net) + 1 \in Int /\ Len(net) + n \in Int
      BY <1>1
    <3>2. Cardinality((Len(net) + 1)..(Len(net) + n)) = n
      <4>1. Cardinality((Len(net) + 1)..(Len(net) + n)) =
              IF Len(net) + 1 > Len(net) + n THEN 0 ELSE (Len(net) + n) - (Len(net) + 1) + 1
        BY <3>1, FS_Interval
      <4> QED BY <1>1, <4>1
    <3> QED BY <2>2, <3>2
  <2>4. Flying(net', f) = 1..n
    <3>1. ASSUME NEW x \in 1..n PROVE x \in Flying(net', f)
      <4> DEFINE i == Len(net) + x
      <4>1. i \in Of(net', f) /\ i \in 1..Len(net') /\ i > Len(net) /\ i - Len(net) = x
        BY <1>1, <2>2
      <4>2. net'[i].frag = x
        BY <1>4, <4>1
      <4> HIDE DEF i
      <4> QED BY <4>1, <4>2 DEF Flying
    <3>2. ASSUME NEW x \in Flying(net', f) PROVE x \in 1..n
      <4>1. PICK i \in Of(net', f) : x = net'[i].frag
        BY DEF Flying
      <4>2. i \in 1..Len(net') /\ i > Len(net)
        BY <1>1, <2>2
      <4> QED BY <1>4, <4>1, <4>2
    <3> QED BY <3>1, <3>2
  <2>5. Cardinality(arrived'[f] \cup Flying(net', f)) = n
    <3>1. Cardinality(1..n) = n
      <4>1. Cardinality(1..n) = IF 1 > n THEN 0 ELSE n - 1 + 1
        BY <1>1, FS_Interval
      <4> QED BY <1>1, <4>1
    <3>2. arrived'[f] \cup Flying(net', f) = 1..n
      BY <2>1, <2>4
    <3> QED BY <3>1, <3>2
  <2>6. Counted(f)' = 0
    BY <2>1 DEF Counted
  <2>7. duplicated' \in Nat
    BY <1>1, NetworkAssumption DEF TInv, NetTypes, Network
  <2>8. Counted(f)' + Cardinality(Of(net', f))
          <= Cardinality(arrived'[f] \cup Flying(net', f)) + duplicated'
    BY <1>1, <2>3, <2>5, <2>6, <2>7
  <2>9. Budget(f)'
    BY <2>8 DEF Budget
  <2>10. Finished(f)'
    BY <2>1 DEF Finished
  <2> QED BY <2>1, <2>9, <2>10
<1>13. ASSUME NEW f \in 1..Len(pushed')
       PROVE  (f \in DOMAIN frames' => HeldFrom(g, f)') /\ Finished(f)' /\ Budget(f)'
  <2>1. f \in 1..N \/ f = N + 1
    BY <1>1
  <2> QED BY <1>11, <1>12, <2>1
<1>14. KInv(g)'
  BY <1>5, <1>8, <1>9, <1>10, <1>13 DEF KInv
<1> QED BY <1>5, <1>14

\* What an arrival changes when the order is kept: the packet is the oldest in
\* flight, and no fragment of its frame that comes later comes before it.
LEMMA ArrivalInOrder ==
  ASSUME TInv, NEW first, KInv(first), InOrder, NEW i \in 1..Len(net), Arrive(i)
  PROVE  /\ net' = RemoveAt(net, i) /\ pushed' = pushed /\ duplicated' = duplicated
         /\ net[i].ts \in 1..Len(pushed) /\ net[i].frag \in 1..pushed[net[i].ts]
         /\ \A f \in 1..Len(pushed) :
              arrived'[f] = IF f = net[i].ts THEN arrived[f] \cup {net[i].frag} ELSE arrived[f]
         /\ \A j \in arrived[net[i].ts] : j <= net[i].frag
         /\ \A m \in 1..Len(net) : m # i /\ net[m].ts = net[i].ts => net[i].frag <= net[m].frag
         /\ Numbered(first)' /\ Sorted' /\ NotBehind'
         /\ first \in FirstNumbers' /\ \A f \in 1..Len(pushed) : arrived'[f] \subseteq 1..pushed[f]
<1> DEFINE p == net[i]
<1>1. /\ net' = RemoveAt(net, i) /\ pushed' = pushed /\ duplicated' = duplicated
      /\ arrived' = [arrived EXCEPT ![net[i].ts] = @ \cup {net[i].frag}]
      /\ MayArrive(i)
  BY DEF Arrive, senderVars, faultVars
<1>2. i = 1
  BY <1>1 DEF MayArrive, InOrder
<1>3. /\ p.ts \in 1..Len(pushed) /\ p.frag \in 1..pushed[p.ts]
      /\ Len(net) \in Nat /\ DOMAIN arrived = 1..Len(pushed)
      /\ \A m \in 1..Len(net) : net[m].ts \in 1..Len(pushed) /\ net[m].frag \in Nat
      /\ \A f \in 1..Len(pushed) : arrived[f] \subseteq 1..pushed[f] /\ pushed[f] \in Nat
  <2>1. DOMAIN arrived = 1..Len(pushed)
    BY LenProperties DEF TInv, SenderTypes
  <2> QED BY <2>1, PacketTypes DEF KInv, Numbered, ArrivedKnown
<1>4. \A f \in 1..Len(pushed) :
        arrived'[f] = IF f = p.ts THEN arrived[f] \cup {p.frag} ELSE arrived[f]
  BY <1>1, <1>3
<1>5. \A j \in arrived[p.ts] : j <= p.frag
  BY DEF KInv, NotBehind
<1>6. \A m \in 1..Len(net) : m # i /\ net[m].ts = p.ts => p.frag <= net[m].frag
  <2>1. ASSUME NEW m \in 1..Len(net), m # i, net[m].ts = p.ts PROVE p.frag <= net[m].frag
    <3>1. i < m
      BY <1>2, <2>1
    <3> QED BY <2>1, <3>1 DEF KInv, Sorted
  <2> QED BY <2>1
<1> HIDE DEF p
<1>7. /\ Numbered(first)' /\ Sorted'
      /\ \A k \in 1..Len(net') : \E m \in 1..Len(net) : m # i /\ net'[k] = net[m]
  BY <1>1, ThinnedOrder DEF KInv
<1>8. NotBehind'
  <2>1. ASSUME NEW k \in 1..Len(net'), NEW j \in arrived'[net'[k].ts] PROVE j <= net'[k].frag
    <3>1. PICK m \in 1..Len(net) : m # i /\ net'[k] = net[m]
      BY <1>7
    <3>2. net[m].ts \in 1..Len(pushed)
      BY <1>3
    <3>3. CASE j \in arrived[net[m].ts]
      BY <3>1, <3>3 DEF KInv, NotBehind
    <3>4. CASE j \notin arrived[net[m].ts]
      <4>1. net[m].ts = p.ts /\ j = p.frag
        BY <1>4, <2>1, <3>1, <3>2, <3>4
      <4> QED BY <1>6, <3>1, <4>1
    <3> QED BY <3>3, <3>4
  <2> QED BY <2>1 DEF NotBehind
<1>9. first \in FirstNumbers'
  BY <1>1 DEF KInv, FirstNumbers
<1>10. \A f \in 1..Len(pushed) : arrived'[f] \subseteq 1..pushed[f]
  BY <1>3, <1>4
<1> QED BY <1>1, <1>3, <1>4, <1>5, <1>6, <1>7, <1>8, <1>9, <1>10 DEF p

\* The frames the packet does not belong to.
LEMMA OthersInOrder ==
  ASSUME TInv, NEW first, KInv(first), InOrder, NEW i \in 1..Len(net), Arrive(i),
         NEW f \in 1..Len(pushed), f # net[i].ts
  PROVE  (f \in DOMAIN frames' => HeldFrom(first, f)') /\ Finished(f)' /\ Budget(f)'
<1>1. /\ pushed' = pushed /\ duplicated' = duplicated /\ arrived'[f] = arrived[f]
      /\ net' = RemoveAt(net, i)
  BY ArrivalInOrder
<1>2. /\ f \in DOMAIN frames' <=> f \in DOMAIN frames
      /\ f \in DOMAIN frames => frames'[f] = frames[f]
  BY Handled
<1>3. f \in DOMAIN frames' => HeldFrom(first, f)'
  BY <1>1, <1>2 DEF KInv, HeldFrom
<1>4. Finished(f)'
  BY <1>1, <1>2 DEF KInv, Finished
<1>5. Cardinality(Of(net', f)) = Cardinality(Of(net, f)) /\ Flying(net', f) = Flying(net, f)
  BY <1>1, OneLess DEF TInv, NetTypes
<1>6. Counted(f)' = Counted(f)
  BY <1>2 DEF Counted
<1>7. Budget(f)
  BY DEF KInv
<1>8. Budget(f)'
  BY <1>1, <1>2, <1>5, <1>6, <1>7 DEF Budget
<1> QED BY <1>3, <1>4, <1>8

\* The count of the frame the packet belongs to.
LEMMA CountInOrder ==
  ASSUME TInv, NEW first, KInv(first), InOrder, NEW i \in 1..Len(net), Arrive(i),
         NEW f, f = net[i].ts,
         f \in DOMAIN frames \/ arrived[f] = {}
  PROVE  /\ Counted(f) + 1 + Cardinality(Of(net', f))
              <= Cardinality(arrived'[f] \cup Flying(net', f)) + duplicated
         /\ Cardinality(Of(net', f)) \in Nat
<1>1. /\ net' = RemoveAt(net, i) /\ arrived'[f] = arrived[f] \cup {net[i].frag}
      /\ f \in 1..Len(pushed) /\ Numbered(first) /\ ArrivedKnown
  BY ArrivalInOrder DEF KInv
<1>2. /\ Flying(net, f) \subseteq 1..pushed[f]
      /\ IsFiniteSet(arrived[f] \cup Flying(net, f))
      /\ Cardinality(arrived[f] \cup Flying(net, f)) \in Nat
      /\ Cardinality(Of(net, f)) \in Nat
      /\ duplicated \in Nat /\ Counted(f) \in Nat
  BY <1>1, FlyingKnown
<1> DEFINE old == arrived[f] \cup Flying(net, f)
           new == arrived'[f] \cup Flying(net', f)
<1>3. /\ Cardinality(Of(net', f)) = Cardinality(Of(net, f)) - 1
      /\ Flying(net', f) \subseteq Flying(net, f)
      /\ Flying(net, f) \subseteq Flying(net', f) \cup {net[i].frag}
  BY <1>1, OneLess DEF TInv, NetTypes
<1>4. net[i].frag \in Flying(net, f)
  BY DEF Flying, Of
<1>5. new = old
  BY <1>1, <1>3, <1>4
<1>6. Counted(f) + Cardinality(Of(net, f)) <= Cardinality(old) + duplicated
  BY <1>1 DEF KInv, Budget
<1> HIDE DEF old, new
<1>7. Cardinality(Of(net', f)) \in Nat
  <2>1. Len(net') \in Nat
    BY <1>1, Thinned
  <2> QED BY <2>1, OfFinite
<1>8. Cardinality(old) \in Nat
  BY <1>2 DEF old
<1> DEFINE c == Counted(f)
           before == Cardinality(Of(net, f))
           after == Cardinality(Of(net', f))
<1>9. c \in Nat /\ before \in Nat /\ after \in Nat /\ after = before - 1
      /\ c + before <= Cardinality(old) + duplicated /\ duplicated \in Nat
  BY <1>2, <1>3, <1>6, <1>7
<1> HIDE DEF c, before, after
<1>10. c + 1 + after <= Cardinality(old) + duplicated
  BY <1>8, <1>9
<1>11. c + 1 + after <= Cardinality(new) + duplicated
  BY <1>5, <1>10
<1> QED BY <1>7, <1>11 DEF c, after, new

\* The frame the packet belongs to: it is opened, added to or handed over.
LEMMA FrameInOrder ==
  ASSUME TInv, NEW first, KInv(first), InOrder, NEW i \in 1..Len(net), Arrive(i),
         NEW f, f = net[i].ts
  PROVE  /\ (f \in DOMAIN frames' => HeldFrom(first, f)') /\ Finished(f)' /\ Budget(f)'
         /\ \/ delivered' = delivered
            \/ \E d : /\ delivered' = Append(delivered, d) /\ d.ts = f
                      /\ TailOf(d, pushed[f], duplicated)
<1> DEFINE p == net[i]
           j == p.frag
           n == pushed[f]
           A == arrived[f]
           s == first[f]
           B == A \cup {j}
<1>1. /\ pushed' = pushed /\ duplicated' = duplicated /\ f \in 1..Len(pushed)
      /\ j \in 1..n /\ arrived'[f] = B /\ \A x \in A : x <= j
  BY ArrivalInOrder
<1>2. p.seq = Num(s, j) /\ (p.marker <=> j = n)
  BY DEF KInv, Numbered
<1>3. /\ n \in 1..SeqSpace - 1 /\ n \in Nat /\ s \in 0..SeqSpace - 1 /\ SeqSpace \in Nat
      /\ duplicated \in Nat
  BY <1>1, PacketTypes, NetworkAssumption DEF KInv, FirstNumbers, TInv, NetTypes, Network
<1>4. A \in SUBSET (1..n) /\ IsFiniteSet(A) /\ Cardinality(A) \in Nat
  BY <1>1, FlyingKnown DEF KInv, ArrivedKnown
<1>5. OpenFrame(p) \/ SinglePacket(p) \/ KeepFragment(p) \/ CompleteFrame(p)
  BY DEF Arrive
<1>6. (f \in DOMAIN frames => HeldFrom(first, f)) /\ Finished(f)
  BY <1>1 DEF KInv
<1>7. f \in DOMAIN frames \/ A = {} =>
        /\ Counted(f) + 1 + Cardinality(Of(net', f))
             <= Cardinality(B \cup Flying(net', f)) + duplicated
        /\ Cardinality(Of(net', f)) \in Nat
  BY <1>1, CountInOrder
<1>8. /\ p.ts = f /\ p.frag = j /\ pushed'[f] = n /\ (Known(f) <=> f \in DOMAIN frames)
  BY <1>1 DEF Known
<1>9. IsFiniteSet(B) /\ Cardinality(B) \in Nat /\ Cardinality(B) <= Cardinality(A) + 1
      /\ B \in SUBSET (1..n) /\ j \in B /\ B # {}
  <2>1. IsFiniteSet(B) /\ Cardinality(B) \in {Cardinality(A), Cardinality(A) + 1}
    BY <1>4, FS_AddElement
  <2>2. B \in SUBSET (1..n) /\ j \in B
    BY <1>1, <1>4
  <2> HIDE DEF B
  <2> QED BY <1>4, <2>1, <2>2
<1>10. \A k \in 1..Len(net') : net'[k].ts = f =>
         net'[k].frag \in 1..n /\ \A x \in B : x <= net'[k].frag
  <2>1. Numbered(first)' /\ NotBehind'
    BY ArrivalInOrder
  <2> QED BY <1>1, <2>1 DEF Numbered, NotBehind
<1>11. n \in B => B \cup Flying(net', f) = B
  <2>1. ASSUME n \in B, NEW x \in Flying(net', f) PROVE x \in B
    <3>1. PICK k \in Of(net', f) : x = net'[k].frag
      BY DEF Flying
    <3>2. x \in 1..n /\ n <= x
      BY <1>10, <2>1, <3>1 DEF Of
    <3>3. x = n
      BY <1>3, <3>2
    <3> QED BY <2>1, <3>3
  <2> QED BY <2>1
<1> HIDE DEF p, j, n, A, s, B
<1>12. ASSUME f \notin DOMAIN frames PROVE A = {} \/ j = n
  <2>1. A # {} => n \in A
    BY <1>6, <1>12 DEF Finished, A, n
  <2>2. n \in A => n <= j
    BY <1>1
  <2> QED BY <1>1, <1>3, <2>1, <2>2
<1>13. CASE f \notin DOMAIN frames /\ j = n
  <2>1. SinglePacket(p)
    BY <1>2, <1>5, <1>8, <1>13 DEF OpenFrame, KeepFragment, CompleteFrame
  <2> DEFINE d == [ts |-> f, payload |-> <<n>>, size |-> 1]
  <2>2. frames' = frames /\ delivered' = Append(delivered, d)
    BY <1>8, <1>13, <2>1 DEF SinglePacket
  <2>3. d.ts = f /\ d.payload = <<n>> /\ d.size = 1 /\ n \in Nat \ {0}
    BY <1>3
  <2> HIDE DEF d
  <2>4. TailOf(d, n, duplicated)
    BY <1>3, <2>3, TailAlone
  <2>5. f \notin DOMAIN frames' /\ n \in arrived'[f] /\ arrived'[f] # {}
    BY <1>1, <1>9, <1>13, <2>2
  <2>6. Finished(f)' /\ Budget(f)'
    BY <1>8, <2>5 DEF Finished, Budget
  <2> QED BY <2>2, <2>3, <2>4, <2>5, <2>6 DEF n
<1>14. CASE f \notin DOMAIN frames /\ j # n
  <2>1. A = {} /\ B = {j}
    BY <1>12, <1>14 DEF B
  <2>2. OpenFrame(p)
    BY <1>2, <1>5, <1>8, <1>14 DEF SinglePacket, KeepFragment, CompleteFrame
  <2>3. SeenFrom(s, n, j, {j}, 1) =
          [npkts |-> 1, size |-> 1, s_seq |-> Num(s, j), e_seq |-> INVALID_SEQ,
           fragments |-> [k \in {Num(s, j)} |-> j]]
    BY <1>1, <1>3, <1>14, SeenFirst
  <2>4. delivered' = delivered
        /\ frames' = [t \in DOMAIN frames \cup {f} |->
                        IF t = f THEN SeenFrom(s, n, j, {j}, 1) ELSE frames[t]]
    BY <1>2, <1>8, <2>2, <2>3 DEF OpenFrame
  <2>5. f \in DOMAIN frames' /\ frames'[f] = SeenFrom(s, n, j, B, 1) /\ frames'[f].npkts = 1
    BY <2>1, <2>4 DEF SeenFrom
  <2>6. ~AllThere(frames'[f])
    BY <1>1, <1>3, <1>14, <2>1, <2>5, SeenComplete
  <2>7. Cardinality(B) = 1
    BY <2>1, FS_Singleton
  <2>8. \A x \in B : j <= x
    BY <1>1, <2>1
  <2>9. HeldFrom(first, f)'
    <3>1. /\ j \in arrived'[f] /\ j # pushed'[f] /\ \A x \in arrived'[f] : j <= x
          /\ frames'[f] = SeenFrom(first[f], pushed'[f], j, arrived'[f], frames'[f].npkts)
          /\ Cardinality(arrived'[f]) <= frames'[f].npkts
      <4>1. j \in arrived'[f] /\ j # pushed'[f] /\ \A x \in arrived'[f] : j <= x
        BY <1>1, <1>8, <1>9, <1>14, <2>8
      <4>2. frames'[f] = SeenFrom(first[f], pushed'[f], j, arrived'[f], frames'[f].npkts)
        BY <1>1, <1>8, <2>5 DEF s
      <4>3. Cardinality(arrived'[f]) <= frames'[f].npkts
        BY <1>1, <2>5, <2>7
      <4> QED BY <4>1, <4>2, <4>3
    <3>2. \E a \in arrived'[f] :
            /\ a # pushed'[f] /\ \A x \in arrived'[f] : a <= x
            /\ frames'[f] = SeenFrom(first[f], pushed'[f], a, arrived'[f], frames'[f].npkts)
            /\ Cardinality(arrived'[f]) <= frames'[f].npkts
            /\ ~AllThere(frames'[f])
      BY <2>6, <3>1, Zenon
    <3> QED BY <3>2 DEF HeldFrom
  <2>10. Counted(f) = 0 /\ Counted(f)' = 1
    BY <1>14, <2>5 DEF Counted
  <2>11. 1 + Cardinality(Of(net', f)) <= Cardinality(B \cup Flying(net', f)) + duplicated
    BY <1>7, <2>1, <2>10
  <2>12. Budget(f)'
    BY <1>1, <2>10, <2>11 DEF Budget
  <2>13. Finished(f)'
    BY <2>5 DEF Finished
  <2> QED BY <2>4, <2>9, <2>12, <2>13
<1>15. CASE f \in DOMAIN frames
  <2> DEFINE m == frames[f].npkts
             added == AddFragment(frames[f], p)
  <2>1. PICK a \in A : /\ a # n /\ \A x \in A : a <= x
                       /\ frames[f] = SeenFrom(s, n, a, A, m)
                       /\ Cardinality(A) <= m
    BY <1>6, <1>15 DEF HeldFrom, A, n, s
  <2>2. m \in Nat /\ Counted(f) = m
    BY <1>15 DEF TInv, FrameTypes, InfoOK, Counted
  <2>3. a \in 1..n /\ j \in a..n /\ a <= j
    BY <1>1, <1>3, <1>4, <2>1
  <2> HIDE DEF m, added
  <2>4. added = SeenFrom(s, n, a, B, m + 1)
    BY <1>2, <1>3, <1>8, <2>1, <2>3, SeenAdded DEF added, B
  <2>5. AllThere(added) <=> n \in B /\ m + 1 = n - a + 1
    BY <1>3, <2>3, <2>4, SeenComplete
  <2>6. a \in B /\ (\A x \in B : a <= x) /\ B \in SUBSET (a..n)
    <3>1. a \in B /\ \A x \in B : a <= x
      BY <2>1, <2>3 DEF B
    <3> QED BY <1>3, <1>9, <2>3, <3>1
  <2>7. m + 1 + Cardinality(Of(net', f)) <= Cardinality(B \cup Flying(net', f)) + duplicated
        /\ Cardinality(Of(net', f)) \in Nat
    BY <1>7, <1>15, <2>2
  <2>8. CASE AllThere(added)
    <3>1. CompleteFrame(p)
      BY <1>5, <1>8, <1>15, <2>8 DEF OpenFrame, SinglePacket, KeepFragment, added
    <3> DEFINE d == [ts |-> f, payload |-> Concat(added), size |-> added.size]
    <3>2. delivered' = Append(delivered, d)
          /\ frames' = [t \in DOMAIN frames \ {f} |-> frames[t]]
      BY <1>8, <3>1 DEF CompleteFrame, added
    <3>3. d.ts = f /\ d.payload = Concat(SeenFrom(s, n, a, B, m + 1)) /\ d.size = m + 1
      BY <2>4 DEF SeenFrom
    <3> HIDE DEF d
    <3>4. n \in B /\ m + 1 = n - a + 1
      BY <2>5, <2>8
    <3>5. n - a + 1 <= Cardinality(B) + duplicated
      <4>1. m + 1 + Cardinality(Of(net', f)) <= Cardinality(B) + duplicated
        BY <1>11, <2>7, <3>4
      <4> DEFINE more == Cardinality(Of(net', f))
                 there == Cardinality(B)
      <4>2. more \in Nat /\ there \in Nat /\ m + 1 + more <= there + duplicated
        BY <1>9, <2>7, <4>1
      <4> HIDE DEF more, there
      <4>3. m + 1 <= there + duplicated
        BY <1>3, <2>2, <4>2
      <4> QED BY <3>4, <4>3 DEF there
    <3>6. Num(s, a) \in Int
      <4>1. a \in 1..SeqSpace - 1
        BY <1>3, <2>3
      <4> QED BY <1>3, <4>1, NumWraps
    <3>7. TailOf(d, n, duplicated)
      BY <1>3, <2>3, <2>6, <3>3, <3>4, <3>5, <3>6, TailSeen
    <3>8. f \notin DOMAIN frames' /\ n \in arrived'[f] /\ arrived'[f] # {}
      BY <1>1, <3>2, <3>4
    <3>9. Finished(f)' /\ Budget(f)'
      BY <1>8, <3>8 DEF Finished, Budget
    <3> QED BY <3>2, <3>3, <3>7, <3>8, <3>9 DEF n
  <2>9. CASE ~AllThere(added)
    <3>1. KeepFragment(p)
      BY <1>5, <1>8, <1>15, <2>9 DEF OpenFrame, SinglePacket, CompleteFrame, added
    <3>2. delivered' = delivered /\ frames' = [frames EXCEPT ![f] = added]
      BY <1>8, <3>1 DEF KeepFragment, added
    <3>3. f \in DOMAIN frames' /\ frames'[f] = added
      BY <1>15, <3>2
    <3>4. frames'[f].npkts = m + 1 /\ frames'[f] = SeenFrom(s, n, a, B, frames'[f].npkts)
      BY <2>4, <3>3 DEF SeenFrom
    <3>5. Cardinality(B) <= m + 1
      BY <1>4, <1>9, <2>1, <2>2
    <3>6. HeldFrom(first, f)'
      <4>1. /\ a \in arrived'[f] /\ a # pushed'[f] /\ \A x \in arrived'[f] : a <= x
            /\ frames'[f] = SeenFrom(first[f], pushed'[f], a, arrived'[f], frames'[f].npkts)
            /\ Cardinality(arrived'[f]) <= frames'[f].npkts
        BY <1>1, <1>8, <2>1, <2>6, <3>4, <3>5 DEF s
      <4>2. ~AllThere(frames'[f])
        BY <2>9, <3>3
      <4>3. \E b \in arrived'[f] :
              /\ b # pushed'[f] /\ \A x \in arrived'[f] : b <= x
              /\ frames'[f] = SeenFrom(first[f], pushed'[f], b, arrived'[f], frames'[f].npkts)
              /\ Cardinality(arrived'[f]) <= frames'[f].npkts
              /\ ~AllThere(frames'[f])
        BY <4>1, <4>2, Zenon
      <4> QED BY <4>3 DEF HeldFrom
    <3>7. Counted(f)' = m + 1
      BY <3>3, <3>4 DEF Counted
    <3>8. Budget(f)'
      BY <1>1, <2>7, <3>7 DEF Budget
    <3>9. Finished(f)'
      BY <3>3 DEF Finished
    <3> QED BY <3>2, <3>6, <3>8, <3>9
  <2> QED BY <2>8, <2>9
<1> QED BY <1>13, <1>14, <1>15

LEMMA ArriveInOrder ==
  ASSUME TInv, NEW first, KInv(first), InOrder, NEW i \in 1..Len(net), Arrive(i)
  PROVE  KInv(first)'
<1>0. PICK f : f = net[i].ts
  OBVIOUS
<1>1. /\ pushed' = pushed /\ duplicated' = duplicated /\ f \in 1..Len(pushed)
      /\ Numbered(first)' /\ Sorted' /\ NotBehind' /\ first \in FirstNumbers'
      /\ \A g \in 1..Len(pushed) : arrived'[g] \subseteq 1..pushed[g]
  BY <1>0, ArrivalInOrder
<1>2. /\ (f \in DOMAIN frames' => HeldFrom(first, f)') /\ Finished(f)' /\ Budget(f)'
      /\ \/ delivered' = delivered
         \/ \E d : /\ delivered' = Append(delivered, d) /\ d.ts = f
                   /\ TailOf(d, pushed[f], duplicated)
  BY <1>0, FrameInOrder
<1>3. ASSUME NEW g \in 1..Len(pushed)
      PROVE  (g \in DOMAIN frames' => HeldFrom(first, g)') /\ Finished(g)' /\ Budget(g)'
  <2>1. CASE g = f
    BY <1>2, <2>1
  <2>2. CASE g # f
    BY <1>0, <2>2, OthersInOrder
  <2> QED BY <2>1, <2>2
<1>4. \A k \in 1..Len(delivered) :
        /\ delivered[k].ts \in 1..Len(pushed)
        /\ TailOf(delivered[k], pushed[delivered[k].ts], duplicated)
  BY DEF KInv, ArrivedKnown, AllTails
<1>5. \A k \in 1..Len(delivered') :
        /\ delivered'[k].ts \in 1..Len(pushed)
        /\ TailOf(delivered'[k], pushed[delivered'[k].ts], duplicated)
  <2>1. CASE delivered' = delivered
    BY <1>4, <2>1
  <2>2. ASSUME NEW d, delivered' = Append(delivered, d), d.ts = f,
               TailOf(d, pushed[f], duplicated),
               NEW k \in 1..Len(delivered')
        PROVE  /\ delivered'[k].ts \in 1..Len(pushed)
               /\ TailOf(delivered'[k], pushed[delivered'[k].ts], duplicated)
    <3>1. PICK D : delivered \in Seq(D)
      BY DEF TInv, FrameTypes
    <3>2. Len(delivered') = Len(delivered) + 1 /\ Len(delivered) \in Nat
          /\ \A l \in 1..(Len(delivered) + 1) :
               delivered'[l] = IF l <= Len(delivered) THEN delivered[l] ELSE d
      BY <2>2, <3>1, Appended, LenProperties
    <3>3. CASE k <= Len(delivered)
      <4>1. k \in 1..Len(delivered) /\ delivered'[k] = delivered[k]
        BY <3>2, <3>3
      <4> QED BY <1>4, <4>1
    <3>4. CASE ~(k <= Len(delivered))
      <4>1. delivered'[k] = d
        BY <3>2, <3>4
      <4> QED BY <1>1, <2>2, <4>1
    <3> QED BY <3>3, <3>4
  <2> QED BY <1>2, <2>1, <2>2
<1>6. ArrivedKnown' /\ AllTails'
  BY <1>1, <1>5 DEF ArrivedKnown, AllTails
<1> QED BY <1>1, <1>3, <1>6 DEF KInv

-----------------------------------------------------------------------------

LEMMA NextInOrder == ASSUME RInv, [Next]_vars PROVE RInv'
<1>1. TInv /\ TInv'
  BY NextTypes DEF RInv
<1>2. network' = network
  BY DEF Next, PushFrame, Arrive, Lose, Duplicate, vars, faultVars
<1>3. ASSUME InOrder PROVE \E g \in FirstNumbers' : KInv(g)'
  <2>1. PICK first \in FirstNumbers : KInv(first)
    BY <1>3 DEF RInv
  <2>2. ASSUME KInv(first)' PROVE \E g \in FirstNumbers' : KInv(g)'
    BY <2>2 DEF KInv
  <2>3. ASSUME NEW n \in Sizes, PushFrame(n) PROVE \E g \in FirstNumbers' : KInv(g)'
    BY <1>1, <2>1, <2>3, PushInOrder
  <2>4. ASSUME NEW i \in 1..Len(net), Arrive(i) PROVE KInv(first)'
    BY <1>1, <1>3, <2>1, <2>4, ArriveInOrder
  <2>5. ASSUME NEW i \in 1..Len(net), Lose(i) PROVE KInv(first)'
    BY <1>1, <2>1, <2>5, LoseInOrder
  <2>6. ASSUME NEW i \in 1..Len(net), Duplicate(i) PROVE KInv(first)'
    BY <1>1, <2>1, <2>6, DuplicateInOrder
  <2>7. CASE UNCHANGED vars
    <3>1. /\ network' = network /\ pushed' = pushed /\ net' = net /\ duplicated' = duplicated
          /\ frames' = frames /\ delivered' = delivered /\ arrived' = arrived
      BY <2>7 DEF vars
    <3>2. first \in FirstNumbers' /\ Numbered(first)' /\ Sorted' /\ NotBehind'
      BY <2>1, <3>1 DEF KInv, FirstNumbers, Numbered, Sorted, NotBehind
    <3>3. ArrivedKnown' /\ AllTails'
      BY <2>1, <3>1 DEF KInv, ArrivedKnown, AllTails
    <3>4. ASSUME NEW f \in 1..Len(pushed)
          PROVE  (f \in DOMAIN frames' => HeldFrom(first, f)') /\ Finished(f)' /\ Budget(f)'
      <4>1. (f \in DOMAIN frames => HeldFrom(first, f)) /\ Finished(f) /\ Budget(f)
        BY <2>1 DEF KInv
      <4>2. (f \in DOMAIN frames' => HeldFrom(first, f)') /\ Finished(f)'
        BY <3>1, <4>1 DEF HeldFrom, Finished
      <4>3. Budget(f)'
        BY <3>1, <4>1 DEF Budget, Counted
      <4> QED BY <4>2, <4>3
    <3> QED BY <2>2, <3>1, <3>2, <3>3, <3>4 DEF KInv
  <2> QED BY <2>2, <2>3, <2>4, <2>5, <2>6, <2>7 DEF Next
<1> QED BY <1>1, <1>2, <1>3 DEF RInv, InOrder

LEMMA InvHoles == ASSUME RInv PROVE HolesAreCopies
<1>1. SUFFICES ASSUME InOrder, NEW k \in 1..Len(delivered)
               PROVE  LET d == delivered[k]
                          missing == (d.payload[1]..pushed[d.ts]) \ ToSet(d.payload)
                      IN  /\ \A i \in 2..Len(d.payload) : d.payload[i - 1] < d.payload[i]
                          /\ Last(d.payload) = pushed[d.ts]
                          /\ Cardinality(missing) <= duplicated
                          /\ d.size = Len(d.payload) + Cardinality(missing)
  BY DEF HolesAreCopies
<1>2. TailOf(delivered[k], pushed[delivered[k].ts], duplicated)
  BY <1>1 DEF RInv, KInv, AllTails
<1> QED BY <1>2 DEF TailOf

\* Without copies the packets counted are the fragments there; if those are all
\* from the first one to the last, the frame counts as complete.
LEMMA InvHeld == ASSUME RInv PROVE HeldHasHole
<1>1. SUFFICES ASSUME InOrder, network.copies = 0, NEW f \in DOMAIN frames,
                      pushed[f] \in arrived[f],
                      \A i \in 1..pushed[f] : i \notin arrived[f] => \A j \in arrived[f] : ~(j < i)
               PROVE  FALSE
  BY DEF HeldHasHole
<1>2. PICK first : KInv(first)
  BY <1>1 DEF RInv
<1> DEFINE n == pushed[f]
           A == arrived[f]
           s == first[f]
           m == frames[f].npkts
<1>3. f \in 1..Len(pushed) /\ duplicated = 0
  BY <1>1 DEF RInv, TInv, FrameTypes, NetTypes
<1>4. /\ n \in 1..SeqSpace - 1 /\ n \in Nat /\ s \in 0..SeqSpace - 1 /\ SeqSpace \in Nat
  BY <1>2, <1>3, PacketTypes DEF RInv, KInv, FirstNumbers
<1>5. PICK a \in A : /\ a # n /\ \A j \in A : a <= j
                     /\ frames[f] = SeenFrom(s, n, a, A, m)
                     /\ Cardinality(A) <= m /\ ~AllThere(frames[f])
  BY <1>2, <1>3 DEF KInv, HeldFrom
<1>6. A \subseteq 1..n
  BY <1>2, <1>3 DEF KInv, ArrivedKnown
<1>7. A \cup Flying(net, f) = A
  <2>1. ASSUME NEW x \in Flying(net, f) PROVE x \in A
    <3>1. PICK k \in Of(net, f) : x = net[k].frag
      BY DEF Flying
    <3>2. k \in 1..Len(net) /\ net[k].ts = f
      BY <3>1 DEF Of
    <3>3. x \in 1..n /\ n <= x
      BY <1>1, <1>2, <3>1, <3>2 DEF KInv, Numbered, NotBehind
    <3>4. x = n
      BY <1>4, <3>3
    <3> QED BY <1>1, <3>4
  <2> QED BY <2>1
<1>8. m <= Cardinality(A)
  <2>1. Budget(f)
    BY <1>2, <1>3 DEF KInv
  <2>2. /\ Cardinality(A) \in Nat /\ Cardinality(Of(net, f)) \in Nat /\ Counted(f) \in Nat
    BY <1>2, <1>3, FlyingKnown DEF RInv, KInv
  <2>3. Counted(f) = m
    BY <1>1 DEF Counted
  <2>4. m + Cardinality(Of(net, f)) <= Cardinality(A) + 0
    BY <1>1, <1>3, <1>7, <2>1, <2>3 DEF Budget
  <2> HIDE DEF m, A
  <2> QED BY <2>2, <2>3, <2>4
<1>9. A = a..n
  <2>1. ASSUME NEW x \in a..n PROVE x \in A
    <3>1. x \in 1..n /\ a <= x
      BY <1>4, <1>6
    <3>2. CASE x = a
      BY <3>2
    <3>3. CASE x # a
      <4>1. a < x
        BY <1>4, <1>6, <3>1, <3>3
      <4> QED BY <1>1, <3>1, <4>1
    <3> QED BY <3>2, <3>3
  <2>2. ASSUME NEW x \in A PROVE x \in a..n
    BY <1>4, <1>5, <1>6
  <2> QED BY <2>1, <2>2
<1>10. a \in 1..n
  BY <1>6
<1>11. Cardinality(A) = n - a + 1
  <2>1. a \in Int /\ n \in Int /\ a <= n
    BY <1>4, <1>10
  <2>2. Cardinality(a..n) = n - a + 1
    BY <2>1, FS_Interval
  <2> QED BY <1>9, <2>2
<1>12. m = n - a + 1
  <2>1. m \in Nat
    BY DEF RInv, TInv, FrameTypes, InfoOK
  <2> HIDE DEF A, m
  <2> QED BY <1>4, <1>5, <1>8, <1>10, <1>11, <2>1
<1>13. AllThere(SeenFrom(s, n, a, A, m))
  BY <1>1, <1>4, <1>10, <1>12, SeenComplete
<1> QED BY <1>5, <1>13

\* Over every network that keeps the order, whatever it loses or copies, what is
\* handed over is the end of a frame; holes in it are no more than the copies
\* made, and the size covers them.
THEOREM HandedOverIsTail == Spec => []HolesAreCopies
<1>1. Init => RInv
  BY InitInOrder
<1>2. RInv /\ [Next]_vars => RInv'
  BY NextInOrder
<1>3. RInv => HolesAreCopies
  BY InvHoles
<1> QED BY <1>1, <1>2, <1>3, PTL DEF Spec

\* Over such a network that copies nothing, a frame is held only while its last
\* fragment or one in its middle is missing.
THEOREM HeldIsIncomplete == Spec => []HeldHasHole
<1>1. Init => RInv
  BY InitInOrder
<1>2. RInv /\ [Next]_vars => RInv'
  BY NextInOrder
<1>3. RInv => HeldHasHole
  BY InvHeld
<1> QED BY <1>1, <1>2, <1>3, PTL DEF Spec
=============================================================================
