-------------------------- MODULE FramePacingProofs --------------------------
(***************************************************************************)
(* Theorems of FramePacing for any rates, paces, frame sizes, delays and   *)
(* settings of the clock.  While the clock has not been set, the time a    *)
(* push has lost (lag) accounts exactly for the distance between the       *)
(* moment a frame was due and the moment the code reads its clock.         *)
(***************************************************************************)
EXTENDS FramePacing, SequenceTheorems, TLAPS

\* A push has packets left, and waits for a slot only with RCE_FRAME_RATE.
Pushing ==
  /\ pc # "idle" => n > 0 /\ k < n
  /\ pc \in {"sync", "wait", "limit"} => "frame_rate" \in Flags
  /\ sets = 0 => skew = 0

\* When the next slot is, by the clock of the system.
Due == sync + frames * interval

Later(a, b) == IF a < b THEN b ELSE a

\* Once the forced synchronisation is over, the frame before this one was due
\* one interval before the next slot.
Rhythm ==
  sets = 0 =>
    /\ slot <= now
    /\ "frame_rate" \in Flags /\ ~force => slot + interval = Due

\* Before a frame is sent: the time lost in the push is what separates the
\* time read from the clock, or the end of the sleep, from the slot.
Waiting ==
  sets = 0 =>
    /\ pc = "sync" => base = now - lag
    /\ pc = "wait" => lag = Later(now, wake) - Due /\ wake >= Due
    /\ pc = "limit" => wake >= slot + interval

\* While it is sent: no packet is later than its share and the time lost.
Spread ==
  sets = 0 =>
    /\ pc \in {"send", "pace"} => base <= slot + lag
    /\ pc = "send" => now <= slot + lag + k * PacketInterval
    /\ pc = "pace" => Later(now, wake) <= slot + lag + k * PacketInterval

\* The inductive invariant.
IInv == TypeOK /\ Pushing /\ WaitIsLimited /\ Rhythm /\ Waiting /\ Spread

-----------------------------------------------------------------------------
(* Arithmetic *)

\* The whole part of a quotient does not exceed it.
LEMMA Quotient ==
  ASSUME NEW a \in Nat, NEW b \in Nat, b > 0
  PROVE  a \div b \in Nat /\ b * (a \div b) <= a
OBVIOUS

\* A quotient that set_fps takes is not 0.
LEMMA AtLeastOne ==
  ASSUME NEW a \in Nat, NEW b \in Nat, b > 0, a >= b
  PROVE  a \div b \in Nat /\ a \div b > 0
OBVIOUS

\* Multiplying by a natural number keeps the order.
LEMMA MonotoneTimes ==
  ASSUME NEW a \in Int, NEW b \in Int, NEW c \in Nat, a <= b
  PROVE  c * a <= c * b
OBVIOUS

\* An interval of a rate that set_fps is given is a natural number.
LEMMA IntervalIsNat == ASSUME NEW r \in Rates PROVE IntervalOf(r) \in Nat
<1>1. r[1] \in Nat /\ r[2] \in Nat /\ r[2] > 0 /\ r[1] >= r[2]
  BY RatesAssumption
<1>2. r[1] \div r[2] \in Nat /\ r[1] \div r[2] > 0
  BY <1>1, AtLeastOne
<1> QED BY <1>2, Quotient, SecondAssumption DEF IntervalOf

\* The packets before the last take no more than the share of the interval.
LEMMA Share ==
  ASSUME NEW pn \in Nat, NEW pd \in Nat, pd > 0, NEW i \in Nat,
         NEW m \in Nat, m > 0, NEW j \in Nat, j <= m
  PROVE  /\ (pn * i) \div (pd * m) \in Nat
         /\ pd * (j * ((pn * i) \div (pd * m))) <= pn * i
<1> DEFINE a == pn * i
           b == pd * m
           q == a \div b
<1>1. a \in Nat /\ b \in Nat /\ b > 0
  OBVIOUS
<1>2. q \in Nat /\ b * q <= a
  BY <1>1, Quotient
<1> HIDE DEF q, a
<1>3. j * q <= m * q
  BY <1>2, MonotoneTimes
<1>4. pd * (j * q) <= pd * (m * q)
  BY <1>2, <1>3, MonotoneTimes
<1>5. pd * (m * q) = b * q
  BY <1>2
<1>6. pd * (j * q) <= a
  BY <1>1, <1>2, <1>4, <1>5
<1> QED BY <1>2, <1>6 DEF q, a, b

\* The time between two packets, while a frame is sent.
LEMMA PacketIntervalIsShare ==
  ASSUME TypeOK, n > 0, NEW j \in 0..n
  PROVE  /\ PacketInterval \in Nat
         /\ pace[2] * (j * PacketInterval) <= pace[1] * interval
<1>1. pace[1] \in Nat /\ pace[2] \in Nat /\ pace[2] > 0
  BY PacesAssumption DEF TypeOK
<1>2. n \in Nat /\ interval \in Nat /\ j \in Nat /\ j <= n
  BY DEF TypeOK
<1> QED BY <1>1, <1>2, Share DEF PacketInterval

\* The next slot is a time, and so is the interval of the packets.
LEMMA TimesAreIntegers ==
  ASSUME TypeOK
  PROVE  Due \in Int /\ WaitTime = Due - base /\ (n > 0 => PacketInterval \in Nat)
<1>1. Due \in Int /\ WaitTime = Due - base
  BY DEF TypeOK, Due, WaitTime
<1>2. ASSUME n > 0 PROVE PacketInterval \in Nat
  <2>1. 0 \in 0..n
    BY <1>2 DEF TypeOK
  <2> QED BY <1>2, <2>1, PacketIntervalIsShare
<1> QED BY <1>1, <1>2

-----------------------------------------------------------------------------
\* Every step keeps the variables in their types.
LEMMA TypePreserved ==
  ASSUME TypeOK, Pushing, [Next]_vars
  PROVE  TypeOK'
<1> USE DEF vars, timeVars, configVars, syncVars, pushVars, TypeOK, Pushing
<1>1. ASSUME NEW rate \in Rates, set_fps(rate) PROVE TypeOK'
  BY <1>1, IntervalIsNat, EmptySeq DEF set_fps
<1>2. ASSUME NEW p \in Paces, set_pace(p) PROVE TypeOK'
  BY <1>2 DEF set_pace
<1>3. ASSUME NEW m \in 1..MaxPackets, Begin(m) PROVE TypeOK'
  BY <1>3, PacingBounds DEF Begin, Clock
<1>4. CASE SyncNow
  BY <1>4 DEF SyncNow, Clock, WaitTime
<1>5. CASE SleepForSlot
  BY <1>5 DEF SleepForSlot, WaitTime
<1>6. CASE SlotComes
  <2>1. Due - skew \in Int /\ slot' = Due - skew
    BY <1>6, TimesAreIntegers DEF SlotComes, Due
  <2> QED BY <1>6, <2>1 DEF SlotComes, Clock
<1>7. CASE LimitComes
  BY <1>7 DEF LimitComes, Awake, Clock
<1>8. CASE SendAll
  BY <1>8 DEF SendAll, Return, Begun
<1>9. CASE SleepForPacket
  <2>1. PacketInterval \in Nat
    BY <1>9, TimesAreIntegers DEF SleepForPacket
  <2>2. base + k * PacketInterval \in Int
    BY <2>1
  <2> QED BY <1>9, <2>2 DEF SleepForPacket, PacketDue, Clock
<1>10. ASSUME NEW ok \in BOOLEAN, SendPacket(ok) PROVE TypeOK'
  <2>1. starts' \in Seq(Nat)
    BY <1>10 DEF SendPacket, Begun
  <2>2. CASE ok /\ k + 1 < n
    BY <1>10, <2>1, <2>2 DEF SendPacket
  <2>3. CASE ~(ok /\ k + 1 < n)
    BY <1>10, <2>1, <2>3 DEF SendPacket, Return
  <2> QED BY <2>2, <2>3
<1>11. CASE Tick
  <2>1. CASE Busy
    BY <1>11, <2>1 DEF Tick
  <2>2. CASE ~Busy
    BY <1>11, <2>2 DEF Tick
  <2> QED BY <2>1, <2>2
<1>12. ASSUME NEW step \in Steps, SetClock(step) PROVE TypeOK'
  BY <1>12, PacingBounds DEF SetClock, Clock
<1>13. CASE UNCHANGED vars
  BY <1>13
<1> QED
  BY <1>1, <1>2, <1>3, <1>4, <1>5, <1>6, <1>7, <1>8, <1>9, <1>10, <1>11,
     <1>12, <1>13 DEF Next

\* Every step keeps a push within its packets.
LEMMA PushingPreserved ==
  ASSUME TypeOK, Pushing, [Next]_vars
  PROVE  Pushing'
<1> USE DEF vars, timeVars, configVars, syncVars, pushVars, TypeOK, Pushing
<1>1. ASSUME NEW rate \in Rates, set_fps(rate) PROVE Pushing'
  BY <1>1 DEF set_fps
<1>2. ASSUME NEW p \in Paces, set_pace(p) PROVE Pushing'
  BY <1>2 DEF set_pace
<1>3. ASSUME NEW m \in 1..MaxPackets, Begin(m) PROVE Pushing'
  BY <1>3 DEF Begin, Clock
<1>4. CASE SyncNow
  BY <1>4 DEF SyncNow, Clock, WaitTime
<1>5. CASE SleepForSlot
  BY <1>5 DEF SleepForSlot, WaitTime
<1>6. CASE SlotComes
  BY <1>6 DEF SlotComes, Awake
<1>7. CASE LimitComes
  BY <1>7 DEF LimitComes, Awake
<1>8. CASE SendAll
  BY <1>8 DEF SendAll, Return, Begun
<1>9. CASE SleepForPacket
  BY <1>9 DEF SleepForPacket, PacketDue
<1>10. ASSUME NEW ok \in BOOLEAN, SendPacket(ok) PROVE Pushing'
  BY <1>10 DEF SendPacket, Return, Begun, Awake
<1>11. CASE Tick
  BY <1>11 DEF Tick, Busy, Asleep, Awake
<1>12. ASSUME NEW step \in Steps, SetClock(step) PROVE Pushing'
  BY <1>12 DEF SetClock, Clock
<1>13. CASE UNCHANGED vars
  BY <1>13
<1> QED
  BY <1>1, <1>2, <1>3, <1>4, <1>5, <1>6, <1>7, <1>8, <1>9, <1>10, <1>11,
     <1>12, <1>13 DEF Next

\* Every step keeps the wait for a slot limited.
LEMMA LimitedPreserved ==
  ASSUME TypeOK, WaitIsLimited, [Next]_vars
  PROVE  WaitIsLimited'
<1> USE DEF vars, timeVars, configVars, syncVars, pushVars, TypeOK,
            WaitIsLimited
<1>1. ASSUME NEW rate \in Rates, set_fps(rate) PROVE WaitIsLimited'
  BY <1>1 DEF set_fps
<1>2. ASSUME NEW p \in Paces, set_pace(p) PROVE WaitIsLimited'
  BY <1>2 DEF set_pace
<1>3. ASSUME NEW m \in 1..MaxPackets, Begin(m) PROVE WaitIsLimited'
  BY <1>3 DEF Begin, Clock
<1>4. CASE SyncNow
  BY <1>4 DEF SyncNow, Clock, WaitTime
<1>5. CASE SleepForSlot
  BY <1>5 DEF SleepForSlot, WaitTime
<1>6. CASE SlotComes
  BY <1>6 DEF SlotComes, Awake
<1>7. CASE LimitComes
  BY <1>7 DEF LimitComes, Awake
<1>8. CASE SendAll
  BY <1>8 DEF SendAll, Return, Begun
<1>9. CASE SleepForPacket
  BY <1>9 DEF SleepForPacket, PacketDue
<1>10. ASSUME NEW ok \in BOOLEAN, SendPacket(ok) PROVE WaitIsLimited'
  BY <1>10 DEF SendPacket, Return, Begun, Awake
<1>11. CASE Tick
  BY <1>11 DEF Tick, Busy, Asleep, Awake
<1>12. ASSUME NEW step \in Steps, SetClock(step) PROVE WaitIsLimited'
  BY <1>12 DEF SetClock, Clock
<1>13. CASE UNCHANGED vars
  BY <1>13
<1> QED
  BY <1>1, <1>2, <1>3, <1>4, <1>5, <1>6, <1>7, <1>8, <1>9, <1>10, <1>11,
     <1>12, <1>13 DEF Next

\* Every step keeps the slots an interval apart.
LEMMA RhythmPreserved ==
  ASSUME TypeOK, Pushing, Waiting, Rhythm, [Next]_vars
  PROVE  Rhythm'
<1> USE DEF vars, timeVars, configVars, syncVars, pushVars, TypeOK, Pushing,
            Rhythm, Waiting, Due, Later
<1>1. ASSUME NEW rate \in Rates, set_fps(rate) PROVE Rhythm'
  BY <1>1 DEF set_fps
<1>2. ASSUME NEW p \in Paces, set_pace(p) PROVE Rhythm'
  BY <1>2 DEF set_pace
<1>3. ASSUME NEW m \in 1..MaxPackets, Begin(m) PROVE Rhythm'
  BY <1>3 DEF Begin, Clock
<1>4. CASE SyncNow
  BY <1>4 DEF SyncNow, Clock, WaitTime
<1>5. CASE SleepForSlot
  BY <1>5 DEF SleepForSlot, WaitTime
<1>6. CASE SlotComes
  <2>1. Due \in Int /\ interval \in Nat /\ frames \in Nat /\ sync \in Int
    BY TimesAreIntegers
  <2>2. sync + (frames + 1) * interval = Due + interval
    BY <2>1
  <2>3. Due' = Due + interval /\ slot' = Due - skew
    BY <1>6, <2>2 DEF SlotComes
  <2> HIDE DEF Due
  <2>4. sets = 0 => slot' <= now' /\ slot' + interval' = Due'
    BY <1>6, <2>1, <2>3 DEF SlotComes, Awake
  <2> QED BY <1>6, <2>4 DEF SlotComes
<1>7. CASE LimitComes
  BY <1>7 DEF LimitComes, Awake, Clock
<1>8. CASE SendAll
  BY <1>8 DEF SendAll, Return, Begun
<1>9. CASE SleepForPacket
  BY <1>9 DEF SleepForPacket, PacketDue
<1>10. ASSUME NEW ok \in BOOLEAN, SendPacket(ok) PROVE Rhythm'
  BY <1>10 DEF SendPacket, Return, Begun, Awake
<1>11. CASE Tick
  <2>1. CASE Busy
    BY <1>11, <2>1 DEF Tick
  <2>2. CASE ~Busy
    BY <1>11, <2>2 DEF Tick
  <2> QED BY <2>1, <2>2
<1>12. ASSUME NEW step \in Steps, SetClock(step) PROVE Rhythm'
  BY <1>12 DEF SetClock, Clock
<1>13. CASE UNCHANGED vars
  BY <1>13
<1> QED
  BY <1>1, <1>2, <1>3, <1>4, <1>5, <1>6, <1>7, <1>8, <1>9, <1>10, <1>11,
     <1>12, <1>13 DEF Next

\* Every step keeps account of the time lost before a frame is sent.
LEMMA WaitingPreserved ==
  ASSUME TypeOK, Pushing, Rhythm, Waiting, [Next]_vars
  PROVE  Waiting'
<1> USE DEF vars, timeVars, configVars, syncVars, pushVars, TypeOK, Pushing,
            Rhythm, Waiting, Due, Later
<1>1. ASSUME NEW rate \in Rates, set_fps(rate) PROVE Waiting'
  BY <1>1 DEF set_fps
<1>2. ASSUME NEW p \in Paces, set_pace(p) PROVE Waiting'
  BY <1>2 DEF set_pace
<1>3. ASSUME NEW m \in 1..MaxPackets, Begin(m) PROVE Waiting'
  BY <1>3 DEF Begin, Clock
<1>4. CASE SyncNow
  BY <1>4 DEF SyncNow, Clock, WaitTime
<1>5. CASE SleepForSlot
  <2>1. Due \in Int /\ WaitTime = Due - base
    BY TimesAreIntegers
  <2>2. Due' = Due
    BY <1>5 DEF SleepForSlot
  <2> HIDE DEF Due
  <2> QED BY <1>5, <2>1, <2>2 DEF SleepForSlot
<1>6. CASE SlotComes
  BY <1>6 DEF SlotComes, Awake
<1>7. CASE LimitComes
  BY <1>7 DEF LimitComes, Awake
<1>8. CASE SendAll
  BY <1>8 DEF SendAll, Return, Begun
<1>9. CASE SleepForPacket
  BY <1>9 DEF SleepForPacket, PacketDue
<1>10. ASSUME NEW ok \in BOOLEAN, SendPacket(ok) PROVE Waiting'
  BY <1>10 DEF SendPacket, Return, Begun, Awake
<1>11. CASE Tick
  <2>1. Due' = Due /\ Due \in Int
    BY <1>11, TimesAreIntegers DEF Tick
  <2> HIDE DEF Due
  <2>2. CASE Busy
    BY <1>11, <2>1, <2>2 DEF Tick, Busy, Asleep, Awake
  <2>3. CASE ~Busy
    BY <1>11, <2>1, <2>3 DEF Tick, Busy, Asleep, Awake
  <2> QED BY <2>2, <2>3
<1>12. ASSUME NEW step \in Steps, SetClock(step) PROVE Waiting'
  BY <1>12 DEF SetClock, Clock
<1>13. CASE UNCHANGED vars
  BY <1>13
<1> QED
  BY <1>1, <1>2, <1>3, <1>4, <1>5, <1>6, <1>7, <1>8, <1>9, <1>10, <1>11,
     <1>12, <1>13 DEF Next

\* Every step keeps the packets within the share, up to the time lost.
LEMMA SpreadPreserved ==
  ASSUME TypeOK, Pushing, Rhythm, Waiting, Spread, [Next]_vars
  PROVE  Spread'
<1> USE DEF vars, timeVars, configVars, syncVars, pushVars, TypeOK, Pushing,
            Waiting, Spread, Due, Later
<1>1. ASSUME NEW rate \in Rates, set_fps(rate) PROVE Spread'
  BY <1>1 DEF set_fps
<1>2. ASSUME NEW p \in Paces, set_pace(p) PROVE Spread'
  BY <1>2 DEF set_pace
<1>3. ASSUME NEW m \in 1..MaxPackets, Begin(m) PROVE Spread'
  <2>1. m \in Nat /\ n' = m /\ m > 0 /\ k' = 0
    BY <1>3, PacingBounds DEF Begin
  <2>2. PacketInterval' \in Nat
    BY <1>3, <2>1, PacketIntervalIsShare, TypePreserved, PacesAssumption, Share
    DEF PacketInterval, Begin
  <2>3. k' * PacketInterval' = 0
    <3>1. \A x \in Nat : 0 * x = 0
      OBVIOUS
    <3> QED BY <2>1, <2>2, <3>1, Zenon
  <2>4. /\ base' = now + skew /\ lag' = 0 /\ UNCHANGED <<now, sets>>
        /\ pc' # "pace" /\ (pc' = "send" => slot' = now)
    BY <1>3 DEF Begin, Clock
  <2> QED BY <2>3, <2>4
<1>4. CASE SyncNow
  <2>1. PacketInterval' = PacketInterval /\ k' = k
    BY <1>4 DEF SyncNow, PacketInterval
  <2>2. PacketInterval \in Nat /\ k * PacketInterval >= 0
    BY <1>4, TimesAreIntegers DEF SyncNow
  <2> QED BY <1>4, <2>1, <2>2 DEF SyncNow, Clock
<1>5. CASE SleepForSlot
  <2>1. PacketInterval' = PacketInterval /\ k' = k
    BY <1>5 DEF SleepForSlot, PacketInterval
  <2>2. PacketInterval \in Nat /\ k * PacketInterval >= 0
    BY <1>5, TimesAreIntegers DEF SleepForSlot
  <2> QED BY <1>5, <2>1, <2>2 DEF SleepForSlot
<1>6. CASE SlotComes
  <2>1. PacketInterval' = PacketInterval /\ k' = k
    BY <1>6 DEF SlotComes, PacketInterval
  <2>2. PacketInterval \in Nat /\ k * PacketInterval >= 0 /\ Due \in Int
    BY <1>6, TimesAreIntegers DEF SlotComes
  <2>3. slot' = Due - skew /\ now' = now /\ base' = now + skew /\ lag' = lag /\ now >= wake
    BY <1>6 DEF SlotComes, Awake, Clock
  <2>4. sets = 0 => lag = now - Due /\ skew = 0
    BY <1>6, <2>2, <2>3 DEF SlotComes
  <2> HIDE DEF Due
  <2> QED BY <1>6, <2>1, <2>2, <2>3, <2>4 DEF SlotComes
<1>7. CASE LimitComes
  <2>1. PacketInterval' = PacketInterval /\ k' = k
    BY <1>7 DEF LimitComes, PacketInterval
  <2>2. PacketInterval \in Nat /\ k * PacketInterval >= 0
    BY <1>7, TimesAreIntegers DEF LimitComes
  <2> QED BY <1>7, <2>1, <2>2 DEF LimitComes, Clock
<1>8. CASE SendAll
  BY <1>8 DEF SendAll, Return
<1>9. CASE SleepForPacket
  <2>1. PacketInterval' = PacketInterval /\ k' = k
    BY <1>9 DEF SleepForPacket, PacketInterval
  <2>2. PacketInterval \in Nat
    BY <1>9, TimesAreIntegers DEF SleepForPacket
  <2> DEFINE next == k * PacketInterval
  <2>3. next \in Nat /\ PacketDue = base + next
    BY <2>2 DEF PacketDue
  <2>4. /\ wake' = now + (IF PacketDue > Clock THEN PacketDue - Clock ELSE 0)
        /\ pc = "send" /\ pc' = "pace"
    BY <1>9 DEF SleepForPacket
  <2>5. UNCHANGED <<now, base, slot, lag, sets, skew>>
    BY <1>9 DEF SleepForPacket
  <2>6. Spread => (sets = 0 => base <= slot + lag /\ now <= slot + lag + next)
    BY <2>4
  <2>7. k' * PacketInterval' = next
    BY <2>1
  <2> HIDE DEF next
  <2> QED BY <2>3, <2>4, <2>5, <2>6, <2>7 DEF Clock
<1>10. ASSUME NEW ok \in BOOLEAN, SendPacket(ok) PROVE Spread'
  <2>1. CASE ok /\ k + 1 < n
    <3>1. /\ PacketInterval' = PacketInterval /\ k' = k + 1 /\ pc = "pace" /\ pc' = "send"
          /\ now >= wake /\ UNCHANGED <<now, base, slot, lag, sets>>
      BY <1>10, <2>1 DEF SendPacket, PacketInterval, Awake
    <3>2. PacketInterval \in Nat
      BY <3>1, TimesAreIntegers
    <3>3. (k + 1) * PacketInterval = k * PacketInterval + PacketInterval
      BY <3>2
    <3> QED BY <3>1, <3>2, <3>3
  <2>2. CASE ~(ok /\ k + 1 < n)
    BY <1>10, <2>2 DEF SendPacket, Return
  <2> QED BY <2>1, <2>2
<1>11. CASE Tick
  <2>1. k' * PacketInterval' = k * PacketInterval
    BY <1>11 DEF Tick, PacketInterval
  <2>2. pc \in {"send", "pace"} => k * PacketInterval \in Int
    BY TimesAreIntegers
  <2> HIDE DEF PacketInterval
  <2>3. CASE Busy
    BY <1>11, <2>1, <2>2, <2>3 DEF Tick, Busy, Asleep, Awake
  <2>4. CASE ~Busy
    BY <1>11, <2>1, <2>2, <2>4 DEF Tick, Busy, Asleep, Awake
  <2> QED BY <2>3, <2>4
<1>12. ASSUME NEW step \in Steps, SetClock(step) PROVE Spread'
  BY <1>12 DEF SetClock
<1>13. CASE UNCHANGED vars
  BY <1>13 DEF PacketInterval
<1> QED
  BY <1>1, <1>2, <1>3, <1>4, <1>5, <1>6, <1>7, <1>8, <1>9, <1>10, <1>11,
     <1>12, <1>13 DEF Next

-----------------------------------------------------------------------------
(* The theorems *)

\* The initial states satisfy the inductive invariant.
LEMMA InitEstablishes == Init => IInv
<1> SUFFICES ASSUME Init PROVE IInv
  OBVIOUS
<1>1. interval \in Nat
  BY IntervalIsNat DEF Init
<1>2. TypeOK
  BY <1>1, EmptySeq DEF Init, TypeOK
<1>3. Pushing /\ WaitIsLimited /\ Waiting /\ Spread
  BY DEF Init, Pushing, WaitIsLimited, Waiting, Spread
<1>4. "frame_rate" \in Flags => force
  BY Zenon DEF Init
<1>5. Rhythm
  BY <1>4 DEF Init, Rhythm
<1> QED BY <1>2, <1>3, <1>5 DEF IInv

\* Every step keeps it.
LEMMA StepPreserves == IInv /\ [Next]_vars => IInv'
BY TypePreserved, PushingPreserved, LimitedPreserved, RhythmPreserved,
   WaitingPreserved, SpreadPreserved DEF IInv

\* The invariant the other theorems rest on: what a push has left to send, how
\* far the slots are apart, and how the delay of a push adds up.
THEOREM Inductive == Spec => []IInv
<1>1. Init => IInv
  BY InitEstablishes
<1>2. IInv /\ [Next]_vars => IInv'
  BY StepPreserves
<1> QED BY <1>1, <1>2, PTL DEF Spec

\* The variables of the pacing stay in their types.
THEOREM TypeCorrect == Spec => []TypeOK
<1>1. IInv => TypeOK
  BY DEF IInv
<1> QED BY <1>1, Inductive, PTL

\* flush_queue waits for a slot no longer than one interval, whenever the
\* application calls it and however the clock is set.
THEOREM WaitLimited == Spec => []WaitIsLimited
<1>1. IInv => WaitIsLimited
  BY DEF IInv
<1> QED BY <1>1, Inductive, PTL

\* The packets of a paced frame are planned within the share of the interval
\* given to set_pace, for any rate, pace and number of packets.
THEOREM PacingStaysInShare == Spec => []PacedWithinShare
<1>1. IInv => PacedWithinShare
  <2> SUFFICES ASSUME IInv, pc = "pace", sets = 0
               PROVE  pace[2] * (wake - slot - lag) <= pace[1] * interval
    BY DEF PacedWithinShare
  <2>1. /\ now \in Nat /\ wake \in Nat /\ slot \in Int /\ lag \in Nat
        /\ n \in Nat /\ k \in Nat /\ n > 0 /\ k < n
    BY DEF IInv, TypeOK, Pushing
  <2>2. pace[1] \in Nat /\ pace[2] \in Nat /\ interval \in Nat
    BY PacesAssumption DEF IInv, TypeOK
  <2>3. /\ PacketInterval \in Nat
        /\ pace[2] * (k * PacketInterval) <= pace[1] * interval
    BY <2>1, PacketIntervalIsShare DEF IInv
  <2>4. wake - slot - lag <= k * PacketInterval
    BY <2>1, <2>3 DEF IInv, Spread, Later
  <2>5. pace[2] * (wake - slot - lag) <= pace[2] * (k * PacketInterval)
    BY <2>1, <2>2, <2>3, <2>4, MonotoneTimes
  <2> QED BY <2>1, <2>2, <2>3, <2>5
<1> QED BY <1>1, Inductive, PTL

\* Once the rhythm is found, no frame is sent less than an interval after the
\* slot of the one before: frames that come late never cause a burst.
THEOREM RateIsKept == Spec => RateKept
<1> DEFINE Step == (pc \in {"sync", "wait", "limit"} /\ pc' = "send" /\ ~force /\ sets = 0)
                     => (slot' >= slot + interval /\ now' >= slot')
<1>1. IInv /\ [Next]_vars => [Step]_vars
  <2> SUFFICES ASSUME IInv, Next, pc \in {"sync", "wait", "limit"}, pc' = "send",
                      ~force, sets = 0
               PROVE  slot' >= slot + interval /\ now' >= slot'
    OBVIOUS
  <2>1. /\ now \in Nat /\ wake \in Nat /\ slot \in Int /\ lag \in Nat
        /\ interval \in Nat /\ base \in Int /\ sync \in Int /\ frames \in Nat
    BY DEF IInv, TypeOK
  <2>2. Due \in Int /\ WaitTime = Due - base /\ slot + interval = Due /\ skew = 0
    BY TimesAreIntegers DEF IInv, Rhythm, Pushing
  <2>3. SyncNow \/ SlotComes \/ LimitComes
    BY DEF Next, set_fps, set_pace, Begin, SleepForSlot, SendAll, SleepForPacket,
           SendPacket, Tick, SetClock, pushVars
  <2>4. CASE SyncNow
    <3>1. slot' = now /\ now' = now /\ WaitTime < 0 /\ pc = "sync"
      BY <2>4 DEF SyncNow, timeVars
    <3>2. base <= now
      BY <2>1, <3>1 DEF IInv, Waiting
    <3> QED BY <2>1, <2>2, <3>1, <3>2
  <2>5. CASE SlotComes
    <3>1. slot' = Due - skew
      BY <2>1, <2>2, <2>5 DEF SlotComes, Due
    <3>2. now' = now /\ now >= wake /\ pc = "wait"
      BY <2>5 DEF SlotComes, Awake, timeVars
    <3>3. wake >= Due
      BY <3>2 DEF IInv, Waiting
    <3> QED BY <2>1, <2>2, <3>1, <3>2, <3>3
  <2>6. CASE LimitComes
    <3>1. slot' = now /\ now' = now /\ now >= wake /\ pc = "limit"
      BY <2>6 DEF LimitComes, Awake, timeVars
    <3>2. wake >= slot + interval
      BY <3>1 DEF IInv, Waiting
    <3> QED BY <2>1, <3>1, <3>2
  <2> QED BY <2>3, <2>4, <2>5, <2>6
<1> QED BY <1>1, Inductive, PTL DEF Spec, RateKept
=============================================================================
