---------------------------- MODULE SenderProofs ----------------------------
(***************************************************************************)
(* Theorems of Sender for any number of images and payloads, any frame     *)
(* rate, and an encoder that delays and fails as it likes.  The argument   *)
(* follows the encoder: what it has handed out of each image so far is in  *)
(* the pending unit or in a finished one, and the units are in the order   *)
(* of the images.                                                          *)
(***************************************************************************)
EXTENDS Sender, SequenceTheorems, TLAPS

Coding == pc \in {"load", "encode", "receive", "drain"}

\* What the encoder has handed out of image p, one of the first coder.pts.
Upto(p) == IF p = coder.pts THEN coder.part ELSE made[p].n
UnitSoFar(p) ==
  Unit(p, [i \in 1..Upto(p) |-> <<p, i>>], made[p].keys \cap (1..Upto(p)) # {})

\* How far the program and the encoder are.
Control ==
  /\ Fed <= images /\ coder.pts <= Fed
  /\ coder.pts = 0 => coder.part = 0
  /\ coder.pts > 0 => coder.part <= made[coder.pts].n
  /\ \A p \in 1..Fed : made[p].keys \subseteq 1..made[p].n
  /\ pc = "load" => made = <<>>
  /\ pc \in {"drain", "open", "send"} \/ rc = 0 => Fed = images
  /\ pc \in {"open", "send"} \/ rc = 0 => Drained /\ pending = NoUnit
  /\ rc # NotYet => pc = "done"

\* The pending unit is what its image has given so far.
Grouping ==
  /\ pending # NoUnit =>
       pending.pts <= coder.pts /\ pending = UnitSoFar(pending.pts)
  /\ pending # NoUnit /\ pending.pts = coder.pts => coder.part > 0
  /\ Coding /\ coder.part > 0 => pending # NoUnit /\ pending.pts = coder.pts
  /\ Coding /\ pending = NoUnit => aus = <<>>

\* The finished units are whole, and older than the pending one.
Units ==
  /\ \A j \in 1..Len(aus) : aus[j].pts <= coder.pts /\ aus[j] = WholeUnit(aus[j].pts)
  /\ \A j \in 1..Len(aus) : pending # NoUnit => aus[j].pts < pending.pts
  /\ \A i, j \in 1..Len(aus) : i < j => aus[i].pts < aus[j].pts

\* No image that gave a payload is without a unit.
Coverage ==
  \A p \in 1..coder.pts : Upto(p) > 0 =>
    \/ pending # NoUnit /\ pending.pts = p
    \/ \E j \in 1..Len(aus) : aus[j].pts = p

\* What is sent is the beginning of the units.
Prefix ==
  /\ Len(pushed) <= Len(aus)
  /\ Len(pushed) > 0 => pending = NoUnit /\ pc \in {"send", "done"}
  /\ rc = 0 => Len(pushed) = Len(aus)
  /\ \A j \in 1..Len(pushed) :
       pushed[j].unit = aus[j] /\ pushed[j].ts = Timestamp(aus[j].pts)

\* The inductive invariant.
IInv == SenderTypeOK /\ Control /\ Grouping /\ Units /\ Coverage /\ Prefix

-----------------------------------------------------------------------------
(* The payloads of an image *)

\* One payload more.
LEMMA OneMore ==
  ASSUME NEW p, NEW m \in Nat
  PROVE  Append([i \in 1..m |-> <<p, i>>], <<p, m + 1>>) = [i \in 1..(m + 1) |-> <<p, i>>]
<1> DEFINE s == [i \in 1..m |-> <<p, i>>]
           t == [i \in 1..(m + 1) |-> <<p, i>>]
<1>1. Append(s, <<p, m + 1>>) = [i \in 1..(m + 1) |-> IF i <= m THEN s[i] ELSE <<p, m + 1>>]
  OBVIOUS
<1>2. \A i \in 1..(m + 1) : (IF i <= m THEN s[i] ELSE <<p, m + 1>>) = <<p, i>>
  OBVIOUS
<1> QED BY <1>1, <1>2

\* The first payload.
LEMMA FirstOne == ASSUME NEW p PROVE <<<<p, 1>>>> = [i \in 1..1 |-> <<p, i>>]
OBVIOUS

\* The payloads of an image as a sequence.
LEMMA PayloadsType ==
  ASSUME NEW p \in 1..MaxImages, NEW m \in 0..MaxPayloads
  PROVE  [i \in 1..m |-> <<p, i>>] \in Seq((1..MaxImages) \X (1..MaxPayloads))
<1>1. m \in Nat /\ \A i \in 1..m : <<p, i>> \in (1..MaxImages) \X (1..MaxPayloads)
  BY SenderBounds
<1> QED BY <1>1

\* A unit of which the encoder has handed out everything is whole.
LEMMA WholeWhenDone ==
  ASSUME SenderTypeOK, Control, NEW p \in 1..Fed, Upto(p) = made[p].n
  PROVE  UnitSoFar(p) = WholeUnit(p)
<1>1. made[p].keys \cap (1..made[p].n) = made[p].keys
  BY DEF Control
<1> QED BY <1>1 DEF UnitSoFar, WholeUnit, Payloads

\* The record of an image that the encoder was given.
LEMMA ImageType ==
  ASSUME SenderTypeOK, NEW p \in 1..Fed
  PROVE  made[p].n \in 0..MaxPayloads /\ made[p].keys \subseteq 1..MaxPayloads
<1>1. made[p] \in [n : 0..MaxPayloads, keys : SUBSET (1..MaxPayloads)]
  BY ElementOfSeq DEF SenderTypeOK, Fed
<1> QED BY <1>1

\* Encoding an image leaves the records of the others alone.
LEMMA ImageAdded ==
  ASSUME SenderTypeOK, NEW m \in 0..MaxPayloads, NEW keys \in SUBSET (1..m),
         EncodeImage(m, keys)
  PROVE  /\ Fed \in Nat /\ Fed' = Fed + 1 /\ Fed < images
         /\ \A p \in 1..Fed : made'[p] = made[p]
         /\ made'[Fed + 1] = [n |-> m, keys |-> keys]
         /\ pc = "encode" /\ pc' = "receive"
         /\ UNCHANGED <<images, coder, pending, aus, pushed, rc>>
<1>1. made' = Append(made, [n |-> m, keys |-> keys])
  BY DEF EncodeImage
<1>2. Fed \in Nat /\ Fed' = Fed + 1
  BY <1>1 DEF SenderTypeOK, Fed
<1> QED BY <1>1, <1>2 DEF EncodeImage, SenderTypeOK, Fed

\* A payload makes the pending unit what its image has given so far; the unit
\* before it is finished when the image is another one.
LEMMA PayloadReceived ==
  ASSUME SenderTypeOK, Control, Grouping, ReceivePayload
  PROVE  /\ coder.pts \in 1..Fed /\ coder.part < made[coder.pts].n /\ Coding
         /\ coder' = [pts |-> coder.pts, part |-> coder.part + 1]
         /\ pending' = UnitSoFar(coder.pts)' /\ UNCHANGED <<pc, images, made, pushed, rc>>
         /\ coder.part > 0 => pending # NoUnit /\ pending.pts = coder.pts /\ aus' = aus
         /\ coder.part = 0 => aus' = Emitted /\ (pending # NoUnit => pending.pts < coder.pts)
<1> DEFINE p == coder.pts
           m == coder.part
<1>1. /\ p \in 1..Fed /\ m \in Nat /\ m < made[p].n /\ Coding /\ made[p].n \in 0..MaxPayloads
      /\ UNCHANGED <<pc, images, made, pushed, rc>>
  <2>1. p \in Nat /\ p > 0 /\ p <= Fed /\ Fed \in Nat /\ m \in Nat /\ m < made[p].n
    BY DEF SenderTypeOK, Control, ReceivePayload, Fed
  <2>2. p \in 1..Fed
    BY <2>1
  <2>3. made[p].n \in 0..MaxPayloads
    BY <2>2, ImageType
  <2> QED BY <2>1, <2>2, <2>3 DEF ReceivePayload, Receiving, Coding
<1>2. coder' = [pts |-> p, part |-> m + 1]
  BY DEF SenderTypeOK, ReceivePayload
<1>3. AppendPayload(p, m + 1, m + 1 \in made[p].keys)
  BY DEF ReceivePayload
<1>4. UnitSoFar(p)' = Unit(p, [i \in 1..(m + 1) |-> <<p, i>>], made[p].keys \cap (1..(m + 1)) # {})
  BY <1>1, <1>2 DEF UnitSoFar, Upto
<1>5. CASE m = 0
  <2>1. pending = NoUnit \/ (pending.pts # p /\ pending.pts <= p)
    BY <1>5 DEF Grouping
  <2>2. pending # NoUnit => pending \in UnitType /\ pending.pts \in Nat
    BY DEF SenderTypeOK, UnitType
  <2>3. pending' = Unit(p, <<<<p, 1>>>>, 1 \in made[p].keys) /\ aus' = Emitted
    BY <1>3, <1>5, <2>1 DEF AppendPayload
  <2>4. (1 \in made[p].keys) = (made[p].keys \cap (1..1) # {})
    OBVIOUS
  <2>5. pending' = UnitSoFar(p)'
    BY <1>4, <1>5, <2>3, <2>4, FirstOne
  <2>6. pending # NoUnit => pending.pts < p
    BY <1>1, <2>1, <2>2
  <2> QED BY <1>1, <1>2, <1>5, <2>3, <2>5, <2>6
<1>6. CASE m > 0
  <2>1. pending # NoUnit /\ pending.pts = p
    BY <1>1, <1>6 DEF Grouping
  <2>2. pending = Unit(p, [i \in 1..m |-> <<p, i>>], made[p].keys \cap (1..m) # {})
    BY <2>1 DEF Grouping, UnitSoFar, Upto
  <2>3. /\ pending' = Unit(p, Append(pending.bytes, <<p, m + 1>>),
                          pending.key \/ m + 1 \in made[p].keys)
        /\ aus' = aus
    BY <1>3, <2>1 DEF AppendPayload
  <2>4. /\ pending.bytes = [i \in 1..m |-> <<p, i>>]
        /\ pending.key = (made[p].keys \cap (1..m) # {})
    BY <2>2 DEF Unit
  <2>5. (pending.key \/ m + 1 \in made[p].keys) = (made[p].keys \cap (1..(m + 1)) # {})
    <3>1. (made[p].keys \cap (1..m) # {} \/ m + 1 \in made[p].keys)
            = (made[p].keys \cap (1..(m + 1)) # {})
      BY <1>1
    <3> QED BY <2>4, <3>1, Zenon
  <2>6. Append([i \in 1..m |-> <<p, i>>], <<p, m + 1>>) = [i \in 1..(m + 1) |-> <<p, i>>]
    BY <1>1, OneMore
  <2>7. pending' = UnitSoFar(p)'
    BY <1>4, <2>3, <2>4, <2>5, <2>6
  <2> QED BY <1>1, <1>2, <1>6, <2>1, <2>3, <2>7
<1> QED BY <1>1, <1>5, <1>6

\* emit_pending appends a unit or nothing.
LEMMA EmittedType == ASSUME SenderTypeOK PROVE Emitted \in Seq(UnitType)
<1>1. CASE pending = NoUnit
  BY <1>1 DEF SenderTypeOK, Emitted
<1>2. CASE pending # NoUnit
  <2>1. pending \in UnitType
    BY <1>2 DEF SenderTypeOK
  <2> QED BY <1>2, <2>1 DEF SenderTypeOK, Emitted
<1> QED BY <1>1, <1>2

\* A unit has the number of an image.
LEMMA UnitPts ==
  ASSUME SenderTypeOK
  PROVE  \A j \in 1..Len(aus) : aus[j].pts \in Nat /\ aus[j].pts > 0
<1>1. ASSUME NEW j \in 1..Len(aus) PROVE aus[j].pts \in Nat /\ aus[j].pts > 0
  <2>1. aus[j] \in UnitType
    BY ElementOfSeq DEF SenderTypeOK
  <2> QED BY <2>1 DEF UnitType
<1> QED BY <1>1

LEMMA EmittedPts ==
  ASSUME SenderTypeOK
  PROVE  \A j \in 1..Len(Emitted) : Emitted[j].pts \in Nat
<1>1. ASSUME NEW j \in 1..Len(Emitted) PROVE Emitted[j].pts \in Nat
  <2>1. Emitted[j] \in UnitType
    BY EmittedType, ElementOfSeq
  <2> QED BY <2>1 DEF UnitType
<1> QED BY <1>1

\* A timestamp fits its 32 bits.
LEMMA TimestampType == ASSUME NEW p \in Nat PROVE Timestamp(p) \in 0..(TsSpace - 1)
<1> DEFINE t == (((p - 1) * Clock) + (Fps \div 2)) \div Fps
<1>1. (p - 1) * Clock \in Int /\ Fps \in Nat /\ Fps > 0
  BY RatesAssumption
<1>2. Fps \div 2 \in Int
  BY <1>1
<1>3. t \in Int
  BY <1>1, <1>2
<1>4. TsSpace \in Nat /\ TsSpace > 0
  <2>1. Clock \div Fps \in Nat
    BY RatesAssumption
  <2> QED BY <2>1, TsSpaceAssumption
<1> HIDE DEF t
<1> QED BY <1>3, <1>4 DEF Timestamp, t

\* The pending unit is a unit.
LEMMA PendingType ==
  ASSUME SenderTypeOK, Control, Grouping, ReceivePayload
  PROVE  pending' \in UnitType
<1>1. /\ coder.pts \in 1..Fed /\ coder.part < made[coder.pts].n
      /\ coder' = [pts |-> coder.pts, part |-> coder.part + 1]
      /\ pending' = UnitSoFar(coder.pts)'
  BY PayloadReceived
<1>2. coder.pts \in 1..MaxImages
  BY <1>1, SenderBounds DEF SenderTypeOK, Control
<1>3. coder.part + 1 \in 0..MaxPayloads
  <2>1. made[coder.pts].n \in 0..MaxPayloads
    BY <1>1, ImageType
  <2> QED BY <1>1, <2>1, SenderBounds DEF SenderTypeOK
<1>4. pending' = Unit(coder.pts, [i \in 1..(coder.part + 1) |-> <<coder.pts, i>>],
                     made[coder.pts].keys' \cap (1..(coder.part + 1)) # {})
  BY <1>1, <1>2 DEF UnitSoFar, Upto
<1> QED BY <1>2, <1>3, <1>4, PayloadsType DEF UnitType, Unit

\* What emit_pending makes of the units, when the encoder is done with the
\* pending one.
LEMMA UnitEmitted ==
  ASSUME SenderTypeOK, Control, Grouping, Units,
         pending # NoUnit => Upto(pending.pts) = made[pending.pts].n
  PROVE  /\ Len(aus) <= Len(Emitted)
         /\ \A j \in 1..Len(aus) : Emitted[j] = aus[j]
         /\ pending # NoUnit => Len(Emitted) = Len(aus) + 1 /\ Emitted[Len(aus) + 1] = pending
         /\ \A j \in 1..Len(Emitted) :
              /\ Emitted[j].pts <= coder.pts /\ Emitted[j] = WholeUnit(Emitted[j].pts)
              /\ pending # NoUnit => Emitted[j].pts <= pending.pts
         /\ \A a, b \in 1..Len(Emitted) : a < b => Emitted[a].pts < Emitted[b].pts
<1>1. Len(aus) \in Nat /\ \A j \in 1..Len(aus) : aus[j].pts \in Nat
  <2>1. ASSUME NEW j \in 1..Len(aus) PROVE aus[j].pts \in Nat
    <3>1. aus[j] \in UnitType
      BY ElementOfSeq DEF SenderTypeOK
    <3> QED BY <3>1 DEF UnitType
  <2> QED BY <2>1 DEF SenderTypeOK
<1>2. CASE pending = NoUnit
  BY <1>1, <1>2 DEF Emitted, Units
<1>3. CASE pending # NoUnit
  <2>1. Emitted = Append(aus, pending)
    BY <1>3 DEF Emitted
  <2>2. /\ Len(Emitted) = Len(aus) + 1 /\ Emitted[Len(aus) + 1] = pending
        /\ \A j \in 1..Len(aus) : Emitted[j] = aus[j]
    BY <1>1, <2>1 DEF SenderTypeOK
  <2>3. pending.pts \in Nat /\ pending.pts > 0 /\ pending.pts <= coder.pts
    <3>1. pending \in UnitType
      BY <1>3 DEF SenderTypeOK
    <3> QED BY <1>3, <3>1 DEF UnitType, Grouping
  <2>4. pending = WholeUnit(pending.pts)
    <3>1. pending.pts \in 1..Fed
      BY <2>3 DEF Control, SenderTypeOK, Fed
    <3> QED BY <1>3, <3>1, WholeWhenDone DEF Grouping
  <2>5. \A j \in 1..Len(aus) : aus[j].pts < pending.pts /\ aus[j] = WholeUnit(aus[j].pts)
    BY <1>3 DEF Units
  <2>6. ASSUME NEW j \in 1..Len(Emitted)
        PROVE  /\ Emitted[j].pts <= coder.pts /\ Emitted[j] = WholeUnit(Emitted[j].pts)
               /\ Emitted[j].pts <= pending.pts
    <3>1. CASE j \in 1..Len(aus)
      <4>1. Emitted[j] = aus[j] /\ aus[j].pts < pending.pts /\ aus[j].pts \in Nat
        BY <1>1, <2>2, <2>5, <3>1
      <4>2. coder.pts \in Nat /\ aus[j].pts <= coder.pts /\ aus[j].pts <= pending.pts
        BY <2>3, <4>1 DEF SenderTypeOK
      <4> QED BY <2>5, <3>1, <4>1, <4>2
    <3>2. CASE j = Len(aus) + 1
      BY <2>2, <2>3, <2>4, <3>2
    <3> QED BY <1>1, <2>2, <3>1, <3>2
  <2>7. ASSUME NEW a \in 1..Len(Emitted), NEW b \in 1..Len(Emitted), a < b
        PROVE  Emitted[a].pts < Emitted[b].pts
    <3>1. a \in 1..Len(aus)
      BY <1>1, <2>2, <2>7
    <3>2. CASE b \in 1..Len(aus)
      BY <2>2, <2>7, <3>1, <3>2 DEF Units
    <3>3. CASE b = Len(aus) + 1
      BY <2>2, <2>5, <3>1, <3>3
    <3> QED BY <1>1, <2>2, <3>2, <3>3
  <2> QED BY <1>1, <2>2, <2>6, <2>7
<1> QED BY <1>2, <1>3

\* The unit before the payload's is done with.
LEMMA UnitBefore ==
  ASSUME SenderTypeOK, Control, Grouping, ReceivePayload, coder.part = 0, pending # NoUnit
  PROVE  pending.pts < coder.pts /\ Upto(pending.pts) = made[pending.pts].n
<1>1. pending.pts < coder.pts
  BY PayloadReceived
<1>2. pending.pts \in Nat
  <2>1. pending \in UnitType
    BY DEF SenderTypeOK
  <2> QED BY <2>1 DEF UnitType
<1>3. coder.pts \in Nat
  BY DEF SenderTypeOK
<1> QED BY <1>1, <1>2, <1>3 DEF Upto

\* When the encoder is drained, so is the pending unit.
LEMMA LastUnit ==
  ASSUME SenderTypeOK, Control, Drained, pending # NoUnit, Grouping
  PROVE  Upto(pending.pts) = made[pending.pts].n
<1>1. pending.pts \in Nat /\ pending.pts > 0
  <2>1. pending \in UnitType
    BY DEF SenderTypeOK
  <2> QED BY <2>1 DEF UnitType
<1> QED BY <1>1 DEF Upto, Drained, Grouping, SenderTypeOK, Fed

-----------------------------------------------------------------------------
\* Every step keeps the variables in their types.
LEMMA TypePreserved ==
  ASSUME SenderTypeOK, Control, Grouping, [SenderNext]_senderVars
  PROVE  SenderTypeOK'
<1> USE SenderBounds DEF senderVars, SenderTypeOK, NotYet, Fed
<1>1. ASSUME NEW m \in 0..MaxImages, Load(m) PROVE SenderTypeOK'
  BY <1>1 DEF Load, Exit
<1>2. CASE StartFails
  BY <1>2 DEF StartFails, Exit
<1>3. ASSUME NEW m \in 0..MaxPayloads, NEW keys \in SUBSET (1..m), EncodeImage(m, keys) PROVE SenderTypeOK'
  <2>1. [n |-> m, keys |-> keys] \in [n : 0..MaxPayloads, keys : SUBSET (1..MaxPayloads)]
    OBVIOUS
  <2> QED BY <1>3, <2>1 DEF EncodeImage
<1>4. CASE NextImage
  <2>1. coder.pts + 1 \in 0..MaxImages
    BY <1>4 DEF NextImage, Control
  <2> QED BY <1>4, <2>1 DEF NextImage
<1>5. CASE ReceivePayload
  <2>1. coder.pts \in 1..MaxImages /\ coder.part + 1 \in 0..MaxPayloads
    <3>1. /\ coder.pts \in 1..Fed /\ coder.part < made[coder.pts].n
          /\ Fed <= images
      BY <1>5, PayloadReceived DEF Control
    <3>2. made[coder.pts].n \in 0..MaxPayloads
      BY <3>1, ImageType
    <3> QED BY <3>1, <3>2
  <2>2. coder' = [pts |-> coder.pts, part |-> coder.part + 1]
    BY <1>5, PayloadReceived
  <2>3. pending' \in UnitType
    BY <1>5, PendingType
  <2>4. aus' \in Seq(UnitType)
    <3>1. aus' \in {aus, Emitted}
      BY <1>5, PayloadReceived
    <3> QED BY <3>1, EmittedType
  <2> QED BY <1>5, <2>1, <2>2, <2>3, <2>4, PayloadReceived
<1>6. CASE NoMorePackets
  BY <1>6 DEF NoMorePackets
<1>7. CASE StartDrain
  BY <1>7 DEF StartDrain
<1>8. CASE EncoderFails
  BY <1>8 DEF EncoderFails, Exit
<1>9. CASE FlushPending
  <2>1. aus' \in Seq(UnitType)
    BY <1>9, EmittedType DEF FlushPending
  <2> QED BY <1>9, <2>1 DEF FlushPending
<1>10. CASE Open
  BY <1>10 DEF Open, Exit
<1>11. CASE SendFails
  BY <1>11 DEF SendFails, Exit
<1>12. CASE SendEnds
  BY <1>12 DEF SendEnds, Exit
<1>13. CASE Push
  <2>1. aus[Len(pushed) + 1] \in UnitType
    BY <1>13 DEF Push
  <2>2. Timestamp(aus[Len(pushed) + 1].pts) \in 0..(TsSpace - 1)
    <3>1. aus[Len(pushed) + 1].pts \in Nat
      BY <2>1 DEF UnitType
    <3> QED BY <3>1, TimestampType
  <2> QED BY <1>13, <2>1, <2>2 DEF Push
<1>14. CASE UNCHANGED senderVars
  BY <1>14
<1> QED
  BY <1>1, <1>2, <1>3, <1>4, <1>5, <1>6, <1>7, <1>8, <1>9, <1>10, <1>11,
     <1>12, <1>13, <1>14 DEF SenderNext, SenderStep

\* Every step keeps account of how far the encoder is.
LEMMA ControlPreserved ==
  ASSUME SenderTypeOK, Control, Grouping, [SenderNext]_senderVars
  PROVE  Control'
<1> USE SenderBounds DEF senderVars, SenderTypeOK, Control, NotYet, Drained
<1>1. ASSUME NEW m \in 0..MaxImages, Load(m) PROVE Control'
  BY <1>1 DEF Load, Exit, Fed
<1>2. CASE StartFails
  BY <1>2 DEF StartFails, Exit, Fed
<1>3. ASSUME NEW m \in 0..MaxPayloads, NEW keys \in SUBSET (1..m), EncodeImage(m, keys) PROVE Control'
  <2> HIDE DEF SenderTypeOK
  <2>1. /\ Fed \in Nat /\ Fed' = Fed + 1 /\ Fed < images
        /\ images \in Nat /\ coder.pts \in Nat
    <3>1. Fed \in Nat /\ Fed' = Fed + 1 /\ Fed < images
      BY <1>3, ImageAdded
    <3> QED BY <3>1 DEF SenderTypeOK
  <2>5. UNCHANGED <<images, coder, pending, rc>> /\ pc = "encode" /\ pc' = "receive"
    BY <1>3, ImageAdded
  <2>2. \A p \in 1..Fed : made'[p] = made[p]
    BY <1>3, ImageAdded
  <2>3. \A p \in 1..Fed' : made'[p].keys \subseteq 1..made'[p].n
    <3>1. ASSUME NEW p \in 1..Fed' PROVE made'[p].keys \subseteq 1..made'[p].n
      <4>1. CASE p \in 1..Fed
        BY <2>2, <4>1
      <4>2. CASE p = Fed + 1
        <5>1. made'[p] = [n |-> m, keys |-> keys]
          BY <1>3, <4>2, ImageAdded
        <5> QED BY <1>3, <5>1
      <4> QED BY <2>1, <3>1, <4>1, <4>2
    <3> QED BY <3>1
  <2>4. coder'.pts > 0 => coder'.part <= made'[coder'.pts].n
    BY <2>1, <2>2, <2>5
  <2> QED BY <2>1, <2>3, <2>4, <2>5
<1>4. CASE NextImage
  <2>1. /\ coder' = [pts |-> coder.pts + 1, part |-> 0] /\ coder.pts < Fed /\ coder.pts \in Nat
        /\ UNCHANGED <<pc, images, made, pending, rc>> /\ Fed' = Fed /\ Fed \in Nat
        /\ pc \in {"receive", "drain"}
    BY <1>4 DEF NextImage, Receiving, Fed
  <2>2. made[coder.pts + 1].n \in 0..MaxPayloads
    BY <2>1, ImageType
  <2> HIDE DEF SenderTypeOK, Drained
  <2> QED BY <2>1, <2>2
<1>5. CASE ReceivePayload
  <2>1. /\ coder.pts \in 1..Fed /\ coder.part < made[coder.pts].n
        /\ coder' = [pts |-> coder.pts, part |-> coder.part + 1]
        /\ UNCHANGED <<pc, images, made, rc>> /\ Fed' = Fed /\ pc \in {"receive", "drain"}
    BY <1>5, PayloadReceived DEF Fed, ReceivePayload, Receiving
  <2>2. made[coder.pts].n \in 0..MaxPayloads
    BY <2>1, ImageType
  <2>3. coder.part \in Nat
    OBVIOUS
  <2> HIDE DEF SenderTypeOK, Drained
  <2> QED BY <2>1, <2>2, <2>3
<1>6. CASE NoMorePackets
  BY <1>6 DEF NoMorePackets, Fed
<1>7. CASE StartDrain
  BY <1>7 DEF StartDrain, Fed
<1>8. CASE EncoderFails
  BY <1>8 DEF EncoderFails, Exit, Fed
<1>9. CASE FlushPending
  BY <1>9 DEF FlushPending, Emitted, Fed
<1>10. CASE Open
  BY <1>10 DEF Open, Exit, Fed
<1>11. CASE SendFails
  BY <1>11 DEF SendFails, Exit, Fed
<1>12. CASE SendEnds
  BY <1>12 DEF SendEnds, Exit, Fed
<1>13. CASE Push
  BY <1>13 DEF Push, Fed
<1>14. CASE UNCHANGED senderVars
  <2>1. Fed' = Fed
    BY <1>14 DEF Fed
  <2> QED BY <1>14, <2>1
<1> QED
  BY <1>1, <1>2, <1>3, <1>4, <1>5, <1>6, <1>7, <1>8, <1>9, <1>10, <1>11,
     <1>12, <1>13, <1>14 DEF SenderNext, SenderStep

\* Every step keeps the pending unit to its image.
LEMMA GroupingPreserved ==
  ASSUME SenderTypeOK, Control, Grouping, [SenderNext]_senderVars
  PROVE  Grouping'
<1> USE DEF senderVars, Grouping, Coding
<1>1. ASSUME NEW m \in 0..MaxImages, Load(m) PROVE Grouping'
  <2>1. pending # NoUnit => UnitSoFar(pending.pts)' = UnitSoFar(pending.pts)
    BY <1>1 DEF Load, UnitSoFar, Upto
  <2> QED BY <1>1, <2>1 DEF Load, Exit
<1>2. CASE StartFails
  <2>1. pending # NoUnit => UnitSoFar(pending.pts)' = UnitSoFar(pending.pts)
    BY <1>2 DEF StartFails, UnitSoFar, Upto
  <2> QED BY <1>2, <2>1 DEF StartFails, Exit
<1>3. ASSUME NEW m \in 0..MaxPayloads, NEW keys \in SUBSET (1..m), EncodeImage(m, keys) PROVE Grouping'
  <2>1. /\ \A p \in 1..Fed : made'[p] = made[p]
        /\ UNCHANGED <<coder, pending, aus>> /\ pc = "encode" /\ pc' = "receive"
    BY <1>3, ImageAdded
  <2>2. pending # NoUnit => pending.pts \in 1..Fed
    BY DEF Control, SenderTypeOK, UnitType, Fed
  <2>3. pending # NoUnit => UnitSoFar(pending.pts)' = UnitSoFar(pending.pts)
    BY <2>1, <2>2 DEF UnitSoFar, Upto
  <2> QED BY <2>1, <2>3
<1>4. CASE NextImage
  <2>1. /\ coder' = [pts |-> coder.pts + 1, part |-> 0] /\ coder.pts \in Nat /\ coder.part \in Nat
        /\ coder.pts > 0 => coder.part = made[coder.pts].n
        /\ UNCHANGED <<pc, made, pending, aus>> /\ pc \in {"receive", "drain"}
    BY <1>4 DEF NextImage, Receiving, SenderTypeOK
  <2>2. CASE pending = NoUnit
    BY <2>1, <2>2
  <2>3. CASE pending # NoUnit
    <3>1. pending.pts \in Nat /\ pending.pts > 0 /\ pending.pts <= coder.pts
      BY <2>3 DEF SenderTypeOK, UnitType
    <3>2. UnitSoFar(pending.pts)' = UnitSoFar(pending.pts)
      <4>1. Upto(pending.pts)' = Upto(pending.pts)
        BY <2>1, <3>1 DEF Upto
      <4> QED BY <2>1, <4>1 DEF UnitSoFar
    <3> QED BY <2>1, <3>1, <3>2
  <2> QED BY <2>2, <2>3
<1>5. CASE ReceivePayload
  <2>1. /\ coder.pts \in 1..Fed /\ Coding
        /\ coder' = [pts |-> coder.pts, part |-> coder.part + 1]
        /\ pending' = UnitSoFar(coder.pts)' /\ UNCHANGED <<pc, made>>
    BY <1>5, PayloadReceived
  <2>2. pending'.pts = coder.pts
    BY <2>1 DEF UnitSoFar, Unit
  <2>3. pending' \in UnitType
    BY <1>5, PendingType
  <2>4. pending' # NoUnit
    BY <2>3, NoUnitAssumption
  <2>5. coder.part \in Nat
    BY DEF SenderTypeOK
  <2> QED BY <2>1, <2>2, <2>4, <2>5
<1>6. CASE NoMorePackets
  <2>1. pending # NoUnit => UnitSoFar(pending.pts)' = UnitSoFar(pending.pts)
    BY <1>6 DEF NoMorePackets, UnitSoFar, Upto
  <2> QED BY <1>6, <2>1 DEF NoMorePackets
<1>7. CASE StartDrain
  <2>1. pending # NoUnit => UnitSoFar(pending.pts)' = UnitSoFar(pending.pts)
    BY <1>7 DEF StartDrain, UnitSoFar, Upto
  <2> QED BY <1>7, <2>1 DEF StartDrain
<1>8. CASE EncoderFails
  <2>1. pending # NoUnit => UnitSoFar(pending.pts)' = UnitSoFar(pending.pts)
    BY <1>8 DEF EncoderFails, UnitSoFar, Upto
  <2> QED BY <1>8, <2>1 DEF EncoderFails, Exit
<1>9. CASE FlushPending
  BY <1>9 DEF FlushPending, Emitted
<1>10. CASE Open
  <2>1. pending # NoUnit => UnitSoFar(pending.pts)' = UnitSoFar(pending.pts)
    BY <1>10 DEF Open, UnitSoFar, Upto
  <2> QED BY <1>10, <2>1 DEF Open, Exit
<1>11. CASE SendFails
  <2>1. pending # NoUnit => UnitSoFar(pending.pts)' = UnitSoFar(pending.pts)
    BY <1>11 DEF SendFails, UnitSoFar, Upto
  <2> QED BY <1>11, <2>1 DEF SendFails, Exit
<1>12. CASE SendEnds
  <2>1. pending # NoUnit => UnitSoFar(pending.pts)' = UnitSoFar(pending.pts)
    BY <1>12 DEF SendEnds, UnitSoFar, Upto
  <2> QED BY <1>12, <2>1 DEF SendEnds, Exit
<1>13. CASE Push
  <2>1. pending # NoUnit => UnitSoFar(pending.pts)' = UnitSoFar(pending.pts)
    BY <1>13 DEF Push, UnitSoFar, Upto
  <2> QED BY <1>13, <2>1 DEF Push
<1>14. CASE UNCHANGED senderVars
  <2>1. pending # NoUnit => UnitSoFar(pending.pts)' = UnitSoFar(pending.pts)
    BY <1>14 DEF UnitSoFar, Upto
  <2> QED BY <1>14, <2>1
<1> QED
  BY <1>1, <1>2, <1>3, <1>4, <1>5, <1>6, <1>7, <1>8, <1>9, <1>10, <1>11,
     <1>12, <1>13, <1>14 DEF SenderNext, SenderStep

\* Every step keeps the finished units whole and in order.
LEMMA UnitsPreserved ==
  ASSUME SenderTypeOK, Control, Grouping, Units, [SenderNext]_senderVars
  PROVE  Units'
<1> USE DEF senderVars, Units
<1>1. ASSUME NEW m \in 0..MaxImages, Load(m) PROVE Units'
  <2>1. \A j \in 1..Len(aus) : WholeUnit(aus[j].pts)' = WholeUnit(aus[j].pts)
    BY <1>1 DEF Load, WholeUnit, Payloads
  <2> QED BY <1>1, <2>1 DEF Load, Exit
<1>2. CASE StartFails
  <2>1. \A j \in 1..Len(aus) : WholeUnit(aus[j].pts)' = WholeUnit(aus[j].pts)
    BY <1>2 DEF StartFails, WholeUnit, Payloads
  <2> QED BY <1>2, <2>1 DEF StartFails, Exit
<1>3. ASSUME NEW m \in 0..MaxPayloads, NEW keys \in SUBSET (1..m), EncodeImage(m, keys) PROVE Units'
  <2>1. /\ \A p \in 1..Fed : made'[p] = made[p]
        /\ UNCHANGED <<coder, pending, aus>>
    BY <1>3, ImageAdded
  <2>2. ASSUME NEW j \in 1..Len(aus) PROVE WholeUnit(aus[j].pts)' = WholeUnit(aus[j].pts)
    <3>1. aus[j].pts \in 1..Fed
      BY UnitPts DEF Control, SenderTypeOK, Fed
    <3> QED BY <2>1, <3>1 DEF WholeUnit, Payloads
  <2> QED BY <2>1, <2>2
<1>4. CASE NextImage
  <2>1. \A j \in 1..Len(aus) : WholeUnit(aus[j].pts)' = WholeUnit(aus[j].pts)
    BY <1>4 DEF NextImage, WholeUnit, Payloads
  <2>2. /\ UNCHANGED <<pending, aus>> /\ coder'.pts = coder.pts + 1 /\ coder.pts \in Nat
    BY <1>4 DEF NextImage, SenderTypeOK
  <2>3. \A j \in 1..Len(aus) : aus[j].pts \in Nat
    BY UnitPts
  <2> QED BY <2>1, <2>2, <2>3
<1>5. CASE ReceivePayload
  <2>1. /\ coder.pts \in 1..Fed /\ Coding /\ UNCHANGED made
        /\ coder' = [pts |-> coder.pts, part |-> coder.part + 1]
        /\ pending' = UnitSoFar(coder.pts)'
        /\ coder.part > 0 => pending # NoUnit /\ pending.pts = coder.pts /\ aus' = aus
        /\ coder.part = 0 => aus' = Emitted /\ (pending # NoUnit => pending.pts < coder.pts)
    BY <1>5, PayloadReceived
  <2>2. pending'.pts = coder.pts /\ coder'.pts = coder.pts /\ coder.part \in Nat
    BY <2>1 DEF UnitSoFar, Unit, SenderTypeOK
  <2>3. CASE coder.part > 0
    <3>1. aus' = aus /\ pending # NoUnit /\ pending.pts = coder.pts
      BY <2>1, <2>3
    <3>2. \A j \in 1..Len(aus) : WholeUnit(aus[j].pts)' = WholeUnit(aus[j].pts)
      BY <2>1, <3>1 DEF WholeUnit, Payloads
    <3> QED BY <2>2, <3>1, <3>2
  <2>4. CASE coder.part = 0
    <3>1. aus' = Emitted
      BY <2>1, <2>4
    <3> HIDE DEF Units
    <3>2. /\ \A j \in 1..Len(Emitted) :
               /\ Emitted[j].pts <= coder.pts /\ Emitted[j] = WholeUnit(Emitted[j].pts)
               /\ pending # NoUnit => Emitted[j].pts <= pending.pts
          /\ \A a, b \in 1..Len(Emitted) : a < b => Emitted[a].pts < Emitted[b].pts
      BY <1>5, <2>4, UnitBefore, UnitEmitted
    <3>3. \A j \in 1..Len(Emitted) : aus'[j] = WholeUnit(aus[j].pts)'
      BY <2>1, <3>1, <3>2 DEF WholeUnit, Payloads
    <3>4. CASE pending = NoUnit
      <4>1. Emitted = <<>>
        BY <2>1, <3>4 DEF Grouping, Emitted
      <4>2. aus' = <<>> /\ Len(<<>>) = 0
        BY <3>1, <4>1
      <4> QED BY <4>2 DEF Units
    <3>5. CASE pending # NoUnit
      <4>1. pending.pts \in Nat /\ pending.pts < coder.pts /\ coder.pts \in Nat
        <5>1. pending \in UnitType
          BY <3>5 DEF SenderTypeOK
        <5> QED BY <2>1, <2>4, <3>5, <5>1 DEF UnitType, SenderTypeOK
      <4>2. \A j \in 1..Len(Emitted) : Emitted[j].pts \in Nat
        BY EmittedPts
      <4>3. \A j \in 1..Len(Emitted) : Emitted[j].pts < coder.pts
        BY <3>2, <3>5, <4>1, <4>2
      <4> QED BY <2>2, <3>1, <3>2, <3>3, <4>3 DEF Units
    <3> QED BY <3>4, <3>5
  <2> QED BY <2>2, <2>3, <2>4
<1>6. CASE NoMorePackets
  <2>1. \A j \in 1..Len(aus) : WholeUnit(aus[j].pts)' = WholeUnit(aus[j].pts)
    BY <1>6 DEF NoMorePackets, WholeUnit, Payloads
  <2> QED BY <1>6, <2>1 DEF NoMorePackets
<1>7. CASE StartDrain
  <2>1. \A j \in 1..Len(aus) : WholeUnit(aus[j].pts)' = WholeUnit(aus[j].pts)
    BY <1>7 DEF StartDrain, WholeUnit, Payloads
  <2> QED BY <1>7, <2>1 DEF StartDrain
<1>8. CASE EncoderFails
  <2>1. \A j \in 1..Len(aus) : WholeUnit(aus[j].pts)' = WholeUnit(aus[j].pts)
    BY <1>8 DEF EncoderFails, WholeUnit, Payloads
  <2> QED BY <1>8, <2>1 DEF EncoderFails, Exit
<1>9. CASE FlushPending
  <2>1. /\ aus' = Emitted /\ pending' = NoUnit /\ UNCHANGED <<made, coder>> /\ Drained
    BY <1>9 DEF FlushPending
  <2> HIDE DEF Units
  <2>2. /\ \A j \in 1..Len(Emitted) :
             Emitted[j].pts <= coder.pts /\ Emitted[j] = WholeUnit(Emitted[j].pts)
        /\ \A a, b \in 1..Len(Emitted) : a < b => Emitted[a].pts < Emitted[b].pts
    BY <2>1, LastUnit, UnitEmitted
  <2>3. \A j \in 1..Len(Emitted) : aus'[j] = WholeUnit(aus[j].pts)'
    BY <2>1, <2>2 DEF WholeUnit, Payloads
  <2> QED BY <2>1, <2>2, <2>3 DEF Units
<1>10. CASE Open
  <2>1. \A j \in 1..Len(aus) : WholeUnit(aus[j].pts)' = WholeUnit(aus[j].pts)
    BY <1>10 DEF Open, WholeUnit, Payloads
  <2> QED BY <1>10, <2>1 DEF Open, Exit
<1>11. CASE SendFails
  <2>1. \A j \in 1..Len(aus) : WholeUnit(aus[j].pts)' = WholeUnit(aus[j].pts)
    BY <1>11 DEF SendFails, WholeUnit, Payloads
  <2> QED BY <1>11, <2>1 DEF SendFails, Exit
<1>12. CASE SendEnds
  <2>1. \A j \in 1..Len(aus) : WholeUnit(aus[j].pts)' = WholeUnit(aus[j].pts)
    BY <1>12 DEF SendEnds, WholeUnit, Payloads
  <2> QED BY <1>12, <2>1 DEF SendEnds, Exit
<1>13. CASE Push
  <2>1. \A j \in 1..Len(aus) : WholeUnit(aus[j].pts)' = WholeUnit(aus[j].pts)
    BY <1>13 DEF Push, WholeUnit, Payloads
  <2> QED BY <1>13, <2>1 DEF Push
<1>14. CASE UNCHANGED senderVars
  <2>1. \A j \in 1..Len(aus) : WholeUnit(aus[j].pts)' = WholeUnit(aus[j].pts)
    BY <1>14 DEF WholeUnit, Payloads
  <2> QED BY <1>14, <2>1
<1> QED
  BY <1>1, <1>2, <1>3, <1>4, <1>5, <1>6, <1>7, <1>8, <1>9, <1>10, <1>11,
     <1>12, <1>13, <1>14 DEF SenderNext, SenderStep

\* Every step keeps a unit for each image that gave a payload.
LEMMA CoveragePreserved ==
  ASSUME SenderTypeOK, Control, Grouping, Units, Coverage, [SenderNext]_senderVars
  PROVE  Coverage'
<1> USE DEF senderVars, Coverage
<1>1. ASSUME NEW m \in 0..MaxImages, Load(m) PROVE Coverage'
  <2>1. \A p \in 1..coder.pts : Upto(p)' = Upto(p)
    BY <1>1 DEF Load, Upto
  <2> QED BY <1>1, <2>1 DEF Load, Exit
<1>2. CASE StartFails
  <2>1. \A p \in 1..coder.pts : Upto(p)' = Upto(p)
    BY <1>2 DEF StartFails, Upto
  <2> QED BY <1>2, <2>1 DEF StartFails, Exit
<1>3. ASSUME NEW m \in 0..MaxPayloads, NEW keys \in SUBSET (1..m), EncodeImage(m, keys) PROVE Coverage'
  <2>1. /\ \A p \in 1..Fed : made'[p] = made[p]
        /\ UNCHANGED <<coder, pending, aus>>
    BY <1>3, ImageAdded
  <2>2. ASSUME NEW p \in 1..coder.pts PROVE Upto(p)' = Upto(p)
    <3>1. p \in 1..Fed
      BY DEF Control, SenderTypeOK, Fed
    <3> QED BY <2>1, <3>1 DEF Upto
  <2> QED BY <2>1, <2>2
<1>4. CASE NextImage
  <2>1. /\ coder' = [pts |-> coder.pts + 1, part |-> 0] /\ coder.pts \in Nat
        /\ coder.pts > 0 => coder.part = made[coder.pts].n
        /\ UNCHANGED <<made, pending, aus>>
    BY <1>4 DEF NextImage, SenderTypeOK
  <2>2. ASSUME NEW p \in 1..coder'.pts, Upto(p)' > 0
        PROVE  p \in 1..coder.pts /\ Upto(p) > 0
    <3>1. p # coder.pts + 1
      BY <2>1, <2>2 DEF Upto
    <3>2. p \in 1..coder.pts
      BY <2>1, <3>1
    <3>3. Upto(p)' = Upto(p)
      BY <2>1, <3>2 DEF Upto
    <3> QED BY <2>2, <3>2, <3>3
  <2> QED BY <2>1, <2>2
<1>5. CASE ReceivePayload
  <2>1. /\ coder.pts \in 1..Fed /\ UNCHANGED made
        /\ coder' = [pts |-> coder.pts, part |-> coder.part + 1]
        /\ pending' = UnitSoFar(coder.pts)'
        /\ coder.part > 0 => pending # NoUnit /\ pending.pts = coder.pts /\ aus' = aus
        /\ coder.part = 0 => aus' = Emitted
    BY <1>5, PayloadReceived
  <2>2. pending'.pts = coder.pts /\ coder.part \in Nat /\ coder'.pts = coder.pts
    BY <2>1 DEF UnitSoFar, Unit, SenderTypeOK
  <2>3. pending' # NoUnit
    BY <1>5, PendingType, NoUnitAssumption
  <2>4. ASSUME NEW p \in 1..coder.pts, Upto(p)' > 0, p # coder.pts
        PROVE  \E j \in 1..Len(aus') : aus'[j].pts = p
    <3>1. Upto(p) > 0
      BY <2>1, <2>4 DEF Upto
    <3>2. (pending # NoUnit /\ pending.pts = p) \/ \E j \in 1..Len(aus) : aus[j].pts = p
      BY <3>1
    <3>3. CASE coder.part > 0
      BY <2>1, <2>4, <3>2, <3>3
    <3>4. CASE coder.part = 0
      <4>1. /\ Len(aus) \in Nat /\ Len(aus) <= Len(Emitted) /\ Len(Emitted) \in Nat
            /\ \A j \in 1..Len(aus) : Emitted[j] = aus[j]
            /\ pending # NoUnit =>
                 Len(Emitted) = Len(aus) + 1 /\ Emitted[Len(aus) + 1] = pending
        BY <1>5, <3>4, UnitBefore, UnitEmitted, EmittedType, LenProperties DEF SenderTypeOK
      <4>2. CASE pending # NoUnit /\ pending.pts = p
        <5>1. Len(aus) + 1 \in 1..Len(Emitted) /\ Emitted[Len(aus) + 1].pts = p
          BY <4>1, <4>2
        <5> QED BY <2>1, <3>4, <5>1
      <4>3. CASE \E j \in 1..Len(aus) : aus[j].pts = p
        <5>1. PICK j \in 1..Len(aus) : aus[j].pts = p
          BY <4>3
        <5>2. j \in 1..Len(Emitted) /\ Emitted[j].pts = p
          BY <4>1, <5>1
        <5> QED BY <2>1, <3>4, <5>2
      <4> QED BY <3>2, <4>2, <4>3
    <3> QED BY <2>2, <3>3, <3>4
  <2> QED BY <2>2, <2>3, <2>4
<1>6. CASE NoMorePackets
  <2>1. \A p \in 1..coder.pts : Upto(p)' = Upto(p)
    BY <1>6 DEF NoMorePackets, Upto
  <2> QED BY <1>6, <2>1 DEF NoMorePackets
<1>7. CASE StartDrain
  <2>1. \A p \in 1..coder.pts : Upto(p)' = Upto(p)
    BY <1>7 DEF StartDrain, Upto
  <2> QED BY <1>7, <2>1 DEF StartDrain
<1>8. CASE EncoderFails
  <2>1. \A p \in 1..coder.pts : Upto(p)' = Upto(p)
    BY <1>8 DEF EncoderFails, Upto
  <2> QED BY <1>8, <2>1 DEF EncoderFails, Exit
<1>9. CASE FlushPending
  <2>1. /\ aus' = Emitted /\ pending' = NoUnit /\ UNCHANGED <<made, coder>> /\ Drained
    BY <1>9 DEF FlushPending
  <2>2. /\ Len(aus) \in Nat /\ Len(aus) <= Len(Emitted) /\ Len(Emitted) \in Nat
        /\ \A j \in 1..Len(aus) : Emitted[j] = aus[j]
        /\ pending # NoUnit =>
             Len(Emitted) = Len(aus) + 1 /\ Emitted[Len(aus) + 1] = pending
    BY <2>1, LastUnit, UnitEmitted, EmittedType, LenProperties DEF SenderTypeOK
  <2>3. ASSUME NEW p \in 1..coder.pts, Upto(p)' > 0
        PROVE  \E j \in 1..Len(Emitted) : Emitted[j].pts = p
    <3>1. Upto(p) > 0
      BY <2>1, <2>3 DEF Upto
    <3>2. CASE pending # NoUnit /\ pending.pts = p
      <4>1. Len(aus) + 1 \in 1..Len(Emitted) /\ Emitted[Len(aus) + 1].pts = p
        BY <2>2, <3>2
      <4> QED BY <4>1
    <3>3. CASE \E j \in 1..Len(aus) : aus[j].pts = p
      BY <2>2, <3>3
    <3> QED BY <3>1, <3>2, <3>3
  <2> QED BY <2>1, <2>3
<1>10. CASE Open
  <2>1. \A p \in 1..coder.pts : Upto(p)' = Upto(p)
    BY <1>10 DEF Open, Upto
  <2> QED BY <1>10, <2>1 DEF Open, Exit
<1>11. CASE SendFails
  <2>1. \A p \in 1..coder.pts : Upto(p)' = Upto(p)
    BY <1>11 DEF SendFails, Upto
  <2> QED BY <1>11, <2>1 DEF SendFails, Exit
<1>12. CASE SendEnds
  <2>1. \A p \in 1..coder.pts : Upto(p)' = Upto(p)
    BY <1>12 DEF SendEnds, Upto
  <2> QED BY <1>12, <2>1 DEF SendEnds, Exit
<1>13. CASE Push
  <2>1. \A p \in 1..coder.pts : Upto(p)' = Upto(p)
    BY <1>13 DEF Push, Upto
  <2> QED BY <1>13, <2>1 DEF Push
<1>14. CASE UNCHANGED senderVars
  <2>1. \A p \in 1..coder.pts : Upto(p)' = Upto(p)
    BY <1>14 DEF Upto
  <2> QED BY <1>14, <2>1
<1> QED
  BY <1>1, <1>2, <1>3, <1>4, <1>5, <1>6, <1>7, <1>8, <1>9, <1>10, <1>11,
     <1>12, <1>13, <1>14 DEF SenderNext, SenderStep

\* Every step keeps what is sent the beginning of the units.
LEMMA PrefixPreserved ==
  ASSUME SenderTypeOK, Control, Grouping, Prefix, [SenderNext]_senderVars
  PROVE  Prefix'
<1> USE DEF senderVars, Prefix, NotYet, Timestamp
<1>1. ASSUME NEW m \in 0..MaxImages, Load(m) PROVE Prefix'
  BY <1>1 DEF Load, Exit, Control
<1>2. CASE StartFails
  BY <1>2 DEF StartFails, Exit
<1>3. ASSUME NEW m \in 0..MaxPayloads, NEW keys \in SUBSET (1..m), EncodeImage(m, keys) PROVE Prefix'
  BY <1>3 DEF EncodeImage, Fed
<1>4. CASE NextImage
  BY <1>4 DEF NextImage, Receiving
<1>5. CASE ReceivePayload
  <2>1. Len(pushed) = 0 /\ pushed' = pushed /\ pc' # "done" /\ rc' # 0
    BY <1>5 DEF ReceivePayload, Control, SenderTypeOK, NotYet, Receiving
  <2>2. Len(aus') \in Nat
    BY TypePreserved DEF SenderTypeOK
  <2> QED BY <2>1, <2>2
<1>6. CASE NoMorePackets
  BY <1>6 DEF NoMorePackets
<1>7. CASE StartDrain
  BY <1>7 DEF StartDrain
<1>8. CASE EncoderFails
  BY <1>8 DEF EncoderFails, Exit
<1>9. CASE FlushPending
  <2>1. Len(pushed) = 0 /\ pushed' = pushed /\ pc' # "done" /\ rc' # 0
    BY <1>9 DEF FlushPending, Control, SenderTypeOK, NotYet
  <2>2. Len(aus') \in Nat
    BY TypePreserved DEF SenderTypeOK
  <2> QED BY <2>1, <2>2
<1>10. CASE Open
  BY <1>10 DEF Open, Exit
<1>11. CASE SendFails
  BY <1>11 DEF SendFails, Exit
<1>12. CASE SendEnds
  BY <1>12 DEF SendEnds, Exit
<1>13. CASE Push
  <2>1. /\ Len(pushed) \in Nat /\ Len(aus) \in Nat /\ Len(pushed) < Len(aus)
        /\ pushed' = Append(pushed, [unit |-> aus[Len(pushed) + 1],
                                     ts |-> Timestamp(aus[Len(pushed) + 1].pts)])
        /\ pc = "send" /\ UNCHANGED <<pc, aus, pending, rc>>
    BY <1>13 DEF Push, SenderTypeOK
  <2>2. /\ Len(pushed') = Len(pushed) + 1
        /\ \A j \in 1..Len(pushed) : pushed'[j] = pushed[j]
        /\ pushed'[Len(pushed) + 1] = [unit |-> aus[Len(pushed) + 1],
                                       ts |-> Timestamp(aus[Len(pushed) + 1].pts)]
    BY <2>1 DEF SenderTypeOK
  <2>3. pending = NoUnit /\ rc # 0
    BY <2>1 DEF Control
  <2>4. ASSUME NEW j \in 1..Len(pushed')
        PROVE  pushed'[j].unit = aus[j] /\ pushed'[j].ts = Timestamp(aus[j].pts)
    <3>1. CASE j \in 1..Len(pushed)
      BY <2>2, <3>1
    <3>2. CASE j = Len(pushed) + 1
      BY <2>2, <3>2
    <3> QED BY <2>1, <2>2, <3>1, <3>2
  <2>5. \A j \in 1..Len(pushed') :
          pushed'[j].unit = aus'[j] /\ pushed'[j].ts = Timestamp(aus'[j].pts)
    BY <2>1, <2>4
  <2> QED BY <2>1, <2>2, <2>3, <2>5 DEF Timestamp
<1>14. CASE UNCHANGED senderVars
  BY <1>14
<1> QED
  BY <1>1, <1>2, <1>3, <1>4, <1>5, <1>6, <1>7, <1>8, <1>9, <1>10, <1>11,
     <1>12, <1>13, <1>14 DEF SenderNext, SenderStep

-----------------------------------------------------------------------------
(* The theorems *)

\* The initial states satisfy the inductive invariant.
LEMMA InitEstablishes == SenderInit => IInv
<1> SUFFICES ASSUME SenderInit PROVE IInv
  OBVIOUS
<1> USE SenderBounds DEF SenderInit, NotYet
<1>1. SenderTypeOK
  BY EmptySeq DEF SenderTypeOK
<1>2. Fed = 0 /\ Len(aus) = 0 /\ Len(pushed) = 0
  BY DEF Fed
<1>3. Control /\ Grouping
  BY <1>2 DEF Control, Grouping, Coding
<1>4. Units /\ Coverage /\ Prefix
  BY <1>2 DEF Units, Coverage, Prefix
<1> QED BY <1>1, <1>3, <1>4 DEF IInv

\* The invariant the other theorems rest on.
THEOREM Inductive == SenderSpec => []IInv
<1>1. SenderInit => IInv
  BY InitEstablishes
<1>2. IInv /\ [SenderNext]_senderVars => IInv'
  BY TypePreserved, ControlPreserved, GroupingPreserved, UnitsPreserved,
     CoveragePreserved, PrefixPreserved DEF IInv
<1> QED BY <1>1, <1>2, PTL DEF SenderSpec

\* The variables of the sender stay in their types.
THEOREM TypeCorrect == SenderSpec => []SenderTypeOK
<1>1. IInv => SenderTypeOK
  BY DEF IInv
<1> QED BY <1>1, Inductive, PTL

\* The grouping of the encoder's packets by timestamp gives one whole access
\* unit for each image, however the encoder delays its packets.
THEOREM GroupingIsCorrect == SenderSpec => []UnitsAreImages
<1>1. IInv => UnitsAreImages
  <2> SUFFICES ASSUME IInv, NEW j \in 1..(Len(aus) - 1)
               PROVE  aus[j].pts < aus[j + 1].pts
    BY DEF IInv, Units, UnitsAreImages
  <2>1. Len(aus) \in Nat
    BY DEF IInv, SenderTypeOK
  <2>2. j \in 1..Len(aus) /\ j + 1 \in 1..Len(aus) /\ j < j + 1
    BY <2>1
  <2> QED BY <2>2 DEF IInv, Units
<1> QED BY <1>1, Inductive, PTL

\* A unit of an image that was handed out whole is where the order puts it.
LEMMA UnitOf ==
  ASSUME IInv, NEW p \in 1..coder.pts, Upto(p) > 0, pending = NoUnit
  PROVE  \E i \in 1..Len(aus) : aus[i].pts = p /\ aus[i] = WholeUnit(p)
BY DEF IInv, Coverage, Units

\* No image is skipped, and success means that every image was sent.
THEOREM NothingIsSkipped == SenderSpec => []SentWithoutGaps
<1>1. IInv => SentWithoutGaps
  <2> SUFFICES ASSUME IInv PROVE SentWithoutGaps
    OBVIOUS
  <2>1. /\ Len(pushed) \in Nat /\ Len(aus) \in Nat /\ Len(pushed) <= Len(aus)
        /\ coder.pts \in Nat /\ Fed \in Nat /\ coder.pts <= Fed
    BY DEF IInv, SenderTypeOK, Prefix, Control, Fed
  <2>2. \A j \in 1..Len(pushed) : pushed[j].unit = aus[j]
    BY DEF IInv, Prefix
  <2>3. ASSUME NEW j \in 1..Len(pushed), NEW p \in 1..Fed,
               p < pushed[j].unit.pts, made[p].n > 0
        PROVE  \E i \in 1..(j - 1) : pushed[i].unit = WholeUnit(p)
    <3>1. j \in 1..Len(aus) /\ p < aus[j].pts /\ aus[j].pts <= coder.pts
      BY <2>1, <2>2, <2>3 DEF IInv, Units
    <3>2. aus[j].pts \in Nat
      BY <3>1, UnitPts DEF IInv
    <3>3. p \in 1..coder.pts /\ Upto(p) > 0
      BY <2>1, <2>3, <3>1, <3>2 DEF Upto
    <3>4. pending = NoUnit
      BY <2>1 DEF IInv, Prefix
    <3>5. PICK i \in 1..Len(aus) : aus[i].pts = p /\ aus[i] = WholeUnit(p)
      BY <3>3, <3>4, UnitOf
    <3>6. i < j
      <4>1. ~(j < i)
        BY <3>1, <3>2, <3>5 DEF IInv, Units
      <4>2. i # j
        BY <3>1, <3>2, <3>5
      <4> QED BY <2>1, <4>1, <4>2
    <3>7. i \in 1..(j - 1) /\ i \in 1..Len(pushed)
      BY <2>1, <3>6
    <3> QED BY <2>2, <3>5, <3>7
  <2>4. ASSUME rc = 0, NEW p \in 1..images, made[p].n > 0
        PROVE  \E i \in 1..Len(pushed) : pushed[i].unit = WholeUnit(p)
    <3>1. Fed = images /\ Drained /\ pending = NoUnit /\ Len(pushed) = Len(aus)
      BY <2>4 DEF IInv, Control, Prefix
    <3>2. p \in 1..coder.pts /\ Upto(p) > 0
      BY <2>1, <2>4, <3>1 DEF Upto, Drained
    <3>3. PICK i \in 1..Len(aus) : aus[i].pts = p /\ aus[i] = WholeUnit(p)
      BY <3>1, <3>2, UnitOf
    <3> QED BY <2>2, <3>1, <3>3
  <2> QED BY <2>3, <2>4 DEF SentWithoutGaps
<1> QED BY <1>1, Inductive, PTL

-----------------------------------------------------------------------------
(* Timestamps *)

\* The whole part of a quotient.
LEMMA Quotient ==
  ASSUME NEW a \in Nat, NEW b \in Nat, b > 0
  PROVE  a \div b \in Nat /\ b * (a \div b) <= a /\ a < b * (a \div b) + b
OBVIOUS

\* Multiplying by a positive number keeps the order.
LEMMA Cancel ==
  ASSUME NEW a \in Int, NEW b \in Int, NEW c \in Nat, c > 0, c * a < c * b
  PROVE  a < b
OBVIOUS

\* Numbers less than a space apart differ in it.
LEMMA DifferInSpace ==
  ASSUME NEW a \in Nat, NEW b \in Nat, NEW t \in Nat, t > 0, a < b, b < a + t
  PROVE  a % t # b % t
<1> DEFINE qa == a \div t
           qb == b \div t
<1>1. qa \in Nat /\ a = t * qa + (a % t)
  OBVIOUS
<1>2. qb \in Nat /\ b = t * qb + (b % t)
  OBVIOUS
<1> SUFFICES ASSUME a % t = b % t PROVE FALSE
  OBVIOUS
<1>3. a % t \in Int
  OBVIOUS
<1> HIDE DEF qa, qb
<1>4. t * qa < t * qb
  BY <1>1, <1>2, <1>3
<1>5. t * (qa + 1) = t * qa + t
  BY <1>1
<1>6. t * qb < t * (qa + 1)
  BY <1>1, <1>2, <1>3, <1>5
<1>7. qa < qb /\ qb < qa + 1
  BY <1>1, <1>2, <1>4, <1>6, Cancel
<1> QED BY <1>1, <1>2, <1>7

\* Frames of subsequent numbers have different timestamps, also across the
\* wrap, for every frame rate up to the clock.
LEMMA NextTimestamp ==
  ASSUME NEW p \in Nat, p > 0
  PROVE  Timestamp(p + 1) # Timestamp(p)
<1> DEFINE x == ((p - 1) * Clock) + (Fps \div 2)
           y == (p * Clock) + (Fps \div 2)
           c == Clock \div Fps
           qx == x \div Fps
           qy == y \div Fps
<1>1. /\ Clock \in Nat /\ Fps \in Nat /\ Fps > 0 /\ Fps <= Clock /\ p - 1 \in Nat
      /\ TsSpace \in Nat /\ TsSpace > c + 1
  BY RatesAssumption, TsSpaceAssumption
<1>2. c \in Nat /\ Fps * c <= Clock /\ Clock < Fps * c + Fps
  BY <1>1, Quotient
<1>3. x \in Nat /\ y = x + Clock
  <2>1. Fps \div 2 \in Nat /\ (p - 1) * Clock \in Nat /\ p * Clock = (p - 1) * Clock + Clock
    BY <1>1
  <2> QED BY <1>1, <2>1
<1> HIDE DEF x, y, c
<1>4. qx \in Nat /\ Fps * qx <= x /\ x < Fps * qx + Fps
  BY <1>1, <1>3, Quotient
<1>5. qy \in Nat /\ Fps * qy <= y /\ y < Fps * qy + Fps
  BY <1>1, <1>3, Quotient
<1> HIDE DEF qx, qy
<1>6. qx < qy
  <2>1. Fps * qx + Fps < Fps * qy + Fps
    BY <1>1, <1>3, <1>4, <1>5
  <2> QED BY <1>1, <1>4, <1>5, <2>1, Cancel
<1>7. qy < qx + c + 2
  <2>1. Fps * (qx + c + 2) = Fps * qx + Fps * c + Fps + Fps
    BY <1>1, <1>2, <1>4
  <2>2. Fps * qy < Fps * (qx + c + 2)
    BY <1>1, <1>2, <1>3, <1>4, <1>5, <2>1
  <2> QED BY <1>1, <1>2, <1>4, <1>5, <2>2, Cancel
<1>8. qx % TsSpace # qy % TsSpace
  BY <1>1, <1>2, <1>4, <1>5, <1>6, <1>7, DifferInSpace
<1>9. p + 1 - 1 = p
  OBVIOUS
<1> QED BY <1>8, <1>9 DEF Timestamp, x, y, qx, qy

\* Two frames that follow each other have different RTP timestamps.
THEOREM FramesAreToldApart == SenderSpec => []TimestampsDiffer
<1>1. IInv => TimestampsDiffer
  <2> SUFFICES ASSUME IInv, NEW j \in 1..(Len(pushed) - 1),
                      pushed[j + 1].unit.pts = pushed[j].unit.pts + 1
               PROVE  pushed[j + 1].ts # pushed[j].ts
    BY DEF TimestampsDiffer
  <2>1. Len(pushed) \in Nat /\ Len(aus) \in Nat /\ Len(pushed) <= Len(aus)
    BY DEF IInv, SenderTypeOK, Prefix
  <2>2. j \in 1..Len(pushed) /\ j + 1 \in 1..Len(pushed) /\ j \in 1..Len(aus)
    BY <2>1
  <2>3. /\ pushed[j].unit = aus[j] /\ pushed[j].ts = Timestamp(aus[j].pts)
        /\ pushed[j + 1].unit = aus[j + 1]
        /\ pushed[j + 1].ts = Timestamp(aus[j + 1].pts)
    BY <2>2 DEF IInv, Prefix
  <2>4. aus[j].pts \in Nat /\ aus[j].pts > 0
    BY <2>2, UnitPts DEF IInv
  <2> QED BY <2>3, <2>4, NextTimestamp
<1> QED BY <1>1, Inductive, PTL
=============================================================================
