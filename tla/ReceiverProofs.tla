---------------------------- MODULE ReceiverProofs ----------------------------
(***************************************************************************)
(* Theorems of Receiver for any command lines and any number of packets.   *)
(* Everything decoded is in one of four places: tried, in the saver's      *)
(* hands, queued, or in the hook's hands.  That gives the order of the     *)
(* files for every decoder.  The other properties rest on what the H.264   *)
(* decoder does: it yields at most one frame for a packet, so that the     *)
(* hook, once the receiver is finished, can count one frame at most.       *)
(***************************************************************************)
EXTENDS Receiver, SequenceTheorems, TLAPS

One(b) == IF b THEN 1 ELSE 0

\* Main has its return value from the moment it stops waiting, the receiver is
\* finished by then, and only then is the saver told to stop.
Phases ==
  /\ main \in {"stop", "notify", "join", "clear", "returned"} <=> rc # NoOutcome
  /\ rc # NoOutcome => finished
  /\ save_stop => rc # NoOutcome
  /\ saver = "exited" => rc # NoOutcome
  /\ main # "returned" => saver_started = opt.saving
  /\ opt.saving /\ main \in {"clear", "returned"} => saver = "exited"
  /\ main = "timed_out" => opt.timeout
  /\ hook \in {"enqueue", "signal"} => opt.saving
  /\ finished <=> outcome # NoOutcome

\* Where the frames are until the saver leaves.
Chain ==
  /\ \A i \in 1..Len(attempts) : attempts[i].frame = i - 1
  /\ hook = "enqueue" => frame_index = decoded - 1
  /\ opt.saving /\ saver # "exited" =>
       /\ saver = "write" => job = Len(attempts)
       /\ \A i \in 1..Len(save_queue) :
            save_queue[i] = Len(attempts) + One(saver = "write") + i - 1
       /\ decoded = Len(attempts) + One(saver = "write") + Len(save_queue)
                      + One(hook = "enqueue")

IInv == TypeOK /\ Phases /\ Chain

\* The frames that the hook may still count.
ToCount == left + One(hook = "handle")

OneFrame ==
  /\ ToCount <= 1
  /\ hook \notin {"receive", "handle"} => left = 0

Limit ==
  opt.max_frames > 0 =>
    /\ decoded + ToCount <= opt.max_frames
    /\ ~finished => decoded < opt.max_frames

FirstOutcome ==
  /\ rc = NoOutcome /\ finished => ToCount = 0 /\ exit_code = outcome
  /\ rc # NoOutcome => rc = outcome
  /\ outcome = 0 => decoded > 0 /\ (~opt.timeout => decoded >= opt.max_frames)

AfterExit == saver = "exited" => decoded + ToCount <= Len(attempts) + 1

\* With a decoder that yields one frame for a packet at most.
BInv == IInv /\ OneFrame /\ Limit /\ FirstOutcome /\ AfterExit

-----------------------------------------------------------------------------
\* main has not waited yet, and nothing has been received.
LEMMA InitEstablishes == ASSUME Init PROVE BInv
<1> USE OptionsAssumption, DecoderAssumption DEF Init
<1>1. TypeOK
  <2>1. save_queue \in Seq(Nat) /\ attempts \in Seq([frame : Nat, stored : BOOLEAN])
    BY EmptySeq
  <2>2. opt.saving \in BOOLEAN
    OBVIOUS
  <2>3. saver \in {"none", "check"} /\ (saver = "none" <=> ~opt.saving)
    OBVIOUS
  <2>4. saver_started \in BOOLEAN /\ save_stop = FALSE /\ finished = FALSE
    OBVIOUS
  <2>5. packets \in 0..MaxPackets
    OBVIOUS
  <2> QED BY <2>1, <2>3, <2>4, <2>5 DEF TypeOK, Outcomes, NoOutcome
<1>2. Phases
  BY DEF Phases, NoOutcome
<1>3. Chain
  BY DEF Chain, One
<1>4. OneFrame /\ Limit /\ FirstOutcome /\ AfterExit
  BY DEF OneFrame, Limit, FirstOutcome, AfterExit, ToCount, One, NoOutcome
<1> QED BY <1>1, <1>2, <1>3, <1>4 DEF BInv, IInv

\* Every step keeps the variables in their types.
LEMMA TypePreserved ==
  ASSUME TypeOK,
         [Next]_vars
  PROVE  TypeOK'
<1> USE DEF vars, hookVars, shared, mainVars, saverVars, saveShared, TypeOK, Outcomes, DecodeError, ScaleError, NoOutcome
<1>1. ASSUME NEW n \in FramesPerPacket, Packet(n) PROVE TypeOK'
  BY <1>1, DecoderAssumption DEF Packet
<1>2. CASE DropPacket
  BY <1>2, DecoderAssumption DEF DropPacket
<1>3. CASE ReceiveFrame
  BY <1>3 DEF ReceiveFrame
<1>4. CASE DecoderFails
  <2> USE <1>4 DEF DecoderFails, Finish, SetFinished
  <2>1. CASE finished
    BY <2>1
  <2>2. CASE ~finished
    BY <2>2
  <2> QED BY <2>1, <2>2
<1>5. CASE ConversionFails
  <2> USE <1>5 DEF ConversionFails, Finish, SetFinished
  <2>1. CASE finished
    BY <2>1
  <2>2. CASE ~finished
    BY <2>2
  <2> QED BY <2>1, <2>2
<1>6. CASE FinishNotify
  BY <1>6 DEF FinishNotify, NotifyMain
<1>7. CASE CountFrame
  <2> USE <1>7 DEF CountFrame, SetFinished
  <2>1. CASE Enough(decoded + 1)
    BY <2>1
  <2>2. CASE ~Enough(decoded + 1)
    BY <2>2
  <2> QED BY <2>1, <2>2
<1>8. CASE EnqueueSaveJob
  BY <1>8 DEF EnqueueSaveJob
<1>9. CASE SignalSaver
  BY <1>9 DEF SignalSaver, NotifySaver
<1>10. CASE HandleNotify
  BY <1>10 DEF HandleNotify, NotifyMain
<1>11. CASE TestFinished
  BY <1>11 DEF TestFinished
<1>12. CASE AfterTimeout
  <2> USE <1>12 DEF AfterTimeout, SetFinished
  <2>1. CASE finished
    BY <2>1
  <2>2. CASE ~finished
    BY <2>2
  <2> QED BY <2>1, <2>2
<1>13. CASE StopSaver
  <2> USE <1>13 DEF StopSaver
  <2>1. CASE saver_started
    BY <2>1
  <2>2. CASE ~saver_started
    BY <2>2
  <2> QED BY <2>1, <2>2
<1>14. CASE NotifyStop
  BY <1>14 DEF NotifyStop, NotifySaver
<1>15. CASE Join
  BY <1>15 DEF Join
<1>16. CASE ClearSaver
  <2> USE <1>16 DEF ClearSaver
  <2>1. save_queue' \in Seq(Nat)
    BY EmptySeq
  <2>2. save_stop' \in BOOLEAN /\ saver_started' \in BOOLEAN /\ ~save_stop'
    OBVIOUS
  <2> QED BY <2>1, <2>2
<1>17. CASE SpuriousWake
  BY <1>17 DEF SpuriousWake
<1>18. CASE TimedOut
  BY <1>18 DEF TimedOut
<1>19. CASE SaverSleeps
  BY <1>19 DEF SaverSleeps
<1>20. CASE SaverExits
  BY <1>20 DEF SaverExits
<1>21. CASE TakeJob
  BY <1>21 DEF TakeJob
<1>22. CASE WriteJob
  BY <1>22 DEF WriteJob
<1>23. CASE SaverSpuriousWake
  BY <1>23 DEF SaverSpuriousWake
<1>24. CASE UNCHANGED vars
  BY <1>24
<1> QED
  BY <1>1, <1>2, <1>3, <1>4, <1>5, <1>6, <1>7, <1>8, <1>9, <1>10, <1>11,
     <1>12, <1>13, <1>14, <1>15, <1>16, <1>17, <1>18, <1>19, <1>20, <1>21,
     <1>22, <1>23, <1>24 DEF Next, HookStep, MainStep, SaverStep


\* Every step keeps main, the saver and the outcome in step with each other.
LEMMA PhasesPreserved ==
  ASSUME TypeOK, Phases,
         [Next]_vars
  PROVE  Phases'
<1> USE DEF vars, hookVars, shared, mainVars, saverVars, saveShared, TypeOK, Phases, Outcomes, DecodeError, ScaleError, NoOutcome
<1>1. ASSUME NEW n \in FramesPerPacket, Packet(n) PROVE Phases'
  BY <1>1, DecoderAssumption DEF Packet
<1>2. CASE DropPacket
  BY <1>2 DEF DropPacket
<1>3. CASE ReceiveFrame
  BY <1>3 DEF ReceiveFrame
<1>4. CASE DecoderFails
  BY <1>4 DEF DecoderFails, Finish, SetFinished
<1>5. CASE ConversionFails
  BY <1>5 DEF ConversionFails, Finish, SetFinished
<1>6. CASE FinishNotify
  BY <1>6 DEF FinishNotify, NotifyMain
<1>7. CASE CountFrame
  BY <1>7 DEF CountFrame, SetFinished
<1>8. CASE EnqueueSaveJob
  BY <1>8 DEF EnqueueSaveJob
<1>9. CASE SignalSaver
  BY <1>9 DEF SignalSaver, NotifySaver
<1>10. CASE HandleNotify
  BY <1>10 DEF HandleNotify, NotifyMain
<1>11. CASE TestFinished
  BY <1>11 DEF TestFinished
<1>12. CASE AfterTimeout
  BY <1>12 DEF AfterTimeout, SetFinished
<1>13. CASE StopSaver
  BY <1>13 DEF StopSaver
<1>14. CASE NotifyStop
  BY <1>14 DEF NotifyStop, NotifySaver
<1>15. CASE Join
  BY <1>15 DEF Join
<1>16. CASE ClearSaver
  BY <1>16 DEF ClearSaver
<1>17. CASE SpuriousWake
  BY <1>17 DEF SpuriousWake
<1>18. CASE TimedOut
  BY <1>18 DEF TimedOut
<1>19. CASE SaverSleeps
  BY <1>19 DEF SaverSleeps
<1>20. CASE SaverExits
  BY <1>20 DEF SaverExits
<1>21. CASE TakeJob
  BY <1>21 DEF TakeJob
<1>22. CASE WriteJob
  BY <1>22 DEF WriteJob
<1>23. CASE SaverSpuriousWake
  BY <1>23 DEF SaverSpuriousWake
<1>24. CASE UNCHANGED vars
  BY <1>24
<1> QED
  BY <1>1, <1>2, <1>3, <1>4, <1>5, <1>6, <1>7, <1>8, <1>9, <1>10, <1>11,
     <1>12, <1>13, <1>14, <1>15, <1>16, <1>17, <1>18, <1>19, <1>20, <1>21,
     <1>22, <1>23, <1>24 DEF Next, HookStep, MainStep, SaverStep


\* Every step moves a frame along the chain, or none: the hook's frame to the
\* end of the queue, the head of the queue to the saver, the saver's to the disk.
LEMMA ChainPreserved ==
  ASSUME TypeOK, Phases, Chain,
         [Next]_vars
  PROVE  Chain'
<1> USE DEF vars, hookVars, shared, mainVars, saverVars, saveShared, TypeOK, Phases, Chain, One
<1>1. ASSUME NEW n \in FramesPerPacket, Packet(n) PROVE Chain'
  BY <1>1, DecoderAssumption DEF Packet
<1>2. CASE DropPacket
  BY <1>2 DEF DropPacket
<1>3. CASE ReceiveFrame
  BY <1>3 DEF ReceiveFrame
<1>4. CASE DecoderFails
  BY <1>4 DEF DecoderFails, Finish, SetFinished
<1>5. CASE ConversionFails
  BY <1>5 DEF ConversionFails, Finish, SetFinished
<1>6. CASE FinishNotify
  BY <1>6 DEF FinishNotify, NotifyMain
<1>7. CASE CountFrame
  <2>1. /\ hook = "handle" /\ frame_index' = decoded /\ decoded' = decoded + 1
        /\ hook' = (IF opt.saving THEN "enqueue" ELSE "notify")
        /\ UNCHANGED <<opt, saver, job, attempts, save_queue>>
    BY <1>7 DEF CountFrame
  <2> HIDE DEF TypeOK, Phases
  <2>2. decoded \in Nat /\ Len(attempts) \in Nat /\ Len(save_queue) \in Nat
    BY DEF TypeOK
  <2>3. CASE opt.saving
    <3>1. hook' = "enqueue"
      BY <2>1, <2>3
    <3>2. One(hook = "enqueue") = 0 /\ One(hook' = "enqueue") = 1
      BY <2>1, <3>1
    <3>3. saver # "exited" =>
            decoded = Len(attempts) + One(saver = "write") + Len(save_queue)
      BY <2>1, <2>3, <3>2
    <3>4. One(saver = "write") \in Nat
      OBVIOUS
    <3> HIDE DEF One, Chain
    <3>5. saver # "exited" =>
            decoded' = Len(attempts) + One(saver = "write") + Len(save_queue) + 1
      BY <2>1, <2>2, <3>3, <3>4
    <3> QED BY <2>1, <2>2, <3>1, <3>2, <3>5 DEF Chain
  <2>4. CASE ~opt.saving
    BY <2>1, <2>4
  <2> QED BY <2>3, <2>4
<1>8. CASE EnqueueSaveJob
  <2>1. /\ hook = "enqueue" /\ save_queue' = Append(save_queue, frame_index)
        /\ hook' = "signal"
        /\ UNCHANGED <<opt, decoded, frame_index, saver, job, attempts>>
    BY <1>8 DEF EnqueueSaveJob
  <2>2. /\ Len(save_queue') = Len(save_queue) + 1
        /\ \A i \in 1..Len(save_queue') :
             save_queue'[i] = IF i <= Len(save_queue) THEN save_queue[i] ELSE frame_index
    BY <2>1
  <2>3. decoded \in Nat /\ Len(attempts) \in Nat /\ Len(save_queue) \in Nat
    OBVIOUS
  <2> DEFINE w == One(saver = "write")
  <2>4. w \in {0, 1} /\ One(hook = "enqueue") = 1 /\ One(hook' = "enqueue") = 0
    BY <2>1
  <2> HIDE DEF TypeOK, Phases, One
  <2>5. CASE opt.saving /\ saver # "exited"
    <3>1. /\ decoded = Len(attempts) + w + Len(save_queue) + 1
          /\ \A i \in 1..Len(save_queue) : save_queue[i] = Len(attempts) + w + i - 1
          /\ frame_index = decoded - 1
      BY <2>1, <2>4, <2>5
    <3> HIDE DEF w
    <3>2. \A i \in 1..Len(save_queue') : save_queue'[i] = Len(attempts) + w + i - 1
      <4> SUFFICES ASSUME NEW i \in 1..Len(save_queue')
                   PROVE  save_queue'[i] = Len(attempts) + w + i - 1
        OBVIOUS
      <4>1. CASE i <= Len(save_queue)
        BY <2>2, <2>3, <3>1, <4>1
      <4>2. CASE i = Len(save_queue) + 1
        <5>1. save_queue'[i] = frame_index
          BY <2>2, <2>3, <4>2
        <5> HIDE DEF Chain
        <5> QED BY <2>3, <2>4, <3>1, <4>2, <5>1
      <4> QED BY <2>2, <2>3, <4>1, <4>2
    <3>3. decoded = Len(attempts) + w + Len(save_queue') + 0
      BY <2>2, <2>3, <2>4, <3>1
    <3>4. \A i \in 1..Len(attempts) : attempts[i].frame = i - 1
      OBVIOUS
    <3>5. saver = "write" => job = Len(attempts)
      BY <2>5
    <3> HIDE DEF Chain
    <3> QED BY <2>1, <2>4, <3>2, <3>3, <3>4, <3>5 DEF w, Chain
  <2>6. CASE ~(opt.saving /\ saver # "exited")
    BY <2>1, <2>6
  <2> QED BY <2>5, <2>6
<1>9. CASE SignalSaver
  BY <1>9 DEF SignalSaver, NotifySaver
<1>10. CASE HandleNotify
  BY <1>10 DEF HandleNotify, NotifyMain
<1>11. CASE TestFinished
  BY <1>11 DEF TestFinished
<1>12. CASE AfterTimeout
  BY <1>12 DEF AfterTimeout, SetFinished
<1>13. CASE StopSaver
  BY <1>13 DEF StopSaver
<1>14. CASE NotifyStop
  BY <1>14 DEF NotifyStop, NotifySaver
<1>15. CASE Join
  BY <1>15 DEF Join
<1>16. CASE ClearSaver
  BY <1>16 DEF ClearSaver
<1>17. CASE SpuriousWake
  BY <1>17 DEF SpuriousWake
<1>18. CASE TimedOut
  BY <1>18 DEF TimedOut
<1>19. CASE SaverSleeps
  BY <1>19 DEF SaverSleeps
<1>20. CASE SaverExits
  BY <1>20 DEF SaverExits
<1>21. CASE TakeJob
  <2>1. /\ saver = "check" /\ save_queue # <<>>
        /\ job' = Head(save_queue) /\ save_queue' = Tail(save_queue)
        /\ saver' = "write"
        /\ UNCHANGED <<opt, hook, decoded, frame_index, attempts>>
    BY <1>21 DEF TakeJob
  <2>2. /\ Len(save_queue') = Len(save_queue) - 1
        /\ \A i \in 1..Len(save_queue') : save_queue'[i] = save_queue[i + 1]
        /\ job' = save_queue[1] /\ Len(save_queue) >= 1
    BY <2>1
  <2>3. Len(attempts) \in Nat /\ Len(save_queue) \in Nat
    OBVIOUS
  <2> QED BY <2>1, <2>2, <2>3
<1>22. CASE WriteJob
  <2>1. /\ saver = "write" /\ saver' = "check"
        /\ UNCHANGED <<opt, hook, decoded, frame_index, save_queue, job>>
    BY <1>22 DEF WriteJob
  <2>2. PICK stored \in BOOLEAN :
          attempts' = Append(attempts, [frame |-> job, stored |-> stored])
    BY <1>22 DEF WriteJob
  <2>3. opt.saving /\ saver # "exited" /\ One(saver = "write") = 1
    BY <2>1
  <2>4. /\ Len(attempts) \in Nat /\ Len(save_queue) \in Nat
        /\ job = Len(attempts)
        /\ \A i \in 1..Len(attempts) : attempts[i].frame = i - 1
        /\ \A i \in 1..Len(save_queue) : save_queue[i] = Len(attempts) + 1 + i - 1
        /\ decoded = Len(attempts) + 1 + Len(save_queue) + One(hook = "enqueue")
        /\ hook = "enqueue" => frame_index = decoded - 1
    <3> HIDE DEF One, Phases
    <3> QED BY <2>1, <2>3
  <2>5. /\ Len(attempts') = Len(attempts) + 1
        /\ \A i \in 1..Len(attempts') :
             attempts'[i] = IF i <= Len(attempts) THEN attempts[i]
                            ELSE [frame |-> job, stored |-> stored]
    BY <2>2, AppendProperties
  <2>6. One(saver' = "write") = 0 /\ One(hook' = "enqueue") = One(hook = "enqueue")
        /\ One(hook = "enqueue") \in Nat
    BY <2>1
  <2> HIDE DEF TypeOK, Phases, Chain, One
  <2>7. \A i \in 1..Len(attempts') : attempts'[i].frame = i - 1
    BY <2>4, <2>5
  <2>8. \A i \in 1..Len(save_queue') : save_queue'[i] = Len(attempts') + 0 + i - 1
    BY <2>1, <2>4, <2>5
  <2>9. decoded' = Len(attempts') + 0 + Len(save_queue') + One(hook' = "enqueue")
    BY <2>1, <2>4, <2>5, <2>6
  <2> QED BY <2>1, <2>4, <2>6, <2>7, <2>8, <2>9 DEF Chain
<1>23. CASE SaverSpuriousWake
  BY <1>23 DEF SaverSpuriousWake
<1>24. CASE UNCHANGED vars
  BY <1>24
<1> QED
  BY <1>1, <1>2, <1>3, <1>4, <1>5, <1>6, <1>7, <1>8, <1>9, <1>10, <1>11,
     <1>12, <1>13, <1>14, <1>15, <1>16, <1>17, <1>18, <1>19, <1>20, <1>21,
     <1>22, <1>23, <1>24 DEF Next, HookStep, MainStep, SaverStep


\* The hook has at most one frame to count, and none between two packets.
LEMMA OneFramePreserved ==
  ASSUME IInv, OneFrame, FramesPerPacket \subseteq {0, 1},
         [Next]_vars
  PROVE  OneFrame'
<1> USE DEF vars, hookVars, shared, mainVars, saverVars, saveShared, IInv, TypeOK, OneFrame, ToCount, One
<1>1. ASSUME NEW n \in FramesPerPacket, Packet(n) PROVE OneFrame'
  BY <1>1, DecoderAssumption DEF Packet
<1>2. CASE DropPacket
  BY <1>2 DEF DropPacket
<1>3. CASE ReceiveFrame
  BY <1>3 DEF ReceiveFrame
<1>4. CASE DecoderFails
  BY <1>4 DEF DecoderFails, Finish, SetFinished
<1>5. CASE ConversionFails
  BY <1>5 DEF ConversionFails, Finish, SetFinished
<1>6. CASE FinishNotify
  BY <1>6 DEF FinishNotify, NotifyMain
<1>7. CASE CountFrame
  BY <1>7 DEF CountFrame, SetFinished
<1>8. CASE EnqueueSaveJob
  BY <1>8 DEF EnqueueSaveJob
<1>9. CASE SignalSaver
  BY <1>9 DEF SignalSaver, NotifySaver
<1>10. CASE HandleNotify
  BY <1>10 DEF HandleNotify, NotifyMain
<1>11. CASE TestFinished
  BY <1>11 DEF TestFinished
<1>12. CASE AfterTimeout
  BY <1>12 DEF AfterTimeout, SetFinished
<1>13. CASE StopSaver
  BY <1>13 DEF StopSaver
<1>14. CASE NotifyStop
  BY <1>14 DEF NotifyStop, NotifySaver
<1>15. CASE Join
  BY <1>15 DEF Join
<1>16. CASE ClearSaver
  BY <1>16 DEF ClearSaver
<1>17. CASE SpuriousWake
  BY <1>17 DEF SpuriousWake
<1>18. CASE TimedOut
  BY <1>18 DEF TimedOut
<1>19. CASE SaverSleeps
  BY <1>19 DEF SaverSleeps
<1>20. CASE SaverExits
  BY <1>20 DEF SaverExits
<1>21. CASE TakeJob
  BY <1>21 DEF TakeJob
<1>22. CASE WriteJob
  BY <1>22 DEF WriteJob
<1>23. CASE SaverSpuriousWake
  BY <1>23 DEF SaverSpuriousWake
<1>24. CASE UNCHANGED vars
  BY <1>24
<1> QED
  BY <1>1, <1>2, <1>3, <1>4, <1>5, <1>6, <1>7, <1>8, <1>9, <1>10, <1>11,
     <1>12, <1>13, <1>14, <1>15, <1>16, <1>17, <1>18, <1>19, <1>20, <1>21,
     <1>22, <1>23, <1>24 DEF Next, HookStep, MainStep, SaverStep


\* A packet is only taken up while max_frames has room for its frame.
LEMMA LimitPreserved ==
  ASSUME IInv, OneFrame, Limit, FramesPerPacket \subseteq {0, 1},
         [Next]_vars
  PROVE  Limit'
<1> USE OptionsAssumption DEF vars, hookVars, shared, mainVars, saverVars, saveShared, IInv, TypeOK, OneFrame, Limit, ToCount, One
<1>1. ASSUME NEW n \in FramesPerPacket, Packet(n) PROVE Limit'
  BY <1>1, DecoderAssumption DEF Packet
<1>2. CASE DropPacket
  BY <1>2 DEF DropPacket
<1>3. CASE ReceiveFrame
  BY <1>3 DEF ReceiveFrame
<1>4. CASE DecoderFails
  <2> USE <1>4 DEF DecoderFails, Finish, SetFinished
  <2>1. CASE finished
    BY <2>1
  <2>2. CASE ~finished
    BY <2>2
  <2> QED BY <2>1, <2>2
<1>5. CASE ConversionFails
  <2> USE <1>5 DEF ConversionFails, Finish, SetFinished
  <2>1. CASE finished
    BY <2>1
  <2>2. CASE ~finished
    BY <2>2
  <2> QED BY <2>1, <2>2
<1>6. CASE FinishNotify
  BY <1>6 DEF FinishNotify, NotifyMain
<1>7. CASE CountFrame
  <2> USE <1>7 DEF CountFrame, SetFinished, Enough
  <2>1. CASE Enough(decoded + 1)
    BY <2>1
  <2>2. CASE ~Enough(decoded + 1)
    BY <2>2
  <2> QED BY <2>1, <2>2
<1>8. CASE EnqueueSaveJob
  BY <1>8 DEF EnqueueSaveJob
<1>9. CASE SignalSaver
  BY <1>9 DEF SignalSaver, NotifySaver
<1>10. CASE HandleNotify
  BY <1>10 DEF HandleNotify, NotifyMain
<1>11. CASE TestFinished
  BY <1>11 DEF TestFinished
<1>12. CASE AfterTimeout
  BY <1>12 DEF AfterTimeout, SetFinished
<1>13. CASE StopSaver
  BY <1>13 DEF StopSaver
<1>14. CASE NotifyStop
  BY <1>14 DEF NotifyStop, NotifySaver
<1>15. CASE Join
  BY <1>15 DEF Join
<1>16. CASE ClearSaver
  BY <1>16 DEF ClearSaver
<1>17. CASE SpuriousWake
  BY <1>17 DEF SpuriousWake
<1>18. CASE TimedOut
  BY <1>18 DEF TimedOut
<1>19. CASE SaverSleeps
  BY <1>19 DEF SaverSleeps
<1>20. CASE SaverExits
  BY <1>20 DEF SaverExits
<1>21. CASE TakeJob
  BY <1>21 DEF TakeJob
<1>22. CASE WriteJob
  BY <1>22 DEF WriteJob
<1>23. CASE SaverSpuriousWake
  BY <1>23 DEF SaverSpuriousWake
<1>24. CASE UNCHANGED vars
  BY <1>24
<1> QED
  BY <1>1, <1>2, <1>3, <1>4, <1>5, <1>6, <1>7, <1>8, <1>9, <1>10, <1>11,
     <1>12, <1>13, <1>14, <1>15, <1>16, <1>17, <1>18, <1>19, <1>20, <1>21,
     <1>22, <1>23, <1>24 DEF Next, HookStep, MainStep, SaverStep


\* Whoever finishes the receiver leaves nothing to count that could overwrite
\* the exit code before main has read it.
LEMMA OutcomePreserved ==
  ASSUME IInv, OneFrame, Limit, FirstOutcome, FramesPerPacket \subseteq {0, 1},
         [Next]_vars
  PROVE  FirstOutcome'
<1> USE OptionsAssumption DEF vars, hookVars, shared, mainVars, saverVars, saveShared, IInv, TypeOK, Phases, OneFrame, Limit, FirstOutcome, ToCount, One, Outcomes, DecodeError, ScaleError, NoOutcome
<1>1. ASSUME NEW n \in FramesPerPacket, Packet(n) PROVE FirstOutcome'
  BY <1>1, DecoderAssumption DEF Packet
<1>2. CASE DropPacket
  BY <1>2 DEF DropPacket
<1>3. CASE ReceiveFrame
  BY <1>3 DEF ReceiveFrame
<1>4. CASE DecoderFails
  BY <1>4 DEF DecoderFails, Finish, SetFinished
<1>5. CASE ConversionFails
  BY <1>5 DEF ConversionFails, Finish, SetFinished
<1>6. CASE FinishNotify
  BY <1>6 DEF FinishNotify, NotifyMain
<1>7. CASE CountFrame
  <2> USE <1>7 DEF CountFrame, SetFinished, Enough
  <2>1. CASE Enough(decoded + 1)
    BY <2>1
  <2>2. CASE ~Enough(decoded + 1)
    BY <2>2
  <2> QED BY <2>1, <2>2
<1>8. CASE EnqueueSaveJob
  BY <1>8 DEF EnqueueSaveJob
<1>9. CASE SignalSaver
  BY <1>9 DEF SignalSaver, NotifySaver
<1>10. CASE HandleNotify
  BY <1>10 DEF HandleNotify, NotifyMain
<1>11. CASE TestFinished
  BY <1>11 DEF TestFinished
<1>12. CASE AfterTimeout
  BY <1>12 DEF AfterTimeout, SetFinished
<1>13. CASE StopSaver
  BY <1>13 DEF StopSaver
<1>14. CASE NotifyStop
  BY <1>14 DEF NotifyStop, NotifySaver
<1>15. CASE Join
  BY <1>15 DEF Join
<1>16. CASE ClearSaver
  BY <1>16 DEF ClearSaver
<1>17. CASE SpuriousWake
  BY <1>17 DEF SpuriousWake
<1>18. CASE TimedOut
  BY <1>18 DEF TimedOut
<1>19. CASE SaverSleeps
  BY <1>19 DEF SaverSleeps
<1>20. CASE SaverExits
  BY <1>20 DEF SaverExits
<1>21. CASE TakeJob
  BY <1>21 DEF TakeJob
<1>22. CASE WriteJob
  BY <1>22 DEF WriteJob
<1>23. CASE SaverSpuriousWake
  BY <1>23 DEF SaverSpuriousWake
<1>24. CASE UNCHANGED vars
  BY <1>24
<1> QED
  BY <1>1, <1>2, <1>3, <1>4, <1>5, <1>6, <1>7, <1>8, <1>9, <1>10, <1>11,
     <1>12, <1>13, <1>14, <1>15, <1>16, <1>17, <1>18, <1>19, <1>20, <1>21,
     <1>22, <1>23, <1>24 DEF Next, HookStep, MainStep, SaverStep


\* The saver leaves an empty queue, and the receiver is finished by then: one
\* frame may follow, or be on its way to the queue.
LEMMA AfterExitPreserved ==
  ASSUME IInv, OneFrame, AfterExit, FramesPerPacket \subseteq {0, 1},
         [Next]_vars
  PROVE  AfterExit'
<1> USE DEF vars, hookVars, shared, mainVars, saverVars, saveShared, IInv, TypeOK, Phases, Chain, OneFrame, AfterExit, ToCount, One
<1>1. ASSUME NEW n \in FramesPerPacket, Packet(n) PROVE AfterExit'
  BY <1>1, DecoderAssumption DEF Packet
<1>2. CASE DropPacket
  BY <1>2 DEF DropPacket
<1>3. CASE ReceiveFrame
  BY <1>3 DEF ReceiveFrame
<1>4. CASE DecoderFails
  BY <1>4 DEF DecoderFails, Finish, SetFinished
<1>5. CASE ConversionFails
  BY <1>5 DEF ConversionFails, Finish, SetFinished
<1>6. CASE FinishNotify
  BY <1>6 DEF FinishNotify, NotifyMain
<1>7. CASE CountFrame
  BY <1>7 DEF CountFrame, SetFinished
<1>8. CASE EnqueueSaveJob
  BY <1>8 DEF EnqueueSaveJob
<1>9. CASE SignalSaver
  BY <1>9 DEF SignalSaver, NotifySaver
<1>10. CASE HandleNotify
  BY <1>10 DEF HandleNotify, NotifyMain
<1>11. CASE TestFinished
  BY <1>11 DEF TestFinished
<1>12. CASE AfterTimeout
  BY <1>12 DEF AfterTimeout, SetFinished
<1>13. CASE StopSaver
  BY <1>13 DEF StopSaver
<1>14. CASE NotifyStop
  BY <1>14 DEF NotifyStop, NotifySaver
<1>15. CASE Join
  BY <1>15 DEF Join
<1>16. CASE ClearSaver
  BY <1>16 DEF ClearSaver
<1>17. CASE SpuriousWake
  BY <1>17 DEF SpuriousWake
<1>18. CASE TimedOut
  BY <1>18 DEF TimedOut
<1>19. CASE SaverSleeps
  BY <1>19 DEF SaverSleeps
<1>20. CASE SaverExits
  BY <1>20 DEF SaverExits
<1>21. CASE TakeJob
  BY <1>21 DEF TakeJob
<1>22. CASE WriteJob
  BY <1>22 DEF WriteJob
<1>23. CASE SaverSpuriousWake
  BY <1>23 DEF SaverSpuriousWake
<1>24. CASE UNCHANGED vars
  BY <1>24
<1> QED
  BY <1>1, <1>2, <1>3, <1>4, <1>5, <1>6, <1>7, <1>8, <1>9, <1>10, <1>11,
     <1>12, <1>13, <1>14, <1>15, <1>16, <1>17, <1>18, <1>19, <1>20, <1>21,
     <1>22, <1>23, <1>24 DEF Next, HookStep, MainStep, SaverStep

-----------------------------------------------------------------------------
\* Whatever the decoder yields: types, phases and the chain of frames.
THEOREM Inductive == Spec => []IInv
<1>1. Init => IInv
  BY InitEstablishes DEF BInv
<1>2. IInv /\ [Next]_vars => IInv'
  BY TypePreserved, PhasesPreserved, ChainPreserved DEF IInv
<1> QED BY <1>1, <1>2, PTL DEF Spec

\* The variables of the three threads stay in their types.
THEOREM TypeCorrect == Spec => []TypeOK
BY Inductive, PTL DEF IInv

\* The frames given to write_job are the first ones, each with a file or refused.
LEMMA Tried ==
  ASSUME TypeOK, Chain
  PROVE  /\ OnDisk \subseteq 0..Len(attempts) - 1
         /\ 0..Len(attempts) - 1 \subseteq OnDisk \cup Refused
<1>1. ASSUME NEW n \in OnDisk PROVE n \in 0..Len(attempts) - 1
  <2>1. PICK i \in 1..Len(attempts) : attempts[i].frame = n
    BY <1>1 DEF OnDisk, Frames
  <2>2. n = i - 1 /\ Len(attempts) \in Nat
    BY <2>1 DEF Chain, TypeOK
  <2> QED BY <2>2
<1>2. ASSUME NEW n \in 0..Len(attempts) - 1 PROVE n \in OnDisk \cup Refused
  <2>1. Len(attempts) \in Nat
    BY DEF TypeOK
  <2>2. n + 1 \in 1..Len(attempts)
    BY <2>1
  <2>3. attempts[n + 1].frame = n
    BY <2>1, <2>2 DEF Chain
  <2>4. attempts[n + 1] \in [frame : Nat, stored : BOOLEAN]
    BY <2>2, ElementOfSeq DEF TypeOK
  <2> QED BY <2>2, <2>3, <2>4 DEF OnDisk, Refused, Frames
<1> QED BY <1>1, <1>2

\* The files are the frames decoded, in order, and before the newest of them
\* only those are missing that imwrite did not store, whatever the decoder
\* yields and whenever main stops the saver.
THEOREM FilesAreInOrder == Spec => []SavedInOrder
<1>1. IInv => SavedInOrder
  <2> SUFFICES ASSUME IInv PROVE SavedInOrder
    OBVIOUS
  <2>1. \A i, k \in 1..Len(attempts) :
          i < k => attempts[i].frame < attempts[k].frame
    BY DEF IInv, TypeOK, Chain
  <2>2. Len(attempts) \in Nat
    BY DEF IInv, TypeOK
  <2>3. ASSUME NEW n \in OnDisk PROVE 0..n \subseteq OnDisk \cup Refused
    <3>1. n \in 0..Len(attempts) - 1
      BY <2>3, Tried DEF IInv
    <3>2. 0..n \subseteq 0..Len(attempts) - 1
      BY <2>2, <3>1
    <3> QED BY <3>2, Tried DEF IInv
  <2> QED BY <2>1, <2>3 DEF SavedInOrder
<1> QED BY <1>1, Inductive, PTL

\* With one frame for a packet at most, the rest is inductive, too.
THEOREM BoundedInductive ==
  ASSUME FramesPerPacket \subseteq {0, 1}
  PROVE  Spec => []BInv
<1>1. Init => BInv
  BY InitEstablishes
<1>2. BInv /\ [Next]_vars => BInv'
  <2> SUFFICES ASSUME BInv, [Next]_vars PROVE BInv'
    OBVIOUS
  <2>1. IInv'
    BY TypePreserved, PhasesPreserved, ChainPreserved DEF BInv, IInv
  <2>2. OneFrame' /\ Limit'
    BY OneFramePreserved, LimitPreserved DEF BInv
  <2>3. FirstOutcome' /\ AfterExit'
    BY OutcomePreserved, AfterExitPreserved DEF BInv
  <2> QED BY <2>1, <2>2, <2>3 DEF BInv
<1> QED BY <1>1, <1>2, PTL DEF Spec

\* Beside what imwrite did not store, the frame in flight is all that a saver
\* told to stop can miss.
THEOREM LosesOnlyInFlight ==
  ASSUME FramesPerPacket \subseteq {0, 1}
  PROVE  Spec => []LostOnlyInFlight
<1>1. BInv => LostOnlyInFlight
  <2> SUFFICES ASSUME BInv, opt.saving, main \in {"clear", "returned"}
               PROVE  0..decoded - 2 \subseteq OnDisk \cup Refused
    BY DEF LostOnlyInFlight
  <2>1. decoded \in Nat /\ Len(attempts) \in Nat /\ left \in Nat
    BY DEF BInv, IInv, TypeOK
  <2>2. saver = "exited"
    BY DEF BInv, IInv, Phases
  <2>3. decoded <= Len(attempts) + 1
    BY <2>1, <2>2 DEF BInv, AfterExit, ToCount, One
  <2>4. 0..decoded - 2 \subseteq 0..Len(attempts) - 1
    BY <2>1, <2>3
  <2> QED BY <2>4, Tried DEF BInv, IInv
<1> QED BY <1>1, BoundedInductive, PTL

\* No frame is counted beyond max_frames, although the hook asks for the end
\* outside the lock under which it counts.
THEOREM CountsUpToMax ==
  ASSUME FramesPerPacket \subseteq {0, 1}
  PROVE  Spec => []StopsAfterMax
<1>1. BInv => StopsAfterMax
  BY OptionsAssumption DEF BInv, IInv, TypeOK, Limit, ToCount, One, StopsAfterMax
<1> QED BY <1>1, BoundedInductive, PTL

\* main returns the outcome that came first.
THEOREM FirstOutcomeReturned ==
  ASSUME FramesPerPacket \subseteq {0, 1}
  PROVE  Spec => []ReturnsFirstOutcome
<1>1. BInv => ReturnsFirstOutcome
  BY DEF BInv, FirstOutcome, ReturnsFirstOutcome
<1> QED BY <1>1, BoundedInductive, PTL
===============================================================================
