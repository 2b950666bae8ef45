------------------------- MODULE PacketCaptureProofs -------------------------
(***************************************************************************)
(* Theorems of PacketCapture for any queues, callbacks and scenarios, with *)
(* configuration by other threads during a push included.  Every invariant *)
(* is about one queue: what its thread does, and any thread's change of    *)
(* its configuration, leaves the other queues alone.                       *)
(***************************************************************************)
EXTENDS PacketCapture, SequenceTheorems, TLAPS

Busy == {"send", "emit", "call"}

\* The packets of the frame being pushed, and the frames pushed before it.
WireInv(q) ==
  /\ \A i \in 1..Len(wire[q]) : wire[q][i][1] \in 1..Frame(q)
  /\ push[q].pc = "idle" \/ push[q].capture_only =>
       \A i \in 1..Len(wire[q]) : wire[q][i][1] # Frame(q)
  /\ push[q].pc \in Busy /\ ~push[q].capture_only =>
       /\ \A i \in 1..Len(wire[q]) : wire[q][i][1] = Frame(q) => wire[q][i][2] \in 1..push[q].k
       /\ \A j \in 1..push[q].k :
            \E i \in 1..Len(wire[q]) : wire[q][i][1] = Frame(q) /\ wire[q][i][2] = j

\* How far the pushing thread is, and what it knows of the time.
PushInv(q) ==
  /\ push[q].pc = "send" => push[q].k < push[q].n
  /\ push[q].pc \in {"emit", "call"} => push[q].k = push[q].n /\ push[q].n > 0
  /\ push[q].capture_only => push[q].active
  /\ push[q].pc = "send" /\ ~push[q].paced => push[q].k = 0
  /\ push[q].pc = "send" /\ push[q].at = NoTime => push[q].k = 0 \/ ~push[q].active
  /\ push[q].pc \in {"emit", "call"} /\ push[q].active => push[q].at # NoTime
  /\ push[q].pc = "call" => push[q].active /\ push[q].callback # Nobody /\ push[q].reg > 0
  /\ push[q].at <= now
  /\ push[q].reg <= sets

\* A registration is new when it is made, and its base time is that of its
\* first frame: the one that is called back first.
ConfigInv(q) ==
  Registered(q) =>
    /\ g_configs[q].reg <= sets
    /\ g_configs[q].base <= now
    /\ push[q].pc \in {"send", "emit"} /\ push[q].at # NoTime =>
         g_configs[q].base <= push[q].at
    /\ g_configs[q].base = NoTime =>
         /\ \A i \in 1..Len(calls[q]) : calls[q][i].reg # g_configs[q].reg
         /\ push[q].pc = "call" => push[q].reg # g_configs[q].reg
    /\ g_configs[q].base # NoTime =>
         /\ \A i \in 1..Len(calls[q]) : calls[q][i].reg = g_configs[q].reg =>
              calls[q][i].at - calls[q][i].offset = g_configs[q].base
         /\ push[q].pc = "call" /\ push[q].reg = g_configs[q].reg =>
              push[q].base = g_configs[q].base
         /\ \/ \E i \in 1..Len(calls[q]) : calls[q][i].reg = g_configs[q].reg
            \/ push[q].pc = "call" /\ push[q].reg = g_configs[q].reg

\* The call about to be made fits those of its registration.
CallInv(q) ==
  push[q].pc = "call" =>
    /\ push[q].base # NoTime /\ push[q].base <= push[q].at
    /\ \A i \in 1..Len(calls[q]) : calls[q][i].reg = push[q].reg =>
         calls[q][i].at - calls[q][i].offset = push[q].base
    /\ \/ push[q].base = push[q].at
       \/ \E i \in 1..Len(calls[q]) : calls[q][i].reg = push[q].reg

\* The calls made.
CallsInv(q) ==
  /\ \A i \in 1..Len(calls[q]) : calls[q][i].reg <= sets
  /\ \A i, j \in 1..Len(calls[q]) : calls[q][i].reg = calls[q][j].reg =>
       /\ calls[q][j].offset - calls[q][i].offset = calls[q][j].at - calls[q][i].at
       /\ \E h \in 1..i : calls[q][h].reg = calls[q][i].reg /\ calls[q][h].offset = 0

\* Between frames a configuration is stable, if nobody else configures.
DropInv(q) ==
  ~scenario.concurrent =>
    /\ push[q].pc \in {"send", "emit"} /\ push[q].active => Registered(q)
    /\ \A f \in 1..Len(done[q]) : done[q][f] = "OK" =>
         \/ \E i \in 1..Len(wire[q]) : wire[q][i][1] = f
         \/ \E i \in 1..Len(calls[q]) : calls[q][i].frame = f

QInv(q) ==
  WireInv(q) /\ PushInv(q) /\ ConfigInv(q) /\ CallInv(q) /\ CallsInv(q) /\ DropInv(q)

IInv == TypeOK /\ \A q \in Queues : QInv(q)

-----------------------------------------------------------------------------
(* Intervals *)

LEMMA LastOrEarlier == ASSUME NEW n \in Nat, NEW f \in 1..(n + 1) PROVE f \in 1..n \/ f = n + 1
OBVIOUS

LEMMA Shifted == ASSUME NEW k \in Nat, NEW m \in Nat, NEW j \in 1..m PROVE k + j \in 1..(k + m)
OBVIOUS

-----------------------------------------------------------------------------
(* Types *)

\* The fields of the variables, each on its own.
LEMMA Typed ==
  ASSUME TypeOK, NEW q \in Queues
  PROVE  /\ push[q] \in Thread
         /\ push[q].k \in 0..MaxPackets /\ push[q].n \in 0..MaxPackets /\ push[q].reg \in 0..MaxSets
         /\ push[q].at \in {NoTime} \cup Nat /\ push[q].base \in {NoTime} \cup Nat
         /\ push[q].pc \in {"idle", "send", "emit", "call"}
         /\ push[q].capture_only \in BOOLEAN /\ push[q].active \in BOOLEAN
         /\ push[q].paced \in BOOLEAN /\ push[q].callback \in Callbacks \cup {Nobody}
         /\ wire[q] \in Seq(Nat \X (1..MaxPackets)) /\ Len(wire[q]) \in Nat
         /\ calls[q] \in Seq(Call) /\ Len(calls[q]) \in Nat
         /\ done[q] \in Seq({"OK", "SEND_ERROR"}) /\ Len(done[q]) \in Nat
         /\ Frame(q) \in Nat /\ Frame(q) = Len(done[q]) + 1
         /\ MaxPackets \in Nat /\ MaxSets \in Nat /\ sets \in 0..MaxSets /\ now \in Nat
<1>1. push[q] \in Thread /\ wire[q] \in Seq(Nat \X (1..MaxPackets)) /\ calls[q] \in Seq(Call)
      /\ done[q] \in Seq({"OK", "SEND_ERROR"}) /\ sets \in 0..MaxSets /\ now \in Nat
  BY DEF TypeOK
<1>2. Len(wire[q]) \in Nat /\ Len(calls[q]) \in Nat /\ Len(done[q]) \in Nat
  BY <1>1, LenProperties
<1>3. Frame(q) \in Nat /\ Frame(q) = Len(done[q]) + 1
  BY <1>2 DEF Frame
<1>4. MaxPackets \in Nat /\ MaxSets \in Nat
  BY CaptureBounds
<1>5. /\ push[q].k \in 0..MaxPackets /\ push[q].n \in 0..MaxPackets /\ push[q].reg \in 0..MaxSets
      /\ push[q].at \in {NoTime} \cup Nat /\ push[q].base \in {NoTime} \cup Nat
      /\ push[q].pc \in {"idle", "send", "emit", "call"}
      /\ push[q].capture_only \in BOOLEAN /\ push[q].active \in BOOLEAN
      /\ push[q].paced \in BOOLEAN /\ push[q].callback \in Callbacks \cup {Nobody}
  BY <1>1 DEF Thread
<1> QED BY <1>1, <1>2, <1>3, <1>4, <1>5

LEMMA TypedWire ==
  ASSUME TypeOK, NEW q \in Queues, NEW i \in 1..Len(wire[q])
  PROVE  wire[q][i][1] \in Nat /\ wire[q][i][2] \in 1..MaxPackets
<1>1. wire[q][i] \in Nat \X (1..MaxPackets)
  BY Typed, ElementOfSeq
<1> QED BY <1>1

LEMMA TypedCall ==
  ASSUME TypeOK, NEW q \in Queues, NEW i \in 1..Len(calls[q])
  PROVE  /\ calls[q][i].frame \in Nat /\ calls[q][i].reg \in 1..MaxSets /\ calls[q][i].reg \in Nat
         /\ calls[q][i].offset \in Nat /\ calls[q][i].at \in Nat
<1>1. calls[q][i] \in Call /\ MaxSets \in Nat
  BY Typed, ElementOfSeq
<1>2. calls[q][i].reg \in 1..MaxSets
  BY <1>1 DEF Call
<1> QED BY <1>1, <1>2 DEF Call

LEMMA TypedConfig ==
  ASSUME TypeOK, NEW q \in Queues, Registered(q)
  PROVE  /\ g_configs[q] \in Config /\ g_configs[q].callback \in Callbacks
         /\ g_configs[q].capture_only \in BOOLEAN
         /\ g_configs[q].base \in {NoTime} \cup Nat
         /\ g_configs[q].reg \in 1..MaxSets /\ g_configs[q].reg \in Nat
<1>1. g_configs[q] \in Config /\ MaxSets \in Nat
  BY Typed DEF TypeOK, Registered
<1>2. g_configs[q].reg \in 1..MaxSets
  BY <1>1 DEF Config
<1> QED BY <1>1, <1>2 DEF Config

-----------------------------------------------------------------------------
(* The other queues *)

\* What a step of another queue, of the clock or of a configuring thread does
\* not touch.
Same(r) ==
  /\ push'[r] = push[r] /\ wire'[r] = wire[r] /\ calls'[r] = calls[r] /\ done'[r] = done[r]
  /\ r \in DOMAIN g_configs' <=> r \in DOMAIN g_configs
  /\ r \in DOMAIN g_configs => g_configs'[r] = g_configs[r]

LEMMA OtherQueue ==
  ASSUME TypeOK, NEW r \in Queues, QInv(r), Same(r), scenario' = scenario,
         sets' \in Nat, sets <= sets', now' \in Nat, now <= now'
  PROVE  QInv(r)'
<1> USE DEF Same
<1>1. WireInv(r)'
  <2>1. Frame(r)' = Frame(r)
    BY DEF Frame
  <2>2. WireInv(r)
    BY DEF QInv
  <2> QED BY <2>1, <2>2 DEF WireInv
<1>2. PushInv(r)'
  <2>1. push[r].at <= now' /\ push[r].reg <= sets'
    <3>1. push[r].at \in Int /\ now \in Int /\ push[r].reg \in Nat /\ sets \in Nat
      BY Typed DEF NoTime
    <3>2. push[r].at <= now /\ push[r].reg <= sets
      BY DEF QInv, PushInv
    <3> QED BY <3>1, <3>2
  <2> QED BY <2>1 DEF QInv, PushInv
<1>3. ConfigInv(r)'
  <2>1. CASE ~Registered(r)
    BY <2>1 DEF ConfigInv, Registered
  <2>2. CASE Registered(r)
    <3>1. g_configs[r].reg <= sets' /\ g_configs[r].base <= now'
      <4>1. g_configs[r].reg \in Nat /\ g_configs[r].base \in Int
        BY <2>2, TypedConfig DEF NoTime
      <4>2. sets \in Nat /\ now \in Nat
        BY Typed
      <4>3. g_configs[r].reg <= sets /\ g_configs[r].base <= now
        BY <2>2 DEF QInv, ConfigInv
      <4> QED BY <4>1, <4>2, <4>3
    <3> QED BY <2>2, <3>1 DEF QInv, ConfigInv, Registered
  <2> QED BY <2>1, <2>2
<1>4. CallInv(r)'
  BY DEF QInv, CallInv
<1>5. CallsInv(r)'
  <2>1. ASSUME NEW i \in 1..Len(calls[r]) PROVE calls[r][i].reg <= sets'
    <3>1. calls[r][i].reg \in Nat
      BY TypedCall
    <3>2. calls[r][i].reg <= sets
      BY DEF QInv, CallsInv
    <3>3. sets \in Nat
      BY Typed
    <3> QED BY <3>1, <3>2, <3>3
  <2> QED BY <2>1 DEF QInv, CallsInv
<1>6. DropInv(r)'
  BY DEF QInv, DropInv, Registered
<1> QED BY <1>1, <1>2, <1>3, <1>4, <1>5, <1>6 DEF QInv

\* A step that changes queue q only.
LEMMA OneQueue ==
  ASSUME IInv, NEW q \in Queues, TypeOK', QInv(q)', scenario' = scenario,
         \A r \in Queues \ {q} : Same(r), sets <= sets', now <= now'
  PROVE  IInv'
<1>1. sets' \in Nat /\ now' \in Nat
  BY Typed DEF TypeOK
<1>2. ASSUME NEW r \in Queues \ {q} PROVE QInv(r)'
  BY <1>1, <1>2, OtherQueue DEF IInv
<1> QED BY <1>2 DEF IInv

LEMMA TickPreserves == ASSUME IInv, Tick, scenario' = scenario PROVE IInv'
<1>1. now' = now + 1 /\ now' \in Nat /\ now <= now' /\ sets' = sets
      /\ UNCHANGED <<g_configs, push, wire, calls, done>>
  BY DEF Tick, IInv, TypeOK
<1>2. TypeOK'
  BY <1>1 DEF IInv, TypeOK
<1>3. ASSUME NEW r \in Queues PROVE QInv(r)'
  <2>1. Same(r)
    BY <1>1 DEF Same
  <2>2. sets' \in Nat /\ sets <= sets'
    BY <1>1, Typed DEF IInv
  <2> QED BY <1>1, <2>1, <2>2, OtherQueue DEF IInv
<1> QED BY <1>2, <1>3 DEF IInv

-----------------------------------------------------------------------------
(* Configuration, at any time in a concurrent scenario *)

\* What both ways of configuring leave as it is; a configuration that is there
\* afterwards has a new registration and no base time.
LEMMA Configured ==
  ASSUME IInv, NEW q \in Queues, MayConfigure(q), scenario' = scenario,
         UNCHANGED <<now, push, wire, calls, done>>,
         sets' \in 0..MaxSets, sets <= sets', TypeOK',
         \A r \in Queues \ {q} : /\ r \in DOMAIN g_configs' <=> r \in DOMAIN g_configs
                                 /\ r \in DOMAIN g_configs => g_configs'[r] = g_configs[r],
         q \in DOMAIN g_configs' =>
           g_configs'[q].base = NoTime /\ g_configs'[q].reg = sets + 1 /\ sets' = sets + 1
  PROVE  IInv'
<1>1. TypeOK /\ QInv(q)
  BY DEF IInv
<1>2. sets \in Nat /\ sets' \in Nat /\ now' = now
      /\ push[q].reg \in Nat /\ push[q].at \in Int /\ now \in Nat
  BY <1>1, Typed DEF NoTime
<1>3. WireInv(q)'
  <2>1. Frame(q)' = Frame(q)
    BY DEF Frame
  <2>2. WireInv(q)
    BY <1>1 DEF QInv
  <2> QED BY <2>1, <2>2 DEF WireInv
<1>4. PushInv(q)'
  <2>1. push[q].reg <= sets'
    BY <1>1, <1>2 DEF QInv, PushInv
  <2> QED BY <1>1, <2>1 DEF QInv, PushInv
<1>5. ConfigInv(q)'
  <2>1. SUFFICES ASSUME q \in DOMAIN g_configs' PROVE ConfigInv(q)'
    BY DEF ConfigInv, Registered
  <2>2. g_configs'[q].base = NoTime /\ g_configs'[q].reg = sets + 1 /\ sets' = sets + 1
    BY <2>1
  <2>3. push[q].reg # sets + 1 /\ \A i \in 1..Len(calls[q]) : calls[q][i].reg # sets + 1
    <3>1. push[q].reg <= sets /\ \A i \in 1..Len(calls[q]) : calls[q][i].reg <= sets
      BY <1>1 DEF QInv, PushInv, CallsInv
    <3>2. \A i \in 1..Len(calls[q]) : calls[q][i].reg \in Nat
      BY <1>1, TypedCall
    <3> QED BY <1>2, <3>1, <3>2
  <2>4. NoTime <= now /\ (push[q].at # NoTime => NoTime <= push[q].at)
    BY <1>1, <1>2, Typed DEF NoTime
  <2> QED BY <1>2, <2>2, <2>3, <2>4 DEF ConfigInv
<1>6. CallInv(q)'
  BY <1>1 DEF QInv, CallInv
<1>7. CallsInv(q)'
  <2>1. \A i \in 1..Len(calls[q]) : calls[q][i].reg <= sets'
    BY <1>1, <1>2, TypedCall DEF QInv, CallsInv
  <2> QED BY <1>1, <2>1 DEF QInv, CallsInv
<1>8. DropInv(q)'
  BY <1>1 DEF QInv, DropInv, MayConfigure
<1>9. QInv(q)'
  BY <1>3, <1>4, <1>5, <1>6, <1>7, <1>8 DEF QInv
<1>10. \A r \in Queues \ {q} : Same(r)
  BY DEF Same
<1>11. now <= now'
  BY <1>2
<1> QED BY <1>9, <1>10, <1>11, OneQueue

\* Types of the registry after an entry has been removed or made.
LEMMA WithoutTypes ==
  ASSUME TypeOK, NEW q \in Queues
  PROVE  /\ DOMAIN Without(q) \subseteq Queues /\ q \notin DOMAIN Without(q)
         /\ \A r \in DOMAIN Without(q) : Without(q)[r] \in Config
         /\ \A r \in Queues \ {q} : /\ r \in DOMAIN Without(q) <=> r \in DOMAIN g_configs
                                    /\ r \in DOMAIN g_configs => Without(q)[r] = g_configs[r]
BY DEF TypeOK, Without

LEMMA WithTypes ==
  ASSUME TypeOK, NEW q \in Queues, NEW c \in Config
  PROVE  /\ DOMAIN With(q, c) \subseteq Queues /\ With(q, c)[q] = c
         /\ \A r \in DOMAIN With(q, c) : With(q, c)[r] \in Config
         /\ \A r \in Queues \ {q} : /\ r \in DOMAIN With(q, c) <=> r \in DOMAIN g_configs
                                    /\ r \in DOMAIN g_configs => With(q, c)[r] = g_configs[r]
BY DEF TypeOK, With

LEMMA SetCapturePreserves ==
  ASSUME IInv, NEW q \in Queues, NEW cb \in Callbacks \cup {Nobody}, NEW only \in BOOLEAN,
         SetCapture(q, cb, only), scenario' = scenario
  PROVE  IInv'
<1> DEFINE c == [callback |-> cb, capture_only |-> only, base |-> NoTime, reg |-> sets + 1]
<1>1. TypeOK /\ MayConfigure(q) /\ sets < MaxSets /\ sets' = sets + 1
      /\ UNCHANGED <<now, push, wire, calls, done>>
  BY DEF IInv, SetCapture
<1>2. sets' \in 0..MaxSets /\ sets <= sets' /\ sets + 1 \in 1..MaxSets
  BY <1>1, Typed
<1>3. CASE cb = Nobody
  <2>1. g_configs' = Without(q)
    BY <1>3 DEF SetCapture
  <2>2. TypeOK'
    BY <1>1, <1>2, <2>1, WithoutTypes DEF TypeOK
  <2> QED BY <1>1, <1>2, <2>1, <2>2, WithoutTypes, Configured
<1>4. CASE cb # Nobody
  <2>1. g_configs' = With(q, c)
    BY <1>4 DEF SetCapture
  <2>2. c \in Config
    BY <1>2, <1>4 DEF Config
  <2>3. c.base = NoTime /\ c.reg = sets + 1
    OBVIOUS
  <2> HIDE DEF c
  <2>4. TypeOK'
    BY <1>1, <1>2, <2>1, <2>2, WithTypes DEF TypeOK
  <2> QED BY <1>1, <1>2, <2>1, <2>2, <2>3, <2>4, WithTypes, Configured
<1> QED BY <1>3, <1>4

LEMMA ClearCapturePreserves ==
  ASSUME IInv, NEW q \in Queues, ClearCapture(q), scenario' = scenario
  PROVE  IInv'
<1>1. TypeOK /\ MayConfigure(q) /\ g_configs' = Without(q)
      /\ UNCHANGED <<sets, now, push, wire, calls, done>>
  BY DEF IInv, ClearCapture
<1>2. sets' \in 0..MaxSets /\ sets <= sets'
  BY <1>1, Typed
<1>3. TypeOK'
  BY <1>1, WithoutTypes DEF TypeOK
<1> QED BY <1>1, <1>2, <1>3, WithoutTypes, Configured

-----------------------------------------------------------------------------
(* The pushing thread: how each step changes its state *)

\* A step of queue q that leaves the clock and the other queues alone.
LEMMA ThreadStep ==
  ASSUME IInv, NEW q \in Queues, NEW t \in Thread, push' = [push EXCEPT ![q] = t],
         NEW w \in Seq(Nat \X (1..MaxPackets)), wire' = [wire EXCEPT ![q] = w],
         NEW c \in Seq(Call), calls' = [calls EXCEPT ![q] = c],
         NEW d \in Seq({"OK", "SEND_ERROR"}), done' = [done EXCEPT ![q] = d],
         sets' = sets, now' = now, scenario' = scenario,
         DOMAIN g_configs' = DOMAIN g_configs,
         \A r \in DOMAIN g_configs : r # q => g_configs'[r] = g_configs[r],
         q \in DOMAIN g_configs => g_configs'[q] \in Config,
         QInv(q)'
  PROVE  IInv'
<1>1. TypeOK
  BY DEF IInv
<1>2. /\ push' \in [Queues -> Thread] /\ wire' \in [Queues -> Seq(Nat \X (1..MaxPackets))]
      /\ calls' \in [Queues -> Seq(Call)] /\ done' \in [Queues -> Seq({"OK", "SEND_ERROR"})]
  BY <1>1 DEF TypeOK
<1>3. \A r \in DOMAIN g_configs' : g_configs'[r] \in Config
  BY <1>1 DEF TypeOK
<1>4. TypeOK'
  BY <1>1, <1>2, <1>3 DEF TypeOK
<1>5. \A r \in Queues \ {q} : Same(r)
  BY <1>1 DEF TypeOK, Same
<1>6. sets <= sets' /\ now <= now'
  BY <1>1, Typed
<1> QED BY <1>4, <1>5, <1>6, OneQueue

\* A variable that does not change, seen as one that changes at q.
LEMMA NoChange ==
  ASSUME TypeOK, NEW q \in Queues
  PROVE  /\ wire = [wire EXCEPT ![q] = wire[q]]
         /\ calls = [calls EXCEPT ![q] = calls[q]]
         /\ done = [done EXCEPT ![q] = done[q]]
BY DEF TypeOK

LEMMA IdleThread ==
  /\ Idle \in Thread
  /\ Idle.pc = "idle" /\ Idle.k = 0 /\ Idle.at = NoTime /\ Idle.reg = 0
  /\ ~Idle.capture_only /\ ~Idle.active
BY CaptureBounds DEF Idle, Thread

LEMMA PrepareThread ==
  ASSUME TypeOK, NEW q \in Queues, NEW n \in 1..MaxPackets, NEW paced \in BOOLEAN,
         PrepareFrame(q, n, paced)
  PROVE  \E t \in Thread :
           /\ push' = [push EXCEPT ![q] = t]
           /\ t.pc = "send" /\ t.n = n /\ t.k = 0 /\ t.at = NoTime /\ t.reg = 0
           /\ t.active => Registered(q)
           /\ t.capture_only => t.active
<1> DEFINE on == Registered(q)
           only == Registered(q) /\ g_configs[q].capture_only
           t == [Idle EXCEPT !.pc = "send", !.n = n, !.paced = paced, !.active = on,
                             !.capture_only = only]
<1>1. push' = [push EXCEPT ![q] = t]
  BY DEF PrepareFrame
<1>2. on \in BOOLEAN /\ only \in BOOLEAN /\ (only => on) /\ (on => Registered(q))
  BY TypedConfig DEF Registered
<1>3. MaxPackets \in Nat /\ MaxSets \in Nat
  BY CaptureBounds
<1> HIDE DEF on, only
<1>4. t \in Thread
  <2>1. n \in 0..MaxPackets /\ Idle \in Thread
    BY <1>3, IdleThread
  <2>2. [Idle EXCEPT !.pc = "send", !.n = n, !.paced = paced] \in Thread
    BY <2>1 DEF Thread
  <2>3. \A u \in Thread : \A a, b \in BOOLEAN :
          [u EXCEPT !.active = a, !.capture_only = b] \in Thread
    BY DEF Thread
  <2> QED BY <1>2, <2>2, <2>3
<1>5. t.pc = "send" /\ t.n = n /\ t.k = Idle.k /\ t.at = Idle.at /\ t.reg = Idle.reg
  BY IdleThread DEF Thread
<1>6. t.pc = "send" /\ t.n = n /\ t.k = 0 /\ t.at = NoTime /\ t.reg = 0
  BY <1>5, IdleThread
<1>7. t.active = on /\ t.capture_only = only
  BY IdleThread DEF Thread
<1> HIDE DEF t
<1>8. (t.active => Registered(q)) /\ (t.capture_only => t.active)
  BY <1>2, <1>7, Zenon
<1> QED BY <1>1, <1>4, <1>6, <1>8

LEMMA PacedThread ==
  ASSUME TypeOK, NEW q \in Queues, PushInv(q), SendPaced(q)
  PROVE  \E t \in Thread :
           /\ push' = [push EXCEPT ![q] = t]
           /\ t.pc = (IF push[q].k + 1 = push[q].n THEN "emit" ELSE "send")
           /\ t.n = push[q].n /\ t.k = push[q].k + 1 /\ t.reg = push[q].reg
           /\ t.at = (IF push[q].active /\ push[q].at = NoTime THEN now ELSE push[q].at)
           /\ t.active = push[q].active /\ t.capture_only = push[q].capture_only
           /\ t.paced = push[q].paced
<1> DEFINE p == push[q]
           at == IF p.active /\ p.at = NoTime THEN now ELSE p.at
           pc == IF p.k + 1 = p.n THEN "emit" ELSE "send"
           t == [p EXCEPT !.k = p.k + 1, !.at = at, !.pc = pc]
<1>1. p \in Thread /\ p.k < p.n /\ p.k \in 0..MaxPackets
      /\ p.n \in 0..MaxPackets /\ MaxPackets \in Nat /\ now \in Nat
  BY CaptureBounds DEF PushInv, Thread, SendPaced, TypeOK
<1>2. p.k + 1 \in 0..MaxPackets /\ at \in {NoTime} \cup Nat /\ pc \in {"send", "emit"}
  BY <1>1 DEF Thread
<1>3. push' = [push EXCEPT ![q] = t]
  BY DEF SendPaced
<1> HIDE DEF at, pc
<1>4. t \in Thread
  BY <1>1, <1>2 DEF Thread
<1>5. /\ t.pc = pc /\ t.n = p.n /\ t.k = p.k + 1 /\ t.reg = p.reg /\ t.at = at
      /\ t.active = p.active /\ t.capture_only = p.capture_only /\ t.paced = p.paced
  BY <1>1 DEF Thread
<1> HIDE DEF t, p
<1> QED BY <1>3, <1>4, <1>5 DEF at, pc, p

LEMMA AllThread ==
  ASSUME TypeOK, NEW q \in Queues, SendAll(q)
  PROVE  \E t \in Thread :
           /\ push' = [push EXCEPT ![q] = t]
           /\ t.pc = "emit" /\ t.n = push[q].n /\ t.k = push[q].n /\ t.reg = push[q].reg
           /\ t.at = (IF push[q].active THEN now ELSE push[q].at)
           /\ t.active = push[q].active /\ t.capture_only = push[q].capture_only
<1> DEFINE p == push[q]
           at == IF p.active THEN now ELSE p.at
           t == [p EXCEPT !.k = p.n, !.at = at, !.pc = "emit"]
<1>1. p \in Thread /\ p.n \in 0..MaxPackets /\ now \in Nat
  BY DEF Thread, TypeOK
<1>2. at \in {NoTime} \cup Nat
  BY <1>1 DEF Thread
<1>3. push' = [push EXCEPT ![q] = t]
  BY DEF SendAll
<1> HIDE DEF at
<1>4. t \in Thread
  BY <1>1, <1>2 DEF Thread
<1>5. /\ t.pc = "emit" /\ t.n = p.n /\ t.k = p.n /\ t.reg = p.reg /\ t.at = at
      /\ t.active = p.active /\ t.capture_only = p.capture_only
  BY <1>1 DEF Thread
<1> HIDE DEF t, p
<1> QED BY <1>3, <1>4, <1>5 DEF at, p

LEMMA LookupThread ==
  ASSUME TypeOK, NEW q \in Queues, EmitLookup(q)
  PROVE  \E t \in Thread :
           /\ push' = [push EXCEPT ![q] = t]
           /\ t.pc = "call" /\ t.n = push[q].n /\ t.k = push[q].k /\ t.at = push[q].at
           /\ t.active = push[q].active /\ t.capture_only = push[q].capture_only
           /\ t.callback = g_configs[q].callback /\ t.reg = g_configs[q].reg
           /\ t.base = (IF g_configs[q].base = NoTime THEN push[q].at ELSE g_configs[q].base)
           /\ DOMAIN g_configs' = DOMAIN g_configs
           /\ \A r \in DOMAIN g_configs : r # q => g_configs'[r] = g_configs[r]
           /\ g_configs'[q] \in Config /\ g_configs'[q].base = t.base
           /\ g_configs'[q].reg = g_configs[q].reg
<1> DEFINE p == push[q]
           g == g_configs[q]
           base == IF g.base = NoTime THEN p.at ELSE g.base
           h == [g EXCEPT !.base = base]
           t == [p EXCEPT !.pc = "call", !.callback = g.callback, !.reg = g.reg, !.base = base]
<1>1. p \in Thread /\ g \in Config /\ q \in DOMAIN g_configs /\ MaxSets \in Nat
  BY TypedConfig, CaptureBounds DEF EmitLookup, TypeOK, Registered
<1>2. base \in {NoTime} \cup Nat
  BY <1>1 DEF Thread, Config
<1>3. g_configs' = [g_configs EXCEPT ![q] = h]
  BY <1>1 DEF EmitLookup
<1>4. h \in Config /\ h.base = base /\ h.reg = g.reg
  <2> HIDE DEF base
  <2> QED BY <1>1, <1>2 DEF Config
<1>5. DOMAIN g_configs' = DOMAIN g_configs /\ g_configs'[q] = h
      /\ \A r \in DOMAIN g_configs : r # q => g_configs'[r] = g_configs[r]
  <2> HIDE DEF h
  <2> QED BY <1>1, <1>3
<1>6. push' = [push EXCEPT ![q] = t]
  <2>1. g_configs'[q].base = base
    BY <1>4, <1>5
  <2>2. push' = [push EXCEPT ![q].pc = "call", ![q].callback = g.callback, ![q].reg = g.reg,
                             ![q].base = g_configs'[q].base]
    BY DEF EmitLookup
  <2> HIDE DEF base
  <2> QED BY <2>1, <2>2
<1>7. t \in Thread
  <2>1. g.callback \in Callbacks /\ g.reg \in 0..MaxSets
    BY <1>1 DEF Config
  <2> HIDE DEF base, g
  <2> QED BY <1>1, <1>2, <2>1 DEF Thread
<1>8. /\ t.pc = "call" /\ t.n = p.n /\ t.k = p.k /\ t.at = p.at /\ t.active = p.active
      /\ t.capture_only = p.capture_only
      /\ t.callback = g.callback /\ t.reg = g.reg /\ t.base = base
  <2> HIDE DEF base, g
  <2> QED BY <1>1 DEF Thread
<1> HIDE DEF t, h, base
<1> QED BY <1>4, <1>5, <1>6, <1>7, <1>8 DEF base

-----------------------------------------------------------------------------
(* Packets on the wire *)

\* m more packets of the frame in push.
LEMMA Extended ==
  ASSUME TypeOK, NEW q \in Queues, NEW m \in Nat, push[q].k + m <= MaxPackets
  PROVE  LET w == wire[q] \o Numbers(q, m)
         IN  /\ w \in Seq(Nat \X (1..MaxPackets)) /\ Len(w) = Len(wire[q]) + m
             /\ \A i \in 1..Len(wire[q]) : w[i] = wire[q][i]
             /\ \A i \in 1..Len(w) : i > Len(wire[q]) =>
                  /\ i - Len(wire[q]) \in 1..m
                  /\ w[i][1] = Frame(q) /\ w[i][2] = push[q].k + (i - Len(wire[q]))
<1> DEFINE new == Numbers(q, m)
<1>1. /\ push[q].k \in Nat /\ MaxPackets \in Nat /\ Frame(q) \in Nat /\ Len(wire[q]) \in Nat
      /\ wire[q] \in Seq(Nat \X (1..MaxPackets))
  BY Typed
<1>2. new = [j \in 1..m |-> <<Frame(q), push[q].k + j>>]
  BY DEF Numbers
<1>3. ASSUME NEW j \in 1..m PROVE <<Frame(q), push[q].k + j>> \in Nat \X (1..MaxPackets)
  BY <1>1
<1>4. new \in Seq(Nat \X (1..MaxPackets)) /\ Len(new) = m
  BY <1>2, <1>3
<1>5. \A j \in 1..m : new[j][1] = Frame(q) /\ new[j][2] = push[q].k + j
  BY <1>2
<1> HIDE DEF new
<1>6. /\ wire[q] \o new \in Seq(Nat \X (1..MaxPackets))
      /\ Len(wire[q] \o new) = Len(wire[q]) + m
      /\ \A i \in 1..(Len(wire[q]) + m) :
           (wire[q] \o new)[i] = IF i <= Len(wire[q]) THEN wire[q][i] ELSE new[i - Len(wire[q])]
  BY <1>1, <1>4, ConcatProperties
<1>7. \A i \in 1..Len(wire[q]) : (wire[q] \o new)[i] = wire[q][i]
  BY <1>1, <1>6
<1>8. ASSUME NEW i \in 1..Len(wire[q] \o new), i > Len(wire[q])
      PROVE  /\ i - Len(wire[q]) \in 1..m
             /\ (wire[q] \o new)[i][1] = Frame(q)
             /\ (wire[q] \o new)[i][2] = push[q].k + (i - Len(wire[q]))
  <2>1. i - Len(wire[q]) \in 1..m /\ i \in 1..(Len(wire[q]) + m) /\ ~(i <= Len(wire[q]))
    BY <1>1, <1>6, <1>8
  <2>2. (wire[q] \o new)[i] = new[i - Len(wire[q])]
    BY <1>6, <2>1
  <2> QED BY <1>5, <2>1, <2>2
<1> QED BY <1>6, <1>7, <1>8 DEF new

\* Packets leave: the first k of the frame become the first k + m.
LEMMA WireSent ==
  ASSUME TypeOK, NEW q \in Queues, WireInv(q), NEW m \in Nat, push[q].k + m <= MaxPackets,
         push[q].pc \in Busy, ~push[q].capture_only, done' = done,
         wire'[q] = wire[q] \o Numbers(q, m), push'[q].pc \in Busy,
         ~push'[q].capture_only, push'[q].k = push[q].k + m
  PROVE  WireInv(q)'
<1> DEFINE w == wire[q] \o Numbers(q, m)
           old == Len(wire[q])
<1>1. /\ Len(w) = old + m
      /\ \A i \in 1..old : w[i] = wire[q][i]
      /\ \A i \in 1..Len(w) : i > old =>
           /\ i - old \in 1..m
           /\ w[i][1] = Frame(q) /\ w[i][2] = push[q].k + (i - old)
  BY Extended
<1>2. Frame(q)' = Frame(q) /\ wire'[q] = w
  BY DEF Frame
<1>3. push[q].k \in Nat /\ old \in Nat /\ Frame(q) \in Nat
  BY Typed
<1>4. /\ \A i \in 1..old : wire[q][i][1] \in 1..Frame(q)
      /\ \A i \in 1..old : wire[q][i][1] = Frame(q) => wire[q][i][2] \in 1..push[q].k
      /\ \A j \in 1..push[q].k : \E i \in 1..old : wire[q][i][1] = Frame(q) /\ wire[q][i][2] = j
  BY DEF WireInv
<1>5. Frame(q) \in 1..Frame(q)
  <2>1. Frame(q) = Len(done[q]) + 1 /\ Len(done[q]) \in Nat
    BY Typed
  <2> QED BY <2>1
<1> HIDE DEF w, old
<1>6. ASSUME NEW i \in 1..Len(w)
      PROVE  /\ w[i][1] \in 1..Frame(q)
             /\ w[i][1] = Frame(q) => w[i][2] \in 1..(push[q].k + m)
  <2>1. CASE i \in 1..old
    <3>1. w[i] = wire[q][i] /\ wire[q][i][1] \in 1..Frame(q)
          /\ (wire[q][i][1] = Frame(q) => wire[q][i][2] \in 1..push[q].k)
      BY <1>1, <1>4, <2>1
    <3>2. 1..push[q].k \subseteq 1..(push[q].k + m)
      BY <1>3
    <3> QED BY <3>1, <3>2
  <2>2. CASE i > old
    <3>1. i - old \in 1..m /\ w[i][1] = Frame(q) /\ w[i][2] = push[q].k + (i - old)
      BY <1>1, <2>2
    <3>2. push[q].k + (i - old) \in 1..(push[q].k + m)
      BY <1>3, <3>1, Shifted
    <3> QED BY <1>5, <3>1, <3>2
  <2> QED BY <1>1, <1>3, <2>1, <2>2
<1>7. ASSUME NEW j \in 1..(push[q].k + m)
      PROVE  \E i \in 1..Len(w) : w[i][1] = Frame(q) /\ w[i][2] = j
  <2>1. CASE j \in 1..push[q].k
    <3>1. PICK i \in 1..old : wire[q][i][1] = Frame(q) /\ wire[q][i][2] = j
      BY <1>4, <2>1
    <3>2. i \in 1..Len(w) /\ w[i] = wire[q][i]
      BY <1>1, <1>3
    <3> QED BY <3>1, <3>2
  <2>2. CASE j > push[q].k
    <3> DEFINE i == old + (j - push[q].k)
    <3>1. i \in 1..Len(w) /\ i > old /\ push[q].k + (i - old) = j
      BY <1>1, <1>3, <2>2
    <3>2. w[i][1] = Frame(q) /\ w[i][2] = j
      <4> HIDE DEF i
      <4> QED BY <1>1, <3>1
    <3> QED BY <3>1, <3>2
  <2> QED BY <1>3, <2>1, <2>2
<1> QED BY <1>2, <1>6, <1>7 DEF WireInv, Busy

\* Nothing leaves.
LEMMA WireKept ==
  ASSUME TypeOK, NEW q \in Queues, WireInv(q), push[q].pc \in Busy,
         wire'[q] = wire[q], done' = done, push'[q].pc \in Busy,
         push'[q].capture_only = push[q].capture_only,
         push'[q].k = push[q].k \/ push[q].capture_only
  PROVE  WireInv(q)'
<1>1. Frame(q)' = Frame(q)
  BY DEF Frame
<1>2. push'[q].pc # "idle" /\ push[q].pc # "idle"
  BY DEF Busy
<1>3. CASE push[q].capture_only
  BY <1>1, <1>2, <1>3 DEF WireInv
<1>4. CASE ~push[q].capture_only
  BY <1>1, <1>2, <1>4 DEF WireInv
<1> QED BY <1>3, <1>4

\* A push returns: whatever is on the wire belongs to it or to earlier ones.
LEMMA WireReturned ==
  ASSUME TypeOK, NEW q \in Queues, NEW ret \in {"OK", "SEND_ERROR"}, Return(q, ret),
         now' = now, sets' = sets,
         \A i \in 1..Len(wire'[q]) : wire'[q][i][1] \in 1..Frame(q)
  PROVE  /\ WireInv(q)' /\ PushInv(q)' /\ CallInv(q)'
         /\ push' = [push EXCEPT ![q] = Idle] /\ push'[q] = Idle
         /\ Append(done[q], ret) \in Seq({"OK", "SEND_ERROR"})
         /\ done' = [done EXCEPT ![q] = Append(done[q], ret)]
         /\ Len(done'[q]) = Frame(q) /\ done'[q][Frame(q)] = ret
         /\ \A f \in 1..Len(done[q]) : done'[q][f] = done[q][f]
<1>1. push' = [push EXCEPT ![q] = Idle] /\ done' = [done EXCEPT ![q] = Append(done[q], ret)]
  BY DEF Return
<1>2. push'[q] = Idle /\ done'[q] = Append(done[q], ret)
  BY <1>1 DEF TypeOK
<1>3. done[q] \in Seq({"OK", "SEND_ERROR"}) /\ Frame(q) = Len(done[q]) + 1 /\ Len(done[q]) \in Nat
  BY Typed
<1>4. /\ Append(done[q], ret) \in Seq({"OK", "SEND_ERROR"})
      /\ Len(Append(done[q], ret)) = Len(done[q]) + 1
      /\ Append(done[q], ret)[Len(done[q]) + 1] = ret
      /\ \A f \in 1..Len(done[q]) : Append(done[q], ret)[f] = done[q][f]
  BY <1>3, AppendProperties
<1>5. Frame(q)' = Frame(q) + 1 /\ Frame(q) \in Nat
  BY <1>2, <1>3, <1>4 DEF Frame
<1>6. WireInv(q)'
  <2>1. \A i \in 1..Len(wire'[q]) :
          wire'[q][i][1] \in 1..(Frame(q) + 1) /\ wire'[q][i][1] # Frame(q) + 1
    BY <1>5
  <2>2. push'[q].pc = "idle"
    BY <1>2, IdleThread
  <2> QED BY <1>5, <2>1, <2>2 DEF WireInv, Busy
<1>7. PushInv(q)' /\ CallInv(q)'
  <2>1. NoTime <= now' /\ 0 <= sets'
    BY Typed DEF NoTime
  <2> QED BY <1>2, <2>1, IdleThread DEF PushInv, CallInv
<1> QED BY <1>1, <1>2, <1>3, <1>4, <1>6, <1>7

-----------------------------------------------------------------------------
(* The actions of flush_queue *)

LEMMA PreparePreserves ==
  ASSUME IInv, NEW q \in Queues, NEW n \in 1..MaxPackets, NEW paced \in BOOLEAN,
         PrepareFrame(q, n, paced), scenario' = scenario
  PROVE  IInv'
<1>1. TypeOK /\ QInv(q) /\ push[q].pc = "idle"
      /\ UNCHANGED <<g_configs, sets, now, wire, calls, done>>
  BY DEF IInv, PrepareFrame
<1>2. PICK t \in Thread :
        /\ push' = [push EXCEPT ![q] = t]
        /\ t.pc = "send" /\ t.n = n /\ t.k = 0 /\ t.at = NoTime /\ t.reg = 0
        /\ t.active => Registered(q)
        /\ t.capture_only => t.active
  BY <1>1, PrepareThread
<1>3. push'[q] = t
  BY <1>1, <1>2 DEF TypeOK
<1>4. WireInv(q)'
  <2>1. Frame(q)' = Frame(q)
    BY <1>1 DEF Frame
  <2>2. \A i \in 1..Len(wire[q]) : wire[q][i][1] \in 1..Frame(q) /\ wire[q][i][1] # Frame(q)
    BY <1>1 DEF QInv, WireInv
  <2>3. push'[q].k = 0 /\ 1..0 = {}
    BY <1>2, <1>3
  <2> QED BY <1>1, <2>1, <2>2, <2>3 DEF WireInv
<1>5. PushInv(q)'
  <2>1. NoTime <= now /\ 0 <= sets /\ 0 < n
    BY <1>1, Typed DEF NoTime
  <2> QED BY <1>1, <1>2, <1>3, <2>1 DEF PushInv
<1>6. ConfigInv(q)'
  BY <1>1, <1>2, <1>3 DEF QInv, ConfigInv, Registered
<1>7. CallInv(q)' /\ CallsInv(q)'
  BY <1>1, <1>2, <1>3 DEF QInv, CallInv, CallsInv
<1>8. DropInv(q)'
  BY <1>1, <1>2, <1>3 DEF QInv, DropInv, Registered
<1>9. QInv(q)'
  BY <1>4, <1>5, <1>6, <1>7, <1>8 DEF QInv
<1>10. \A r \in DOMAIN g_configs : g_configs[r] \in Config
  BY <1>1 DEF TypeOK
<1>11. wire[q] \in Seq(Nat \X (1..MaxPackets)) /\ calls[q] \in Seq(Call)
       /\ done[q] \in Seq({"OK", "SEND_ERROR"})
  BY <1>1, Typed
<1> QED BY <1>1, <1>2, <1>9, <1>10, <1>11, NoChange, ThreadStep

\* What both ways of sending have in common.
LEMMA SendPreserves ==
  ASSUME IInv, NEW q \in Queues, NEW m \in Nat, NEW t \in Thread,
         push[q].pc = "send", push' = [push EXCEPT ![q] = t],
         UNCHANGED <<g_configs, sets, now, calls, done>>, scenario' = scenario,
         wire' = IF push[q].capture_only THEN wire
                 ELSE [wire EXCEPT ![q] = @ \o Numbers(q, m)],
         t.pc \in {"send", "emit"}, t.n = push[q].n, t.k = push[q].k + m,
         t.pc = "send" <=> t.k < t.n, t.k <= t.n, t.reg = push[q].reg,
         t.active = push[q].active, t.capture_only = push[q].capture_only,
         t.pc = "send" /\ ~t.paced => t.k = 0,
         t.active => t.at \in {now, push[q].at} /\ t.at # NoTime,
         ~t.active => t.at = push[q].at,
         push[q].at # NoTime => t.at \in {push[q].at, now}
  PROVE  IInv'
<1>1. TypeOK /\ QInv(q) /\ push'[q] = t /\ push[q].pc \in Busy /\ t.pc \in Busy
  BY DEF IInv, TypeOK, Busy
<1>2. /\ push[q].k \in Nat /\ push[q].n \in 0..MaxPackets /\ MaxPackets \in Nat
      /\ push[q].at \in {NoTime} \cup Nat /\ now \in Nat
  BY <1>1, Typed
<1>3. push[q].k + m <= MaxPackets
  BY <1>1, <1>2
<1>4. WireInv(q)'
  <2>1. WireInv(q) /\ push'[q].pc \in Busy /\ push'[q].capture_only = push[q].capture_only
    BY <1>1 DEF QInv
  <2>2. CASE push[q].capture_only
    <3>1. wire'[q] = wire[q]
      BY <2>2
    <3> QED BY <1>1, <2>1, <2>2, <3>1, WireKept
  <2>3. CASE ~push[q].capture_only
    <3>1. wire'[q] = wire[q] \o Numbers(q, m) /\ push'[q].k = push[q].k + m
      BY <1>1, <2>3 DEF TypeOK
    <3>2. ~push'[q].capture_only
      BY <2>1, <2>3
    <3> QED BY <1>1, <1>3, <2>1, <2>3, <3>1, <3>2, WireSent
  <2> QED BY <2>2, <2>3
<1>5. PushInv(q)'
  <2>1. PushInv(q)
    BY <1>1 DEF QInv
  <2>2. t.at <= now
    BY <1>2, <2>1 DEF PushInv, NoTime
  <2>3. t.pc = "emit" => t.k = t.n /\ t.n > 0
    BY <1>2, <2>1 DEF PushInv
  <2>4. t.capture_only => t.active
    BY <2>1 DEF PushInv
  <2>5. t.pc # "call" /\ t.reg <= sets
    BY <2>1 DEF PushInv
  <2> QED BY <1>1, <2>2, <2>3, <2>4, <2>5 DEF PushInv
<1>6. ConfigInv(q)'
  <2>1. SUFFICES ASSUME Registered(q) PROVE ConfigInv(q)'
    BY DEF ConfigInv, Registered
  <2>2. ConfigInv(q) /\ g_configs[q].base <= now /\ g_configs[q].base \in {NoTime} \cup Nat
    BY <1>1, <2>1, TypedConfig DEF QInv, ConfigInv
  <2>3. t.at # NoTime => g_configs[q].base <= t.at
    <3>1. push[q].at # NoTime => g_configs[q].base <= push[q].at
      BY <1>1, <2>1 DEF QInv, ConfigInv
    <3> QED BY <2>2, <3>1
  <2>4. t.pc # "call" /\ push[q].pc # "call"
    OBVIOUS
  <2> QED BY <1>1, <2>1, <2>2, <2>3, <2>4 DEF ConfigInv, Registered
<1>7. CallInv(q)' /\ CallsInv(q)'
  BY <1>1 DEF QInv, CallInv, CallsInv
<1>8. DropInv(q)'
  <2>1. DropInv(q)
    BY <1>1 DEF QInv
  <2>2. \A f : (\E i \in 1..Len(wire[q]) : wire[q][i][1] = f)
               => \E i \in 1..Len(wire'[q]) : wire'[q][i][1] = f
    <3>1. CASE push[q].capture_only
      BY <3>1
    <3>2. CASE ~push[q].capture_only
      <4>1. wire'[q] = wire[q] \o Numbers(q, m)
        BY <1>1, <3>2 DEF TypeOK
      <4>2. Len(wire'[q]) = Len(wire[q]) + m /\ Len(wire[q]) \in Nat
            /\ \A i \in 1..Len(wire[q]) : wire'[q][i] = wire[q][i]
        <5>1. Len(wire[q]) \in Nat
          BY <1>1, Typed
        <5>2. Len(wire[q] \o Numbers(q, m)) = Len(wire[q]) + m
              /\ \A i \in 1..Len(wire[q]) : (wire[q] \o Numbers(q, m))[i] = wire[q][i]
          BY <1>1, <1>3, Extended
        <5> QED BY <4>1, <5>1, <5>2
      <4> QED BY <4>2
    <3> QED BY <3>1, <3>2
  <2> QED BY <1>1, <2>1, <2>2 DEF DropInv, Registered
<1>9. QInv(q)'
  BY <1>4, <1>5, <1>6, <1>7, <1>8 DEF QInv
<1>10. \A r \in DOMAIN g_configs : g_configs[r] \in Config
  BY <1>1 DEF TypeOK
<1>11. wire[q] \in Seq(Nat \X (1..MaxPackets)) /\ calls[q] \in Seq(Call)
       /\ done[q] \in Seq({"OK", "SEND_ERROR"})
       /\ wire[q] \o Numbers(q, m) \in Seq(Nat \X (1..MaxPackets))
  BY <1>1, <1>3, Typed, Extended
<1>12. PICK w \in Seq(Nat \X (1..MaxPackets)) : wire' = [wire EXCEPT ![q] = w]
  <2>1. CASE push[q].capture_only
    BY <1>1, <1>11, <2>1, NoChange
  <2>2. CASE ~push[q].capture_only
    BY <1>11, <2>2
  <2> QED BY <2>1, <2>2
<1> QED BY <1>1, <1>9, <1>10, <1>11, <1>12, NoChange, ThreadStep

LEMMA PacedPreserves ==
  ASSUME IInv, NEW q \in Queues, SendPaced(q), scenario' = scenario
  PROVE  IInv'
<1>1. TypeOK /\ PushInv(q) /\ push[q].pc = "send"
      /\ UNCHANGED <<g_configs, sets, now, calls, done>>
      /\ wire' = IF push[q].capture_only THEN wire ELSE [wire EXCEPT ![q] = @ \o Numbers(q, 1)]
  BY DEF IInv, QInv, SendPaced
<1>2. PICK t \in Thread :
        /\ push' = [push EXCEPT ![q] = t]
        /\ t.pc = (IF push[q].k + 1 = push[q].n THEN "emit" ELSE "send")
        /\ t.n = push[q].n /\ t.k = push[q].k + 1 /\ t.reg = push[q].reg
        /\ t.at = (IF push[q].active /\ push[q].at = NoTime THEN now ELSE push[q].at)
        /\ t.active = push[q].active /\ t.capture_only = push[q].capture_only
        /\ t.paced = push[q].paced
  BY <1>1, PacedThread
<1>3. push[q].k \in Nat /\ push[q].n \in Nat /\ push[q].k < push[q].n /\ now \in Nat
      /\ push[q].active \in BOOLEAN
  <2>1. push[q].k \in 0..MaxPackets /\ push[q].n \in 0..MaxPackets /\ MaxPackets \in Nat
        /\ now \in Nat /\ push[q].active \in BOOLEAN
    BY <1>1, Typed
  <2> QED BY <1>1, <2>1 DEF PushInv
<1>4. (t.pc = "send" <=> t.k < t.n) /\ t.k <= t.n /\ t.pc \in {"send", "emit"}
  BY <1>2, <1>3
<1>5. t.paced
  BY <1>2 DEF SendPaced
<1>6. /\ t.active => t.at \in {now, push[q].at} /\ t.at # NoTime
      /\ ~t.active => t.at = push[q].at
      /\ push[q].at # NoTime => t.at \in {push[q].at, now}
  BY <1>2, <1>3 DEF NoTime
<1> QED BY <1>1, <1>2, <1>4, <1>5, <1>6, SendPreserves

LEMMA AllPreserves ==
  ASSUME IInv, NEW q \in Queues, SendAll(q), scenario' = scenario
  PROVE  IInv'
<1>1. TypeOK /\ PushInv(q) /\ push[q].pc = "send" /\ ~push[q].paced
      /\ UNCHANGED <<g_configs, sets, now, calls, done>>
      /\ wire' = IF push[q].capture_only THEN wire
                 ELSE [wire EXCEPT ![q] = @ \o Numbers(q, push[q].n)]
  BY DEF IInv, QInv, SendAll
<1>2. PICK t \in Thread :
        /\ push' = [push EXCEPT ![q] = t]
        /\ t.pc = "emit" /\ t.n = push[q].n /\ t.k = push[q].n /\ t.reg = push[q].reg
        /\ t.at = (IF push[q].active THEN now ELSE push[q].at)
        /\ t.active = push[q].active /\ t.capture_only = push[q].capture_only
  BY <1>1, AllThread
<1>3. push[q].k = 0 /\ push[q].n \in Nat /\ now \in Nat
  <2>1. push[q].n \in 0..MaxPackets /\ MaxPackets \in Nat /\ now \in Nat
    BY <1>1, Typed
  <2> QED BY <1>1, <2>1 DEF PushInv
<1>4. t.k = push[q].k + push[q].n /\ ~(t.k < t.n) /\ t.k <= t.n
  BY <1>2, <1>3
<1>5. /\ t.active => t.at \in {now, push[q].at} /\ t.at # NoTime
      /\ ~t.active => t.at = push[q].at
      /\ push[q].at # NoTime => t.at \in {push[q].at, now}
  BY <1>2, <1>3 DEF NoTime
<1> QED BY <1>1, <1>2, <1>3, <1>4, <1>5, SendPreserves

\* What the three ways for a push to return have in common.
LEMMA ReturnPreserves ==
  ASSUME IInv, NEW q \in Queues, NEW ret \in {"OK", "SEND_ERROR"}, Return(q, ret),
         UNCHANGED <<g_configs, sets, now>>, scenario' = scenario,
         NEW w \in Seq(Nat \X (1..MaxPackets)), wire' = [wire EXCEPT ![q] = w],
         NEW c \in Seq(Call), calls' = [calls EXCEPT ![q] = c],
         Len(wire[q]) <= Len(w), Len(calls[q]) <= Len(c),
         \A i \in 1..Len(wire[q]) : w[i] = wire[q][i],
         \A i \in 1..Len(calls[q]) : c[i] = calls[q][i],
         \A i \in 1..Len(w) : w[i][1] \in 1..Frame(q),
         ~scenario.concurrent /\ ret = "OK" =>
           \/ \E i \in 1..Len(w) : w[i][1] = Frame(q)
           \/ \E i \in 1..Len(c) : c[i].frame = Frame(q),
         ConfigInv(q)', CallsInv(q)'
  PROVE  IInv'
<1>1. TypeOK /\ QInv(q)
  BY DEF IInv
<1>2. wire'[q] = w /\ calls'[q] = c
  BY <1>1 DEF TypeOK
<1>3. /\ WireInv(q)' /\ PushInv(q)' /\ CallInv(q)'
      /\ push' = [push EXCEPT ![q] = Idle] /\ push'[q] = Idle
      /\ Append(done[q], ret) \in Seq({"OK", "SEND_ERROR"})
      /\ done' = [done EXCEPT ![q] = Append(done[q], ret)]
      /\ Len(done'[q]) = Frame(q) /\ done'[q][Frame(q)] = ret
      /\ \A f \in 1..Len(done[q]) : done'[q][f] = done[q][f]
  BY <1>1, <1>2, WireReturned
<1>4. Len(done[q]) \in Nat /\ Frame(q) = Len(done[q]) + 1 /\ Len(wire[q]) \in Nat
      /\ Len(calls[q]) \in Nat /\ Len(w) \in Nat /\ Len(c) \in Nat
  BY <1>1, Typed, LenProperties
<1>5. DropInv(q)'
  <2>1. SUFFICES ASSUME ~scenario.concurrent PROVE DropInv(q)'
    BY DEF DropInv
  <2>2. \A f \in 1..Len(done[q]) : done[q][f] = "OK" =>
          \/ \E i \in 1..Len(wire[q]) : wire[q][i][1] = f
          \/ \E i \in 1..Len(calls[q]) : calls[q][i].frame = f
    BY <1>1, <2>1 DEF QInv, DropInv
  <2>3. ASSUME NEW f \in 1..Frame(q), done'[q][f] = "OK"
        PROVE  (\E i \in 1..Len(w) : w[i][1] = f) \/ \E i \in 1..Len(c) : c[i].frame = f
    <3>1. CASE f \in 1..Len(done[q])
      <4>1. done[q][f] = "OK"
        BY <1>3, <2>3, <3>1
      <4>2. (\E i \in 1..Len(wire[q]) : wire[q][i][1] = f)
            \/ \E i \in 1..Len(calls[q]) : calls[q][i].frame = f
        BY <2>2, <3>1, <4>1
      <4>3. CASE \E i \in 1..Len(wire[q]) : wire[q][i][1] = f
        <5>1. PICK i \in 1..Len(wire[q]) : wire[q][i][1] = f
          BY <4>3
        <5>2. i \in 1..Len(w) /\ w[i] = wire[q][i]
          BY <1>4
        <5> QED BY <5>1, <5>2
      <4>4. CASE \E i \in 1..Len(calls[q]) : calls[q][i].frame = f
        <5>1. PICK i \in 1..Len(calls[q]) : calls[q][i].frame = f
          BY <4>4
        <5>2. i \in 1..Len(c) /\ c[i] = calls[q][i]
          BY <1>4
        <5> QED BY <5>1, <5>2
      <4> QED BY <4>2, <4>3, <4>4
    <3>2. CASE f = Frame(q)
      BY <1>3, <2>1, <2>3, <3>2
    <3>3. f \in 1..Len(done[q]) \/ f = Frame(q)
      BY <1>4, LastOrEarlier
    <3> QED BY <3>1, <3>2, <3>3
  <2>4. push'[q].pc = "idle"
    BY <1>3, IdleThread
  <2>5. \A f \in 1..Len(done'[q]) : done'[q][f] = "OK" =>
          \/ \E i \in 1..Len(wire'[q]) : wire'[q][i][1] = f
          \/ \E i \in 1..Len(calls'[q]) : calls'[q][i].frame = f
    <3>1. Len(done'[q]) = Frame(q) /\ wire'[q] = w /\ calls'[q] = c
      BY <1>2, <1>3
    <3> QED BY <2>3, <3>1
  <2>6. ~(push'[q].pc \in {"send", "emit"})
    BY <2>4
  <2> QED BY <2>5, <2>6 DEF DropInv
<1>6. QInv(q)'
  BY <1>3, <1>5 DEF QInv
<1>7. \A r \in DOMAIN g_configs : g_configs[r] \in Config
  BY <1>1 DEF TypeOK
<1>8. Idle \in Thread
  BY IdleThread
<1> QED BY <1>3, <1>6, <1>7, <1>8, ThreadStep

LEMMA FailsPreserves ==
  ASSUME IInv, NEW q \in Queues, NEW m \in 0..MaxPackets, SendFails(q, m), scenario' = scenario
  PROVE  IInv'
<1> DEFINE w == wire[q] \o Numbers(q, m)
<1>1. TypeOK /\ QInv(q) /\ push[q].pc = "send" /\ ~push[q].capture_only
      /\ m < push[q].n - push[q].k /\ wire' = [wire EXCEPT ![q] = w]
      /\ Return(q, "SEND_ERROR") /\ UNCHANGED <<g_configs, sets, now, calls>>
  BY DEF IInv, SendFails
<1>2. /\ push[q].k \in Nat /\ push[q].n \in 0..MaxPackets /\ MaxPackets \in Nat /\ m \in Nat
      /\ Frame(q) \in 1..Frame(q) /\ Len(wire[q]) \in Nat /\ calls[q] \in Seq(Call)
      /\ Len(calls[q]) \in Nat
  <2>1. Frame(q) = Len(done[q]) + 1 /\ Len(done[q]) \in Nat
    BY <1>1, Typed
  <2>2. Frame(q) \in 1..Frame(q)
    BY <2>1
  <2>3. push[q].k \in 0..MaxPackets /\ push[q].n \in 0..MaxPackets /\ MaxPackets \in Nat
        /\ Len(wire[q]) \in Nat /\ calls[q] \in Seq(Call) /\ Len(calls[q]) \in Nat
    BY <1>1, Typed
  <2> QED BY <2>2, <2>3
<1>3. push[q].k + m <= MaxPackets
  BY <1>1, <1>2
<1>4. /\ w \in Seq(Nat \X (1..MaxPackets)) /\ Len(w) = Len(wire[q]) + m
      /\ \A i \in 1..Len(wire[q]) : w[i] = wire[q][i]
      /\ \A i \in 1..Len(w) : i > Len(wire[q]) => w[i][1] = Frame(q)
  BY <1>1, <1>2, <1>3, Extended
<1> HIDE DEF w
<1>5. ASSUME NEW i \in 1..Len(w) PROVE w[i][1] \in 1..Frame(q)
  <2>1. CASE i \in 1..Len(wire[q])
    BY <1>1, <1>4, <2>1 DEF QInv, WireInv
  <2>2. CASE i > Len(wire[q])
    BY <1>2, <1>4, <2>2
  <2> QED BY <1>2, <1>4, <2>1, <2>2
<1>6. push'[q].pc = "idle"
  BY <1>1, IdleThread DEF Return, TypeOK
<1>7. ConfigInv(q)'
  BY <1>1, <1>6 DEF QInv, ConfigInv, Registered
<1>8. CallsInv(q)'
  BY <1>1 DEF QInv, CallsInv
<1>9. calls' = [calls EXCEPT ![q] = calls[q]] /\ Len(wire[q]) <= Len(w)
      /\ Len(calls[q]) <= Len(calls[q])
  BY <1>1, <1>2, <1>4, NoChange
<1> QED BY <1>1, <1>2, <1>4, <1>5, <1>7, <1>8, <1>9, ReturnPreserves

\* Packets of a frame that was sent are on the wire.
LEMMA SentOnWire ==
  ASSUME TypeOK, NEW q \in Queues, QInv(q), push[q].pc \in {"emit", "call"},
         ~push[q].capture_only
  PROVE  \E i \in 1..Len(wire[q]) : wire[q][i][1] = Frame(q)
<1>1. push[q].k \in 0..MaxPackets /\ push[q].n \in 0..MaxPackets /\ MaxPackets \in Nat
  BY Typed
<1>2. 1 \in 1..push[q].k /\ push[q].pc \in Busy
  BY <1>1 DEF QInv, PushInv, Busy
<1> QED BY <1>2 DEF QInv, WireInv

LEMMA NothingPreserves ==
  ASSUME IInv, NEW q \in Queues, EmitNothing(q), scenario' = scenario
  PROVE  IInv'
<1>1. TypeOK /\ QInv(q) /\ push[q].pc = "emit" /\ ~(push[q].active /\ Registered(q))
      /\ Return(q, "OK") /\ UNCHANGED <<g_configs, sets, now, wire, calls>>
  BY DEF IInv, EmitNothing
<1>2. push'[q].pc = "idle"
  BY <1>1, IdleThread DEF Return, TypeOK
<1>3. ConfigInv(q)'
  BY <1>1, <1>2 DEF QInv, ConfigInv, Registered
<1>4. CallsInv(q)'
  BY <1>1 DEF QInv, CallsInv
<1>5. ~scenario.concurrent => \E i \in 1..Len(wire[q]) : wire[q][i][1] = Frame(q)
  <2>1. ~scenario.concurrent => ~push[q].active
    BY <1>1 DEF QInv, DropInv
  <2>2. ~push[q].active => ~push[q].capture_only
    BY <1>1 DEF QInv, PushInv
  <2> QED BY <1>1, <2>1, <2>2, SentOnWire
<1>6. \A i \in 1..Len(wire[q]) : wire[q][i][1] \in 1..Frame(q)
  BY <1>1 DEF QInv, WireInv
<1>7. /\ wire[q] \in Seq(Nat \X (1..MaxPackets)) /\ calls[q] \in Seq(Call)
      /\ Len(wire[q]) \in Nat /\ Len(calls[q]) \in Nat
      /\ wire' = [wire EXCEPT ![q] = wire[q]] /\ calls' = [calls EXCEPT ![q] = calls[q]]
  BY <1>1, Typed, NoChange
<1>8. Len(wire[q]) <= Len(wire[q]) /\ Len(calls[q]) <= Len(calls[q])
  BY <1>7
<1> QED BY <1>1, <1>3, <1>4, <1>5, <1>6, <1>7, <1>8, ReturnPreserves

LEMMA LookupPreserves ==
  ASSUME IInv, NEW q \in Queues, EmitLookup(q), scenario' = scenario
  PROVE  IInv'
<1>1. TypeOK /\ QInv(q) /\ push[q].pc = "emit" /\ push[q].active /\ Registered(q)
      /\ UNCHANGED <<sets, now, wire, calls, done>>
  BY DEF IInv, EmitLookup
<1>2. PICK t \in Thread :
        /\ push' = [push EXCEPT ![q] = t]
        /\ t.pc = "call" /\ t.n = push[q].n /\ t.k = push[q].k /\ t.at = push[q].at
        /\ t.active = push[q].active /\ t.capture_only = push[q].capture_only
        /\ t.callback = g_configs[q].callback /\ t.reg = g_configs[q].reg
        /\ t.base = (IF g_configs[q].base = NoTime THEN push[q].at ELSE g_configs[q].base)
        /\ DOMAIN g_configs' = DOMAIN g_configs
        /\ \A r \in DOMAIN g_configs : r # q => g_configs'[r] = g_configs[r]
        /\ g_configs'[q] \in Config /\ g_configs'[q].base = t.base
        /\ g_configs'[q].reg = g_configs[q].reg
  BY <1>1, LookupThread
<1>3. push'[q] = t
  BY <1>1, <1>2 DEF TypeOK
<1>4. WireInv(q)'
  <2>1. WireInv(q) /\ push[q].pc \in Busy /\ push'[q].pc \in Busy
        /\ push'[q].capture_only = push[q].capture_only
        /\ push'[q].k = push[q].k /\ wire'[q] = wire[q]
    BY <1>1, <1>2, <1>3 DEF QInv, Busy
  <2> QED BY <1>1, <2>1, WireKept
<1>5. /\ g_configs[q].callback # Nobody /\ g_configs[q].reg \in 1..MaxSets
      /\ g_configs[q].base \in {NoTime} \cup Nat
      /\ push[q].at \in Nat /\ now \in Nat /\ sets \in Nat
      /\ g_configs[q].reg <= sets /\ g_configs[q].base <= push[q].at
      /\ push[q].at <= now
  <2>1. push[q].at # NoTime /\ push[q].at <= now
    BY <1>1 DEF QInv, PushInv
  <2>2. g_configs[q].reg <= sets /\ g_configs[q].base <= push[q].at
    BY <1>1, <2>1 DEF QInv, ConfigInv
  <2>3. /\ g_configs[q].callback # Nobody /\ g_configs[q].reg \in 1..MaxSets
        /\ g_configs[q].base \in {NoTime} \cup Nat
    BY <1>1, TypedConfig, NobodyAssumption
  <2>4. push[q].at \in {NoTime} \cup Nat /\ now \in Nat /\ sets \in Nat
    BY <1>1, Typed
  <2> QED BY <2>1, <2>2, <2>3, <2>4
<1>6. t.base \in Nat /\ t.base # NoTime /\ t.base <= t.at
  BY <1>2, <1>5 DEF NoTime
<1>7. PushInv(q)'
  <2>1. PushInv(q)
    BY <1>1 DEF QInv
  <2>2. t.k = t.n /\ t.n > 0 /\ (t.capture_only => t.active) /\ t.active
    BY <1>1, <1>2, <2>1 DEF PushInv
  <2>3. t.at # NoTime /\ t.at <= now' /\ t.reg <= sets' /\ t.reg > 0 /\ t.callback # Nobody
    BY <1>1, <1>2, <1>5 DEF NoTime
  <2> QED BY <1>2, <1>3, <2>2, <2>3 DEF PushInv
\* Of the calls of this registration: none when it has no base time yet.
<1>8. /\ \A i \in 1..Len(calls[q]) : calls[q][i].reg = g_configs[q].reg =>
            calls[q][i].at - calls[q][i].offset = t.base
      /\ t.base = t.at \/ \E i \in 1..Len(calls[q]) : calls[q][i].reg = g_configs[q].reg
  <2>1. ConfigInv(q)
    BY <1>1 DEF QInv
  <2>2. CASE g_configs[q].base = NoTime
    BY <1>1, <1>2, <2>1, <2>2 DEF ConfigInv
  <2>3. CASE g_configs[q].base # NoTime
    BY <1>1, <1>2, <2>1, <2>3 DEF ConfigInv
  <2> QED BY <2>2, <2>3
<1>9. ConfigInv(q)'
  <2>1. g_configs'[q].reg <= sets' /\ g_configs'[q].base <= now'
    BY <1>1, <1>2, <1>5, <1>6
  <2>2. g_configs'[q].base # NoTime /\ push'[q].pc = "call" /\ push'[q].reg = g_configs'[q].reg
        /\ push'[q].base = g_configs'[q].base
    BY <1>2, <1>3, <1>6
  <2>3. \A i \in 1..Len(calls'[q]) : calls'[q][i].reg = g_configs'[q].reg =>
          calls'[q][i].at - calls'[q][i].offset = g_configs'[q].base
    BY <1>1, <1>2, <1>8
  <2>4. ~(push'[q].pc \in {"send", "emit"})
    BY <2>2
  <2> QED BY <2>1, <2>2, <2>3, <2>4 DEF ConfigInv
<1>10. CallInv(q)'
  BY <1>1, <1>2, <1>3, <1>6, <1>8 DEF CallInv
<1>11. CallsInv(q)'
  BY <1>1 DEF QInv, CallsInv
<1>12. DropInv(q)'
  BY <1>1, <1>2, <1>3 DEF QInv, DropInv
<1>13. QInv(q)'
  BY <1>4, <1>7, <1>9, <1>10, <1>11, <1>12 DEF QInv
<1>14. wire[q] \in Seq(Nat \X (1..MaxPackets)) /\ calls[q] \in Seq(Call)
       /\ done[q] \in Seq({"OK", "SEND_ERROR"})
  BY <1>1, Typed
<1>15. wire' = [wire EXCEPT ![q] = wire[q]] /\ calls' = [calls EXCEPT ![q] = calls[q]]
       /\ done' = [done EXCEPT ![q] = done[q]]
  BY <1>1, NoChange
<1> QED BY <1>1, <1>2, <1>13, <1>14, <1>15, ThreadStep

LEMMA CallPreserves ==
  ASSUME IInv, NEW q \in Queues, CallBack(q), scenario' = scenario
  PROVE  IInv'
<1> DEFINE p == push[q]
           offset == IF p.at >= p.base THEN p.at - p.base ELSE 0
           e == [frame |-> Frame(q), callback |-> p.callback, reg |-> p.reg,
                 offset |-> offset, at |-> p.at]
           c == Append(calls[q], e)
           last == Len(calls[q]) + 1
<1>1. TypeOK /\ QInv(q) /\ p.pc = "call" /\ calls' = [calls EXCEPT ![q] = c]
      /\ Return(q, "OK") /\ UNCHANGED <<g_configs, sets, now, wire>>
  BY DEF IInv, CallBack
<1>2. /\ p.active /\ p.callback # Nobody /\ p.reg > 0 /\ p.at # NoTime /\ p.reg <= sets
      /\ p.base # NoTime /\ p.base <= p.at
  BY <1>1 DEF QInv, PushInv, CallInv
<1>3. /\ p.at \in Nat /\ p.base \in Nat /\ p.reg \in 1..MaxSets /\ p.reg \in Nat
      /\ p.callback \in Callbacks /\ Frame(q) \in Nat /\ sets \in Nat
      /\ Frame(q) = Len(done[q]) + 1 /\ Len(done[q]) \in Nat
      /\ calls[q] \in Seq(Call) /\ Len(calls[q]) \in Nat
  <2>1. /\ p.at \in {NoTime} \cup Nat /\ p.base \in {NoTime} \cup Nat
        /\ p.reg \in 0..MaxSets /\ MaxSets \in Nat /\ p.callback \in Callbacks \cup {Nobody}
        /\ Frame(q) \in Nat /\ sets \in 0..MaxSets
        /\ Frame(q) = Len(done[q]) + 1 /\ Len(done[q]) \in Nat
        /\ calls[q] \in Seq(Call) /\ Len(calls[q]) \in Nat
    BY <1>1, Typed
  <2> HIDE DEF p
  <2> QED BY <1>2, <2>1
<1> HIDE DEF p
<1>4. offset = p.at - p.base /\ offset \in Nat
  BY <1>2, <1>3
<1> HIDE DEF offset
<1>5. e \in Call /\ e.frame = Frame(q) /\ e.reg = p.reg /\ e.offset = p.at - p.base /\ e.at = p.at
  BY <1>3, <1>4 DEF Call
<1> HIDE DEF e
<1>6. c \in Seq(Call) /\ Len(c) = last /\ c[last] = e
      /\ \A i \in 1..Len(calls[q]) : c[i] = calls[q][i]
  BY <1>3, <1>5, AppendProperties
<1> HIDE DEF c
<1>7. calls'[q] = c /\ push'[q] = Idle /\ push'[q].pc = "idle"
  BY <1>1, IdleThread DEF Return, TypeOK
<1>8. /\ \A i \in 1..Len(calls[q]) : calls[q][i].reg = p.reg =>
            calls[q][i].at - calls[q][i].offset = p.base
      /\ \/ p.base = p.at
         \/ \E i \in 1..Len(calls[q]) : calls[q][i].reg = p.reg
  BY <1>1 DEF QInv, CallInv, p
<1>9. \A i \in 1..last : i \in 1..Len(calls[q]) \/ i = last
  BY <1>3
<1>10. ConfigInv(q)'
  <2>1. SUFFICES ASSUME Registered(q) PROVE ConfigInv(q)'
    BY <1>1 DEF ConfigInv, Registered
  <2>2. ConfigInv(q)
    BY <1>1 DEF QInv
  <2>3. g_configs[q].reg <= sets /\ g_configs[q].base <= now
    BY <2>1, <2>2 DEF ConfigInv
  <2>4. CASE g_configs[q].base = NoTime
    <3>1. p.reg # g_configs[q].reg
          /\ \A i \in 1..Len(calls[q]) : calls[q][i].reg # g_configs[q].reg
      BY <1>1, <2>1, <2>2, <2>4 DEF ConfigInv, p
    <3>2. \A i \in 1..Len(c) : c[i].reg # g_configs[q].reg
      BY <1>5, <1>6, <1>9, <3>1
    <3> QED BY <1>1, <1>7, <2>3, <2>4, <3>2 DEF ConfigInv
  <2>5. CASE g_configs[q].base # NoTime
    <3>1. /\ \A i \in 1..Len(calls[q]) : calls[q][i].reg = g_configs[q].reg =>
                calls[q][i].at - calls[q][i].offset = g_configs[q].base
          /\ p.reg = g_configs[q].reg => p.base = g_configs[q].base
          /\ \/ \E i \in 1..Len(calls[q]) : calls[q][i].reg = g_configs[q].reg
             \/ p.reg = g_configs[q].reg
      BY <1>1, <2>1, <2>2, <2>5 DEF ConfigInv, p
    <3>2. p.at - (p.at - p.base) = p.base
      BY <1>3
    <3>3. ASSUME NEW i \in 1..Len(c), c[i].reg = g_configs[q].reg
          PROVE  c[i].at - c[i].offset = g_configs[q].base
      <4>1. CASE i \in 1..Len(calls[q])
        BY <1>6, <3>1, <3>3, <4>1
      <4>2. CASE i = last
        BY <1>5, <1>6, <3>1, <3>2, <3>3, <4>2
      <4> QED BY <1>6, <1>9, <4>1, <4>2
    <3>4. \E i \in 1..Len(c) : c[i].reg = g_configs[q].reg
      <4>1. CASE \E i \in 1..Len(calls[q]) : calls[q][i].reg = g_configs[q].reg
        <5>1. PICK i \in 1..Len(calls[q]) : calls[q][i].reg = g_configs[q].reg
          BY <4>1
        <5>2. i \in 1..Len(c) /\ c[i] = calls[q][i]
          BY <1>3, <1>6
        <5> QED BY <5>1, <5>2
      <4>2. CASE p.reg = g_configs[q].reg
        <5>1. last \in 1..Len(c) /\ c[last].reg = g_configs[q].reg
          BY <1>3, <1>5, <1>6, <4>2
        <5> QED BY <5>1
      <4> QED BY <3>1, <4>1, <4>2
    <3> QED BY <1>1, <1>7, <2>3, <2>5, <3>3, <3>4 DEF ConfigInv
  <2> QED BY <2>4, <2>5
<1>11. CallsInv(q)'
  <2>1. /\ \A i \in 1..Len(calls[q]) : calls[q][i].reg <= sets
        /\ \A i, j \in 1..Len(calls[q]) : calls[q][i].reg = calls[q][j].reg =>
             /\ calls[q][j].offset - calls[q][i].offset = calls[q][j].at - calls[q][i].at
             /\ \E h \in 1..i : calls[q][h].reg = calls[q][i].reg /\ calls[q][h].offset = 0
    BY <1>1 DEF QInv, CallsInv
  <2>2. \A i \in 1..Len(c) : c[i].reg <= sets
    BY <1>2, <1>5, <1>6, <1>9, <2>1
\* Where the call stands on the line through the base time.
  <2>3. ASSUME NEW i \in 1..Len(c), c[i].reg = p.reg
        PROVE  c[i].at - c[i].offset = p.base /\ c[i].at \in Nat /\ c[i].offset \in Nat
    <3>1. CASE i \in 1..Len(calls[q])
      BY <1>1, <1>6, <1>8, <2>3, <3>1, TypedCall
    <3>2. CASE i = last
      <4>1. p.at - (p.at - p.base) = p.base /\ p.at - p.base \in Nat
        BY <1>2, <1>3
      <4> QED BY <1>3, <1>5, <1>6, <3>2, <4>1
    <3> QED BY <1>6, <1>9, <3>1, <3>2
  <2>4. ASSUME NEW i \in 1..Len(c), NEW j \in 1..Len(c), c[i].reg = c[j].reg
        PROVE  c[j].offset - c[i].offset = c[j].at - c[i].at
    <3>1. CASE c[i].reg = p.reg
      <4>1. c[i].at - c[i].offset = p.base /\ c[i].at \in Nat /\ c[i].offset \in Nat
        BY <2>3, <3>1
      <4>2. c[j].reg = p.reg
        BY <2>4, <3>1
      <4>3. c[j].at - c[j].offset = p.base /\ c[j].at \in Nat /\ c[j].offset \in Nat
        BY <2>3, <4>2
      <4>4. p.base \in Nat
        BY <4>1, <4>3, <1>3
      <4> HIDE DEF c, p
      <4> QED BY <4>1, <4>3, <4>4
    <3>2. CASE c[i].reg # p.reg
      <4>1. i \in 1..Len(calls[q]) /\ j \in 1..Len(calls[q])
        BY <1>5, <1>6, <1>9, <2>4, <3>2
      <4> QED BY <1>6, <2>1, <2>4, <4>1
    <3> QED BY <3>1, <3>2
  <2>5. ASSUME NEW i \in 1..Len(c)
        PROVE  \E h \in 1..i : c[h].reg = c[i].reg /\ c[h].offset = 0
    <3>1. CASE i \in 1..Len(calls[q])
      <4>1. PICK h \in 1..i : calls[q][h].reg = calls[q][i].reg /\ calls[q][h].offset = 0
        BY <2>1, <3>1
      <4>2. h \in 1..Len(calls[q]) /\ c[h] = calls[q][h] /\ c[i] = calls[q][i]
        BY <1>3, <1>6, <3>1
      <4> QED BY <4>1, <4>2
    <3>2. CASE i = last
      <4>1. c[i].reg = p.reg
        BY <1>5, <1>6, <3>2
      <4>2. CASE p.base = p.at
        <5>1. c[i].offset = 0 /\ i \in 1..i
          BY <1>3, <1>5, <1>6, <3>2, <4>2
        <5> QED BY <5>1
      <4>3. CASE \E l \in 1..Len(calls[q]) : calls[q][l].reg = p.reg
        <5>1. PICK l \in 1..Len(calls[q]) : calls[q][l].reg = p.reg
          BY <4>3
        <5>2. PICK h \in 1..l : calls[q][h].reg = calls[q][l].reg /\ calls[q][h].offset = 0
          BY <2>1, <5>1
        <5>3. h \in 1..Len(calls[q]) /\ h \in 1..i /\ c[h] = calls[q][h]
          BY <1>3, <1>6, <3>2
        <5> QED BY <4>1, <5>1, <5>2, <5>3
      <4> QED BY <1>8, <4>2, <4>3
    <3> QED BY <1>6, <1>9, <3>1, <3>2
  <2> QED BY <1>1, <1>7, <2>2, <2>4, <2>5 DEF CallsInv
<1>12. /\ wire[q] \in Seq(Nat \X (1..MaxPackets)) /\ Len(wire[q]) \in Nat
       /\ wire' = [wire EXCEPT ![q] = wire[q]]
  BY <1>1, Typed, NoChange
<1>13. \A i \in 1..Len(wire[q]) : wire[q][i][1] \in 1..Frame(q)
  BY <1>1 DEF QInv, WireInv
<1>14. Len(wire[q]) <= Len(wire[q]) /\ Len(calls[q]) <= Len(c)
  BY <1>3, <1>6, <1>12
<1>15. \E i \in 1..Len(c) : c[i].frame = Frame(q)
  <2>1. last \in 1..Len(c) /\ c[last].frame = Frame(q)
    BY <1>3, <1>5, <1>6
  <2> QED BY <2>1
<1> QED BY <1>1, <1>6, <1>10, <1>11, <1>12, <1>13, <1>14, <1>15, ReturnPreserves

-----------------------------------------------------------------------------
(* The theorems *)

LEMMA InitEstablishes == ASSUME Init PROVE IInv
<1> USE DEF Init
<1>1. DOMAIN g_configs = {}
  OBVIOUS
<1>2. TypeOK
  <2>1. push \in [Queues -> Thread]
    BY IdleThread
  <2>2. /\ calls \in [Queues -> Seq(Call)] /\ wire \in [Queues -> Seq(Nat \X (1..MaxPackets))]
        /\ done \in [Queues -> Seq({"OK", "SEND_ERROR"})]
    BY EmptySeq
  <2>3. sets \in 0..MaxSets /\ now \in Nat
    BY CaptureBounds
  <2> QED BY <1>1, <2>1, <2>2, <2>3 DEF TypeOK
<1>3. ASSUME NEW q \in Queues PROVE QInv(q)
  <2>1. push[q] = Idle /\ Len(wire[q]) = 0 /\ Len(calls[q]) = 0 /\ Len(done[q]) = 0
    BY EmptySeq
  <2>2. 1..0 = {}
    OBVIOUS
  <2>3. WireInv(q)
    BY <2>1, <2>2, IdleThread DEF WireInv, Busy
  <2>4. PushInv(q)
    BY <2>1, IdleThread DEF PushInv, NoTime
  <2>5. ConfigInv(q) /\ CallInv(q) /\ CallsInv(q) /\ DropInv(q)
    BY <1>1, <2>1, <2>2, IdleThread DEF ConfigInv, Registered, CallInv, CallsInv, DropInv
  <2> QED BY <2>3, <2>4, <2>5 DEF QInv
<1> QED BY <1>2, <1>3 DEF IInv

LEMMA NextPreserves == ASSUME IInv, [Next]_vars PROVE IInv'
<1>1. CASE Tick /\ scenario' = scenario
  BY <1>1, TickPreserves
<1>2. ASSUME NEW q \in scenario.queues, Configure(q), scenario' = scenario PROVE IInv'
  <2>1. q \in Queues
    BY CaptureBounds DEF IInv, TypeOK
  <2> QED BY <1>2, <2>1, SetCapturePreserves, ClearCapturePreserves DEF Configure
<1>3. ASSUME NEW q \in scenario.queues, Flush(q), scenario' = scenario PROVE IInv'
  <2>1. q \in Queues
    BY CaptureBounds DEF IInv, TypeOK
  <2> QED BY <1>3, <2>1, PreparePreserves, PacedPreserves, AllPreserves, FailsPreserves,
             NothingPreserves, LookupPreserves, CallPreserves DEF Flush
<1>4. CASE UNCHANGED vars
  <2>1. TypeOK'
    BY <1>4 DEF vars, IInv, TypeOK
  <2>2. ASSUME NEW r \in Queues PROVE QInv(r)'
    <3>1. Same(r) /\ scenario' = scenario /\ sets' = sets /\ now' = now
      BY <1>4 DEF vars, Same
    <3>2. sets' \in Nat /\ sets <= sets' /\ now' \in Nat /\ now <= now'
      BY <3>1, Typed DEF IInv
    <3> QED BY <3>1, <3>2, OtherQueue DEF IInv
  <2> QED BY <2>1, <2>2 DEF IInv
<1> QED BY <1>1, <1>2, <1>3, <1>4 DEF Next

LEMMA InvWhole == ASSUME IInv PROVE WholeOrNothing
<1>1. SUFFICES ASSUME NEW q \in Queues, push[q].pc \in {"emit", "call"}
               PROVE  \/ Sent(q, Frame(q)) = {} /\ push[q].capture_only
                      \/ {wire[q][i][2] : i \in Sent(q, Frame(q))} = 1..push[q].n
  BY DEF WholeOrNothing
<1>2. WireInv(q) /\ push[q].k = push[q].n /\ push[q].pc \in Busy
  BY <1>1 DEF IInv, QInv, PushInv, Busy
<1>3. CASE push[q].capture_only
  <2>1. Sent(q, Frame(q)) = {}
    BY <1>2, <1>3 DEF WireInv, Sent
  <2> QED BY <1>3, <2>1
<1>4. CASE ~push[q].capture_only
  <2>1. \A i \in Sent(q, Frame(q)) : wire[q][i][2] \in 1..push[q].n
    BY <1>2, <1>4 DEF WireInv, Sent
  <2>2. \A j \in 1..push[q].n : \E i \in Sent(q, Frame(q)) : wire[q][i][2] = j
    BY <1>2, <1>4 DEF WireInv, Sent
  <2> QED BY <2>1, <2>2
<1> QED BY <1>3, <1>4

LEMMA InvOffsets == ASSUME IInv PROVE OffsetsKeepDistance
BY DEF IInv, QInv, CallsInv, OffsetsKeepDistance

LEMMA InvNothingDropped == ASSUME IInv PROVE NothingDropped
<1>1. SUFFICES ASSUME ~scenario.concurrent, NEW q \in Queues, NEW f \in 1..Len(done[q]),
                      done[q][f] = "OK"
               PROVE  \/ Sent(q, f) # {}
                      \/ \E i \in 1..Len(calls[q]) : calls[q][i].frame = f
  BY DEF NothingDropped
<1> QED BY <1>1 DEF IInv, QInv, DropInv, Sent

\* The registry holds a callback for every entry, and a frame whose callback is
\* called has a time and a base time no later.
THEOREM TypeCorrect == Spec => []TypeOK
<1>1. Init => IInv
  BY InitEstablishes
<1>2. IInv /\ [Next]_vars => IInv'
  BY NextPreserves
<1>3. IInv => TypeOK
  BY DEF IInv
<1> QED BY <1>1, <1>2, <1>3, PTL DEF Spec

\* A push sends its frame whole or not at all, also while other threads switch
\* capture-only mode: the mode is looked up once, in prepare_frame.
THEOREM SentWholeOrNotAtAll == Spec => []WholeOrNothing
<1>1. Init => IInv
  BY InitEstablishes
<1>2. IInv /\ [Next]_vars => IInv'
  BY NextPreserves
<1>3. IInv => WholeOrNothing
  BY InvWhole
<1> QED BY <1>1, <1>2, <1>3, PTL DEF Spec

\* The offsets handed to the callback begin at 0 with each registration and
\* keep the distances of the frames' times.
THEOREM OffsetsFromFirstFrame == Spec => []OffsetsKeepDistance
<1>1. Init => IInv
  BY InitEstablishes
<1>2. IInv /\ [Next]_vars => IInv'
  BY NextPreserves
<1>3. IInv => OffsetsKeepDistance
  BY InvOffsets
<1> QED BY <1>1, <1>2, <1>3, PTL DEF Spec

\* With configuration between frames, a frame that flush_queue accepts is sent
\* or handed to a callback.
THEOREM SentOrCaptured == Spec => []NothingDropped
<1>1. Init => IInv
  BY InitEstablishes
<1>2. IInv /\ [Next]_vars => IInv'
  BY NextPreserves
<1>3. IInv => NothingDropped
  BY InvNothingDropped
<1> QED BY <1>1, <1>2, <1>3, PTL DEF Spec

-----------------------------------------------------------------------------
(* Each queue delivers its frames *)

\* Unless others configure, the callback that emit_frame copied is still the
\* one of the registration: it is the one the frame was accepted with.
CallbackInv(q) ==
  ~scenario.concurrent /\ push[q].pc = "call" =>
    Registered(q) /\ g_configs[q].callback = push[q].callback

DeliveryInv == IInv /\ \A q \in Queues : CallbackInv(q)

DeliversInit(q) == Delivery(q)!DInit

Delivers(q) == [Delivery(q)!DNext]_(Delivery(q)!dvars)

\* What FrameDelivery is told of the thread.
Shown(q) ==
  <<push[q].pc = "idle", push[q].n, IF push[q].capture_only THEN 0 ELSE push[q].k,
    push[q].capture_only, IF push[q].active THEN g_configs[q].callback ELSE Nobody>>

Logged(q) == [i \in 1..Len(calls[q]) |-> <<calls[q][i].frame, calls[q][i].callback>>]

\* The frame in delivery.
Flying(q) ==
  [n |-> push[q].n,
   k |-> IF push[q].capture_only THEN 0 ELSE push[q].k,
   live |-> ~push[q].capture_only,
   observer |-> IF push[q].active THEN g_configs[q].callback ELSE Nobody]

LEMMA InFlightIs ==
  ASSUME NEW q
  PROVE  /\ push[q].pc = "idle" => InFlight(q) = {}
         /\ push[q].pc # "idle" => InFlight(q) = {Flying(q)}
BY DEF InFlight, Flying

LEMMA InFlightIsNext ==
  ASSUME NEW q
  PROVE  /\ push'[q].pc = "idle" => InFlight(q)' = {}
         /\ push'[q].pc # "idle" => InFlight(q)' = {Flying(q)'}
BY DEF InFlight, Flying

\* What cannot be seen of a step is a stutter.
LEMMA NothingToSee ==
  ASSUME NEW q, Shown(q)' = Shown(q), wire'[q] = wire[q], calls'[q] = calls[q],
         done'[q] = done[q]
  PROVE  Delivers(q)
<1>1. InFlight(q)' = InFlight(q)
  BY DEF Shown, InFlight
<1> QED BY <1>1 DEF Delivers, Delivery!dvars

\* A registration that a push has seen stays while it runs.
LEMMA StaysRegistered ==
  ASSUME DeliveryInv, ~scenario.concurrent, NEW q \in Queues, push[q].pc # "idle",
         push[q].active
  PROVE  Registered(q) /\ g_configs[q].callback \in Callbacks
<1>1. push[q].pc \in {"send", "emit", "call"}
  BY Typed DEF DeliveryInv, IInv
<1>2. DropInv(q) /\ CallbackInv(q) /\ TypeOK
  BY DEF DeliveryInv, IInv, QInv
<1>3. Registered(q)
  BY <1>1, <1>2 DEF DropInv, CallbackInv
<1> QED BY <1>2, <1>3, TypedConfig

\* The frames of other queues are not seen to change.
LEMMA OthersSeeNothing ==
  ASSUME DeliveryInv, ~scenario.concurrent, scenario' = scenario, NEW r \in Queues, Same(r)
  PROVE  Delivers(r) /\ CallbackInv(r)'
<1>1. CASE push[r].pc = "idle"
  <2>1. InFlight(r)' = InFlight(r)
    BY <1>1 DEF Same, InFlight
  <2>2. Delivers(r)
    BY <2>1 DEF Same, Delivers, Delivery!dvars
  <2>3. CallbackInv(r)'
    BY <1>1 DEF Same, CallbackInv
  <2> QED BY <2>2, <2>3
<1>2. CASE push[r].pc # "idle"
  <2>1. push[r].active => Registered(r)
    BY <1>2, StaysRegistered
  <2>2. Shown(r)' = Shown(r)
    BY <2>1 DEF Same, Shown, Registered
  <2>3. Delivers(r)
    BY <2>2, NothingToSee DEF Same
  <2>4. CallbackInv(r)'
    BY DEF DeliveryInv, Same, CallbackInv, Registered
  <2> QED BY <2>3, <2>4
<1> QED BY <1>1, <1>2

\* One queue's step leaves the others as they are.
LEMMA FlushesOneQueue ==
  ASSUME TypeOK, NEW q \in Queues, Flush(q), NEW r \in Queues \ {q}
  PROVE  Same(r)
<1> USE DEF Same, TypeOK
<1>1. ASSUME NEW n \in 1..MaxPackets, NEW paced \in BOOLEAN, PrepareFrame(q, n, paced)
      PROVE  Same(r)
  BY <1>1 DEF PrepareFrame
<1>2. CASE SendPaced(q)
  BY <1>2 DEF SendPaced
<1>3. CASE SendAll(q)
  BY <1>3 DEF SendAll
<1>4. ASSUME NEW m \in 0..MaxPackets, SendFails(q, m) PROVE Same(r)
  BY <1>4 DEF SendFails, Return
<1>5. CASE EmitNothing(q)
  BY <1>5 DEF EmitNothing, Return
<1>6. CASE EmitLookup(q)
  BY <1>6 DEF EmitLookup
<1>7. CASE CallBack(q)
  BY <1>7 DEF CallBack, Return
<1> QED BY <1>1, <1>2, <1>3, <1>4, <1>5, <1>6, <1>7 DEF Flush

LEMMA ConfiguresOneQueue ==
  ASSUME TypeOK, NEW q \in Queues, Configure(q), NEW r \in Queues \ {q}
  PROVE  Same(r)
<1> USE DEF Same, TypeOK
<1>1. ASSUME NEW cb \in Callbacks \cup {Nobody}, NEW only \in BOOLEAN, SetCapture(q, cb, only)
      PROVE  Same(r)
  BY <1>1 DEF SetCapture, With, Without
<1>2. CASE ClearCapture(q)
  BY <1>2 DEF ClearCapture, Without
<1> QED BY <1>1, <1>2 DEF Configure

\* Between pushes a configuration concerns no frame.
LEMMA ConfigureDelivers ==
  ASSUME DeliveryInv, ~scenario.concurrent, scenario' = scenario, NEW q \in Queues, Configure(q)
  PROVE  Delivers(q) /\ CallbackInv(q)'
<1>1. push[q].pc = "idle" /\ UNCHANGED <<push, wire, calls, done>>
  BY DEF Configure, SetCapture, ClearCapture, MayConfigure
<1>2. InFlight(q)' = InFlight(q)
  BY <1>1 DEF InFlight
<1> QED BY <1>1, <1>2 DEF Delivers, Delivery!dvars, CallbackInv

\* prepare_frame accepts a frame.
LEMMA PrepareDelivers ==
  ASSUME DeliveryInv, ~scenario.concurrent, NEW q \in Queues,
         NEW n \in 1..MaxPackets, NEW paced \in BOOLEAN, PrepareFrame(q, n, paced)
  PROVE  Delivers(q) /\ CallbackInv(q)'
<1> DEFINE on == Registered(q)
           only == Registered(q) /\ g_configs[q].capture_only
           observer == IF on THEN g_configs[q].callback ELSE Nobody
<1>1. TypeOK
  BY DEF DeliveryInv, IInv
<1>2. /\ push'[q].pc = "send" /\ push'[q].n = n /\ push'[q].k = 0
      /\ push'[q].active = on /\ push'[q].capture_only = only
      /\ UNCHANGED <<g_configs, wire, calls, done>>
  BY <1>1 DEF PrepareFrame, TypeOK, Idle
<1>3. on \in BOOLEAN /\ only \in BOOLEAN /\ observer \in Callbacks \cup {Nobody}
      /\ (observer = Nobody => ~on)
  BY <1>1, TypedConfig, NobodyAssumption DEF Registered
<1>4. InFlight(q) = {}
  BY InFlightIs DEF PrepareFrame
<1>5. InFlight(q)' = {[n |-> n, k |-> 0, live |-> ~only, observer |-> observer]}
  <2>1. Flying(q)' = [n |-> n, k |-> 0, live |-> ~only, observer |-> observer]
    BY <1>2 DEF Flying
  <2> QED BY <1>2, <2>1, InFlightIsNext
<1>6. observer = Nobody => ~only
  BY <1>3
<1> HIDE DEF on, only, observer
<1>7. Delivery(q)!Accept(n, ~only, observer)
  BY <1>2, <1>4, <1>5, <1>6 DEF Delivery!Accept
<1>8. (~only) \in BOOLEAN
  BY <1>3
<1>9. Delivery(q)!DNext
  BY <1>3, <1>7, <1>8 DEF Delivery!DNext
<1> QED BY <1>2, <1>9 DEF Delivers, CallbackInv

\* What is known of the frame in delivery while it is pushed.
LEMMA FlyingIs ==
  ASSUME DeliveryInv, ~scenario.concurrent, NEW q \in Queues, push[q].pc # "idle"
  PROVE  /\ Flying(q).n = push[q].n /\ Flying(q).n \in Nat
         /\ Flying(q).live = ~push[q].capture_only
         /\ Flying(q).k \in Nat
         /\ Flying(q).live => Flying(q).k = push[q].k
         /\ Flying(q).observer = (IF push[q].active THEN g_configs[q].callback ELSE Nobody)
         /\ Flying(q).observer = Nobody <=> ~push[q].active
<1>1. TypeOK
  BY DEF DeliveryInv, IInv
<1>2. push[q].n \in Nat /\ push[q].k \in Nat /\ MaxPackets \in Nat
  BY <1>1, Typed
<1>3. push[q].active => g_configs[q].callback # Nobody
  BY StaysRegistered, NobodyAssumption
<1> QED BY <1>2, <1>3 DEF Flying

\* The next m packets are the ones FrameDelivery numbers.
LEMMA SameNumbers ==
  ASSUME DeliveryInv, ~scenario.concurrent, NEW q \in Queues, push[q].pc # "idle",
         ~push[q].capture_only, NEW m \in Nat
  PROVE  Numbers(q, m) = Delivery(q)!Numbers(Flying(q), m)
<1>1. Flying(q).k = push[q].k
  BY FlyingIs
<1> QED BY <1>1 DEF Numbers, Frame, Delivery!Numbers, Delivery!id

\* A step that sends m packets of a live frame and goes on.
LEMMA TransmitDelivers ==
  ASSUME DeliveryInv, ~scenario.concurrent, NEW q \in Queues, push[q].pc # "idle",
         ~push[q].capture_only, NEW m \in 0..push[q].n, push[q].k + m <= push[q].n,
         wire'[q] = wire[q] \o Numbers(q, m),
         push'[q] \in Thread, push'[q].pc # "idle",
         push'[q].n = push[q].n, push'[q].k = push[q].k + m,
         push'[q].capture_only = push[q].capture_only, push'[q].active = push[q].active,
         UNCHANGED <<g_configs, calls, done>>
  PROVE  Delivers(q)
<1> DEFINE d == Flying(q)
<1>1. InFlight(q) = {d} /\ InFlight(q)' = {Flying(q)'}
  BY InFlightIs, InFlightIsNext
<1>2. d.live /\ d.n = push[q].n /\ d.k = push[q].k
  BY FlyingIs
<1>3. Flying(q)' = [d EXCEPT !.k = d.k + m]
  BY <1>2 DEF Flying
<1>4. wire'[q] = wire[q] \o Delivery(q)!Numbers(d, m)
  <2>1. m \in Nat
    BY Typed DEF DeliveryInv, IInv
  <2> QED BY <2>1, SameNumbers
<1> HIDE DEF d
<1>5. Delivery(q)!Transmit(d, m)
  BY <1>1, <1>2, <1>3, <1>4 DEF Delivery!Transmit
<1>6. Delivery(q)!DNext
  BY <1>1, <1>2, <1>5 DEF Delivery!DNext
<1> QED BY <1>6 DEF Delivers

\* A step in which a captured frame that is not sent gets on.
LEMMA SilentDelivers ==
  ASSUME NEW q, push[q].pc # "idle", push[q].capture_only,
         push'[q].pc # "idle", push'[q].n = push[q].n,
         push'[q].capture_only = push[q].capture_only, push'[q].active = push[q].active,
         UNCHANGED <<g_configs, wire, calls, done>>
  PROVE  Delivers(q)
<1>1. Shown(q)' = Shown(q)
  BY DEF Shown
<1> QED BY <1>1, NothingToSee

LEMMA PacedDelivers ==
  ASSUME DeliveryInv, ~scenario.concurrent, scenario' = scenario, NEW q \in Queues, SendPaced(q)
  PROVE  Delivers(q) /\ CallbackInv(q)'
<1>1. TypeOK /\ PushInv(q)
  BY DEF DeliveryInv, IInv, QInv
<1>2. PICK t \in Thread :
        /\ push' = [push EXCEPT ![q] = t]
        /\ t.pc \in {"send", "emit"} /\ t.n = push[q].n /\ t.k = push[q].k + 1
        /\ t.capture_only = push[q].capture_only /\ t.active = push[q].active
  BY <1>1, PacedThread
<1>3. push[q].pc = "send" /\ push'[q] = t /\ UNCHANGED <<g_configs, calls, done>>
  BY <1>1, <1>2 DEF SendPaced, TypeOK
<1>4. push[q].k < push[q].n /\ push[q].k \in Nat /\ push[q].n \in Nat
  BY <1>1, <1>3, Typed DEF PushInv
<1>5. 1 \in 0..push[q].n /\ push[q].k + 1 <= push[q].n
  BY <1>4
<1>6. CASE push[q].capture_only
  BY <1>2, <1>3, <1>6, SilentDelivers DEF SendPaced, CallbackInv
<1>7. CASE ~push[q].capture_only
  <2>1. wire'[q] = wire[q] \o Numbers(q, 1)
    BY <1>1, <1>7 DEF SendPaced, TypeOK
  <2> QED BY <1>2, <1>3, <1>5, <1>7, <2>1, TransmitDelivers DEF CallbackInv
<1> QED BY <1>6, <1>7

LEMMA AllDelivers ==
  ASSUME DeliveryInv, ~scenario.concurrent, scenario' = scenario, NEW q \in Queues, SendAll(q)
  PROVE  Delivers(q) /\ CallbackInv(q)'
<1>1. TypeOK /\ PushInv(q)
  BY DEF DeliveryInv, IInv, QInv
<1>2. PICK t \in Thread :
        /\ push' = [push EXCEPT ![q] = t]
        /\ t.pc = "emit" /\ t.n = push[q].n /\ t.k = push[q].n
        /\ t.capture_only = push[q].capture_only /\ t.active = push[q].active
  BY <1>1, AllThread
<1>3. push[q].pc = "send" /\ push'[q] = t /\ UNCHANGED <<g_configs, calls, done>>
  BY <1>1, <1>2 DEF SendAll, TypeOK
<1>4. push[q].k = 0 /\ push[q].n \in Nat
  BY <1>1, <1>3, Typed DEF PushInv, SendAll
<1>5. push[q].n \in 0..push[q].n /\ push[q].k + push[q].n <= push[q].n
      /\ t.k = push[q].k + push[q].n
  BY <1>2, <1>4
<1>6. CASE push[q].capture_only
  BY <1>2, <1>3, <1>6, SilentDelivers DEF SendAll, CallbackInv
<1>7. CASE ~push[q].capture_only
  <2>1. wire'[q] = wire[q] \o Numbers(q, push[q].n)
    BY <1>1, <1>7 DEF SendAll, TypeOK
  <2> QED BY <1>2, <1>3, <1>5, <1>7, <2>1, TransmitDelivers DEF CallbackInv
<1> QED BY <1>6, <1>7

LEMMA FailsDelivers ==
  ASSUME DeliveryInv, ~scenario.concurrent, scenario' = scenario, NEW q \in Queues,
         NEW m \in 0..MaxPackets, SendFails(q, m)
  PROVE  Delivers(q) /\ CallbackInv(q)'
<1> DEFINE d == Flying(q)
<1>1. TypeOK
  BY DEF DeliveryInv, IInv
<1>2. push[q].pc = "send" /\ ~push[q].capture_only /\ m < push[q].n - push[q].k
      /\ UNCHANGED <<g_configs, calls>>
  BY DEF SendFails
<1>3. push[q].n \in Nat /\ push[q].k \in Nat /\ m \in Nat
  BY <1>1, Typed
<1>4. /\ wire'[q] = wire[q] \o Numbers(q, m)
      /\ done'[q] = Append(done[q], "SEND_ERROR")
      /\ push'[q].pc = "idle"
  BY <1>1 DEF SendFails, Return, TypeOK, Idle
<1>5. InFlight(q) = {d} /\ InFlight(q)' = {}
  BY <1>2, <1>4, InFlightIs, InFlightIsNext
<1>6. d.live /\ d.n = push[q].n /\ d.k = push[q].k
  BY <1>2, FlyingIs
<1>7. m \in 0..d.n /\ d.k + m < d.n
  BY <1>2, <1>3, <1>6
<1>8. wire'[q] = wire[q] \o Delivery(q)!Numbers(d, m)
  BY <1>2, <1>3, <1>4, SameNumbers
<1> HIDE DEF d
<1>9. Delivery(q)!Fail(d, m)
  BY <1>2, <1>4, <1>5, <1>6, <1>7, <1>8 DEF Delivery!Fail
<1>10. Delivery(q)!DNext
  BY <1>5, <1>7, <1>9 DEF Delivery!DNext
<1> QED BY <1>4, <1>10 DEF Delivers, CallbackInv

\* A step that ends a push with success.
LEMMA SucceedDelivers ==
  ASSUME DeliveryInv, ~scenario.concurrent, NEW q \in Queues, push[q].pc \in {"emit", "call"},
         push'[q].pc = "idle", done'[q] = Append(done[q], "OK"), wire'[q] = wire[q],
         Logged(q)' = IF ~push[q].active THEN Logged(q)
                      ELSE Append(Logged(q), <<Frame(q), g_configs[q].callback>>)
  PROVE  Delivers(q)
<1>0. PICK d : d = Flying(q)
  OBVIOUS
<1>1. push[q].k = push[q].n
  BY DEF DeliveryInv, IInv, QInv, PushInv
<1>2. InFlight(q) = {d} /\ InFlight(q)' = {}
  BY <1>0, InFlightIs, InFlightIsNext
<1>3. /\ d.live => d.k = d.n
      /\ d.observer = (IF push[q].active THEN g_configs[q].callback ELSE Nobody)
      /\ d.observer = Nobody <=> ~push[q].active
      /\ d.n \in Nat
  BY <1>0, <1>1, FlyingIs
<1>4. 0 \in 0..d.n
  BY <1>3
<1>5. Logged(q)' = IF d.observer = Nobody THEN Logged(q)
                   ELSE Append(Logged(q), <<Delivery(q)!id, d.observer>>)
  BY <1>3 DEF Delivery!id, Frame
<1>6. Delivery(q)!Succeed(d)
  BY <1>2, <1>3, <1>5 DEF Delivery!Succeed, Logged
<1>7. \E e \in InFlight(q) : \E m \in 0..e.n : Delivery(q)!Succeed(e)
  BY <1>2, <1>4, <1>6
<1>8. Delivery(q)!DNext
  BY <1>7 DEF Delivery!DNext
<1> QED BY <1>8 DEF Delivers

LEMMA NothingDelivers ==
  ASSUME DeliveryInv, ~scenario.concurrent, scenario' = scenario, NEW q \in Queues, EmitNothing(q)
  PROVE  Delivers(q) /\ CallbackInv(q)'
<1>1. TypeOK
  BY DEF DeliveryInv, IInv
<1>2. push[q].pc = "emit" /\ ~push[q].active
  BY StaysRegistered DEF EmitNothing
<1>3. /\ done'[q] = Append(done[q], "OK") /\ push'[q].pc = "idle"
      /\ UNCHANGED <<wire, calls>>
  BY <1>1 DEF EmitNothing, Return, TypeOK, Idle
<1>4. Logged(q)' = Logged(q)
  BY <1>3 DEF Logged
<1> QED BY <1>2, <1>3, <1>4, SucceedDelivers DEF CallbackInv

\* emit_frame takes the callback the frame was accepted with.
LEMMA LookupDelivers ==
  ASSUME DeliveryInv, ~scenario.concurrent, scenario' = scenario, NEW q \in Queues, EmitLookup(q)
  PROVE  Delivers(q) /\ CallbackInv(q)'
<1>1. TypeOK /\ DOMAIN g_configs \subseteq Queues
  BY DEF DeliveryInv, IInv, TypeOK
<1>0. PICK t \in Thread :
        /\ push' = [push EXCEPT ![q] = t]
        /\ t.pc = "call" /\ t.n = push[q].n /\ t.k = push[q].k
        /\ t.active = push[q].active /\ t.capture_only = push[q].capture_only
        /\ t.callback = g_configs[q].callback
  BY <1>1, LookupThread
<1>2. /\ push[q].pc = "emit" /\ Registered(q) /\ UNCHANGED <<wire, calls, done>>
      /\ push'[q] = t
  BY <1>0, <1>1 DEF EmitLookup, TypeOK
<1>3. Registered(q)' /\ g_configs'[q].callback = g_configs[q].callback
  <2>1. g_configs[q] \in Config
    BY <1>1, <1>2, TypedConfig
  <2>2. g_configs' = [g_configs EXCEPT ![q].base = IF @ = NoTime THEN push[q].at ELSE @]
    BY DEF EmitLookup
  <2> QED BY <1>2, <2>1, <2>2 DEF Registered, Config
<1>4. Shown(q)' = Shown(q)
  BY <1>0, <1>2, <1>3 DEF Shown
<1> QED BY <1>0, <1>2, <1>3, <1>4, NothingToSee DEF CallbackInv

LEMMA LoggedGrows ==
  ASSUME NEW q, calls[q] \in Seq(Call), NEW entry, calls'[q] = Append(calls[q], entry)
  PROVE  Logged(q)' = Append(Logged(q), <<entry.frame, entry.callback>>)
<1> DEFINE n == Len(calls[q])
           e == <<entry.frame, entry.callback>>
           pair(c, i) == <<c[i].frame, c[i].callback>>
<1>0. calls[q] \in Seq(Call \cup {entry})
  OBVIOUS
<1>1. n \in Nat /\ Len(calls'[q]) = n + 1
  BY <1>0, AppendProperties, LenProperties
<1>2. \A i \in 1..(n + 1) : calls'[q][i] = IF i = n + 1 THEN entry ELSE calls[q][i]
  BY <1>0, <1>1, AppendProperties, LastOrEarlier
<1>3. Logged(q)' = [i \in 1..(n + 1) |-> IF i = n + 1 THEN e ELSE pair(calls[q], i)]
  BY <1>1, <1>2 DEF Logged
<1>4. Logged(q) = [i \in 1..n |-> pair(calls[q], i)] /\ Len(Logged(q)) = n
  BY <1>1 DEF Logged
<1>5. ASSUME NEW i \in 1..(n + 1), i # n + 1 PROVE Logged(q)[i] = pair(calls[q], i)
  BY <1>1, <1>4, <1>5
<1>6. Append(Logged(q), e) = [i \in 1..(n + 1) |-> IF i = n + 1 THEN e ELSE Logged(q)[i]]
  BY <1>1, <1>4
<1> HIDE DEF e, pair, n
<1> QED BY <1>3, <1>5, <1>6 DEF e

LEMMA CallDelivers ==
  ASSUME DeliveryInv, ~scenario.concurrent, scenario' = scenario, NEW q \in Queues, CallBack(q)
  PROVE  Delivers(q) /\ CallbackInv(q)'
<1> DEFINE p == push[q]
           offset == IF p.at >= p.base THEN p.at - p.base ELSE 0
           entry == [frame |-> Frame(q), callback |-> p.callback, reg |-> p.reg,
                     offset |-> offset, at |-> p.at]
<1>1. TypeOK
  BY DEF DeliveryInv, IInv
<1>2. /\ push[q].pc = "call"
      /\ done'[q] = Append(done[q], "OK") /\ push'[q].pc = "idle"
      /\ UNCHANGED <<g_configs, wire>>
  BY <1>1 DEF CallBack, Return, TypeOK, Idle
<1>3. push[q].active /\ g_configs[q].callback = push[q].callback
  BY <1>2 DEF DeliveryInv, CallbackInv, IInv, QInv, PushInv
<1>4. calls'[q] = Append(calls[q], entry)
  BY <1>1 DEF CallBack, TypeOK
<1>5. calls[q] \in Seq(Call) /\ Len(calls[q]) \in Nat
  BY <1>1, Typed
<1>6. entry.frame = Frame(q) /\ entry.callback = push[q].callback
  OBVIOUS
<1> HIDE DEF entry
<1>7. Logged(q)' = Append(Logged(q), <<Frame(q), g_configs[q].callback>>)
  BY <1>3, <1>4, <1>5, <1>6, LoggedGrows
<1> QED BY <1>2, <1>3, <1>7, SucceedDelivers DEF CallbackInv

-----------------------------------------------------------------------------
\* One step of any queue, seen by all.
LEMMA StepDelivers ==
  ASSUME DeliveryInv, ~scenario.concurrent, [Next]_vars
  PROVE  \A q \in Queues : Delivers(q) /\ CallbackInv(q)'
<1>0. TypeOK /\ scenario.queues \subseteq Queues
  BY CaptureBounds DEF DeliveryInv, IInv, TypeOK
<1>1. CASE UNCHANGED vars \/ (Tick /\ scenario' = scenario)
  <2>1. scenario' = scenario /\ \A r \in Queues : Same(r)
    BY <1>1 DEF vars, Tick, Same
  <2> QED BY <2>1, OthersSeeNothing
<1>2. ASSUME NEW q \in scenario.queues, Configure(q) \/ Flush(q), scenario' = scenario
      PROVE  \A r \in Queues : Delivers(r) /\ CallbackInv(r)'
  <2>1. \A r \in Queues \ {q} : Same(r)
    BY <1>0, <1>2, FlushesOneQueue, ConfiguresOneQueue
  <2>2. \A r \in Queues \ {q} : Delivers(r) /\ CallbackInv(r)'
    BY <1>2, <2>1, OthersSeeNothing
  <2>3. Delivers(q) /\ CallbackInv(q)'
    BY <1>0, <1>2, ConfigureDelivers, PrepareDelivers, PacedDelivers, AllDelivers, FailsDelivers,
       NothingDelivers, LookupDelivers, CallDelivers DEF Flush
  <2> QED BY <2>2, <2>3
<1> QED BY <1>1, <1>2 DEF Next

\* Each queue implements FrameDelivery, step by step, as long as it is
\* configured between frames.
THEOREM QueuesImplementDelivery == Spec => QueuesDeliver
<1>1. Init => IInv /\ \A q \in Queues : CallbackInv(q)
  BY InitEstablishes, IdleThread DEF Init, CallbackInv
<1>2. DeliveryInv /\ [Next]_vars => DeliveryInv'
  <2> SUFFICES ASSUME DeliveryInv, [Next]_vars PROVE DeliveryInv'
    OBVIOUS
  <2>1. IInv'
    BY NextPreserves DEF DeliveryInv
  <2>2. scenario' = scenario
    BY DEF Next, vars
  <2>3. \A q \in Queues : CallbackInv(q)'
    BY <2>2, StepDelivers DEF CallbackInv
  <2> QED BY <2>1, <2>3 DEF DeliveryInv
<1>3. DeliveryInv /\ [Next]_vars =>
        [scenario.concurrent
           \/ \A q \in Queues : [Delivery(q)!DNext]_(Delivery(q)!dvars)]_vars
  BY StepDelivers DEF Delivers
<1>4. Init => \A q \in Queues : Delivery(q)!DInit
  <2>1. ASSUME Init, NEW q \in Queues PROVE DeliversInit(q)
    <3>1. InFlight(q) = {}
      BY <2>1, InFlightIs, IdleThread DEF Init
    <3>2. calls[q] = <<>> /\ wire[q] = <<>> /\ done[q] = <<>>
      BY <2>1 DEF Init
    <3> QED BY <3>1, <3>2 DEF DeliversInit, Delivery!DInit
  <2> QED BY <2>1, Zenon DEF DeliversInit
<1>5. Init => DeliveryInv
  BY <1>1 DEF DeliveryInv
<1> QED BY <1>2, <1>3, <1>4, <1>5, PTL DEF Spec, QueuesDeliver
=============================================================================
