--------------------------- MODULE PollingReceiver ---------------------------
(***************************************************************************)
(* The receiver that polls ("simple_receiver copy.cpp"): one thread pulls  *)
(* frames, counts them, and gives up when no frame has come for a time.    *)
(* The queue that pull_frame waits on is uvgRTP's and external: inbox.     *)
(***************************************************************************)
EXTENDS Integers, Sequences

CONSTANTS
  CommandLines  \* [max_frames, wait, total], the times in polls

ASSUME CommandLinesAssumption ==
  \A o \in CommandLines :
    o.max_frames \in {-1} \cup Nat /\ o.wait \in Nat /\ o.total \in Nat

VARIABLES
  opt,      \* the command line
  poll,     \* start, loop, pull, check, done
  inbox,    \* frames of the stream that wait to be pulled
  received,
  elapsed,  \* time since last_progress; not counted beyond total
  exitCode

receiverVars == <<opt, poll, inbox, received, elapsed, exitCode>>

NoCode == -1
Return(code) == poll' = "done" /\ exitCode' = code

\* Time that passes; more than total_timeout_ms makes no difference.
After(d) == IF elapsed + d > opt.total THEN opt.total ELSE elapsed + d

\* The session and the stream are created, or not.
Listen ==
  /\ poll = "start"
  /\ poll' = "loop"
  /\ UNCHANGED <<opt, inbox, received, elapsed, exitCode>>

ListenFails ==
  /\ poll = "start"
  /\ \E code \in {2, 3} : Return(code)
  /\ UNCHANGED <<opt, inbox, received, elapsed>>

\* The condition of the loop.
Loop ==
  /\ poll = "loop"
  /\ IF opt.max_frames < 0 \/ received < opt.max_frames
     THEN poll' = "pull" /\ UNCHANGED exitCode
     ELSE Return(0)
  /\ UNCHANGED <<opt, inbox, received, elapsed>>

\* pull_frame returns a frame: it is counted, and is progress.
Pull ==
  /\ poll = "pull" /\ inbox # <<>>
  /\ inbox' = Tail(inbox)
  /\ received' = received + 1
  /\ elapsed' = 0
  /\ poll' = "loop"
  /\ UNCHANGED <<opt, exitCode>>

\* pull_frame(wait_timeout_ms) returns null.  Without a wait_timeout_ms
\* pull_frame() is called, which does not return before a frame comes.
PullTimesOut ==
  /\ poll = "pull" /\ inbox = <<>> /\ opt.wait > 0
  /\ elapsed' = After(opt.wait)
  /\ poll' = "check"
  /\ UNCHANGED <<opt, inbox, received, exitCode>>

\* Mutant: every null counts as progress.
CheckTotal_Resets ==
  /\ poll = "check"
  /\ IF opt.total > 0 /\ elapsed >= opt.total
     THEN Return(IF received > 0 THEN 0 ELSE 4) /\ UNCHANGED elapsed
     ELSE poll' = "loop" /\ elapsed' = 0 /\ UNCHANGED exitCode
  /\ UNCHANGED <<opt, inbox, received>>

CheckTotal ==
  /\ poll = "check"
  /\ IF opt.total > 0 /\ elapsed >= opt.total
     THEN Return(IF received > 0 THEN 0 ELSE 4)
     ELSE poll' = "loop" /\ UNCHANGED exitCode
  /\ UNCHANGED <<opt, inbox, received, elapsed>>

\* The reception thread queues a frame.
Arrive(frame) ==
  /\ poll \notin {"start", "done"}
  /\ inbox' = Append(inbox, frame)
  /\ UNCHANGED <<opt, poll, received, elapsed, exitCode>>

ReceiverInit ==
  /\ opt \in CommandLines
  /\ poll = "start" /\ inbox = <<>> /\ received = 0 /\ elapsed = 0
  /\ exitCode = NoCode

ReceiverStep ==
  Listen \/ ListenFails \/ Loop \/ Pull \/ PullTimesOut \/ CheckTotal
=============================================================================
