----------------------------- MODULE SendReceive -----------------------------
(***************************************************************************)
(* A sender and a polling receiver, with the network between them: a frame *)
(* that was pushed is lost or reaches the receiver's queue, in any order.  *)
(***************************************************************************)
EXTENDS Sender, PollingReceiver

VARIABLE net  \* positions in pushed of the frames under way

vars == <<senderVars, receiverVars, net>>

\* push_frame gives the frame to the network.
Send == Push /\ net' = net \cup {Len(pushed')} /\ UNCHANGED receiverVars

Lose == \E f \in net : net' = net \ {f} /\ UNCHANGED <<senderVars, receiverVars>>

Deliver == \E f \in net :
  Arrive(f) /\ net' = net \ {f} /\ UNCHANGED senderVars

Init == SenderInit /\ ReceiverInit /\ net = {}

Next ==
  \/ SenderStep /\ UNCHANGED <<receiverVars, net>>
  \/ ReceiverStep /\ UNCHANGED <<senderVars, net>>
  \/ Send \/ Lose \/ Deliver

\* Each program runs on; nothing is asked of the network.
Fairness ==
  /\ WF_vars(SenderStep /\ UNCHANGED <<receiverVars, net>>)
  /\ WF_vars(ReceiverStep /\ UNCHANGED <<senderVars, net>>)
  /\ WF_vars(Send)

Spec == Init /\ [][Next]_vars /\ Fairness

-----------------------------------------------------------------------------
(* Properties *)

\* With both time-outs given the receiver returns, whatever becomes of the
\* sender and of its frames: the sender ends, and from then on every poll in
\* vain counts towards --total-timeout-ms.
ReceiverReturns == opt.wait > 0 /\ opt.total > 0 => <>(poll = "done")
=============================================================================
