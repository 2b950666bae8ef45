------------------------------ MODULE ZrtpStart ------------------------------
(***************************************************************************)
(* media_stream::start_zrtp run by several streams that share the zrtp     *)
(* object of their session, each in a thread of its own.  A Diffie-Hellman *)
(* stream negotiates at once; a multistream-mode (MSM) stream waits for    *)
(* the Diffie-Hellman keys and for the lock of the zrtp object, at most    *)
(* ten seconds each.  The zrtp object is external: a flag that says that   *)
(* DH has finished, and a lock that try_lock_zrtp takes and unlock_zrtp    *)
(* opens, whoever calls it.                                                *)
(***************************************************************************)
CONSTANTS
  DH,   \* streams that perform Diffie-Hellman
  MSM   \* streams with RCE_ZRTP_MULTISTREAM_MODE

ASSUME ModesAssumption == DH \cap MSM = {}

Streams == DH \cup MSM

VARIABLES
  pc,           \* wait_dh, wait_lock, negotiate, unlock, done
  result,       \* what start_zrtp returned
  dh_finished,
  locked,
  stray         \* history: has a stream opened a lock it did not take?

zrtpVars == <<pc, result, dh_finished, locked, stray>>

HoldsLock(s) == s \in MSM /\ pc[s] \in {"negotiate", "unlock"}

UnlockZrtp(s) ==
  /\ locked' = FALSE
  /\ stray' = (stray \/ (locked /\ ~HoldsLock(s)))

Goto(s, label) == pc' = [pc EXCEPT ![s] = label]

-----------------------------------------------------------------------------
\* Mutant: a failed start leaves the lock alone.
Fail_KeepsLock(s, value) ==
  /\ result' = [result EXCEPT ![s] = value]
  /\ Goto(s, "done")
  /\ UNCHANGED <<locked, stray, dh_finished>>

\* free_resources unlocks the zrtp object.
Fail(s, value) ==
  /\ result' = [result EXCEPT ![s] = value]
  /\ Goto(s, "done")
  /\ UnlockZrtp(s)
  /\ UNCHANGED dh_finished

\* Mutant: the flag is not asked for.
SeeDHFinished_Always(s) ==
  /\ pc[s] = "wait_dh"
  /\ Goto(s, "wait_lock")
  /\ UNCHANGED <<result, dh_finished, locked, stray>>

SeeDHFinished(s) ==
  /\ pc[s] = "wait_dh"
  /\ dh_finished
  /\ Goto(s, "wait_lock")
  /\ UNCHANGED <<result, dh_finished, locked, stray>>

\* Mutant: the lock is taken whether it is free or not.
TryLock_Always(s) ==
  /\ pc[s] = "wait_lock"
  /\ locked' = TRUE
  /\ Goto(s, "negotiate")
  /\ UNCHANGED <<result, dh_finished, stray>>

TryLock(s) ==
  /\ pc[s] = "wait_lock"
  /\ ~locked
  /\ locked' = TRUE
  /\ Goto(s, "negotiate")
  /\ UNCHANGED <<result, dh_finished, stray>>

\* Ten seconds have passed in one of the two waiting loops.
GiveUp(s) ==
  /\ pc[s] \in {"wait_dh", "wait_lock"}
  /\ Fail(s, "TIMEOUT")

\* zrtp::init and both init_srtp_with_zrtp succeed; the keys of a DH stream
\* let the others start.
Negotiate(s) ==
  /\ pc[s] = "negotiate"
  /\ dh_finished' = (dh_finished \/ s \in DH)
  /\ Goto(s, "unlock")
  /\ UNCHANGED <<result, locked, stray>>

NegotiateFails(s) ==
  /\ pc[s] = "negotiate"
  /\ Fail(s, "GENERIC_ERROR")

Finish(s) ==
  /\ pc[s] = "unlock"
  /\ UnlockZrtp(s)
  /\ result' = [result EXCEPT ![s] = "OK"]
  /\ Goto(s, "done")
  /\ UNCHANGED dh_finished

\* Mutant: nothing limits the wait for the keys.
Step_Patient(s) ==
  \/ SeeDHFinished(s) \/ TryLock(s) \/ Negotiate(s) \/ NegotiateFails(s) \/ Finish(s)

Step(s) ==
  \/ SeeDHFinished(s) \/ TryLock(s) \/ GiveUp(s)
  \/ Negotiate(s) \/ NegotiateFails(s) \/ Finish(s)

-----------------------------------------------------------------------------
ZrtpInit ==
  /\ pc = [s \in Streams |-> IF s \in DH THEN "negotiate" ELSE "wait_dh"]
  /\ result = [s \in Streams |-> "PENDING"]
  /\ dh_finished = FALSE
  /\ locked = FALSE
  /\ stray = FALSE

ZrtpNext == \E s \in Streams : Step(s)

ZrtpSpec == ZrtpInit /\ [][ZrtpNext]_zrtpVars

\* Every thread runs and time passes; the negotiation itself ends (zrtp::init
\* gives up by itself).
FairZrtpSpec == ZrtpSpec /\ \A s \in Streams : WF_zrtpVars(Step(s))

-----------------------------------------------------------------------------
(* Properties *)

\* The variables stay in their types.
ZrtpTypeOK ==
  /\ pc \in [Streams -> {"wait_dh", "wait_lock", "negotiate", "unlock", "done"}]
  /\ result \in [Streams -> {"PENDING", "OK", "TIMEOUT", "GENERIC_ERROR"}]
  /\ {dh_finished, locked, stray} \subseteq BOOLEAN
  /\ \A s \in Streams : pc[s] = "done" <=> result[s] # "PENDING"

Negotiating == {s \in MSM : pc[s] = "negotiate"}

\* An MSM stream negotiates only when a Diffie-Hellman stream has its keys
\* (comment at media_stream.cc:446); without one, none succeeds.
OnlyAfterDH ==
  /\ Negotiating # {} => \E d \in DH : pc[d] = "unlock" \/ result[d] = "OK"
  /\ \A s \in MSM : result[s] = "OK" => \E d \in DH : pc[d] = "unlock" \/ result[d] = "OK"

\* The lock is free when all streams have started or failed: none that is
\* created later waits in vain.
LockReleased == (\A s \in Streams : pc[s] = "done") => ~locked

\* "If ZRTP is already performing an MSM negotiation, wait for it to complete
\* before starting a new one" (media_stream.cc:421).
OneMultistream == \A s, t \in Negotiating : s = t

\* That rule holds until a stream that did not take the lock opens it: a DH
\* stream at its end, or one that fails before it has the lock.
OneMultistreamUntilStray == stray \/ OneMultistream

\* Every start returns.
StartsReturn == <>(\A s \in Streams : pc[s] = "done")
=============================================================================
