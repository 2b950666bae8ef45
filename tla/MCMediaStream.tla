--------------------------- MODULE MCMediaStream ---------------------------
(***************************************************************************)
(* Streams with and without user-managed keys, ZRTP and authentication;    *)
(* a header of two units (IPv4) or three (IPv6) in an MTU of six.  Every   *)
(* flag and one that is none gets a value that is not positive, one within *)
(* all limits and one beyond them; frame rate and pace, whose values are   *)
(* not looked at, get one.                                                 *)
(***************************************************************************)
EXTENDS MediaStream

ManyKinds == {{}, {"RECEIVE_ONLY"}, {"SRTP", "ZRTP"}, {"SRTP", "KMNGMNT_USER"},
              {"KMNGMNT_USER"}, {"SRTP", "ZRTP", "AUTHENTICATE_RTP"},
              {"SRTP", "KMNGMNT_USER", "AUTHENTICATE_RTP"}}

Rates == FpsFlags \cup PaceFlags
ManySettings == (((ConfigFlags \cup {"unknown"}) \ Rates) \X {0, 4, 9}) \cup (Rates \X {4})
SmallLimits == [flag \in Limited |-> 8]
=============================================================================
