---------------------------- MODULE MCZrtpStart ----------------------------
(***************************************************************************)
(* Two Diffie-Hellman streams and three in multistream mode: enough for a  *)
(* stray unlock while one MSM stream negotiates and others wait.           *)
(***************************************************************************)
EXTENDS ZrtpStart
=============================================================================
