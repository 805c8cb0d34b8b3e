---------------------------- MODULE MCKeepalive ----------------------------
(* Keepalive with the constants of the code in units of 250 ms.            *)
EXTENDS Keepalive
=============================================================================
