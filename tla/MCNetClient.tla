---------------------------- MODULE MCNetClient ----------------------------
(* Small instances of the client's connection for TLC. *)
EXTENDS NetClient

OnePlayer == {1}
=============================================================================
