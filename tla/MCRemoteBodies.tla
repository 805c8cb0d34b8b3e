--------------------------- MODULE MCRemoteBodies ---------------------------
(* Small instances of the remote bodies for TLC. *)
EXTENDS RemoteBodies

TwoPlayers == {1, 2}
OnePlayer  == {1}
=============================================================================
