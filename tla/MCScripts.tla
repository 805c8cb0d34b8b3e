----------------------------- MODULE MCScripts -----------------------------
(* An instance of Scripts: two of the three events, two scripts. *)
EXTENDS Scripts
=============================================================================
