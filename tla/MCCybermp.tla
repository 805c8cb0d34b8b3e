----------------------------- MODULE MCCybermp -----------------------------
(* A small instance of the whole system for TLC: anna connects twice, and  *)
(* bob once, for two slots.                                                *)
EXTENDS Cybermp, TLC

CONSTANTS a1, a2, b1, anna, bob

MCEndpoint == {a1, a2, b1}
MCName     == {NoName, anna, bob}
MCNameOf   == (a1 :> anna) @@ (a2 :> anna) @@ (b1 :> bob)
=============================================================================
