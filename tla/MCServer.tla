------------------------------ MODULE MCServer ------------------------------
(* Small instances of the server for TLC. *)
EXTENDS ServerObs, TLC

CONSTANTS e1, e2, e3, e4, anna, bob, carl, dora

\* One address and one name more than there are slots, so that a Hello can
\* find the server full although its name is free.
MCEndpoint == {e1, e2, e3, e4}
MCName     == {NoName, anna, bob, carl, dora}

\* Addresses are interchangeable, and so are the names that are not empty.
Symmetric == Permutations(MCEndpoint) \cup Permutations({anna, bob, carl, dora})
=============================================================================
