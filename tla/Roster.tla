------------------------------- MODULE Roster -------------------------------
(***************************************************************************)
(* What the server promises about who is connected, with nothing of how:   *)
(* players come and go one at a time, an id is never given out twice, and  *)
(* a player keeps its address and its name for as long as it is in.        *)
(***************************************************************************)
EXTENDS Naturals, FiniteSets

CONSTANTS Endpoint, Name, NoName, MaxPlayers

VARIABLES
    member,     \* id -> who that is
    last        \* the last id given out, 0 before the first

vars == <<member, last>>

Who == [username: Name \ {NoName}, endpoint: Endpoint]

Init == member = [i \in {} |-> {}] /\ last = 0

Join(w) ==
    /\ Cardinality(DOMAIN member) < MaxPlayers
    /\ \A i \in DOMAIN member : /\ member[i].username # w.username
                                /\ member[i].endpoint # w.endpoint
    /\ last' = last + 1
    /\ member' = [i \in DOMAIN member \cup {last + 1} |->
                    IF i = last + 1 THEN w ELSE member[i]]

Leave(i) ==
    /\ member' = [j \in DOMAIN member \ {i} |-> member[j]]
    /\ UNCHANGED last

Next == (\E w \in Who : Join(w)) \/ (\E i \in DOMAIN member : Leave(i))

Spec == Init /\ [][Next]_vars
=============================================================================
