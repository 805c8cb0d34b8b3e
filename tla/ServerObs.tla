----------------------------- MODULE ServerObs -----------------------------
(***************************************************************************)
(* The server as its peers and its scripts see it: history variables that  *)
(* read nothing but the datagrams and callbacks of each step (out, event), *)
(* and the properties that relate what was told to what is so.             *)
(***************************************************************************)
EXTENDS Server

VARIABLES
    told,       \* id -> the players its client has been told are in
    scripted,   \* the players the scripts believe are in
    relayed,    \* id -> 1 + the tick of its last relayed snapshot, or 0
    asked,      \* the players in for whom a kick was ever queued
    due         \* those of them asked for by the last tick callback's end

obsVars == <<sessions, nextId, kicks, draining, pc, out, event, told, scripted, relayed,
             asked, due>>

Ids(queue) == {queue[k] : k \in DOMAIN queue}

\* What the datagrams of set o say to endpoint e.
SaysJoined(o, e) == {i \in 1 .. MaxId : \E d \in o :
    d.to = e /\ d.msg.type = "NotifyPlayerJoined" /\ d.msg.playerId = i}
SaysLeft(o, e)   == {i \in 1 .. MaxId : \E d \in o :
    d.to = e /\ d.msg.type = "NotifyPlayerLeft" /\ d.msg.playerId = i}

Before(f, i, none) == IF i \in DOMAIN f THEN f[i] ELSE none

\* A client that just got its session starts from nothing.
Observe ==
    /\ told' = [i \in DOMAIN sessions' |->
          (Before(told, i, {}) \cup SaysJoined(out', sessions'[i].endpoint))
              \ SaysLeft(out', sessions'[i].endpoint)]
    /\ scripted' = CASE event'.kind = "join"  -> scripted \cup {event'.id}
                     [] event'.kind = "leave" -> scripted \ {event'.id}
                     [] OTHER                 -> scripted
    /\ relayed' = [i \in DOMAIN sessions' |->
          IF \E d \in out' : d.msg.type = "NotifyPlayerState" /\ d.msg.playerId = i
          THEN 1 + (CHOOSE t \in Tick : \E d \in out' : d.msg = State(i, t))
          ELSE Before(relayed, i, 0)]
    /\ asked' = (asked \cup Ids(kicks') \cup Ids(draining')) \cap DOMAIN sessions'
    /\ due' = (IF event'.kind = "tick" THEN asked' ELSE due) \cap DOMAIN sessions'

ObsInit ==
    /\ Init
    /\ told = <<>> /\ scripted = {} /\ relayed = <<>>
    /\ asked = {} /\ due = {}
ObsNext == Next /\ Observe
ObsSpec == ObsInit /\ [][ObsNext]_obsVars

-----------------------------------------------------------------------------
(* Safety.                                                                 *)

\* Every connected client has been told of exactly the other connected ones:
\* the roster and the broadcasts of HandleHello and the leave broadcasts of
\* expiry and kicks never leave a player unannounced or announced for good.
ToldRoster ==
    /\ DOMAIN told = Live
    /\ \A i \in Live : told[i] = Live \ {i}

\* The scripts' joins and leaves pair up, and at every callback Count() is
\* the number of players the scripts have been told of, this one included
\* or excluded: "one at a time so Count() is accurate" (main.cpp).
ScriptsSeeRoster == scripted = Live

\* A kick a script asked for by the end of a tick callback has been carried
\* out when the loop waits for the next datagram, also one that was asked for
\* from a leave callback in the middle of the drain of the iteration before,
\* and whatever the other kicks in the queue do.
KicksCarriedOut == pc \in {"recv", "top"} => due = {}

\* Snapshots of a player are relayed in the order of their ticks, each tick
\* at most once, although datagrams arrive in any order and repeated, and a
\* second session of the same peer starts over.
RelaysAdvance ==
    [][\A d \in out' : d.msg.type = "NotifyPlayerState" =>
          d.msg.tick >= relayed[d.msg.playerId]]_obsVars

\* A snapshot goes to everyone who has been told of its player and to nobody
\* else: not to the player itself, and to no client that cannot place it.
RelayReachesTold ==
    [][\A d \in out' : d.msg.type = "NotifyPlayerState" =>
          {x.to : x \in out'} =
              {sessions[j].endpoint :
                  j \in {k \in Live \ {d.msg.playerId} : d.msg.playerId \in told[k]}}]_obsVars

-----------------------------------------------------------------------------
(* Refinement.                                                             *)

Members == [i \in Live |->
    [username |-> sessions[i].username, endpoint |-> sessions[i].endpoint]]

R == INSTANCE Roster WITH member <- Members, last <- nextId - 1

\* The server implements Roster: in every step at most one player comes or
\* goes, nobody's id is ever given out again, and no session changes hands.
RosterSpec == R!Spec
=============================================================================
