----------------------------- MODULE Keepalive -----------------------------
(***************************************************************************)
(* One connected client and its session on the server, in time: pings,     *)
(* pongs and the two timeouts (NetClient::Run, main and TakeNextTimedOut). *)
(*                                                                         *)
(* Time passes in units.  Each loop reads the clock once per turn, on top, *)
(* and uses that reading for what it receives at the turn's end, so what   *)
(* is noted as the time of a datagram may be a whole turn old.  A turn is  *)
(* the work of the loop and its wait for one datagram; a reading of the    *)
(* clock follows at once.  A datagram arrives within Latency and then      *)
(* waits in the socket for a turn to end with it.                          *)
(*                                                                         *)
(* The player stands in no world and is alone: there are no snapshots,     *)
(* which are signs of life on top of the pings.                            *)
(*                                                                         *)
(* Every time is kept as the age of what happened then.  A ping carries    *)
(* the time it was sent at and the pong brings it back (sentAt); an age    *)
(* stands still once the process that would read it is gone.               *)
(***************************************************************************)
EXTENDS Naturals, Sequences

CONSTANTS
    PingInterval,   \* kPingIntervalMs
    ClientTimeout,  \* kServerTimeoutMs
    ServerTimeout,  \* kTimeoutMs
    ClientTurn,     \* the longest turn of the client's loop, kPollMs and more
    ServerTurn,     \* the longest turn of the server's loop, kPollMs and more
    LongTurn,       \* the longest turn with a script that holds the loop up
    Latency,        \* the longest way of a datagram
    MaxLost         \* datagrams lost before the client hears the server again

ASSUME TimesAssumption ==
    /\ {PingInterval, ClientTimeout, ServerTimeout, ClientTurn, ServerTurn} \subseteq Nat \ {0}
    /\ LongTurn \in Nat /\ LongTurn >= ServerTurn
    /\ Latency \in Nat /\ MaxLost \in Nat

\* Both loops turn more often than a ping is sent: kPollMs is a quarter of
\* kPingIntervalMs.
ASSUME TurnsAssumption == ClientTurn <= PingInterval /\ ServerTurn <= PingInterval

\* The most pongs on their way at once: those of the pings that came while the
\* server's loop was held up.
MostPongs == 1 + (2 * Latency + LongTurn + ClientTurn) \div PingInterval

\* The longest time from one ping to the next that is not lost.
PingGap == (MaxLost + 1) * (PingInterval + ClientTurn)

\* Of the timeouts it is asked that they are longer than that gap, the way of
\* the datagrams and the one long turn, and what a loop needs to read them all.
ASSUME TimeoutsAssumption ==
    /\ ClientTimeout > PingGap + 2 * Latency + LongTurn
    /\ ServerTimeout > PingGap + 2 * Latency + LongTurn + MostPongs * ClientTurn

VARIABLES
    client,         \* "poll" or "top" of Run, or "gone"
    clientNow,      \* time since the client read its clock
    sincePing,      \* time since lastPingAt
    sinceServer,    \* time since lastServerAt
    server,         \* "turn", "long" or "top" of the loop, or "stopped"
    serverNow,      \* time since the server read its clock
    session,        \* whether the client's session is in the table
    sinceSeen,      \* time since lastSeenMs
    longUsed,       \* whether there was a long turn
    up,             \* the pings on their way, in order: time since sentAt
    down,           \* the pongs: time since the sentAt they echo, and own age
    lost,           \* how many were lost since the client heard the server
    fault,          \* what happened to the connection
    since           \* the time since then

clientVars == <<client, clientNow, sincePing, sinceServer>>
serverVars == <<server, serverNow, session, sinceSeen, longUsed>>
netVars    == <<up, down, lost>>
faultVars  == <<fault, since>>
vars       == <<clientVars, serverVars, netVars, faultVars>>

Connected == client # "gone"

\* So long after the connection broke both sides have noticed.
ClientNoticeTime == ClientTimeout + Latency + MostPongs * ClientTurn
ServerNoticeTime == ServerTimeout + Latency + LongTurn

\* The client has just been told that it is in.
Init ==
    /\ client = "top" /\ clientNow = 0
    /\ sincePing = PingInterval /\ sinceServer = 0
    /\ server = "top" /\ serverNow = 0
    /\ session = TRUE /\ sinceSeen \in 0 .. Latency
    /\ longUsed = FALSE
    /\ up = <<>> /\ down = <<>>
    /\ lost = 0
    /\ fault = "none" /\ since = 0

-----------------------------------------------------------------------------
(* The network and time.                                                   *)

\* The line with one more datagram on it, or the same if that is lost.
Send(line, datagram, line2) ==
    \/ fault # "cut" /\ line2 = Append(line, datagram) /\ UNCHANGED lost
    \/ fault = "cut" /\ line2 = line /\ UNCHANGED lost
    \/ fault # "cut" /\ lost < MaxLost /\ line2 = line /\ lost' = lost + 1

PingArrived == up # <<>> /\ Head(up) >= Latency

PongArrived == down # <<>> /\ Head(down).age >= Latency

\* Neither loop stands on top, and no turn is at its longest.
Pass ==
    /\ client = "poll" => clientNow < ClientTurn
    /\ server = "turn" => serverNow < ServerTurn
    /\ server = "long" => serverNow < LongTurn
    /\ client # "top" /\ server # "top"
    /\ IF Connected
       THEN /\ clientNow' = clientNow + 1
            /\ sincePing' = sincePing + 1
            /\ sinceServer' = sinceServer + 1
            /\ down' = [k \in DOMAIN down |->
                          [sentAt |-> down[k].sentAt + 1, age |-> down[k].age + 1]]
       ELSE UNCHANGED <<clientNow, sincePing, sinceServer, down>>
    /\ IF server # "stopped"
       THEN /\ serverNow' = serverNow + 1
            /\ sinceSeen' = IF session THEN sinceSeen + 1 ELSE sinceSeen
            /\ up' = [k \in DOMAIN up |-> up[k] + 1]
       ELSE UNCHANGED <<serverNow, sinceSeen, up>>
    /\ since' = IF fault # "none" /\ (since < ClientNoticeTime \/ since < ServerNoticeTime)
                THEN since + 1 ELSE since
    /\ UNCHANGED <<client, server, session, longUsed, lost, fault>>

-----------------------------------------------------------------------------
(* The client.                                                             *)

PingDue == sincePing >= PingInterval

ServerSilent == sinceServer >= ClientTimeout

\* (mutated) What is sent counts as a sign of life.
ClientTopMisplaced ==
    /\ client = "top"
    /\ clientNow' = 0
    /\ \/ PingDue /\ Send(up, 0, up') /\ sincePing' = 0 /\ sinceServer' = 0
       \/ ~PingDue /\ UNCHANGED <<up, lost, sincePing, sinceServer>>
    /\ client' = IF ServerSilent THEN "gone" ELSE "poll"
    /\ UNCHANGED <<serverVars, down, faultVars>>

\* The top of Run: the timers, in this order, with one reading of the clock.
ClientTop ==
    /\ client = "top"
    /\ clientNow' = 0
    /\ \/ PingDue /\ Send(up, 0, up') /\ sincePing' = 0
       \/ ~PingDue /\ UNCHANGED <<up, lost, sincePing>>
    /\ client' = IF ServerSilent THEN "gone" ELSE "poll"
    /\ UNCHANGED <<sinceServer, serverVars, down, faultVars>>

\* (mutated) A datagram is taken and its time is not noted.
ClientReceivesUnnoted ==
    /\ client = "poll" /\ down # <<>>
    /\ down' = Tail(down)
    /\ lost' = 0
    /\ client' = "top"
    /\ UNCHANGED <<clientNow, sincePing, sinceServer, serverVars, up, faultVars>>

ClientReceives ==
    /\ client = "poll" /\ down # <<>>
    /\ down' = Tail(down)
    /\ sinceServer' = clientNow
    /\ lost' = 0
    /\ client' = "top"
    /\ UNCHANGED <<clientNow, sincePing, serverVars, up, faultVars>>

ClientPollEnds ==
    /\ client = "poll" /\ clientNow > 0
    /\ ~PongArrived
    /\ client' = "top"
    /\ UNCHANGED <<clientNow, sincePing, sinceServer, serverVars, netVars, faultVars>>

-----------------------------------------------------------------------------
(* The server.                                                             *)

Expired == sinceSeen >= ServerTimeout

\* The top of the loop: the clock, then the expired sessions, then what the
\* scripts do, which may take long.
ServerTop ==
    /\ server = "top"
    /\ serverNow' = 0
    /\ session' = (session /\ ~Expired)
    /\ \/ server' = "turn" /\ UNCHANGED longUsed
       \/ server' = "long" /\ ~longUsed /\ longUsed' = TRUE
    /\ UNCHANGED <<sinceSeen, clientVars, netVars, faultVars>>

InTurn == server \in {"turn", "long"}

\* A ping: Touch with the reading on top, and the pong if the peer is known.
ServerReceives ==
    /\ InTurn /\ up # <<>>
    /\ up' = Tail(up)
    /\ sinceSeen' = IF session THEN serverNow ELSE sinceSeen
    /\ \/ session /\ Send(down, [sentAt |-> Head(up), age |-> 0], down')
       \/ ~session /\ UNCHANGED <<down, lost>>
    /\ server' = "top"
    /\ UNCHANGED <<serverNow, session, longUsed, clientVars, faultVars>>

\* (mutated) A poll in which nothing came is taken up again.
ServerPollsAgain ==
    /\ InTurn /\ serverNow > 0
    /\ ~PingArrived
    /\ server' = "turn" /\ serverNow' = 0
    /\ UNCHANGED <<session, sinceSeen, longUsed, clientVars, netVars, faultVars>>

\* A poll in which nothing came ends the turn, "so timeouts still get checked".
ServerPollEnds ==
    /\ InTurn /\ serverNow > 0
    /\ ~PingArrived
    /\ server' = "top"
    /\ UNCHANGED <<serverNow, session, sinceSeen, longUsed, clientVars, netVars, faultVars>>

-----------------------------------------------------------------------------
(* What may happen to a connection, once.                                  *)

Happens(what) ==
    /\ fault = "none"
    /\ fault' = what
    /\ since' = 0

\* The network between them goes away, with all that is in flight.
Cut ==
    /\ Happens("cut")
    /\ up' = <<>> /\ down' = <<>>
    /\ UNCHANGED <<clientVars, serverVars, lost>>

\* Disconnect, or the game ends: the server is not told.
Quit ==
    /\ Happens("quit")
    /\ client' = "gone"
    /\ UNCHANGED <<clientNow, sincePing, sinceServer, serverVars, netVars>>

\* SIGINT: the clients are not told.
StopServer ==
    /\ server = "top"
    /\ Happens("stop")
    /\ server' = "stopped"
    /\ UNCHANGED <<serverNow, session, sinceSeen, longUsed, clientVars, netVars>>

\* A script kicks the player: everyone else is told.
Kick ==
    /\ server = "top"
    /\ Happens("kick")
    /\ session' = FALSE
    /\ UNCHANGED <<server, serverNow, sinceSeen, longUsed, clientVars, netVars>>

Next ==
    \/ Pass
    \/ ClientTop \/ ClientReceives \/ ClientPollEnds
    \/ ServerTop \/ ServerReceives \/ ServerPollEnds
    \/ Cut \/ Quit \/ StopServer \/ Kick

Spec == Init /\ [][Next]_vars

-----------------------------------------------------------------------------
(* Properties.                                                             *)

\* While nothing happens to the connection neither side drops it: "one lost
\* datagram doesn't drop the connection" (NetClient.cpp), and again one after
\* the next pong, nor does a script that holds the server's loop up for
\* LongTurn, though the sessions are looked through before the datagrams that
\* came meanwhile are read.
NoFalseDrop == fault = "none" => Connected /\ session

\* A kicked client, and one whose server or network is gone, is told nothing;
\* it has found out by itself when ClientNoticeTime is over.
ClientNotices ==
    fault \in {"cut", "stop", "kick"} /\ since >= ClientNoticeTime => ~Connected

\* A player who left without a word, or whose network is gone, has given back
\* its slot and its name when ServerNoticeTime is over.
ServerNotices ==
    fault \in {"cut", "quit"} /\ since >= ServerNoticeTime => ~session
=============================================================================
