------------------------------ MODULE Cybermp ------------------------------
(***************************************************************************)
(* The whole system: players' clients (NetClient.cpp), the network, and    *)
(* the server's table of sessions with what it tells the clients.          *)
(*                                                                         *)
(* A client opens a new socket for every Connect (NetClient::Connect), so  *)
(* an endpoint is one connection of one person; it says Hello under that   *)
(* person's name.  The list of players is not the connection's: it is      *)
(* WorldSystem::m_bodies, one for each person, which no Connect and no     *)
(* Disconnect clears.  What is in flight is kept per endpoint:             *)
(*   - "udp": a datagram that was sent may be delivered at any later time, *)
(*     any number of times, or never, in any order;                        *)
(*   - "reliable": each is delivered once, in the order of sending: the    *)
(*     transport that the Reliable flag of Protocol.hpp asks for.          *)
(* The network of a behaviour is of one kind.  The server takes one step   *)
(* for a whole handler: what happens inside it, and the rest of its loop,  *)
(* is Server, whose operators are used here.  A server that has stopped    *)
(* takes no step.                                                          *)
(***************************************************************************)
EXTENDS Naturals, Sequences, FiniteSets

CONSTANTS
    Endpoint,   \* the sockets that clients will open
    Name,       \* usernames
    NoName,     \* the empty one
    NameOf,     \* the username of the person behind an endpoint
    MaxPlayers, \* kMaxPlayers
    MaxId,      \* bound: ids given out
    MaxAttempts \* kMaxHelloAttempts

ASSUME NameOfAssumption   == NameOf \in [Endpoint -> Name]
ASSUME CapacityAssumption == MaxPlayers \in Nat

VARIABLES
    net,        \* the kind of network
    attempts,   \* endpoint -> NetClient::m_helloAttempts
    hellos,     \* endpoint -> Hellos on their way to the server
    queue,      \* endpoint -> reliable: what is on its way to the client
    sent,       \* endpoint -> udp: all that was ever sent to the client
    client,     \* endpoint -> NetClient::m_state, "off" before Connect
    bodies,     \* person -> WorldSystem::m_bodies, ids only
    list,       \* person -> m_bodies when the pump has taken NetClient::m_events
    leftover,   \* record: person -> those listed before this connection, no leave since
    sessions,   \* the server's m_sessions: id -> session
    nextId,     \* the server's m_nextId
    made        \* record: endpoint -> the ids it was given

netVars    == <<net, hellos, queue, sent>>
listVars   == <<bodies, list, leftover>>
clientVars == <<client, attempts, listVars>>
serverVars == <<sessions, nextId, made>>
vars       == <<netVars, clientVars, serverVars>>

\* The server between two steps of its loop, with no kick queued.
S == INSTANCE Server WITH
        Timeout <- 1, MaxTick <- 0, MaxKicks <- 0,
        kicks <- <<>>, draining <- <<>>, pc <- "recv", out <- {},
        event <- [kind |-> "none", id |-> 0]

Person == {NameOf[e] : e \in Endpoint}

Running(e) == client[e] \in {"Connecting", "Connected"}

Init ==
    /\ net \in {"udp", "reliable"}
    /\ attempts = [e \in Endpoint |-> 0]
    /\ hellos = [e \in Endpoint |-> 0]
    /\ queue = [e \in Endpoint |-> <<>>]
    /\ sent = [e \in Endpoint |-> {}]
    /\ client = [e \in Endpoint |-> "off"]
    /\ bodies = [p \in Person |-> {}]
    /\ list = [p \in Person |-> {}]
    /\ leftover = [p \in Person |-> {}]
    /\ sessions = <<>>
    /\ nextId = 1
    /\ made = [e \in Endpoint |-> {}]

-----------------------------------------------------------------------------
(* The clients.                                                            *)

\* One connection of a person at a time: Connect begins with Disconnect.  It
\* clears m_events, so that what the pump has not taken yet is forgotten, and
\* leaves m_bodies as it is.
Connect(e) ==
    /\ client[e] = "off"
    /\ \A f \in Endpoint : NameOf[f] = NameOf[e] => ~Running(f)
    /\ client' = [client EXCEPT ![e] = "Connecting"]
    /\ list' = [list EXCEPT ![NameOf[e]] = bodies[NameOf[e]]]
    /\ leftover' = [leftover EXCEPT ![NameOf[e]] = bodies[NameOf[e]]]
    /\ UNCHANGED <<attempts, bodies, netVars, serverVars>>

\* A tick of the game takes the queued joins and leaves (PumpRemotePlayers),
\* whatever the state of the connection.
TakeEvents(p) ==
    /\ bodies[p] # list[p]
    /\ bodies' = [bodies EXCEPT ![p] = list[p]]
    /\ UNCHANGED <<client, attempts, list, leftover, netVars, serverVars>>

\* Run sends a Hello, and again until it is answered.  On udp one Hello in
\* flight stands for all.
SendHello(e) ==
    /\ client[e] = "Connecting"
    /\ attempts[e] < MaxAttempts
    /\ attempts' = [attempts EXCEPT ![e] = @ + 1]
    /\ hellos' = [hellos EXCEPT ![e] = IF net = "udp" THEN 1 ELSE @ + 1]
    /\ UNCHANGED <<client, listVars, net, queue, sent, serverVars>>

\* The thread ends.  Nobody reads the socket any more, and the server is told
\* nothing.  The players of this connection stay in the list.
End(e, state) ==
    /\ client' = [client EXCEPT ![e] = state]
    /\ queue' = [queue EXCEPT ![e] = <<>>]
    /\ sent' = [sent EXCEPT ![e] = {}]
    /\ UNCHANGED <<attempts, listVars, net, hellos, serverVars>>

\* No answer to the Hellos, a server that went silent, or Disconnect.
Leave(e) == Running(e) /\ End(e, "Disconnected")

\* (mutated) A leave is not taken out of the list.
ListedKeeping(l, msg) ==
    IF msg.type = "NotifyPlayerJoined" THEN l \cup {msg.playerId} ELSE l

\* Joins and leaves are queued in any state of the connection.
Listed(l, msg) ==
    CASE msg.type = "NotifyPlayerJoined" -> l \cup {msg.playerId}
      [] msg.type = "NotifyPlayerLeft"   -> l \ {msg.playerId}
      [] OTHER                           -> l

\* (record) A player of an earlier connection that leaves is no left-over.
LeftOver(l, msg) == IF msg.type = "NotifyPlayerLeft" THEN l \ {msg.playerId} ELSE l

Refuses(msg) == msg.type = "HelloAck" /\ ~msg.accepted

\* HandleDatagram of anything but a refusal.
Handle(e, msg) ==
    /\ ~Refuses(msg)
    /\ client' = IF msg.type = "HelloAck" THEN [client EXCEPT ![e] = "Connected"] ELSE client
    /\ list' = [list EXCEPT ![NameOf[e]] = Listed(@, msg)]
    /\ leftover' = [leftover EXCEPT ![NameOf[e]] = LeftOver(@, msg)]
    /\ UNCHANGED <<attempts, bodies, net, hellos, sent, serverVars>>

DeliverNext(e) ==
    /\ Running(e) /\ queue[e] # <<>>
    /\ Handle(e, Head(queue[e]))
    /\ queue' = [queue EXCEPT ![e] = Tail(@)]

DeliverAny(e) ==
    /\ Running(e)
    /\ \E msg \in sent[e] : Handle(e, msg)
    /\ UNCHANGED queue

\* A refusal ends the thread, also that of a client that is connected by now.
DeliverRefusal(e) ==
    /\ Running(e)
    /\ \/ queue[e] # <<>> /\ Refuses(Head(queue[e]))
       \/ \E msg \in sent[e] : Refuses(msg)
    /\ End(e, "Refused")

-----------------------------------------------------------------------------
(* The server.                                                             *)

\* The order in which HandleHello sends: the ack, then the roster by ids.
SentBefore(m1, m2) ==
    m1.type = "HelloAck" \/ (m2.type # "HelloAck" /\ m1.playerId < m2.playerId)

\* The messages of set M in the order of sending.
Listings(M) ==
    {l \in [1 .. Cardinality(M) -> M] :
        /\ \A m \in M : \E k \in DOMAIN l : l[k] = m
        /\ \A j, k \in DOMAIN l : j < k => SentBefore(l[j], l[k])}

\* What of the datagrams out goes to e; nobody reads a socket that is closed.
To(e, out) == IF Running(e) THEN {d.msg : d \in {x \in out : x.to = e}} ELSE {}

\* The datagrams of set out go onto the network.
Transmit(out) ==
    /\ IF net = "reliable"
       THEN /\ \E line \in [Endpoint -> UNION {Listings(To(e, out)) : e \in Endpoint}] :
                  /\ \A e \in Endpoint : line[e] \in Listings(To(e, out))
                  /\ queue' = [e \in Endpoint |-> queue[e] \o line[e]]
            /\ UNCHANGED sent
       ELSE /\ sent' = [e \in Endpoint |-> sent[e] \cup To(e, out)]
            /\ UNCHANGED queue
    /\ UNCHANGED <<net, clientVars>>

\* On udp a Hello may come again at any time.
TakeHello(e) ==
    /\ hellos[e] > 0
    /\ hellos' = IF net = "udp" THEN hellos ELSE [hellos EXCEPT ![e] = @ - 1]

\* HandleHello when Join refuses, or finds the peer's session again.
AnswerHello(e) ==
    LET result == S!JoinResult(e, NameOf[e], S!kVersion)
    IN  /\ TakeHello(e)
        /\ result # "accepted"
        /\ Transmit(S!Send(e, S!HelloAck(result)))
        /\ UNCHANGED serverVars

\* HandleHello when Join makes a session.
AcceptHello(e) ==
    /\ TakeHello(e)
    /\ nextId <= MaxId
    /\ S!JoinResult(e, NameOf[e], S!kVersion) = "accepted"
    /\ sessions' = S!Admit(sessions, nextId, e, NameOf[e])
    /\ nextId' = nextId + 1
    /\ made' = [made EXCEPT ![e] = @ \cup {nextId}]
    /\ Transmit(S!Send(e, S!HelloAck("accepted"))
                  \cup S!Roster(sessions, e)
                  \cup S!Broadcast(sessions', S!Joined(nextId, NameOf[e]), nextId))

\* A session expires, because pings were lost or nobody is there any more or
\* the loop was held up, or a script kicks its player.
Drop(i) ==
    /\ sessions' = S!Without(sessions, i)
    /\ Transmit(S!Broadcast(sessions', S!Left(i), i))
    /\ UNCHANGED <<hellos, nextId, made>>

Next ==
    \/ \E e \in Endpoint :
          \/ Connect(e) \/ SendHello(e) \/ Leave(e)
          \/ DeliverNext(e) \/ DeliverAny(e) \/ DeliverRefusal(e)
          \/ AnswerHello(e) \/ AcceptHello(e)
    \/ \E p \in Person : TakeEvents(p)
    \/ \E i \in DOMAIN sessions : Drop(i)

Spec == Init /\ [][Next]_vars

-----------------------------------------------------------------------------
(* Properties.                                                             *)

SessionsOf(e) == {i \in DOMAIN sessions : sessions[i].endpoint = e}

\* The datagrams on their way to endpoint e.
OnItsWay(e) == sent[e] \cup {queue[e][k] : k \in DOMAIN queue[e]}

\* Whatever the network does, over any connects and disconnects: every player
\* in a client's list, and every one a join on its way to it speaks of, was let
\* in by the server under that id (and that name), and is never the client's
\* own person, not even under the id of an earlier connection.
PictureReal ==
    /\ \A p \in Person : \A i \in list[p] :
          \E f \in Endpoint : i \in made[f] /\ NameOf[f] # p
    /\ \A e \in Endpoint : \A msg \in OnItsWay(e) : msg.type = "NotifyPlayerJoined" =>
          \E f \in Endpoint :
             /\ msg.playerId \in made[f]
             /\ NameOf[f] = msg.username /\ NameOf[f] # NameOf[e]

\* If the transport does what the Reliable flag says, a client that has read
\* all that was sent to it lists exactly who is in, joins, leaves, expiries
\* and kicks before, during and after its own join, and besides only players
\* it listed before this connection and was sent no leave of since: those
\* nothing ever takes out, Connect does not clear m_bodies.  A client whose
\* session was made a second time, by a Hello that came late, is excepted:
\* its second roster does not say who has gone in between.
PictureExact ==
    \A e \in Endpoint :
       (/\ net = "reliable"
        /\ client[e] = "Connected" /\ queue[e] = <<>>
        /\ SessionsOf(e) # {} /\ Cardinality(made[e]) = 1)
          => list[NameOf[e]] = (DOMAIN sessions \ SessionsOf(e)) \cup leftover[NameOf[e]]

Members == [i \in DOMAIN sessions |->
    [username |-> sessions[i].username, endpoint |-> sessions[i].endpoint]]

R == INSTANCE Roster WITH member <- Members, last <- nextId - 1

\* The table of this module, whose handlers are one step each, keeps what
\* Server keeps at every point of its loop: both implement Roster.
RosterSpec == R!Spec
=============================================================================
