------------------------------- MODULE Server -------------------------------
(***************************************************************************)
(* The dedicated server: the main loop of src/server/main.cpp over one     *)
(* SessionManager (Session.cpp) and one ScriptHost (ScriptHost.cpp,        *)
(* LuaBackend.cpp).  The process has one thread.  An iteration of its loop *)
(*   reads the clock, drops the expired sessions one at a time, lets the   *)
(*   scripts tick, carries out the kicks they queued, and waits for at     *)
(*   most one datagram, which it handles with the clock it read on top.    *)
(* A step of the model is a stretch of that loop with one callback into    *)
(* the scripts, or one pass through the socket, so that everything the     *)
(* scripts and the peers can observe in between is a state.                *)
(***************************************************************************)
EXTENDS Naturals, Sequences, FiniteSets

CONSTANTS
    Endpoint,      \* the peers' addresses
    Name,          \* the usernames a Hello can carry
    NoName,        \* the empty one
    MaxPlayers,    \* kMaxPlayers
    Timeout,       \* kTimeoutMs, in the unit of the model's clock
    MaxId,         \* bound: ids given out
    MaxTick,       \* bound: tick of a snapshot
    MaxKicks       \* bound: kicks queued at a time

ASSUME NameAssumption     == NoName \in Name
ASSUME CapacityAssumption == MaxPlayers \in Nat
ASSUME TimeAssumption     == Timeout \in Nat \ {0}
ASSUME BoundAssumption    == MaxId \in Nat /\ MaxTick \in Nat /\ MaxKicks \in Nat
ASSUME EndpointAssumption == IsFiniteSet(Endpoint)

kVersion == 2
Version  == {kVersion, kVersion + 1}     \* ours, and one that is not

PlayerId == Nat \ {0}                    \* 0 is kInvalidPlayer
Tick     == 0 .. MaxTick

VARIABLES
    sessions,   \* m_sessions: id -> session; its vector is in order of ids
    nextId,     \* m_nextId
    kicks,      \* ScriptHost::m_kicks, ids only
    draining,   \* what is left of the vector TakeKicks returned
    pc,         \* where the loop is
    out,        \* the datagrams the last step sent
    event       \* the script callback the last step made

vars == <<sessions, nextId, kicks, draining, pc, out, event>>

Live == DOMAIN sessions

-----------------------------------------------------------------------------
(* Datagrams the server sends.  UDP keeps no order among them: a set.      *)

HelloAck(result) ==
    LET accepted == result \in {"accepted", "already joined"}
    IN  [type |-> "HelloAck", accepted |-> accepted,
         reason |-> IF accepted THEN "" ELSE result]

Joined(i, name) == [type |-> "NotifyPlayerJoined", playerId |-> i, username |-> name]
Left(i)         == [type |-> "NotifyPlayerLeft", playerId |-> i]
State(i, tick)  == [type |-> "NotifyPlayerState", playerId |-> i, tick |-> tick]
Pong            == [type |-> "Pong"]

Send(to, msg) == {[to |-> to, msg |-> msg]}

\* (mutated) aExcept is ignored.
BroadcastEcho(s, msg, except) == {[to |-> s[i].endpoint, msg |-> msg] : i \in DOMAIN s}

\* To everyone in the session table s, except one.
Broadcast(s, msg, except) ==
    {[to |-> s[i].endpoint, msg |-> msg] : i \in DOMAIN s \ {except}}

\* (mutated) A newcomer is not told who is here.
RosterOmitted(s, e) == {}

\* What the joining endpoint e is told of those already here.
Roster(s, e) == {[to |-> e, msg |-> Joined(i, s[i].username)] : i \in DOMAIN s}

NoEvent    == [kind |-> "none", id |-> 0]
TickEvent  == [kind |-> "tick", id |-> 0]
JoinEvent(i)  == [kind |-> "join", id |-> i]
LeaveEvent(i) == [kind |-> "leave", id |-> i]

-----------------------------------------------------------------------------
(* SessionManager.                                                         *)

SessionOf(e) == {i \in Live : sessions[i].endpoint = e}     \* Find
NameTaken(n) == \E i \in Live : sessions[i].username = n

NewSession(e, n) ==
    [username |-> n, endpoint |-> e, age |-> 0, hasState |-> FALSE, stateTick |-> 0]

\* (mutated) Join does not look for a session of the same peer.
JoinResultForgetful(e, n, v) ==
    IF v # kVersion                      THEN "protocol version mismatch"
    ELSE IF n = NoName \/ NameTaken(n)   THEN "name already taken"
    ELSE IF Cardinality(Live) >= MaxPlayers THEN "server full"
    ELSE                                      "accepted"

\* The result of Join, in the order of its returns.
JoinResult(e, n, v) ==
    IF v # kVersion                      THEN "protocol version mismatch"
    ELSE IF SessionOf(e) # {}            THEN "already joined"
    ELSE IF n = NoName \/ NameTaken(n)   THEN "name already taken"
    ELSE IF Cardinality(Live) >= MaxPlayers THEN "server full"
    ELSE                                      "accepted"

Admit(s, i, e, n) == [j \in DOMAIN s \cup {i} |-> IF j = i THEN NewSession(e, n) ELSE s[j]]

\* (mutated) All expired sessions are taken out as one batch.
WithoutBatch(s, i) == [j \in {k \in DOMAIN s \ {i} : s[k].age < Timeout} |-> s[j]]

Without(s, i) == [j \in DOMAIN s \ {i} |-> s[j]]

\* Touch: lastSeenMs becomes the clock of the loop, for the peer of a session.
Touched(e) ==
    [i \in Live |-> IF sessions[i].endpoint = e
                    THEN [sessions[i] EXCEPT !.age = 0] ELSE sessions[i]]

\* age is now - lastSeenMs; past Timeout its value makes no difference.
Aged(d) ==
    [i \in Live |-> [sessions[i] EXCEPT
        !.age = IF @ + d >= Timeout THEN Timeout ELSE @ + d]]

Expired(i) == sessions[i].age >= Timeout

NoneExpired == \A i \in Live : ~Expired(i)

\* (mutated) The tick already relayed passes again.
FreshOrSame(s, i, tick) == ~(s[i].hasState /\ tick < s[i].stateTick)

\* ApplyState lets only a newer snapshot through.
Fresh(s, i, tick) == ~(s[i].hasState /\ tick <= s[i].stateTick)

Applied(s, i, tick) == [s EXCEPT ![i] = [@ EXCEPT !.hasState = TRUE, !.stateTick = tick]]

-----------------------------------------------------------------------------
(* ScriptHost.  A callback may queue kicks of players it can find, that    *)
(* is, of those in the session table as the callback runs.                 *)

Callback(players, e) ==
    /\ event' = e
    /\ \E n \in 0 .. MaxKicks : \E asked \in [1 .. n -> players] :
          /\ Len(kicks) + n <= MaxKicks
          /\ kicks' = kicks \o asked

NoCallback == event' = NoEvent /\ UNCHANGED kicks

-----------------------------------------------------------------------------
(* The loop.                                                               *)

\* (mutated) m_nextId starts at kInvalidPlayer.
InitFromZero ==
    /\ sessions = <<>> /\ nextId = 0 /\ kicks = <<>> /\ draining = <<>>
    /\ pc = "top" /\ out = {} /\ event = NoEvent

Init ==
    /\ sessions = <<>>
    /\ nextId = 1
    /\ kicks = <<>>
    /\ draining = <<>>
    /\ pc = "top"
    /\ out = {}
    /\ event = NoEvent

\* The loop test after SIGINT or SIGTERM: nobody is told.
Stop ==
    /\ pc = "top"
    /\ pc' = "stopped"
    /\ out' = {}
    /\ NoCallback
    /\ UNCHANGED <<sessions, nextId, draining>>

\* The clock is read once per iteration, d units after the last reading.
ReadClock(d) ==
    /\ pc = "top"
    /\ sessions' = Aged(d)
    /\ pc' = "expire"
    /\ out' = {}
    /\ NoCallback
    /\ UNCHANGED <<nextId, draining>>

\* The first session of the vector that is over the timeout is taken out,
\* announced and handed to the scripts, before the next one is looked for.
Expire(i) ==
    /\ pc = "expire"
    /\ i \in Live /\ Expired(i)
    /\ \A j \in Live : Expired(j) => i <= j
    /\ sessions' = Without(sessions, i)
    /\ out' = Broadcast(sessions', Left(i), i)
    /\ Callback(DOMAIN sessions', LeaveEvent(i))
    /\ UNCHANGED <<nextId, draining, pc>>

\* OnTick, then the queue is swapped out: what it queued is drained too.
TickScripts ==
    /\ pc = "expire"
    /\ NoneExpired
    /\ event' = TickEvent
    /\ \E n \in 0 .. MaxKicks : \E asked \in [1 .. n -> Live] :
          /\ Len(kicks) + n <= MaxKicks
          /\ draining' = kicks \o asked
    /\ kicks' = <<>>
    /\ pc' = "kick"
    /\ out' = {}
    /\ UNCHANGED <<sessions, nextId>>

\* The player may be gone by now: kicked twice, or timed out since.
SkipKick ==
    /\ pc = "kick" /\ draining # <<>>
    /\ Head(draining) \notin Live
    /\ draining' = Tail(draining)
    /\ out' = {}
    /\ NoCallback
    /\ UNCHANGED <<sessions, nextId, pc>>

\* (mutated) The scripts are not called for a player they kicked.
KickSilently ==
    /\ pc = "kick" /\ draining # <<>>
    /\ LET i == Head(draining) IN
          /\ i \in Live
          /\ sessions' = Without(sessions, i)
          /\ out' = Broadcast(sessions', Left(i), i)
    /\ draining' = Tail(draining)
    /\ NoCallback
    /\ UNCHANGED <<nextId, pc>>

Kick ==
    /\ pc = "kick" /\ draining # <<>>
    /\ LET i == Head(draining) IN
          /\ i \in Live
          /\ sessions' = Without(sessions, i)
          /\ out' = Broadcast(sessions', Left(i), i)
          /\ Callback(DOMAIN sessions', LeaveEvent(i))
    /\ draining' = Tail(draining)
    /\ UNCHANGED <<nextId, pc>>

\* (mutated) The queue is cleared after the drain, and not swapped before.
KicksDoneClearing ==
    /\ pc = "kick" /\ draining = <<>>
    /\ pc' = "recv"
    /\ out' = {}
    /\ event' = NoEvent
    /\ kicks' = <<>>
    /\ UNCHANGED <<sessions, nextId, draining>>

KicksDone ==
    /\ pc = "kick" /\ draining = <<>>
    /\ pc' = "recv"
    /\ out' = {}
    /\ NoCallback
    /\ UNCHANGED <<sessions, nextId, draining>>

-----------------------------------------------------------------------------
(* RecvFrom and the handlers.  Each goes back to the top of the loop.      *)

Receive ==
    /\ pc = "recv"
    /\ pc' = "top"
    /\ UNCHANGED draining

\* Poll timeout, or a datagram whose header cannot be read.
Nothing ==
    /\ Receive
    /\ out' = {}
    /\ NoCallback
    /\ UNCHANGED <<sessions, nextId>>

\* A readable header and nothing to do: a type only the server sends, a body
\* that does not decode, a Ping or PlayerState of a peer without a session.
Ignore(e) ==
    /\ Receive
    /\ sessions' = Touched(e)
    /\ out' = {}
    /\ NoCallback
    /\ UNCHANGED nextId

\* HandleHello when Join refuses, or finds the peer's session again.
AnswerHello(e, n, v) ==
    /\ Receive
    /\ JoinResult(e, n, v) # "accepted"
    /\ sessions' = Touched(e)
    /\ out' = Send(e, HelloAck(JoinResult(e, n, v)))
    /\ NoCallback
    /\ UNCHANGED nextId

\* HandleHello when Join makes a session: the ack, then the roster to the
\* newcomer, then the newcomer to everyone else, then the scripts.
AcceptHello(e, n, v) ==
    /\ Receive
    /\ JoinResult(e, n, v) = "accepted"
    /\ nextId <= MaxId
    /\ sessions' = Admit(sessions, nextId, e, n)
    /\ nextId' = nextId + 1
    /\ out' = Send(e, HelloAck("accepted"))
                \cup Roster(sessions, e)
                \cup Broadcast(sessions', Joined(nextId, n), nextId)
    /\ Callback(DOMAIN sessions', JoinEvent(nextId))

\* HandlePing.
AnswerPing(e) ==
    /\ Receive
    /\ SessionOf(e) # {}
    /\ sessions' = Touched(e)
    /\ out' = Send(e, Pong)
    /\ NoCallback
    /\ UNCHANGED nextId

\* HandlePlayerState: an old snapshot only counts as a sign of life.
DropState(e, tick) ==
    /\ Receive
    /\ \E i \in SessionOf(e) : ~Fresh(sessions, i, tick)
    /\ sessions' = Touched(e)
    /\ out' = {}
    /\ NoCallback
    /\ UNCHANGED nextId

RelayState(e, tick) ==
    /\ Receive
    /\ \E i \in SessionOf(e) :
          /\ Fresh(sessions, i, tick)
          /\ sessions' = Applied(Touched(e), i, tick)
          /\ out' = Broadcast(sessions', State(i, tick), i)
    /\ NoCallback
    /\ UNCHANGED nextId

Hear(e) ==
    \/ Ignore(e)
    \/ AnswerPing(e)
    \/ \E n \in Name, v \in Version : AnswerHello(e, n, v) \/ AcceptHello(e, n, v)
    \/ \E tick \in Tick : DropState(e, tick) \/ RelayState(e, tick)

Loop ==
    \/ \E d \in 0 .. Timeout : ReadClock(d)
    \/ \E i \in Live : Expire(i)
    \/ TickScripts
    \/ SkipKick
    \/ Kick
    \/ KicksDone
    \/ Nothing
    \/ \E e \in Endpoint : Hear(e)

Next == Loop \/ Stop

Spec == Init /\ [][Next]_vars

-----------------------------------------------------------------------------
(* What the server's own state must satisfy.                               *)

Session == [username: Name, endpoint: Endpoint, age: 0 .. Timeout,
            hasState: BOOLEAN, stateTick: Tick]

\* The values the variables may take.  This is the typing of the members of
\* SessionManager and ScriptHost, and of the loop's own place.
TypeOK ==
    /\ Live \subseteq PlayerId
    /\ \A i \in Live : sessions[i] \in Session
    /\ nextId \in 1 .. MaxId + 1
    /\ kicks \in Seq(PlayerId)
    /\ draining \in Seq(PlayerId)
    /\ pc \in {"top", "expire", "kick", "recv", "stopped"}

\* One session per address and one per name, ids handed out before, at most
\* MaxPlayers sessions: Join refuses on conditions it reads from the table,
\* and expiry, kicks and re-sent Hellos change that table in between.
SessionsWellFormed ==
    /\ \A i, j \in Live : i # j =>
          /\ sessions[i].endpoint # sessions[j].endpoint
          /\ sessions[i].username # sessions[j].username
    /\ \A i \in Live : i < nextId /\ sessions[i].username # NoName
    /\ Cardinality(Live) <= MaxPlayers
=============================================================================
