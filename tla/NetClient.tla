----------------------------- MODULE NetClient -----------------------------
(***************************************************************************)
(* client::NetClient (src/client/NetClient.cpp): the client's connection.  *)
(* Three threads meet in it:                                               *)
(*   the script thread calls Connect and Disconnect;                       *)
(*   the network thread, one per connection, executes Run;                 *)
(*   the tick calls TakeEvents, CopyRemoteSnapshots and SendState.         *)
(* A step is what a thread does between two points where another one can   *)
(* come in: one atomic access, or one stretch under a lock.                *)
(*                                                                         *)
(* The server and the network are outside: while the socket is open any    *)
(* datagram of the server's may arrive, late, repeated or out of order.    *)
(* Times are in units of the model's clock.                                *)
(***************************************************************************)
EXTENDS Naturals, Sequences

CONSTANTS
    Player,         \* ids of remote players
    HelloRetry,     \* kHelloRetryMs
    MaxAttempts,    \* kMaxHelloAttempts
    ServerTimeout,  \* kServerTimeoutMs
    MaxConn,        \* bound: calls of Connect
    MaxTick,        \* bound: ticks of snapshots
    MaxEvents       \* bound: joins and leaves that arrive in a connection

ASSUME TimerAssumption ==
    HelloRetry \in Nat \ {0} /\ ServerTimeout \in Nat \ {0} /\ MaxAttempts \in Nat
ASSUME BoundAssumption == MaxConn \in Nat /\ MaxTick \in Nat /\ MaxEvents \in Nat

NetState == {"Disconnected", "Connecting", "Connected", "Refused"}
Tick     == 1 .. MaxTick

VARIABLES
    state,      \* m_state
    socket,     \* m_socket: the number of its connection, 0 when closed
    conn,       \* how many times Connect opened the socket
    encodes,    \* whether a Hello with m_username fits a datagram
    attempts,   \* m_helloAttempts
    stateTick,  \* m_stateTick
    remote,     \* m_remote: player -> [tick, conn], conn for the record
    events,     \* m_events: [joined, id, conn]
    script,     \* where the script thread is
    op,         \* the call it is in
    net,        \* where the network thread is; "none" if there is none
    stop,       \* its stop token
    clock,      \* its timers: time since the last Hello, since the server
    leaving,    \* the id of a NotifyPlayerLeft half handled, or 0
    tick,       \* where the tick is
    sending,    \* the tick number SendState took
    taken,      \* record: events the tick took in this connection
    arrived,    \* record: joins and leaves that arrived in this connection
    checked,    \* record: the connection in which SendState checked m_state
    lastSent    \* record: the last tick sent on this socket by a SendState that
                \* began in its connection

scriptVars == <<script, op>>
netVars    == <<net, stop, clock, leaving>>
tickVars   == <<tick, sending>>
record     == <<taken, arrived, checked, lastSent>>
shared     == <<state, socket, conn, encodes, attempts, stateTick, remote, events>>
vars       == <<shared, scriptVars, netVars, tickVars, record>>

Event(joined, i) == [joined |-> joined, id |-> i, conn |-> conn]

NoClock == [hello |-> HelloRetry, server |-> 0]

Init ==
    /\ state = "Disconnected" /\ socket = 0 /\ conn = 0 /\ encodes = TRUE
    /\ attempts = 0 /\ stateTick = 0 /\ remote = <<>> /\ events = <<>>
    /\ script = "idle" /\ op = "none"
    /\ net = "none" /\ stop = FALSE /\ clock = NoClock /\ leaving = 0
    /\ tick = "events" /\ sending = 0
    /\ taken = <<>> /\ arrived = <<>> /\ checked = 0 /\ lastSent = 0

-----------------------------------------------------------------------------
(* The script thread.  Connect begins with a Disconnect.                   *)

Call(what) ==
    /\ script = "idle"
    /\ what = "connect" => conn < MaxConn
    /\ op' = what
    /\ script' = "join"
    /\ stop' = TRUE
    /\ UNCHANGED <<shared, net, clock, leaving, tickVars, record>>

\* m_thread.join() returns when Run has.
Join ==
    /\ script = "join"
    /\ net \in {"none", "ended"}
    /\ net' = "none"
    /\ script' = "close"
    /\ UNCHANGED <<shared, op, stop, clock, leaving, tickVars, record>>

Close ==
    /\ script = "close"
    /\ socket' = 0
    /\ script' = "closed"
    /\ UNCHANGED <<state, conn, encodes, attempts, stateTick, remote, events>>
    /\ UNCHANGED <<op, netVars, tickVars, record>>

\* (mutated) Disconnect leaves m_state as it is.
SetDisconnectedNot ==
    /\ script = "closed"
    /\ script' = IF op = "connect" THEN "open" ELSE "idle"
    /\ UNCHANGED <<shared, op, netVars, tickVars, record>>

SetDisconnected ==
    /\ script = "closed"
    /\ state' = "Disconnected"
    /\ script' = IF op = "connect" THEN "open" ELSE "idle"
    /\ UNCHANGED <<socket, conn, encodes, attempts, stateTick, remote, events>>
    /\ UNCHANGED <<op, netVars, tickVars, record>>

OpenFails ==
    /\ script = "open"
    /\ script' = "idle"
    /\ UNCHANGED <<shared, op, netVars, tickVars, record>>

\* Open, then the username and the counters.
Open ==
    /\ script = "open"
    /\ conn' = conn + 1
    /\ socket' = conn + 1
    /\ encodes' \in BOOLEAN
    /\ lastSent' = 0
    /\ script' = "reset"
    /\ UNCHANGED <<state, attempts, stateTick, remote, events>>
    /\ UNCHANGED <<op, netVars, tickVars, taken, arrived, checked>>

ResetCounters ==
    /\ script = "reset"
    /\ attempts' = 0
    /\ stateTick' = 0
    /\ script' = "clear"
    /\ UNCHANGED <<state, socket, conn, encodes, remote, events>>
    /\ UNCHANGED <<op, netVars, tickVars, record>>

\* (mutated) The snapshots of the last connection stay.
ClearRemoteNot ==
    /\ script = "clear"
    /\ script' = "clear2"
    /\ UNCHANGED <<shared, op, netVars, tickVars, record>>

ClearRemote ==
    /\ script = "clear"
    /\ remote' = <<>>
    /\ script' = "clear2"
    /\ UNCHANGED <<state, socket, conn, encodes, attempts, stateTick, events>>
    /\ UNCHANGED <<op, netVars, tickVars, record>>

ClearEvents ==
    /\ script = "clear2"
    /\ events' = <<>>
    /\ taken' = <<>>
    /\ arrived' = <<>>
    /\ script' = "start"
    /\ UNCHANGED <<state, socket, conn, encodes, attempts, stateTick, remote>>
    /\ UNCHANGED <<op, netVars, tickVars, checked, lastSent>>

\* The new thread's first Hello is due at once.
Start ==
    /\ script = "start"
    /\ state' = "Connecting"
    /\ net' = "top"
    /\ stop' = FALSE
    /\ clock' = NoClock
    /\ script' = "idle"
    /\ UNCHANGED <<socket, conn, encodes, attempts, stateTick, remote, events>>
    /\ UNCHANGED <<op, leaving, tickVars, record>>

Script ==
    \/ Join \/ Close \/ SetDisconnected \/ OpenFails \/ Open
    \/ ResetCounters \/ ClearRemote \/ ClearEvents \/ Start

User == \E what \in {"connect", "disconnect"} : Call(what)

-----------------------------------------------------------------------------
(* The network thread: Run.  It reads the clock on top of its loop, d      *)
(* units after the last time, and all timers are measured against that.    *)

Elapsed(d) ==
    [hello  |-> IF clock.hello + d >= HelloRetry THEN HelloRetry ELSE clock.hello + d,
     server |-> IF clock.server + d >= ServerTimeout THEN ServerTimeout ELSE clock.server + d]

OutOfAttempts == attempts >= MaxAttempts

\* (mutated) The silence of the server counts only when no Hello is left.
ServerSilentLate(c) == c.server >= ServerTimeout /\ OutOfAttempts

ServerSilent(c) == c.server >= ServerTimeout
HelloDue(c)     == c.hello >= HelloRetry

\* (mutated) Run ends by itself only.
StopSeenNot == FALSE

StopSeen ==
    /\ net = "top" /\ stop
    /\ net' = "ended"
    /\ UNCHANGED <<shared, scriptVars, stop, clock, leaving, tickVars, record>>

\* No answer to any Hello, or no longer from the server.
GiveUp(d) ==
    /\ net = "top" /\ ~stop
    /\ clock' = Elapsed(d)
    /\ \/ state = "Connecting" /\ HelloDue(clock') /\ OutOfAttempts
       \/ state = "Connected" /\ ServerSilent(clock')
    /\ state' = "Disconnected"
    /\ net' = "ended"
    /\ UNCHANGED <<socket, conn, encodes, attempts, stateTick, remote, events>>
    /\ UNCHANGED <<scriptVars, stop, leaving, tickVars, record>>

\* Refused or disconnected: nothing left to do.
Finish ==
    /\ net = "top" /\ ~stop
    /\ state \notin {"Connecting", "Connected"}
    /\ net' = "ended"
    /\ UNCHANGED <<shared, scriptVars, stop, clock, leaving, tickVars, record>>

\* (mutated) Attempts are not counted.
SendHelloUncounted(d) ==
    /\ net = "top" /\ ~stop
    /\ state = "Connecting" /\ HelloDue(Elapsed(d)) /\ ~OutOfAttempts
    /\ clock' = [Elapsed(d) EXCEPT !.hello = 0]
    /\ net' = "recv"
    /\ UNCHANGED <<shared, scriptVars, stop, leaving, tickVars, record>>

\* A Hello that does not encode is not an attempt, but restarts the timer.
SendHello(d) ==
    /\ net = "top" /\ ~stop
    /\ state = "Connecting" /\ HelloDue(Elapsed(d)) /\ ~OutOfAttempts
    /\ attempts' = IF encodes THEN attempts + 1 ELSE attempts
    /\ clock' = [Elapsed(d) EXCEPT !.hello = 0]
    /\ net' = "recv"
    /\ UNCHANGED <<state, socket, conn, encodes, stateTick, remote, events>>
    /\ UNCHANGED <<scriptVars, stop, leaving, tickVars, record>>

\* Nothing is due but, when connected, perhaps a Ping.
GoOn(d) ==
    /\ net = "top" /\ ~stop
    /\ clock' = Elapsed(d)
    /\ \/ state = "Connecting" /\ ~HelloDue(clock')
       \/ state = "Connected" /\ ~ServerSilent(clock')
    /\ net' = "recv"
    /\ UNCHANGED <<shared, scriptVars, stop, leaving, tickVars, record>>

\* Poll timeout, or a datagram that is not the server's.
NothingReceived ==
    /\ net = "recv"
    /\ net' = "top"
    /\ UNCHANGED <<shared, scriptVars, stop, clock, leaving, tickVars, record>>

Received(next) ==
    /\ net = "recv"
    /\ clock' = [clock EXCEPT !.server = 0]
    /\ net' = next

\* A Pong (see GameTick), or what cannot be decoded.
ReceiveOther ==
    /\ Received("top")
    /\ UNCHANGED <<shared, scriptVars, stop, leaving, tickVars, record>>

ReceiveAck(accepted) ==
    /\ Received("top")
    /\ state' = IF accepted THEN "Connected" ELSE "Refused"
    /\ UNCHANGED <<socket, conn, encodes, attempts, stateTick, remote, events>>
    /\ UNCHANGED <<scriptVars, stop, leaving, tickVars, record>>

ReceiveJoined(i) ==
    /\ Received("top")
    /\ Len(arrived) < MaxEvents
    /\ events' = Append(events, Event(TRUE, i))
    /\ arrived' = Append(arrived, Event(TRUE, i))
    /\ UNCHANGED <<state, socket, conn, encodes, attempts, stateTick, remote>>
    /\ UNCHANGED <<scriptVars, stop, leaving, tickVars, taken, checked, lastSent>>

\* The snapshot goes under one lock, the event is queued under another.
ReceiveLeft(i) ==
    /\ Received("left")
    /\ Len(arrived) < MaxEvents
    /\ remote' = [j \in DOMAIN remote \ {i} |-> remote[j]]
    /\ leaving' = i
    /\ arrived' = Append(arrived, Event(FALSE, i))
    /\ UNCHANGED <<state, socket, conn, encodes, attempts, stateTick, events>>
    /\ UNCHANGED <<scriptVars, stop, tickVars, taken, checked, lastSent>>

QueueLeft ==
    /\ net = "left"
    /\ events' = Append(events, Event(FALSE, leaving))
    /\ leaving' = 0
    /\ net' = "top"
    /\ UNCHANGED <<state, socket, conn, encodes, attempts, stateTick, remote>>
    /\ UNCHANGED <<scriptVars, stop, clock, tickVars, record>>

\* Latest wins.
Older(i, t) == i \in DOMAIN remote /\ t <= remote[i].tick

With(f, i, x) == [j \in DOMAIN f \cup {i} |-> IF j = i THEN x ELSE f[j]]

ReceiveState(i, t) ==
    /\ Received("top")
    /\ remote' = IF Older(i, t) THEN remote
                 ELSE With(remote, i, [tick |-> t, conn |-> conn])
    /\ UNCHANGED <<state, socket, conn, encodes, attempts, stateTick, events>>
    /\ UNCHANGED <<scriptVars, stop, leaving, tickVars, record>>

Step(d) == GiveUp(d) \/ SendHello(d) \/ GoOn(d)

Net ==
    \/ \E d \in 0 .. ServerTimeout : Step(d)
    \/ StopSeen \/ Finish \/ NothingReceived
    \/ ReceiveOther
    \/ \E accepted \in BOOLEAN : ReceiveAck(accepted)
    \/ \E i \in Player : ReceiveJoined(i) \/ ReceiveLeft(i)
    \/ QueueLeft
    \/ \E i \in Player, t \in Tick : ReceiveState(i, t)

-----------------------------------------------------------------------------
(* The tick: TakeEvents, and SendState when a snapshot is due.  The copy   *)
(* CopyRemoteSnapshots makes changes nothing here.                         *)

\* (mutated) The events are copied, and stay.
TakeEventsCopy ==
    /\ tick = "events"
    /\ taken' = taken \o events
    /\ tick' = "send"
    /\ UNCHANGED <<shared, scriptVars, netVars, sending, arrived, checked, lastSent>>

TakeEvents ==
    /\ tick = "events"
    /\ taken' = taken \o events
    /\ events' = <<>>
    /\ tick' = "send"
    /\ UNCHANGED <<state, socket, conn, encodes, attempts, stateTick, remote>>
    /\ UNCHANGED <<scriptVars, netVars, sending, arrived, checked, lastSent>>

NotSending ==
    /\ tick = "send"
    /\ tick' = "events"
    /\ UNCHANGED <<shared, scriptVars, netVars, sending, record>>

\* SendState in three steps: the state is checked, ...
CheckConnected ==
    /\ tick = "send"
    /\ state = "Connected"
    /\ tick' = "number"
    /\ checked' = conn
    /\ UNCHANGED <<shared, scriptVars, netVars, sending, taken, arrived, lastSent>>

\* ... the snapshot is numbered, ...
NumberState ==
    /\ tick = "number"
    /\ stateTick < MaxTick
    /\ stateTick' = stateTick + 1
    /\ sending' = stateTick + 1
    /\ tick' = "sendto"
    /\ UNCHANGED <<state, socket, conn, encodes, attempts, remote, events>>
    /\ UNCHANGED <<scriptVars, netVars, record>>

\* ... and sent on the socket there is by then, if there is one.
SendStateTo ==
    /\ tick = "sendto"
    /\ tick' = "events"
    /\ sending' = 0
    /\ lastSent' = IF socket # 0 /\ checked = conn THEN sending ELSE lastSent
    /\ UNCHANGED <<shared, scriptVars, netVars, taken, arrived, checked>>

Tick_ == TakeEvents \/ NotSending \/ CheckConnected \/ NumberState \/ SendStateTo

Next == User \/ Script \/ Net \/ Tick_

Spec == Init /\ [][Next]_vars

\* The threads run, RecvFrom returns within kPollMs, and time passes.
FairSpec ==
    /\ Spec
    /\ WF_vars(Script)
    /\ WF_vars(Net)
    /\ SF_vars(\E d \in 1 .. ServerTimeout : Step(d))

-----------------------------------------------------------------------------
(* Properties.                                                             *)

\* The values the variables may take; attempts stay within the limit.
TypeOK ==
    /\ state \in NetState
    /\ socket \in 0 .. conn /\ conn \in 0 .. MaxConn
    /\ attempts \in 0 .. MaxAttempts /\ stateTick \in 0 .. MaxTick
    /\ DOMAIN remote \subseteq Player
    /\ \A i \in DOMAIN remote : remote[i] \in [tick: Tick, conn: 1 .. MaxConn]
    /\ events \in Seq([joined: BOOLEAN, id: Player, conn: 1 .. MaxConn])
    /\ clock \in [hello: 0 .. HelloRetry, server: 0 .. ServerTimeout]
    /\ net \in {"none", "top", "recv", "left", "ended"}

\* While a connection has its thread, no snapshot and no event of an earlier
\* connection is left: ids start over on every server, so one of those would
\* be taken for another player.
OldConnectionGone ==
    net # "none" =>
        /\ \A i \in DOMAIN remote : remote[i].conn = conn
        /\ \A k \in DOMAIN events : events[k].conn = conn

\* After Disconnect nothing turns the connection on again but Connect: an
\* ack under way as Disconnect was called does not.
DisconnectIsFinal ==
    net = "none" /\ script \in {"idle", "open"} => state = "Disconnected"

\* The tick gets each join and leave of a connection exactly once and in the
\* order of arrival: "order matters and none may be missed" (NetClient.hpp).
NoEventLost ==
    arrived = taken \o events
                \o (IF net = "left" THEN <<Event(FALSE, leaving)>> ELSE <<>>)

\* Connecting comes to an end: acked, refused, given up, or called off.
ConnectingEnds == (state = "Connecting" /\ encodes) ~> (state # "Connecting")

\* A client the server has gone silent on does not stay connected.
SilenceNoticed == []<>(state # "Connected" \/ clock.server = 0)

\* Connect and Disconnect return: the join does not wait for ever.
CallsReturn == (script = "join") ~> (script = "idle")

\* Of the snapshots whose SendState began in a connection, each that goes out
\* on its socket has a higher tick than the one before, so the server drops
\* none of them as old.  (One that began before a reconnect can still slip in.)
SentInOrder ==
    [][tick = "sendto" /\ tick' = "events" /\ socket # 0 /\ checked = conn
         => sending > lastSent]_vars
=============================================================================
