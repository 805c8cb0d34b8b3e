-------------------------- MODULE NetClientProofs --------------------------
(***************************************************************************)
(* The client's connection, for any number of reconnects, players, events  *)
(* and snapshots.  The argument is in five parts:                          *)
(*   Types     the values, and that ids and connections are in range;      *)
(*   Phases    Connect and Disconnect act while there is no network thread,*)
(*             so nothing arrives between the close and the new thread;    *)
(*   Clean     what ClearRemote and ClearEvents have emptied stays empty   *)
(*             until the thread starts;                                    *)
(*   Kept      NoEventLost, inductive once the parts above hold;           *)
(*   Numbered  a snapshot that is under way in the connection in which its *)
(*             SendState began is newer than any sent there.               *)
(***************************************************************************)
EXTENDS NetClient, SequenceTheorems, TLAPS

EventOf  == [joined: BOOLEAN, id: Player, conn: 1 .. MaxConn]
Snapshot == [tick: Tick, conn: 1 .. MaxConn]
Clocks   == [hello: 0 .. HelloRetry, server: 0 .. ServerTimeout]

Values ==
    /\ state \in NetState
    /\ socket \in 0 .. conn /\ conn \in 0 .. MaxConn
    /\ attempts \in 0 .. MaxAttempts /\ stateTick \in 0 .. MaxTick
    /\ sending \in 0 .. MaxTick /\ lastSent \in 0 .. MaxTick /\ checked \in 0 .. conn

Timers == clock \in Clocks /\ net \in {"none", "top", "recv", "left", "ended"}

Snapshots == DOMAIN remote \subseteq Player /\ \A i \in DOMAIN remote : remote[i] \in Snapshot

Queues ==
    /\ events \in Seq(EventOf) /\ taken \in Seq(EventOf) /\ arrived \in Seq(EventOf)
    /\ net = "left" => leaving \in Player

Types == Values /\ Timers /\ Snapshots /\ Queues

Opened  == {"reset", "clear", "clear2", "start"}    \* within Connect
Between == {"close", "closed", "open"} \cup Opened  \* after the join

Phases ==
    /\ script \in {"idle", "join"} \cup Between
    /\ script \in Between => net = "none"
    /\ script \in Opened \/ net # "none" => conn >= 1
    /\ script \in {"join", "close", "closed", "open"} /\ op = "connect" => conn < MaxConn
    /\ script = "open" => op = "connect"
    /\ net = "none" /\ script \in {"idle", "open"} \cup Opened => state = "Disconnected"

Clean ==
    /\ script \in {"clear2", "start"} => DOMAIN remote = {}
    /\ script = "start" => events = <<>>
    /\ OldConnectionGone

Numbered ==
    /\ lastSent <= stateTick
    /\ script \in Opened => checked < conn /\ lastSent = 0
    /\ tick = "sendto" /\ checked = conn => lastSent < sending /\ sending <= stateTick

IInv == Types /\ Phases /\ Clean /\ NoEventLost /\ Numbered

-----------------------------------------------------------------------------
(* Who writes what.                                                        *)

LEMMA UserFrame ==
    User => /\ UNCHANGED <<state, socket, conn, attempts, stateTick, remote, events>>
            /\ UNCHANGED <<net, clock, leaving, tick, sending, record>>
            /\ script = "idle" /\ script' = "join"
            /\ op' = "connect" => conn < MaxConn
BY DEF User, Call, shared, tickVars

LEMMA ScriptFrame ==
    Script => /\ UNCHANGED <<tick, sending, leaving, checked, op>>
              /\ UNCHANGED <<socket, conn, lastSent>> \/ Close \/ Open
              /\ UNCHANGED state \/ SetDisconnected \/ Start
              /\ UNCHANGED <<attempts, stateTick>> \/ ResetCounters
              /\ UNCHANGED remote \/ ClearRemote
              /\ UNCHANGED <<events, taken, arrived>> \/ ClearEvents
              /\ UNCHANGED clock \/ Start
              /\ UNCHANGED net \/ Start \/ Join
<1> USE DEF shared, scriptVars, netVars, tickVars, record
<1>1. CASE Join \/ Close
  BY <1>1 DEF Join, Close
<1>2. CASE SetDisconnected \/ OpenFails \/ Open
  BY <1>2 DEF SetDisconnected, OpenFails, Open
<1>3. CASE ResetCounters \/ ClearRemote
  BY <1>3 DEF ResetCounters, ClearRemote
<1>4. CASE ClearEvents \/ Start
  BY <1>4 DEF ClearEvents, Start
<1> QED BY <1>1, <1>2, <1>3, <1>4 DEF Script

LEMMA TickFrame ==
    Tick_ => /\ UNCHANGED <<state, socket, conn, attempts, remote, script, op>>
             /\ UNCHANGED <<net, clock, leaving, arrived>>
             /\ UNCHANGED <<events, taken>> \/ TakeEvents
             /\ UNCHANGED stateTick \/ NumberState
             /\ \/ UNCHANGED <<sending, checked, lastSent>> /\ tick' # "sendto"
                \/ CheckConnected \/ NumberState \/ SendStateTo
BY DEF Tick_, TakeEvents, NotSending, CheckConnected, NumberState, SendStateTo,
       shared, scriptVars, netVars, tickVars, record

Arrives == \E i \in Player : ReceiveJoined(i) \/ ReceiveLeft(i)

LEMMA NetFrame ==
    Net => /\ UNCHANGED <<socket, conn, stateTick, script, op, tick, sending, taken>>
           /\ UNCHANGED <<checked, lastSent>>
           /\ net # "none" /\ net' # "none"
           /\ UNCHANGED state \/ state' \in NetState
           /\ UNCHANGED attempts \/ \E d \in 0 .. ServerTimeout : SendHello(d)
           /\ \/ UNCHANGED remote
              \/ \E i \in Player : ReceiveLeft(i)
              \/ \E i \in Player, t \in Tick : ReceiveState(i, t)
           /\ \/ UNCHANGED <<events, arrived>> /\ net # "left" /\ net' # "left"
              \/ Arrives \/ QueueLeft
<1> USE DEF shared, scriptVars, netVars, tickVars, record, Received, NetState
<1>1. ASSUME NEW d \in 0 .. ServerTimeout, Step(d) PROVE NetFrame!2
  BY <1>1 DEF Step, GiveUp, SendHello, GoOn
<1>2. CASE StopSeen \/ Finish \/ NothingReceived \/ ReceiveOther
  BY <1>2 DEF StopSeen, Finish, NothingReceived, ReceiveOther
<1>3. ASSUME NEW accepted \in BOOLEAN, ReceiveAck(accepted) PROVE NetFrame!2
  BY <1>3 DEF ReceiveAck
<1>4. ASSUME NEW i \in Player, ReceiveJoined(i) \/ ReceiveLeft(i) PROVE NetFrame!2
  BY <1>4 DEF ReceiveJoined, ReceiveLeft, Arrives
<1>5. CASE QueueLeft
  BY <1>5 DEF QueueLeft
<1>6. ASSUME NEW i \in Player, NEW t \in Tick, ReceiveState(i, t) PROVE NetFrame!2
  BY <1>6 DEF ReceiveState
<1> QED BY <1>1, <1>2, <1>3, <1>4, <1>5, <1>6 DEF Net

LEMMA Threads ==
    ASSUME [Next]_vars
    PROVE  \/ User \/ Script \/ Net \/ Tick_
           \/ /\ UNCHANGED <<state, socket, conn, attempts, stateTick, remote, events>>
              /\ UNCHANGED <<script, op, net, clock, leaving, tick, sending>>
              /\ UNCHANGED <<taken, arrived, checked, lastSent>>
BY DEF Next, vars, shared, scriptVars, netVars, tickVars, record

-----------------------------------------------------------------------------
(* The values.                                                             *)

LEMMA PhasesStep == Types /\ Phases /\ [Next]_vars => Phases'
<1> SUFFICES ASSUME Types, Phases, [Next]_vars PROVE Phases'
  OBVIOUS
<1> conn \in Nat /\ MaxConn \in Nat /\ conn <= MaxConn
  BY BoundAssumption DEF Types, Values
<1> USE DEF Phases, Between, Opened
<1>1. CASE User
  BY <1>1, UserFrame
<1>2. CASE Script
  <2> USE DEF shared, scriptVars, netVars, tickVars, record
  <2>1. CASE Join \/ Close
    BY <2>1 DEF Join, Close
  <2>2. CASE SetDisconnected \/ OpenFails \/ Open
    BY <2>2 DEF SetDisconnected, OpenFails, Open
  <2>3. CASE ResetCounters \/ ClearRemote
    BY <2>3 DEF ResetCounters, ClearRemote
  <2>4. CASE ClearEvents \/ Start
    BY <2>4 DEF ClearEvents, Start
  <2> QED BY <1>2, <2>1, <2>2, <2>3, <2>4 DEF Script
<1>3. CASE Net
  BY <1>3, NetFrame
<1>4. CASE Tick_
  BY <1>4, TickFrame
<1> QED BY <1>1, <1>2, <1>3, <1>4, Threads

LEMMA ValuesStep == Values /\ Phases /\ [Next]_vars => Values'
<1> SUFFICES ASSUME Values, Phases, [Next]_vars PROVE Values'
  OBVIOUS
<1> USE BoundAssumption, TimerAssumption DEF Values
<1>1. CASE User
  BY <1>1, UserFrame DEF record
<1>2. CASE Script
  <2>1. CASE Close
    BY <2>1 DEF Close, tickVars, record
  <2>2. CASE Open
    <3>1. script = "open" /\ conn < MaxConn
      BY <2>2 DEF Open, Phases
    <3> QED BY <2>2, <3>1 DEF Open, tickVars
  <2>3. CASE SetDisconnected \/ Start
    BY <2>3, <1>2, ScriptFrame DEF NetState, Close, Open, SetDisconnected, Start, ResetCounters
  <2>4. CASE ResetCounters
    BY <2>4, <1>2, ScriptFrame DEF Close, Open, SetDisconnected, Start, ResetCounters
  <2> QED BY <1>2, ScriptFrame, <2>1, <2>3, <2>4, <2>2
<1>3. CASE Net
  BY <1>3, NetFrame DEF SendHello, OutOfAttempts
<1>4. CASE Tick_
  BY <1>4, TickFrame DEF CheckConnected, NumberState, SendStateTo, record
<1> QED BY <1>1, <1>2, <1>3, <1>4, Threads

LEMMA TimersStep == Timers /\ [Next]_vars => Timers'
<1> SUFFICES ASSUME Timers, [Next]_vars PROVE Timers'
  OBVIOUS
<1> USE TimerAssumption DEF Timers, Clocks
<1>1. CASE User
  BY <1>1, UserFrame
<1>2. CASE Script
  BY <1>2, ScriptFrame DEF Start, NoClock, Join
<1>3. CASE Net
  <2>1. ASSUME NEW d \in 0 .. ServerTimeout
        PROVE  Elapsed(d) \in Clocks /\ [Elapsed(d) EXCEPT !.hello = 0] \in Clocks
    BY DEF Elapsed
  <2>2. ASSUME NEW d \in 0 .. ServerTimeout, Step(d) PROVE Timers'
    BY <2>1, <2>2 DEF Step, GiveUp, SendHello, GoOn
  <2>3. CASE StopSeen \/ Finish \/ NothingReceived \/ QueueLeft
    BY <2>3 DEF StopSeen, Finish, NothingReceived, QueueLeft
  <2>4. ASSUME NEW next \in {"top", "left"}, Received(next) PROVE Timers'
    BY <2>4 DEF Received
  <2> QED BY <1>3, <2>2, <2>3, <2>4
          DEF Net, ReceiveOther, ReceiveAck, ReceiveJoined, ReceiveLeft, ReceiveState
<1>4. CASE Tick_
  BY <1>4, TickFrame
<1> QED BY <1>1, <1>2, <1>3, <1>4, Threads

LEMMA SnapshotsStep == Types /\ Phases /\ [Next]_vars => Snapshots'
<1> SUFFICES ASSUME Types, Phases, [Next]_vars PROVE Snapshots'
  OBVIOUS
<1>1. CASE UNCHANGED remote
  BY <1>1 DEF Types, Snapshots
<1>2. CASE ClearRemote
  BY <1>2 DEF ClearRemote, Snapshots
<1>3. ASSUME NEW i \in Player, ReceiveLeft(i) PROVE Snapshots'
  BY <1>3 DEF ReceiveLeft, Types, Snapshots
<1>4. ASSUME NEW i \in Player, NEW t \in Tick, ReceiveState(i, t) PROVE Snapshots'
  <2>1. [tick |-> t, conn |-> conn] \in Snapshot
    BY <1>4, BoundAssumption DEF ReceiveState, Received, Phases, Types, Values, Snapshot
  <2> QED BY <1>4, <2>1 DEF ReceiveState, With, Types, Snapshots
<1> QED BY <1>1, <1>2, <1>3, <1>4, Threads, UserFrame, ScriptFrame, NetFrame, TickFrame

LEMMA EventType ==
    ASSUME Types, Phases, net # "none", NEW i \in Player, NEW joined \in BOOLEAN
    PROVE  Event(joined, i) \in EventOf /\ Event(joined, i).conn = conn
BY BoundAssumption DEF Types, Values, Phases, Event, EventOf

LEMMA QueueTypes ==
    ASSUME NEW s \in Seq(EventOf), NEW t \in Seq(EventOf), NEW e \in EventOf
    PROVE  Append(s, e) \in Seq(EventOf) /\ s \o t \in Seq(EventOf)
OBVIOUS

LEMMA QueuesStep == Types /\ Phases /\ [Next]_vars => Queues'
<1> SUFFICES ASSUME Types, Phases, [Next]_vars PROVE Queues'
  OBVIOUS
<1>1. Queues
  BY DEF Types
<1>2. CASE User
  BY <1>1, <1>2, UserFrame DEF record, Queues
<1>3. CASE Script
  <2>1. CASE ClearEvents
    BY <1>1, <1>3, <2>1, ScriptFrame DEF ClearEvents, Start, Join, Queues
  <2> QED BY <1>1, <1>3, <2>1, ScriptFrame DEF Start, Join, Queues
<1>4. CASE Net
  <2>1. UNCHANGED taken
    BY <1>4, NetFrame
  <2>2. ASSUME NEW i \in Player, ReceiveJoined(i) PROVE Queues'
    <3>1. Event(TRUE, i) \in EventOf
      BY <2>2, EventType DEF ReceiveJoined, Received
    <3> QED BY <1>1, <2>1, <2>2, <3>1, QueueTypes DEF ReceiveJoined, Received, Queues
  <2>3. ASSUME NEW i \in Player, ReceiveLeft(i) PROVE Queues'
    <3>1. Event(FALSE, i) \in EventOf
      BY <2>3, EventType DEF ReceiveLeft, Received
    <3> QED BY <1>1, <2>1, <2>3, <3>1, QueueTypes DEF ReceiveLeft, Received, Queues
  <2>4. CASE QueueLeft
    <3>1. Event(FALSE, leaving) \in EventOf
      BY <1>1, <2>4, EventType DEF QueueLeft, Queues
    <3> QED BY <1>1, <2>1, <2>4, <3>1, QueueTypes DEF QueueLeft, record, Queues
  <2> QED BY <1>1, <1>4, <2>2, <2>3, <2>4, NetFrame DEF Arrives, Queues
<1>5. CASE Tick_
  <2>1. CASE TakeEvents
    BY <1>1, <1>5, <2>1, TickFrame, QueueTypes DEF TakeEvents, Queues
  <2> QED BY <1>1, <1>5, <2>1, TickFrame DEF Queues
<1> QED BY <1>1, <1>2, <1>3, <1>4, <1>5, Threads DEF Queues

LEMMA TypesStep == Types /\ Phases /\ [Next]_vars => (Types /\ Phases)'
BY PhasesStep, ValuesStep, TimersStep, SnapshotsStep, QueuesStep DEF Types

-----------------------------------------------------------------------------
(* The parts of the invariant about what a connection holds.               *)

LEMMA CleanStep == Types /\ Phases /\ Clean /\ [Next]_vars => Clean'
<1> SUFFICES ASSUME Types, Phases, Clean, [Next]_vars PROVE Clean'
  OBVIOUS
<1> USE DEF Clean, OldConnectionGone, Opened, Between
<1>1. CASE User
  BY <1>1, UserFrame
<1>2. CASE Script
  <2> USE DEF shared, scriptVars, netVars, tickVars, record
  <2>1. CASE Join \/ Close
    BY <2>1 DEF Join, Close
  <2>2. CASE SetDisconnected \/ OpenFails
    BY <2>2 DEF SetDisconnected, OpenFails
  <2>3. CASE Open \/ ResetCounters
    BY <2>3 DEF Open, ResetCounters, Phases
  <2>4. CASE ClearRemote
    BY <2>4 DEF ClearRemote, Phases
  <2>5. CASE ClearEvents
    BY <2>5 DEF ClearEvents, Phases
  <2>6. CASE Start
    BY <2>6 DEF Start
  <2> QED BY <1>2, <2>1, <2>2, <2>3, <2>4, <2>5, <2>6 DEF Script
<1>3. CASE Net
  <2> UNCHANGED <<conn, script>> /\ net # "none" /\ script \notin {"clear2", "start"}
    BY <1>3, NetFrame DEF Phases
  <2>1. \A i \in DOMAIN remote' : remote'[i].conn = conn
    <3>1. ASSUME NEW i \in Player, ReceiveLeft(i) PROVE \A j \in DOMAIN remote' : remote'[j].conn = conn
      BY <3>1 DEF ReceiveLeft
    <3>2. ASSUME NEW i \in Player, NEW t \in Tick, ReceiveState(i, t)
          PROVE  \A j \in DOMAIN remote' : remote'[j].conn = conn
      BY <3>2 DEF ReceiveState, With
    <3> QED BY <1>3, <3>1, <3>2, NetFrame
  <2>2. \A k \in DOMAIN events' : events'[k].conn = conn
    <3>1. ASSUME NEW e \in EventOf, events' = Append(events, e), e.conn = conn
          PROVE  \A k \in DOMAIN events' : events'[k].conn = conn
      BY <3>1 DEF Types, Queues
    <3>2. ASSUME NEW i \in Player, ReceiveJoined(i) PROVE \A k \in DOMAIN events' : events'[k].conn = conn
      BY <3>1, <3>2, EventType DEF ReceiveJoined
    <3>3. ASSUME NEW i \in Player, ReceiveLeft(i) PROVE UNCHANGED events
      BY <3>3 DEF ReceiveLeft
    <3>4. CASE QueueLeft
      BY <3>1, <3>4, EventType DEF QueueLeft, Types, Queues
    <3> QED BY <1>3, <3>2, <3>3, <3>4, NetFrame DEF Arrives
  <2> QED BY <2>1, <2>2
<1>4. CASE Tick_
  BY <1>4, TickFrame DEF TakeEvents
<1> QED BY <1>1, <1>2, <1>3, <1>4, Threads

\* The last of the events is queued already, or still to be.
LEMMA ConcatAppends ==
    ASSUME NEW s \in Seq(EventOf), NEW t \in Seq(EventOf), NEW e \in EventOf
    PROVE  /\ s \o t \o <<>> = s \o t
           /\ Append(s \o t, e) = s \o t \o <<e>>
           /\ s \o Append(t, e) = s \o t \o <<e>>
<1>1. s \o t \in Seq(EventOf) /\ <<e>> \in Seq(EventOf)
  BY ConcatProperties
<1>2. Append(s \o t, e) = s \o t \o <<e>> /\ Append(t, e) = t \o <<e>>
  BY <1>1, AppendIsConcat
<1>3. s \o (t \o <<e>>) = s \o t \o <<e>>
  BY <1>1, ConcatAssociative
<1> QED BY <1>1, <1>2, <1>3, ConcatEmptySeq

LEMMA KeptStep == Types /\ Phases /\ NoEventLost /\ [Next]_vars => NoEventLost'
<1> SUFFICES ASSUME Types, Phases, NoEventLost, [Next]_vars PROVE NoEventLost'
  OBVIOUS
<1>1. events \in Seq(EventOf) /\ taken \in Seq(EventOf) /\ arrived \in Seq(EventOf)
  BY DEF Types, Queues
<1>a. /\ net = "left" => arrived = taken \o events \o <<Event(FALSE, leaving)>>
      /\ net # "left" => arrived = taken \o events
  <2>1. CASE net = "left"
    BY <2>1 DEF NoEventLost
  <2>2. CASE net # "left"
    <3>1. arrived = taken \o events \o <<>>
      BY <2>2 DEF NoEventLost
    <3>2. taken \o events \in Seq(EventOf)
      BY <1>1, ConcatProperties
    <3> QED BY <2>2, <3>1, <3>2, ConcatEmptySeq
  <2> QED BY <2>1, <2>2
<1>b. ASSUME net' # "left", arrived' = taken' \o events', arrived' \in Seq(EventOf) PROVE NoEventLost'
  <2>1. arrived' \o <<>> = arrived'
    BY <1>b, ConcatEmptySeq
  <2> QED BY <1>b, <2>1 DEF NoEventLost
<1>c. arrived' \in Seq(EventOf)
  BY QueuesStep DEF Queues
<1>2. CASE User
  BY <1>2, UserFrame DEF NoEventLost, Event, record
<1>3. CASE Script
  <2>1. CASE ClearEvents
    <3>1. net' # "left" /\ events' = <<>> /\ taken' = <<>> /\ arrived' = <<>>
      BY <1>3, <2>1, ScriptFrame DEF ClearEvents, Phases, Between, Opened, Start, Join
    <3>2. <<>> \o <<>> = <<>>
      OBVIOUS
    <3> QED BY <1>b, <1>c, <3>1, <3>2
  <2>2. CASE ~ClearEvents
    <3>1. UNCHANGED <<events, taken, arrived, leaving>> /\ (net' = "left" <=> net = "left")
      BY <1>3, <2>2, ScriptFrame DEF Start, Join, Phases, Between, Opened
    <3>2. net = "left" => UNCHANGED conn
      BY <1>3, ScriptFrame DEF Close, Open, Phases, Between
    <3> QED BY <3>1, <3>2 DEF NoEventLost, Event
  <2> QED BY <2>1, <2>2
<1>4. CASE Net
  <2>1. UNCHANGED <<taken, conn>>
    BY <1>4, NetFrame
  <2>2. ASSUME NEW i \in Player, ReceiveJoined(i) PROVE NoEventLost'
    <3> DEFINE e == Event(TRUE, i)
    <3>1. e \in EventOf
      BY <2>2, EventType DEF ReceiveJoined, Received
    <3>2. net # "left" /\ net' # "left"
      BY <2>2 DEF ReceiveJoined, Received
    <3>3. arrived' = Append(taken \o events, e) /\ events' = Append(events, e)
      BY <1>a, <2>2, <3>2 DEF ReceiveJoined
    <3> HIDE DEF e
    <3>4. /\ Append(taken \o events, e) = taken \o events \o <<e>>
          /\ taken \o Append(events, e) = taken \o events \o <<e>>
      BY <1>1, <3>1, ConcatAppends
    <3>5. arrived' = taken' \o events'
      BY <2>1, <3>3, <3>4
    <3> QED BY <1>b, <1>c, <3>2, <3>5
  <2>3. ASSUME NEW i \in Player, ReceiveLeft(i) PROVE NoEventLost'
    <3>1. Event(FALSE, i) \in EventOf /\ Event(FALSE, i)' = Event(FALSE, i)
      BY <2>1, <2>3, EventType DEF ReceiveLeft, Received, Event
    <3>2. arrived' = Append(taken \o events, Event(FALSE, i))
      BY <1>a, <2>3 DEF ReceiveLeft, Received
    <3>3. arrived' = taken \o events \o <<Event(FALSE, i)>>
      BY <1>1, <3>1, <3>2, ConcatAppends
    <3> QED BY <2>1, <2>3, <3>1, <3>3 DEF ReceiveLeft, Received, NoEventLost, Event
  <2>4. CASE QueueLeft
    <3>1. Event(FALSE, leaving) \in EventOf
      BY <2>4, EventType DEF QueueLeft, Types, Queues
    <3>2. arrived' = taken \o events \o <<Event(FALSE, leaving)>>
          /\ events' = Append(events, Event(FALSE, leaving)) /\ net' # "left"
      BY <1>a, <2>4 DEF QueueLeft, record
    <3>3. arrived' = taken' \o events'
      BY <1>1, <2>1, <3>1, <3>2, ConcatAppends
    <3> QED BY <1>b, <1>c, <3>2, <3>3
  <2>5. CASE UNCHANGED <<events, arrived>> /\ net # "left" /\ net' # "left"
    BY <2>1, <2>5 DEF NoEventLost
  <2> QED BY <1>4, <2>2, <2>3, <2>4, <2>5, NetFrame DEF Arrives
<1>5. CASE Tick_
  <2>1. CASE TakeEvents
    <3> taken \o events \in Seq(EventOf)
      BY <1>1, ConcatProperties
    <3>1. taken' = taken \o events /\ events' = <<>>
      BY <2>1 DEF TakeEvents
    <3>2. taken' \o events' = taken \o events
      BY <3>1, ConcatEmptySeq
    <3>3. UNCHANGED <<arrived, net, leaving, conn>>
      BY <1>5, TickFrame
    <3> QED BY <3>2, <3>3 DEF NoEventLost, Event
  <2> QED BY <1>5, <2>1, TickFrame DEF NoEventLost, Event
<1> QED BY <1>2, <1>3, <1>4, <1>5, Threads DEF NoEventLost, Event

LEMMA NumberedStep == Types /\ Phases /\ Numbered /\ [Next]_vars => Numbered'
<1> SUFFICES ASSUME Types, Phases, Numbered, [Next]_vars PROVE Numbered'
  OBVIOUS
<1>1. /\ conn \in Nat /\ stateTick \in Nat /\ sending \in Nat
      /\ lastSent \in Nat /\ checked \in Nat /\ checked <= conn
  BY BoundAssumption DEF Types, Values
<1> USE DEF Numbered, Opened, Between
<1>2. CASE User
  BY <1>2, UserFrame DEF record
<1>3. CASE Script
  <2> USE DEF shared, scriptVars, netVars, tickVars, record
  <2>1. CASE Join \/ Close
    BY <2>1 DEF Join, Close
  <2>2. CASE SetDisconnected \/ OpenFails
    BY <2>2 DEF SetDisconnected, OpenFails
  <2>3. CASE Open
    BY <1>1, <2>3 DEF Open
  <2>4. CASE ResetCounters
    BY <1>1, <2>4 DEF ResetCounters
  <2>5. CASE ClearRemote \/ ClearEvents
    BY <2>5 DEF ClearRemote, ClearEvents
  <2>6. CASE Start
    BY <2>6 DEF Start
  <2> QED BY <1>3, <2>1, <2>2, <2>3, <2>4, <2>5, <2>6 DEF Script
<1>4. CASE Net
  BY <1>4, NetFrame
<1>5. CASE Tick_
  <2> UNCHANGED <<conn, script, net>>
    BY <1>5, TickFrame
  <2>1. CASE UNCHANGED <<sending, checked, lastSent>> /\ tick' # "sendto"
    <3>1. UNCHANGED stateTick \/ stateTick' = stateTick + 1
      BY <1>5, TickFrame DEF NumberState
    <3> QED BY <1>1, <2>1, <3>1
  <2>2. CASE CheckConnected
    <3>1. script \notin Opened
      BY <2>2 DEF CheckConnected, Phases
    <3> QED BY <2>2, <3>1 DEF CheckConnected, shared, netVars
  <2>3. CASE NumberState
    BY <1>1, <2>3 DEF NumberState, record
  <2>4. CASE SendStateTo
    BY <1>1, <2>4 DEF SendStateTo, shared
  <2> QED BY <1>5, <2>1, <2>2, <2>3, <2>4, TickFrame
<1> QED BY <1>2, <1>3, <1>4, <1>5, Threads

-----------------------------------------------------------------------------
(* The theorems.                                                           *)

LEMMA Invariant == Spec => []IInv
<1>1. Init => IInv
  <2> SUFFICES ASSUME Init PROVE IInv
    OBVIOUS
  <2>1. DOMAIN remote = {}
    BY DEF Init
  <2>2. Types
    BY <2>1, BoundAssumption, TimerAssumption
       DEF Init, NoClock, Types, Values, Timers, Clocks, Snapshots, Queues, NetState
  <2>3. Phases /\ Clean /\ Numbered
    BY <2>1 DEF Init, Phases, Clean, OldConnectionGone, Numbered, Opened, Between
  <2>4. NoEventLost
    BY ConcatAppends DEF Init, NoEventLost
  <2> QED BY <2>2, <2>3, <2>4 DEF IInv
<1>2. IInv /\ [Next]_vars => IInv'
  BY TypesStep, CleanStep, KeptStep, NumberedStep DEF IInv
<1> QED BY <1>1, <1>2, PTL DEF Spec

\* Hello attempts stay within their limit, snapshot ticks and connections
\* within the bounds, and the socket never is one Connect has not opened.
THEOREM TypeCorrect == Spec => []TypeOK
<1>1. IInv => TypeOK
  BY DEF IInv, Types, Values, Timers, Snapshots, Queues, TypeOK, EventOf, Snapshot, Clocks
<1> QED BY <1>1, Invariant, PTL

\* No snapshot or event of an earlier connection is left once a connection
\* has its thread, however the tick and the reconnects interleave.
THEOREM NothingOld == Spec => []OldConnectionGone
<1>1. IInv => OldConnectionGone
  BY DEF IInv, Clean
<1> QED BY <1>1, Invariant, PTL

\* Once Disconnect has returned the client is, and stays, disconnected until
\* it is told to connect.
THEOREM DisconnectStays == Spec => []DisconnectIsFinal
<1>1. IInv => DisconnectIsFinal
  BY DEF IInv, Phases, DisconnectIsFinal
<1> QED BY <1>1, Invariant, PTL

\* The tick gets the joins and leaves of a connection once and in order,
\* with any number of them, whenever it takes them.
THEOREM EventsKept == Spec => []NoEventLost
<1>1. IInv => NoEventLost
  BY DEF IInv
<1> QED BY <1>1, Invariant, PTL

\* Snapshots go out with rising ticks on every socket.
THEOREM SendsRise == Spec => SentInOrder
<1>1. IInv => (tick = "sendto" /\ tick' = "events" /\ socket # 0 /\ checked = conn
                => sending > lastSent)
  BY BoundAssumption DEF IInv, Numbered, Types, Values
<1> QED BY <1>1, Invariant, PTL DEF SentInOrder
=============================================================================
