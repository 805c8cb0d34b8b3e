---------------------------- MODULE ServerProofs ----------------------------
(***************************************************************************)
(* Proofs about the server, for every set of addresses and names, every    *)
(* capacity, timeout and bound, and about its script backend.              *)
(***************************************************************************)
EXTENDS ServerObs, Scripts, FiniteSetTheorems, SequenceTheorems, TLAPS

USE NameAssumption, CapacityAssumption, TimeAssumption, BoundAssumption
    DEF NameAssumption, CapacityAssumption, TimeAssumption, BoundAssumption

-----------------------------------------------------------------------------
(* The operators on the session table.                                     *)

\* What an action may do to the table without anyone coming or going.
SamePlayers(s, t) ==
    /\ DOMAIN t = DOMAIN s
    /\ \A i \in DOMAIN s : /\ t[i].username = s[i].username
                           /\ t[i].endpoint = s[i].endpoint

\* Touch, the ageing of the table and ApplyState keep every session's player,
\* and its type.
LEMMA TouchedKeeps ==
    ASSUME NEW e, TypeOK
    PROVE  /\ SamePlayers(sessions, Touched(e))
           /\ \A i \in Live : Touched(e)[i] \in Session
  BY DEF Touched, SamePlayers, TypeOK, Session, Live

LEMMA AgedKeeps ==
    ASSUME NEW d \in 0 .. Timeout, TypeOK
    PROVE  /\ SamePlayers(sessions, Aged(d))
           /\ \A i \in Live : Aged(d)[i] \in Session
<1>1. ASSUME NEW i \in Live
      PROVE  /\ Aged(d)[i].username = sessions[i].username
             /\ Aged(d)[i].endpoint = sessions[i].endpoint
             /\ Aged(d)[i] \in Session
  <2> DEFINE a == IF sessions[i].age + d >= Timeout THEN Timeout ELSE sessions[i].age + d
  <2>1. sessions[i] \in Session
    BY DEF TypeOK
  <2>2. a \in 0 .. Timeout
    BY <2>1 DEF Session
  <2>3. Aged(d)[i] = [sessions[i] EXCEPT !.age = a]
    BY DEF Aged
  <2> HIDE DEF a
  <2> QED BY <2>1, <2>2, <2>3 DEF Session
<1> QED BY <1>1 DEF SamePlayers, Aged, Live

LEMMA AppliedKeeps ==
    ASSUME NEW e, NEW i \in Live, NEW tick \in Tick, TypeOK
    PROVE  /\ SamePlayers(sessions, Applied(Touched(e), i, tick))
           /\ \A j \in Live : Applied(Touched(e), i, tick)[j] \in Session
<1> DEFINE t == Touched(e)
           s == Applied(t, i, tick)
<1>1. /\ DOMAIN t = Live /\ SamePlayers(sessions, t)
      /\ \A j \in Live : t[j] \in Session
  BY TouchedKeeps DEF SamePlayers, Live
<1>2. /\ DOMAIN s = Live
      /\ s[i] = [t[i] EXCEPT !.hasState = TRUE, !.stateTick = tick]
      /\ \A j \in Live \ {i} : s[j] = t[j]
  BY <1>1 DEF Applied
<1> HIDE DEF t, s
<1>3. SamePlayers(sessions, s) /\ \A j \in Live : s[j] \in Session
  <2>1. t[i] \in Session
    BY <1>1
  <2>2. /\ s[i] \in Session
        /\ s[i].username = t[i].username /\ s[i].endpoint = t[i].endpoint
    BY <1>2, <2>1 DEF Session
  <2> QED BY <1>1, <1>2, <2>2 DEF SamePlayers, Live
<1> QED BY <1>3 DEF s, t

\* A callback only adds kicks of players it was shown.
LEMMA CallbackQueues ==
    ASSUME TypeOK, NEW players \in SUBSET PlayerId, NEW e, Callback(players, e)
    PROVE  kicks' \in Seq(PlayerId)
  BY DEF Callback, TypeOK

-----------------------------------------------------------------------------
(* Types.                                                                  *)

\* Every step keeps the types: in particular ids stay clear of 0, and ages
\* within the timeout.
LEMMA TypeStep == TypeOK /\ [Next]_vars => TypeOK'
<1> SUFFICES ASSUME TypeOK, [Next]_vars PROVE TypeOK'
  OBVIOUS
<1> USE DEF NoCallback
<1>1. CASE Stop
  BY <1>1 DEF Stop, TypeOK, Live
<1>2. ASSUME NEW d \in 0 .. Timeout, ReadClock(d) PROVE TypeOK'
  BY <1>2, AgedKeeps DEF ReadClock, SamePlayers, TypeOK, Live
<1>3. ASSUME NEW i \in Live, Expire(i) PROVE TypeOK'
  <2>1. Live' \subseteq Live /\ \A j \in Live' : sessions'[j] = sessions[j]
    BY <1>3 DEF Expire, Without, Live
  <2>2. kicks' \in Seq(PlayerId)
    BY <1>3, <2>1, CallbackQueues DEF Expire, Live, TypeOK
  <2> QED BY <1>3, <2>1, <2>2 DEF Expire, TypeOK
<1>4. CASE TickScripts
  <2>1. draining' \in Seq(PlayerId)
    BY <1>4 DEF TickScripts, TypeOK
  <2>2. kicks' \in Seq(PlayerId)
    BY <1>4 DEF TickScripts
  <2> QED BY <1>4, <2>1, <2>2 DEF TickScripts, TypeOK, Live
<1>5. CASE SkipKick
  BY <1>5 DEF SkipKick, TypeOK, Live
<1>6. CASE Kick
  <2>1. Live' \subseteq Live /\ \A j \in Live' : sessions'[j] = sessions[j]
    BY <1>6 DEF Kick, Without, Live
  <2>2. kicks' \in Seq(PlayerId)
    BY <1>6, <2>1, CallbackQueues DEF Kick, Live, TypeOK
  <2>3. draining' \in Seq(PlayerId)
    BY <1>6 DEF Kick, TypeOK
  <2> QED BY <1>6, <2>1, <2>2, <2>3 DEF Kick, TypeOK
<1>7. CASE KicksDone
  BY <1>7 DEF KicksDone, TypeOK, Live
<1>8. CASE Nothing
  BY <1>8 DEF Nothing, Receive, TypeOK, Live
<1>9. ASSUME NEW e \in Endpoint, Hear(e) PROVE TypeOK'
  <2>1. CASE Ignore(e) \/ AnswerPing(e)
    BY <2>1, TouchedKeeps DEF Ignore, AnswerPing, Receive, SamePlayers, TypeOK, Live
  <2>2. ASSUME NEW n \in Name, NEW v \in Version, AnswerHello(e, n, v) PROVE TypeOK'
    BY <2>2, TouchedKeeps DEF AnswerHello, Receive, SamePlayers, TypeOK, Live
  <2>3. ASSUME NEW n \in Name, NEW v \in Version, AcceptHello(e, n, v) PROVE TypeOK'
    <3>1. /\ Live' = Live \cup {nextId}
          /\ \A j \in Live' : sessions'[j] = IF j = nextId THEN NewSession(e, n) ELSE sessions[j]
      BY <2>3 DEF AcceptHello, Admit, Live
    <3>2. NewSession(e, n) \in Session
      BY DEF NewSession, Session, Tick
    <3>3. kicks' \in Seq(PlayerId)
      <4>1. DOMAIN sessions' \subseteq PlayerId
        BY <3>1 DEF TypeOK, Live, PlayerId
      <4>2. Callback(DOMAIN sessions', JoinEvent(nextId))
        BY <2>3 DEF AcceptHello
      <4> QED BY <4>1, <4>2, CallbackQueues
    <3>4. Live' \subseteq PlayerId /\ \A j \in Live' : sessions'[j] \in Session
      <4>1. nextId \in PlayerId
        BY DEF TypeOK, PlayerId
      <4> QED BY <3>1, <3>2, <4>1 DEF TypeOK
    <3>5. nextId' \in 1 .. MaxId + 1
      BY <2>3 DEF AcceptHello, TypeOK
    <3> QED BY <2>3, <3>3, <3>4, <3>5 DEF AcceptHello, Receive, TypeOK
  <2>4. ASSUME NEW tick \in Tick, DropState(e, tick) PROVE TypeOK'
    BY <2>4, TouchedKeeps DEF DropState, Receive, SamePlayers, TypeOK, Live
  <2>5. ASSUME NEW tick \in Tick, RelayState(e, tick) PROVE TypeOK'
    <3>1. PICK i \in Live : sessions' = Applied(Touched(e), i, tick)
      BY <2>5 DEF RelayState, SessionOf
    <3> QED BY <2>5, <3>1, AppliedKeeps DEF RelayState, Receive, SamePlayers, TypeOK, Live
  <2> QED BY <1>9, <2>1, <2>2, <2>3, <2>4, <2>5 DEF Hear
<1>10. CASE UNCHANGED vars
  BY <1>10 DEF vars, TypeOK, Live
<1> QED BY <1>1, <1>2, <1>3, <1>4, <1>5, <1>6, <1>7, <1>8, <1>9, <1>10 DEF Next, Loop

\* The session table, the kick queues and the loop's place have their types
\* in every reachable state.
THEOREM TypeCorrect == Spec => []TypeOK
<1>1. Init => TypeOK
  BY DEF Init, TypeOK, Live
<1> QED BY <1>1, TypeStep, PTL DEF Spec

-----------------------------------------------------------------------------
(* The shape of a step, as peers and scripts see it.                       *)

LEMMA AckType == ASSUME NEW r PROVE HelloAck(r).type = "HelloAck"
  BY DEF HelloAck

LEMMA JoinedFields ==
    ASSUME NEW i, NEW n
    PROVE  Joined(i, n).type = "NotifyPlayerJoined" /\ Joined(i, n).playerId = i
  BY DEF Joined

LEMMA LeftFields ==
    ASSUME NEW i
    PROVE  Left(i).type = "NotifyPlayerLeft" /\ Left(i).playerId = i
  BY DEF Left

Quiet(o) == \A d \in o : d.msg.type \notin {"NotifyPlayerJoined", "NotifyPlayerLeft"}

Stays ==
    /\ SamePlayers(sessions, sessions')
    /\ nextId' = nextId
    /\ Quiet(out')
    /\ event' \in {NoEvent, TickEvent}

Drops(i) ==
    /\ sessions' = Without(sessions, i)
    /\ nextId' = nextId
    /\ out' = Broadcast(sessions', Left(i), i)
    /\ event' = LeaveEvent(i)

Admits(e, n) ==
    /\ JoinResult(e, n, kVersion) = "accepted"
    /\ nextId <= MaxId
    /\ sessions' = Admit(sessions, nextId, e, n)
    /\ nextId' = nextId + 1
    /\ out' = Send(e, HelloAck("accepted"))
                \cup Roster(sessions, e)
                \cup Broadcast(sessions', Joined(nextId, n), nextId)
    /\ event' = JoinEvent(nextId)

\* Whatever the loop does, a step leaves everybody in place and announces
\* nobody, or drops one player, or admits one.
LEMMA StepShape ==
    ASSUME TypeOK, Next
    PROVE  \/ Stays
           \/ \E i \in Live : Drops(i)
           \/ \E e \in Endpoint, n \in Name : Admits(e, n)
<1> DEFINE Goal == \/ Stays
                   \/ \E i \in Live : Drops(i)
                   \/ \E e \in Endpoint, n \in Name : Admits(e, n)
<1> USE DEF NoCallback
<1>1. ASSUME out' = {}, sessions' = sessions, nextId' = nextId, event' \in {NoEvent, TickEvent}
      PROVE  Stays
  BY <1>1 DEF Stays, SamePlayers, Quiet
<1>2. ASSUME Stop \/ TickScripts \/ SkipKick \/ KicksDone \/ Nothing PROVE Goal
  BY <1>1, <1>2 DEF Stop, TickScripts, SkipKick, KicksDone, Nothing, Receive
<1>3. ASSUME NEW d \in 0 .. Timeout, ReadClock(d) PROVE Goal
  BY <1>3, AgedKeeps DEF ReadClock, Stays, Quiet
<1>4. ASSUME NEW i \in Live, Expire(i) PROVE Goal
  BY <1>4 DEF Expire, Callback, Drops
<1>5. CASE Kick
  BY <1>5 DEF Kick, Callback, Drops
<1>6. ASSUME NEW e \in Endpoint, Hear(e) PROVE Goal
  <2>1. CASE Ignore(e)
    BY <2>1, TouchedKeeps DEF Ignore, Stays, Quiet
  <2>2. CASE AnswerPing(e)
    BY <2>2, TouchedKeeps DEF AnswerPing, Stays, Quiet, Send, Pong
  <2>3. ASSUME NEW n \in Name, NEW v \in Version, AnswerHello(e, n, v) PROVE Goal
    <3>1. Quiet(out')
      BY <2>3, AckType DEF AnswerHello, Send, Quiet
    <3> QED BY <2>3, <3>1, TouchedKeeps DEF AnswerHello, Stays
  <2>4. ASSUME NEW n \in Name, NEW v \in Version, AcceptHello(e, n, v) PROVE Goal
    <3>1. v = kVersion
      BY <2>4 DEF AcceptHello, JoinResult
    <3> QED BY <2>4, <3>1 DEF AcceptHello, Callback, Admits
  <2>5. ASSUME NEW tick \in Tick, DropState(e, tick) PROVE Goal
    BY <2>5, TouchedKeeps DEF DropState, Stays, Quiet
  <2>6. ASSUME NEW tick \in Tick, RelayState(e, tick) PROVE Goal
    <3>1. PICK i \in Live : /\ sessions' = Applied(Touched(e), i, tick)
                            /\ out' = Broadcast(sessions', State(i, tick), i)
      BY <2>6 DEF RelayState, SessionOf
    <3>2. Quiet(out')
      BY <3>1 DEF Quiet, Broadcast, State
    <3> QED BY <2>6, <3>1, <3>2, AppliedKeeps DEF RelayState, Stays
  <2> QED BY <1>6, <2>1, <2>2, <2>3, <2>4, <2>5, <2>6 DEF Hear
<1> QED BY <1>2, <1>3, <1>4, <1>5, <1>6 DEF Next, Loop

\* What an accepted Hello found.
LEMMA AcceptedMeans ==
    ASSUME NEW e, NEW n, JoinResult(e, n, kVersion) = "accepted"
    PROVE  /\ n # NoName
           /\ \A i \in Live : sessions[i].endpoint # e /\ sessions[i].username # n
           /\ ~(Cardinality(Live) >= MaxPlayers)
  BY DEF JoinResult, SessionOf, NameTaken

-----------------------------------------------------------------------------
(* Who is connected.                                                       *)

IInv == TypeOK /\ SessionsWellFormed

LEMMA FiniteLive == ASSUME IInv PROVE IsFiniteSet(Live)
<1>1. Live \subseteq 1 .. nextId
  BY DEF IInv, TypeOK, SessionsWellFormed, PlayerId
<1>2. IsFiniteSet(1 .. nextId)
  BY FS_Interval DEF IInv, TypeOK
<1> QED BY <1>1, <1>2, FS_Subset

\* The table stays well formed: the refusals of Join are enough, however
\* joins, expiry and kicks interleave.
LEMMA WellFormedStep == IInv /\ [Next]_vars => IInv'
<1> SUFFICES ASSUME IInv, [Next]_vars PROVE SessionsWellFormed'
  BY TypeStep DEF IInv
<1>1. CASE UNCHANGED vars
  BY <1>1 DEF IInv, SessionsWellFormed, vars, Live
<1>2. CASE Stays
  BY <1>2 DEF IInv, SessionsWellFormed, Stays, SamePlayers, Live
<1>3. ASSUME NEW i \in Live, Drops(i) PROVE SessionsWellFormed'
  <2>1. Live' = Live \ {i} /\ \A j \in Live' : sessions'[j] = sessions[j]
    BY <1>3 DEF Drops, Without, Live
  <2>2. Cardinality(Live') <= MaxPlayers
    <3>1. /\ Cardinality(Live') <= Cardinality(Live)
          /\ Cardinality(Live') \in Nat /\ Cardinality(Live) \in Nat
      BY <2>1, FiniteLive, FS_Subset, FS_CardinalityType
    <3> QED BY <3>1 DEF IInv, SessionsWellFormed
  <2> QED BY <1>3, <2>1, <2>2 DEF IInv, SessionsWellFormed, Drops
<1>4. ASSUME NEW e \in Endpoint, NEW n \in Name, Admits(e, n) PROVE SessionsWellFormed'
  <2>1. /\ Live' = Live \cup {nextId}
        /\ nextId \notin Live
        /\ sessions'[nextId] = NewSession(e, n)
        /\ \A j \in Live : sessions'[j] = sessions[j]
    BY <1>4 DEF Admits, Admit, Live, IInv, SessionsWellFormed, TypeOK
  <2>2. Cardinality(Live') <= MaxPlayers
    <3>1. Cardinality(Live') = Cardinality(Live) + 1 /\ Cardinality(Live) \in Nat
      BY <2>1, FiniteLive, FS_AddElement, FS_CardinalityType
    <3> QED BY <1>4, <3>1, AcceptedMeans DEF Admits
  <2>3. /\ NewSession(e, n).endpoint = e /\ NewSession(e, n).username = n
    BY DEF NewSession
  <2>4. /\ n # NoName
        /\ \A j \in Live : sessions[j].endpoint # e /\ sessions[j].username # n
    BY <1>4, AcceptedMeans DEF Admits
  <2>5. nextId' = nextId + 1 /\ nextId \in Nat /\ Live \subseteq Nat
    BY <1>4 DEF Admits, IInv, TypeOK, PlayerId
  <2> QED BY <2>1, <2>2, <2>3, <2>4, <2>5 DEF IInv, SessionsWellFormed
<1> QED BY <1>1, <1>2, <1>3, <1>4, StepShape DEF IInv

LEMMA InitIInv == Init => IInv
<1>1. Init => Live = {}
  BY DEF Init, Live
<1>2. Init => TypeOK
  BY DEF Init, TypeOK, Live
<1>3. Init => Cardinality(Live) = 0
  BY <1>1, FS_EmptySet
<1> QED BY <1>1, <1>2, <1>3 DEF IInv, SessionsWellFormed

\* At every moment no two sessions share an address or a name, ids are older
\* than the next one, and there are at most MaxPlayers sessions.
THEOREM WellFormed == Spec => []SessionsWellFormed
<1>1. IInv => SessionsWellFormed
  BY DEF IInv
<1> QED BY <1>1, InitIInv, WellFormedStep, PTL DEF Spec

-----------------------------------------------------------------------------
(* Refinement.                                                             *)

\* The server implements Roster: players come and go one at a time, ids are
\* never given out twice, and a session never changes address or name.
THEOREM ImplementsRoster == Spec => R!Spec
<1>1. Init => R!Init
  <2> SUFFICES ASSUME Init PROVE R!Init
    OBVIOUS
  <2>1. Live = {} /\ nextId - 1 = 0
    BY DEF Init, Live
  <2> QED BY <2>1 DEF R!Init, Members
<1>2. IInv /\ [Next]_vars => [R!Next]_(R!vars)
  <2> SUFFICES ASSUME IInv, [Next]_vars PROVE R!Next \/ UNCHANGED R!vars
    OBVIOUS
  <2>1. CASE UNCHANGED vars
    BY <2>1 DEF vars, R!vars, Members, Live
  <2>2. CASE Stays
    <3>1. Members' = Members
      BY <2>2 DEF Stays, SamePlayers, Members, Live
    <3> QED BY <2>2, <3>1 DEF Stays, R!vars
  <2>3. ASSUME NEW i \in Live, Drops(i) PROVE R!Leave(i) /\ i \in DOMAIN Members
    <3>1. Live' = Live \ {i} /\ \A j \in Live' : sessions'[j] = sessions[j]
      BY <2>3 DEF Drops, Without, Live
    <3>2. Members' = [j \in DOMAIN Members \ {i} |-> Members[j]]
      BY <3>1 DEF Members
    <3> QED BY <2>3, <3>2 DEF R!Leave, Drops, Members
  <2>4. ASSUME NEW e \in Endpoint, NEW n \in Name, Admits(e, n) PROVE R!Next
    <3> DEFINE w == [username |-> n, endpoint |-> e]
    <3>1. nextId \in Nat /\ nextId - 1 + 1 = nextId /\ nextId' - 1 = nextId
      BY <2>4 DEF Admits, IInv, TypeOK
    <3>2. /\ Live' = Live \cup {nextId}
          /\ nextId \notin Live
          /\ sessions'[nextId] = NewSession(e, n)
          /\ \A j \in Live : sessions'[j] = sessions[j]
      BY <2>4 DEF Admits, Admit, Live, IInv, SessionsWellFormed, TypeOK
    <3>3. /\ n # NoName
          /\ \A j \in Live : sessions[j].endpoint # e /\ sessions[j].username # n
          /\ ~(Cardinality(Live) >= MaxPlayers)
      BY <2>4, AcceptedMeans DEF Admits
    <3>4. w \in R!Who
      BY <3>3 DEF R!Who
    <3>5. Members' = [i \in DOMAIN Members \cup {nextId} |->
                        IF i = nextId THEN w ELSE Members[i]]
      BY <3>2 DEF Members, NewSession
    <3>6. Cardinality(DOMAIN Members) < MaxPlayers
      <4>1. DOMAIN Members = Live /\ Cardinality(Live) \in Nat
        BY FiniteLive, FS_CardinalityType DEF Members
      <4> QED BY <3>3, <4>1
    <3>7. \A i \in DOMAIN Members : /\ Members[i].username # w.username
                                    /\ Members[i].endpoint # w.endpoint
      BY <3>3 DEF Members
    <3>8. R!Join(w)
      BY <3>1, <3>5, <3>6, <3>7 DEF R!Join, R!Cardinality, Cardinality
    <3> QED BY <3>4, <3>8 DEF R!Next
  <2> QED BY <2>1, <2>2, <2>3, <2>4, StepShape DEF R!Next, IInv
<1> QED BY <1>1, <1>2, InitIInv, WellFormedStep, PTL DEF Spec, R!Spec

-----------------------------------------------------------------------------
(* What is told.                                                           *)

ObsIInv == IInv /\ ToldRoster /\ ScriptsSeeRoster

\* The broadcasts and the roster keep every client's list exact.
LEMMA ToldStep == ObsIInv /\ [ObsNext]_obsVars => (ToldRoster /\ ScriptsSeeRoster)'
<1> SUFFICES ASSUME ObsIInv, [ObsNext]_obsVars PROVE (ToldRoster /\ ScriptsSeeRoster)'
  OBVIOUS
<1> USE DEF ObsIInv
<1>1. CASE UNCHANGED obsVars
  BY <1>1 DEF ToldRoster, ScriptsSeeRoster, obsVars, Live
<1> SUFFICES ASSUME ObsNext PROVE (ToldRoster /\ ScriptsSeeRoster)'
  BY <1>1
<1>2. DOMAIN told' = Live'
  BY DEF ObsNext, Observe, Live
<1>3. IInv'
  BY WellFormedStep DEF ObsNext
<1> DEFINE addr(i) == sessions'[i].endpoint
<1>4. \A i \in Live' :
         told'[i] = (Before(told, i, {}) \cup SaysJoined(out', addr(i))) \ SaysLeft(out', addr(i))
  BY DEF ObsNext, Observe, Live
<1>5. \A i \in Live : Before(told, i, {}) = Live \ {i}
  BY DEF Before, ToldRoster
<1>6. \A i, j \in Live' : i # j => addr(i) # addr(j)
  BY <1>3 DEF IInv, SessionsWellFormed
<1>7. Live \subseteq 1 .. MaxId
  BY DEF IInv, TypeOK, SessionsWellFormed, PlayerId
<1>8. CASE Stays
  <2>1. Live' = Live
    BY <1>8 DEF Stays, SamePlayers, Live
  <2>2. ASSUME NEW a PROVE SaysJoined(out', a) = {} /\ SaysLeft(out', a) = {}
    BY <1>8 DEF Stays, Quiet, SaysJoined, SaysLeft
  <2>3. \A i \in Live' : told'[i] = Live' \ {i}
    BY <1>4, <1>5, <2>1, <2>2
  <2>4. scripted' = Live'
    BY <1>8, <2>1 DEF Stays, ObsNext, Observe, NoEvent, TickEvent, ScriptsSeeRoster
  <2> QED BY <1>2, <2>3, <2>4 DEF ToldRoster, ScriptsSeeRoster
<1>9. ASSUME NEW k \in Live, Drops(k) PROVE (ToldRoster /\ ScriptsSeeRoster)'
  <2>1. Live' = Live \ {k}
    BY <1>9 DEF Drops, Without, Live
  <2>2. \A d : d \in out' <=> \E i \in Live' : d = [to |-> addr(i), msg |-> Left(k)]
    BY <1>9, <2>1 DEF Drops, Broadcast, Live
  <2>3. ASSUME NEW i \in Live'
        PROVE  SaysJoined(out', addr(i)) = {} /\ SaysLeft(out', addr(i)) = {k}
    <3>1. \A d \in out' : d.msg = Left(k)
      BY <2>2
    <3>2. [to |-> addr(i), msg |-> Left(k)] \in out'
      BY <2>2
    <3>3. k \in 1 .. MaxId
      BY <1>7
    <3> QED BY <3>1, <3>2, <3>3, LeftFields DEF SaysJoined, SaysLeft
  <2>4. \A i \in Live' : told'[i] = Live' \ {i}
    BY <1>4, <1>5, <2>1, <2>3
  <2>5. scripted' = Live'
    BY <1>9, <2>1 DEF Drops, ObsNext, Observe, LeaveEvent, ScriptsSeeRoster
  <2> QED BY <1>2, <2>4, <2>5 DEF ToldRoster, ScriptsSeeRoster
<1>10. ASSUME NEW e \in Endpoint, NEW n \in Name, Admits(e, n)
       PROVE  (ToldRoster /\ ScriptsSeeRoster)'
  <2>1. /\ Live' = Live \cup {nextId}
        /\ nextId \notin Live
        /\ nextId \in 1 .. MaxId
        /\ sessions'[nextId] = NewSession(e, n)
        /\ \A j \in Live : sessions'[j] = sessions[j]
    BY <1>10 DEF Admits, Admit, Live, IInv, SessionsWellFormed, TypeOK
  <2>2. addr(nextId) = e
    BY <2>1 DEF NewSession
  <2>3. \A d : d \in out' <=>
          \/ d = [to |-> e, msg |-> HelloAck("accepted")]
          \/ \E i \in Live : d = [to |-> e, msg |-> Joined(i, sessions[i].username)]
          \/ \E i \in Live : d = [to |-> addr(i), msg |-> Joined(nextId, n)]
    <3>1. \A d : d \in Broadcast(sessions', Joined(nextId, n), nextId)
            <=> \E i \in Live : d = [to |-> addr(i), msg |-> Joined(nextId, n)]
      BY <2>1 DEF Broadcast, Live
    <3>2. \A d : d \in Roster(sessions, e)
            <=> \E i \in Live : d = [to |-> e, msg |-> Joined(i, sessions[i].username)]
      BY DEF Roster, Live
    <3> QED BY <1>10, <3>1, <3>2 DEF Admits, Send
  <2>4. ASSUME NEW a PROVE SaysLeft(out', a) = {}
    BY <2>3, AckType, JoinedFields DEF SaysLeft
  <2>5. SaysJoined(out', e) = Live
    <3>1. \A i \in Live : addr(i) # e
      BY <1>6, <2>1, <2>2
    <3>2. \A d \in out' : d.to = e /\ d.msg.type = "NotifyPlayerJoined" => d.msg.playerId \in Live
      BY <2>3, <3>1, AckType, JoinedFields
    <3>3. ASSUME NEW i \in Live
          PROVE \E d \in out' :
             d.to = e /\ d.msg.type = "NotifyPlayerJoined" /\ d.msg.playerId = i
      <4>1. [to |-> e, msg |-> Joined(i, sessions[i].username)] \in out'
        BY <2>3
      <4> QED BY <4>1, JoinedFields
    <3> QED BY <1>7, <3>2, <3>3 DEF SaysJoined
  <2>6. ASSUME NEW i \in Live PROVE SaysJoined(out', addr(i)) = {nextId}
    <3>1. addr(i) # e
      BY <1>6, <2>1, <2>2
    <3>2. \A d \in out' : d.to = addr(i) => d.msg = Joined(nextId, n)
      BY <2>3, <3>1
    <3>3. [to |-> addr(i), msg |-> Joined(nextId, n)] \in out'
      BY <2>3
    <3> QED BY <2>1, <3>2, <3>3, JoinedFields DEF SaysJoined
  <2>7. Before(told, nextId, {}) = {}
    BY <2>1 DEF Before, ToldRoster
  <2>8. \A i \in Live' : told'[i] = Live' \ {i}
    BY <1>4, <1>5, <2>1, <2>2, <2>4, <2>5, <2>6, <2>7
  <2>9. scripted' = Live'
    BY <1>10, <2>1 DEF Admits, ObsNext, Observe, JoinEvent, ScriptsSeeRoster
  <2> QED BY <1>2, <2>8, <2>9 DEF ToldRoster, ScriptsSeeRoster
<1> QED BY <1>8, <1>9, <1>10, StepShape DEF ObsNext, IInv

LEMMA ObsInvariant == ObsSpec => []ObsIInv
<1>1. ObsInit => ObsIInv
  BY InitIInv DEF ObsInit, ObsIInv, ToldRoster, ScriptsSeeRoster, Init, Live
<1>2. ObsIInv /\ [ObsNext]_obsVars => ObsIInv'
  <2>1. [ObsNext]_obsVars => [Next]_vars
    BY DEF ObsNext, obsVars, vars
  <2> QED BY <2>1, WellFormedStep, ToldStep DEF ObsIInv
<1> QED BY <1>1, <1>2, PTL DEF ObsSpec

\* Every connected client has been told of exactly the other connected ones.
THEOREM ToldCorrect == ObsSpec => []ToldRoster
<1>1. ObsIInv => ToldRoster
  BY DEF ObsIInv
<1> QED BY <1>1, ObsInvariant, PTL

\* The scripts have seen a join for each player that is in and a leave for
\* each that is gone, at the latest when a callback runs.
THEOREM ScriptsCorrect == ObsSpec => []ScriptsSeeRoster
<1>1. ObsIInv => ScriptsSeeRoster
  BY DEF ObsIInv
<1> QED BY <1>1, ObsInvariant, PTL

-----------------------------------------------------------------------------
(* Kicks.                                                                  *)

\* What was asked for and not carried out is in one of the two queues; all
\* that was asked for before the tick callback is in the one that is drained.
KickInv ==
    /\ TypeOK
    /\ asked \subseteq Ids(kicks) \cup Ids(draining)
    /\ pc # "kick" => draining = <<>> /\ due = {}
    /\ pc = "kick" => due \subseteq Ids(draining)

LEMMA IdsOfConcat ==
    ASSUME NEW q \in Seq(PlayerId), NEW r \in Seq(PlayerId)
    PROVE  Ids(q) \subseteq Ids(q \o r) /\ Ids(r) \subseteq Ids(q \o r)
<1>1. ASSUME NEW k \in DOMAIN q PROVE q[k] \in Ids(q \o r)
  BY DEF Ids
<1>2. ASSUME NEW k \in DOMAIN r PROVE r[k] \in Ids(q \o r)
  <2>1. Len(q) + k \in DOMAIN (q \o r) /\ (q \o r)[Len(q) + k] = r[k]
    OBVIOUS
  <2> QED BY <2>1 DEF Ids
<1> QED BY <1>1, <1>2 DEF Ids

LEMMA IdsOfTail ==
    ASSUME NEW q \in Seq(PlayerId), q # <<>>
    PROVE  Ids(q) \subseteq Ids(Tail(q)) \cup {Head(q)}
<1>1. ASSUME NEW k \in DOMAIN q PROVE q[k] \in Ids(Tail(q)) \cup {Head(q)}
  <2>1. CASE k = 1
    BY <2>1
  <2>2. CASE k # 1
    <3>1. k - 1 \in DOMAIN Tail(q) /\ Tail(q)[k - 1] = q[k]
      BY <2>2
    <3> QED BY <3>1 DEF Ids
  <2> QED BY <2>1, <2>2
<1> QED BY <1>1 DEF Ids

\* A callback, and a step without one, keeps what is queued.
LEMMA QueueGrows ==
    ASSUME TypeOK, \/ NoCallback
                   \/ \E players \in SUBSET PlayerId : \E e : Callback(players, e)
    PROVE  Ids(kicks) \subseteq Ids(kicks')
<1>1. CASE NoCallback
  BY <1>1 DEF NoCallback, Ids
<1>2. ASSUME NEW players \in SUBSET PlayerId, NEW e, Callback(players, e)
      PROVE  Ids(kicks) \subseteq Ids(kicks')
  <2>1. PICK n \in 0 .. MaxKicks :
          \E new \in [1 .. n -> players] : kicks' = kicks \o new
    BY <1>2 DEF Callback
  <2>2. PICK new \in [1 .. n -> players] : kicks' = kicks \o new
    BY <2>1
  <2>3. new \in Seq(PlayerId) /\ kicks \in Seq(PlayerId)
    BY <2>2 DEF TypeOK
  <2> QED BY <2>2, <2>3, IdsOfConcat
<1> QED BY <1>1, <1>2

LEMMA KickStep == KickInv /\ [ObsNext]_obsVars => KickInv'
<1> SUFFICES ASSUME KickInv, [ObsNext]_obsVars PROVE KickInv'
  OBVIOUS
<1>1. CASE UNCHANGED obsVars
  BY <1>1 DEF obsVars, KickInv, TypeOK, Live, Ids
<1> SUFFICES ASSUME Next, Observe PROVE KickInv'
  BY <1>1 DEF ObsNext
<1>2. TypeOK'
  BY TypeStep DEF KickInv
<1>3. /\ asked' = (asked \cup Ids(kicks') \cup Ids(draining')) \cap Live'
      /\ due' = (IF event'.kind = "tick" THEN asked' ELSE due) \cap Live'
  BY Zenon DEF Observe, Live
<1>4. TypeOK /\ Live \subseteq PlayerId
  BY DEF KickInv, TypeOK
\* Steps that leave both queues alone, or to a callback.
<1>5. ASSUME \/ NoCallback
             \/ \E players \in SUBSET PlayerId : \E e :
                   Callback(players, e) /\ e.kind # "tick",
             draining' = draining, (pc = "kick") <=> (pc' = "kick")
      PROVE  KickInv'
  <2>1. event'.kind # "tick"
    BY <1>5 DEF NoCallback, NoEvent, Callback
  <2>2. Ids(kicks) \subseteq Ids(kicks')
    BY <1>4, <1>5, QueueGrows
  <2>3. Ids(draining') = Ids(draining)
    BY <1>5 DEF Ids
  <2> QED BY <1>2, <1>3, <1>5, <2>1, <2>2, <2>3 DEF KickInv
<1>6. ASSUME NEW e \in Endpoint, Hear(e) PROVE KickInv'
  <2>1. pc = "recv" /\ pc' = "top" /\ draining' = draining
    BY <1>6 DEF Hear, Ignore, AnswerPing, AnswerHello, AcceptHello, DropState, RelayState,
                Receive
  <2>2. \/ NoCallback
        \/ \E players \in SUBSET PlayerId : \E ev :
              Callback(players, ev) /\ ev.kind # "tick"
    <3>1. CASE \E n \in Name, v \in Version : AcceptHello(e, n, v)
      <4>1. Callback(DOMAIN sessions', JoinEvent(nextId))
        BY <3>1 DEF AcceptHello
      <4>2. DOMAIN sessions' \subseteq PlayerId
        BY <1>2 DEF TypeOK, Live
      <4>3. JoinEvent(nextId).kind # "tick"
        BY DEF JoinEvent
      <4> QED BY <4>1, <4>2, <4>3
    <3>2. CASE ~\E n \in Name, v \in Version : AcceptHello(e, n, v)
      BY <1>6, <3>2 DEF Hear, Ignore, AnswerPing, AnswerHello, DropState, RelayState
    <3> QED BY <3>1, <3>2
  <2> QED BY <1>5, <2>1, <2>2
<1>7. CASE Stop \/ Nothing \/ \E d \in 0 .. Timeout : ReadClock(d)
  BY <1>5, <1>7 DEF Stop, Nothing, Receive, ReadClock
<1>8. ASSUME NEW i \in Live, Expire(i) PROVE KickInv'
  <2>1. /\ Callback(DOMAIN sessions', LeaveEvent(i))
        /\ draining' = draining /\ pc' = pc
    BY <1>8 DEF Expire
  <2>2. DOMAIN sessions' \subseteq PlayerId /\ LeaveEvent(i).kind # "tick"
    BY <1>2 DEF TypeOK, Live, LeaveEvent
  <2> QED BY <1>5, <2>1, <2>2
<1>9. CASE TickScripts
  <2>1. PICK n \in 0 .. MaxKicks :
          \E new \in [1 .. n -> Live] : draining' = kicks \o new
    BY <1>9 DEF TickScripts
  <2>2. PICK new \in [1 .. n -> Live] : draining' = kicks \o new
    BY <2>1
  <2>3. /\ pc = "expire" /\ pc' = "kick"
        /\ event'.kind = "tick"
    BY <1>9 DEF TickScripts, TickEvent
  <2>4. new \in Seq(PlayerId) /\ kicks \in Seq(PlayerId)
    BY <1>4, <2>2 DEF TypeOK
  <2>5. Ids(kicks) \subseteq Ids(draining')
    BY <2>2, <2>4, IdsOfConcat
  <2>6. Ids(draining) = {} /\ Ids(kicks') = {}
    BY <1>9, <2>3 DEF TickScripts, KickInv, Ids
  <2> QED BY <1>2, <1>3, <2>3, <2>5, <2>6 DEF KickInv
<1>10. CASE SkipKick \/ Kick
  <2>1. /\ pc = "kick" /\ pc' = "kick"
        /\ draining # <<>> /\ draining' = Tail(draining)
    BY <1>10 DEF SkipKick, Kick
  <2>2. Head(draining) \notin Live'
    BY <1>10 DEF SkipKick, Kick, Without, Live
  <2>3. \/ NoCallback
        \/ \E players \in SUBSET PlayerId : \E e :
              Callback(players, e) /\ e.kind # "tick"
    <3>1. CASE SkipKick
      BY <3>1 DEF SkipKick
    <3>2. CASE Kick
      <4>1. Callback(DOMAIN sessions', LeaveEvent(Head(draining)))
        BY <3>2 DEF Kick
      <4>2. DOMAIN sessions' \subseteq PlayerId
        BY <1>2 DEF TypeOK, Live
      <4>3. LeaveEvent(Head(draining)).kind # "tick"
        BY DEF LeaveEvent
      <4> QED BY <4>1, <4>2, <4>3
    <3> QED BY <1>10, <3>1, <3>2
  <2>4. event'.kind # "tick"
    BY <2>3 DEF NoCallback, NoEvent, Callback
  <2>5. Ids(kicks) \subseteq Ids(kicks')
    BY <1>4, <2>3, QueueGrows
  <2>6. Ids(draining) \subseteq Ids(draining') \cup {Head(draining)}
    BY <1>4, <2>1, IdsOfTail DEF TypeOK
  <2> QED BY <1>2, <1>3, <2>1, <2>2, <2>4, <2>5, <2>6 DEF KickInv
<1>11. CASE KicksDone
  <2>1. /\ pc = "kick" /\ pc' = "recv" /\ draining = <<>> /\ draining' = <<>>
        /\ kicks' = kicks /\ event'.kind # "tick"
    BY <1>11 DEF KicksDone, NoCallback, NoEvent
  <2>2. Ids(draining) = {}
    BY <2>1 DEF Ids
  <2> QED BY <1>2, <1>3, <2>1, <2>2 DEF KickInv
<1> QED BY <1>6, <1>7, <1>8, <1>9, <1>10, <1>11 DEF Next, Loop

\* What a script asked to be kicked by the end of a tick callback is out when
\* the loop waits for the next datagram, also a kick asked for in the middle of
\* the drain before, for any number of kicks, repeated or of players that left.
THEOREM KicksCorrect == ObsSpec => []KicksCarriedOut
<1>1. ObsInit => KickInv
  <2>1. Init => TypeOK
    BY DEF Init, TypeOK, Live
  <2> QED BY <2>1 DEF ObsInit, Init, KickInv, Ids
<1>2. KickInv => KicksCarriedOut
  BY DEF KickInv, KicksCarriedOut
<1> QED BY <1>1, <1>2, KickStep, PTL DEF ObsSpec

-----------------------------------------------------------------------------
(* Snapshots.                                                              *)

Snapshots(o) == {d \in o : d.msg.type = "NotifyPlayerState"}

\* What a session remembers of its player's snapshots.
SameSnapshot(s, t, i) == t[i].hasState = s[i].hasState /\ t[i].stateTick = s[i].stateTick

\* No snapshot is relayed, and what the table says of snapshots stays: a new
\* session has none.
RelaysNothing ==
    /\ Snapshots(out') = {}
    /\ \A i \in Live' : IF i \in Live THEN SameSnapshot(sessions, sessions', i)
                                      ELSE ~sessions'[i].hasState

\* A snapshot newer than all before it goes to everybody else.
Relays(i, tick) ==
    /\ Fresh(sessions, i, tick)
    /\ SamePlayers(sessions, sessions')
    /\ sessions'[i].hasState /\ sessions'[i].stateTick = tick
    /\ \A j \in Live \ {i} : SameSnapshot(sessions, sessions', j)
    /\ out' = Broadcast(sessions', State(i, tick), i)

LEMMA StateFields ==
    ASSUME NEW i, NEW t
    PROVE  /\ State(i, t).type = "NotifyPlayerState"
           /\ State(i, t).playerId = i /\ State(i, t).tick = t
  BY DEF State

\* A step of the loop relays nothing, or one snapshot that is the newest.
LEMMA SnapshotStep ==
    ASSUME IInv, Next
    PROVE  \/ RelaysNothing
           \/ \E i \in Live, tick \in Tick : Relays(i, tick)
<1> DEFINE Goal == \/ RelaysNothing
                   \/ \E i \in Live, tick \in Tick : Relays(i, tick)
<1>1. ASSUME Snapshots(out') = {}, sessions' = sessions PROVE Goal
  BY <1>1 DEF RelaysNothing, SameSnapshot, Live
<1>2. ASSUME Stop \/ TickScripts \/ SkipKick \/ KicksDone \/ Nothing PROVE Goal
  BY <1>1, <1>2 DEF Stop, TickScripts, SkipKick, KicksDone, Nothing, Snapshots
<1>3. ASSUME NEW d \in 0 .. Timeout, ReadClock(d) PROVE Goal
  <2>1. Live' = Live /\ \A i \in Live : SameSnapshot(sessions, sessions', i)
    BY <1>3 DEF ReadClock, Aged, SameSnapshot, Live, IInv, TypeOK, Session
  <2> QED BY <1>3, <2>1 DEF ReadClock, RelaysNothing, Snapshots
<1>4. ASSUME NEW i, Drops(i) PROVE Goal
  <2>1. \A j \in Live' : j \in Live /\ sessions'[j] = sessions[j]
    BY <1>4 DEF Drops, Without, Live
  <2>2. Snapshots(out') = {}
    BY <1>4, LeftFields DEF Drops, Broadcast, Snapshots
  <2> QED BY <2>1, <2>2 DEF RelaysNothing, SameSnapshot
<1>5. CASE Kick \/ \E i \in Live : Expire(i)
  BY <1>4, <1>5 DEF Kick, Expire, Callback, Drops
<1>6. ASSUME NEW e \in Endpoint, Hear(e) PROVE Goal
  <2>1. Touched(e) = [i \in Live |-> Touched(e)[i]]
        /\ \A i \in Live : SameSnapshot(sessions, Touched(e), i)
    BY DEF Touched, SameSnapshot, IInv, TypeOK, Session
  <2>2. ASSUME sessions' = Touched(e), Snapshots(out') = {} PROVE Goal
    BY <2>1, <2>2 DEF RelaysNothing, Live
  <2>3. CASE Ignore(e) \/ AnswerPing(e)
    BY <2>2, <2>3 DEF Ignore, AnswerPing, Send, Pong, Snapshots
  <2>4. ASSUME NEW n \in Name, NEW v \in Version, AnswerHello(e, n, v) PROVE Goal
    BY <2>2, <2>4, AckType DEF AnswerHello, Send, Snapshots
  <2>5. ASSUME NEW n \in Name, NEW v \in Version, AcceptHello(e, n, v) PROVE Goal
    <3>1. /\ Live' = Live \cup {nextId}
          /\ nextId \notin Live
          /\ ~sessions'[nextId].hasState
          /\ \A j \in Live : sessions'[j] = sessions[j]
      BY <2>5 DEF AcceptHello, Admit, NewSession, Live, IInv, SessionsWellFormed, TypeOK
    <3>2. Snapshots(out') = {}
      BY <2>5, AckType, JoinedFields DEF AcceptHello, Send, Roster, Broadcast, Snapshots
    <3> QED BY <3>1, <3>2 DEF RelaysNothing, SameSnapshot
  <2>6. ASSUME NEW tick \in Tick, DropState(e, tick) PROVE Goal
    BY <2>2, <2>6 DEF DropState, Snapshots
  <2>7. ASSUME NEW tick \in Tick, RelayState(e, tick) PROVE Goal
    <3>1. PICK i \in Live : /\ Fresh(sessions, i, tick)
                            /\ sessions' = Applied(Touched(e), i, tick)
                            /\ out' = Broadcast(sessions', State(i, tick), i)
      BY <2>7 DEF RelayState, SessionOf
    <3>2. SamePlayers(sessions, sessions')
      BY <3>1, AppliedKeeps DEF IInv
    <3>3. /\ sessions'[i] = [Touched(e)[i] EXCEPT !.hasState = TRUE, !.stateTick = tick]
          /\ \A j \in Live \ {i} : sessions'[j] = Touched(e)[j]
      BY <2>1, <3>1 DEF Applied
    <3>4. Touched(e)[i] \in Session
      BY TouchedKeeps DEF IInv
    <3>5. sessions'[i].hasState /\ sessions'[i].stateTick = tick
      BY <3>3, <3>4 DEF Session
    <3> QED BY <2>1, <3>1, <3>2, <3>3, <3>5 DEF Relays, SameSnapshot
  <2> QED BY <1>6, <2>3, <2>4, <2>5, <2>6, <2>7 DEF Hear
<1> QED BY <1>2, <1>3, <1>5, <1>6 DEF Next, Loop

\* No snapshot was relayed that is newer than the one in its session.  (One
\* that was taken with nobody else connected was relayed to nobody.)
RelayInv ==
    /\ DOMAIN relayed = Live
    /\ \A i \in Live :
          /\ relayed[i] \in Nat
          /\ relayed[i] <= IF sessions[i].hasState THEN 1 + sessions[i].stateTick ELSE 0

LEMMA RelayStep == ObsIInv /\ RelayInv /\ [ObsNext]_obsVars => RelayInv'
<1> SUFFICES ASSUME ObsIInv, RelayInv, [ObsNext]_obsVars PROVE RelayInv'
  OBVIOUS
<1>1. CASE UNCHANGED obsVars
  BY <1>1 DEF obsVars, RelayInv, Live
<1> SUFFICES ASSUME Next, Observe PROVE RelayInv'
  BY <1>1 DEF ObsNext
<1> DEFINE Told(i)  == \E d \in out' : d.msg.type = "NotifyPlayerState" /\ d.msg.playerId = i
           Which(i) == CHOOSE t \in Tick : \E d \in out' : d.msg = State(i, t)
<1>2. relayed' = [i \in Live' |-> IF Told(i) THEN 1 + Which(i) ELSE Before(relayed, i, 0)]
  BY DEF Observe, Live
<1>3. IInv /\ IInv'
  <2>1. [Next]_vars
    OBVIOUS
  <2> QED BY <2>1, WellFormedStep DEF ObsIInv
<1> HIDE DEF Told, Which
<1>4. CASE RelaysNothing
  <2>1. ASSUME NEW i \in Live' PROVE ~Told(i)
    BY <1>4 DEF RelaysNothing, Snapshots, Told
  <2>2. \A i \in Live' : relayed'[i] = Before(relayed, i, 0)
    BY <1>2, <2>1
  <2> QED BY <1>2, <1>3, <1>4, <2>2 DEF RelayInv, Before, RelaysNothing, SameSnapshot
<1>5. ASSUME NEW i \in Live, NEW tick \in Tick, Relays(i, tick) PROVE RelayInv'
  <2>1. Live' = Live
    BY <1>5 DEF Relays, SamePlayers, Live
  <2>2. \A d \in out' : d.msg = State(i, tick)
    BY <1>5 DEF Relays, Broadcast
  <2>3. Told(i) => Which(i) = tick
    <3>1. ASSUME Told(i) PROVE \A t \in Tick : (\E d \in out' : d.msg = State(i, t)) <=> t = tick
      BY <2>2, <3>1, StateFields DEF Told
    <3> QED BY <3>1 DEF Which
  <2>4. \A j \in Live \ {i} : ~Told(j)
    BY <2>2, StateFields DEF Told
  <2>5. relayed'[i] = relayed[i] \/ relayed'[i] = 1 + tick
    BY <1>2, <2>1, <2>3 DEF Before, RelayInv
  <2>6. \A j \in Live \ {i} : relayed'[j] = relayed[j]
    BY <1>2, <2>1, <2>4 DEF Before, RelayInv
  <2>7. tick \in Nat /\ sessions[i].stateTick \in Nat /\ relayed[i] \in Nat
    BY <1>3 DEF IInv, TypeOK, Session, Tick, RelayInv
  <2>8. /\ relayed'[i] \in Nat
        /\ relayed'[i] <= 1 + tick
        /\ sessions'[i].hasState /\ sessions'[i].stateTick = tick
    BY <1>5, <2>5, <2>7 DEF Relays, Fresh, RelayInv
  <2>9. \A j \in Live \ {i} : SameSnapshot(sessions, sessions', j)
    BY <1>5 DEF Relays
  <2> QED BY <1>2, <2>1, <2>6, <2>8, <2>9 DEF RelayInv, SameSnapshot
<1> QED BY <1>3, <1>4, <1>5, SnapshotStep

LEMMA RelayInvariant == ObsSpec => [](ObsIInv /\ RelayInv)
<1>1. ObsInit => RelayInv
  BY DEF ObsInit, Init, RelayInv, Live
<1> QED BY <1>1, RelayStep, ObsInvariant, PTL DEF ObsSpec

\* The snapshots of a player that are relayed have rising ticks, in whatever
\* order its datagrams come, for any number of peers and of ticks.
THEOREM RelaysInOrder == ObsSpec => RelaysAdvance
<1> DEFINE Advance == \A d \in out' : d.msg.type = "NotifyPlayerState" =>
                                        d.msg.tick >= relayed[d.msg.playerId]
<1>1. ObsIInv /\ RelayInv /\ [ObsNext]_obsVars => [Advance]_obsVars
  <2> SUFFICES ASSUME ObsIInv, RelayInv, Next PROVE Advance
    BY DEF ObsNext
  <2>1. CASE RelaysNothing
    BY <2>1 DEF RelaysNothing, Snapshots
  <2>2. ASSUME NEW i \in Live, NEW tick \in Tick, Relays(i, tick) PROVE Advance
    <3>1. \A d \in out' : d.msg = State(i, tick)
      BY <2>2 DEF Relays, Broadcast
    <3>2. tick \in Nat /\ sessions[i].stateTick \in Nat /\ relayed[i] \in Nat
      BY DEF ObsIInv, IInv, TypeOK, Session, Tick, RelayInv
    <3>3. tick >= relayed[i]
      BY <2>2, <3>2 DEF Relays, Fresh, RelayInv
    <3> QED BY <3>1, <3>3, StateFields
  <2> QED BY <2>1, <2>2, SnapshotStep DEF ObsIInv
<1> QED BY <1>1, RelayInvariant, PTL DEF ObsSpec, RelaysAdvance

\* A snapshot goes to exactly the clients that have been told of its player.
THEOREM RelaysReach == ObsSpec => RelayReachesTold
<1> DEFINE Reach == \A d \in out' : d.msg.type = "NotifyPlayerState" =>
                {x.to : x \in out'} =
                    {sessions[j].endpoint :
                        j \in {k \in Live \ {d.msg.playerId} : d.msg.playerId \in told[k]}}
<1>1. ObsIInv /\ [ObsNext]_obsVars => [Reach]_obsVars
  <2> SUFFICES ASSUME ObsIInv, Next PROVE Reach
    BY DEF ObsNext
  <2>1. CASE RelaysNothing
    BY <2>1 DEF RelaysNothing, Snapshots
  <2>2. ASSUME NEW i \in Live, NEW tick \in Tick, Relays(i, tick) PROVE Reach
    <3>1. out' = {[to |-> sessions'[j].endpoint, msg |-> State(i, tick)] :
                     j \in DOMAIN sessions' \ {i}}
      BY <2>2 DEF Relays, Broadcast
    <3>2. \A d \in out' : /\ d.msg = State(i, tick)
                          /\ \E j \in DOMAIN sessions' \ {i} : d.to = sessions'[j].endpoint
      BY <3>1
    <3>3. ASSUME NEW j \in DOMAIN sessions' \ {i}
          PROVE  \E d \in out' : d.to = sessions'[j].endpoint
      <4> DEFINE d == [to |-> sessions'[j].endpoint, msg |-> State(i, tick)]
      <4>1. d \in out'
        BY <3>1
      <4>2. d.to = sessions'[j].endpoint
        OBVIOUS
      <4> QED BY <4>1, <4>2
    <3>4. {x.to : x \in out'} = {sessions'[j].endpoint : j \in DOMAIN sessions' \ {i}}
      BY <3>2, <3>3
    <3>5. DOMAIN sessions' = Live /\ \A j \in Live : sessions'[j].endpoint = sessions[j].endpoint
      BY <2>2 DEF Relays, SamePlayers, Live
    <3>6. {k \in Live \ {i} : i \in told[k]} = Live \ {i}
      BY DEF ObsIInv, ToldRoster
    <3>7. {x.to : x \in out'} = {sessions[j].endpoint : j \in Live \ {i}}
      BY <3>4, <3>5
    <3>8. \A d \in out' : d.msg.playerId = i
      BY <3>2, StateFields
    <3> QED BY <3>6, <3>7, <3>8
  <2> QED BY <2>1, <2>2, SnapshotStep DEF ObsIInv
<1> QED BY <1>1, ObsInvariant, PTL DEF ObsSpec, RelayReachesTold

-----------------------------------------------------------------------------
(* The script backend, for every set of events, any number of scripts and  *)
(* of handlers.                                                            *)

USE FilesAssumption DEF FilesAssumption

Phases == {"loading", "idle", "firing", "stopped", "crashed"}

Types ==
    /\ phase \in Phases
    /\ file \in 1 .. Files + 1
    /\ owner \in Seq(Nat)
    /\ handlers \in [Event -> Seq(Nat)]
    /\ snapshot \in Seq(Nat)

\* Each script is run, one after the other.
EachRun ==
    /\ loaded \cup failed = 1 .. file - 1
    /\ phase # "loading" => file = Files + 1

\* A handler gets the next number, and stands at the end of its event's vector.
Numbered ==
    \A e \in Event :
       /\ \A k \in DOMAIN handlers[e] : handlers[e][k] \in DOMAIN owner
       /\ \A j, k \in DOMAIN handlers[e] : j < k => handlers[e][j] < handlers[e][k]

\* Scripts register in turn, and handlers only when all have.
InTurn ==
    /\ phase = "loading" => \A k \in DOMAIN owner : owner[k] \in 1 .. file
    /\ \A j, k \in DOMAIN owner : j < k /\ owner[k] # 0 => owner[j] \in 1 .. owner[k]

\* While the vector stays where it is, what Fire walks over is what was there
\* when it began, and it has called all of it before the pointer.
Walk ==
    /\ firing \in Event
    /\ end = Len(snapshot) /\ at \in 1 .. end + 1
    /\ end <= Len(handlers[firing])
    /\ \A k \in 1 .. end : handlers[firing][k] = snapshot[k]
    /\ Len(called) = at - 1
    /\ \A k \in 1 .. at - 1 : called[k] = snapshot[k]

Walking ==
    ~dangling => /\ called \in Seq(Nat)
                 /\ phase = "firing" => Walk
                 /\ phase \in {"loading", "idle"} => called = snapshot

ScriptsIInv == Types /\ EachRun /\ Numbered /\ InTurn /\ Walking

-----------------------------------------------------------------------------
(* The steps.                                                              *)

\* cybermp.on adds one handler behind all others.
LEMMA RegisterAdds ==
    ASSUME Types, Numbered, NEW e \in Event, NEW by \in Nat, Register(e, by)
    PROVE  /\ handlers' \in [Event -> Seq(Nat)]
           /\ \A f \in Event : Len(handlers[f]) <= Len(handlers'[f])
           /\ \A f \in Event : \A k \in 1 .. Len(handlers[f]) : handlers'[f][k] = handlers[f][k]
           /\ owner' \in Seq(Nat) /\ DOMAIN owner' = 1 .. Len(owner) + 1
           /\ owner'[Len(owner) + 1] = by
           /\ \A k \in DOMAIN owner : owner'[k] = owner[k]
           /\ Numbered'
<1> DEFINE n == Len(owner)
           q == handlers[e]
           r == Append(q, n + 1)
<1>1. n \in Nat /\ DOMAIN owner = 1 .. n /\ owner \in Seq(Nat)
  BY DEF Types
<1>2. /\ owner' \in Seq(Nat) /\ DOMAIN owner' = 1 .. n + 1
      /\ owner'[n + 1] = by /\ \A k \in DOMAIN owner : owner'[k] = owner[k]
  BY <1>1 DEF Register
<1>3. q \in Seq(Nat) /\ Len(q) \in Nat
  BY DEF Types
<1>4. /\ r \in Seq(Nat) /\ Len(r) = Len(q) + 1 /\ r[Len(q) + 1] = n + 1
      /\ \A k \in 1 .. Len(q) : r[k] = q[k]
  BY <1>1, <1>3
<1>5. handlers' = [handlers EXCEPT ![e] = r]
  BY DEF Register
<1> HIDE DEF n, r
<1>6. handlers'[e] = r /\ \A f \in Event \ {e} : handlers'[f] = handlers[f]
  BY <1>5 DEF Types
<1>7. handlers' \in [Event -> Seq(Nat)]
  BY <1>4, <1>5 DEF Types
<1>8. ASSUME NEW f \in Event
      PROVE  /\ Len(handlers[f]) <= Len(handlers'[f])
             /\ \A k \in 1 .. Len(handlers[f]) : handlers'[f][k] = handlers[f][k]
  <2>1. CASE f = e
    <3>1. Len(q) <= Len(r)
      BY <1>3, <1>4
    <3>2. \A k \in 1 .. Len(q) : r[k] = q[k]
      BY <1>4
    <3>3. handlers[f] = q /\ handlers'[f] = r
      BY <1>6, <2>1
    <3> HIDE DEF q
    <3> QED BY <3>1, <3>2, <3>3
  <2>2. CASE f # e
    BY <1>6, <2>2 DEF Types
  <2> QED BY <2>1, <2>2
<1>9. Numbered'
  <2> SUFFICES ASSUME NEW f \in Event
               PROVE  /\ \A k \in DOMAIN handlers'[f] : handlers'[f][k] \in DOMAIN owner'
                      /\ \A j, k \in DOMAIN handlers'[f] :
                            j < k => handlers'[f][j] < handlers'[f][k]
    BY DEF Numbered
  <2>1. /\ \A k \in DOMAIN handlers[f] : handlers[f][k] \in 1 .. n
        /\ \A j, k \in DOMAIN handlers[f] : j < k => handlers[f][j] < handlers[f][k]
    BY <1>1 DEF Numbered
  <2>2. CASE f # e
    BY <1>1, <1>2, <1>6, <2>1, <2>2
  <2>3. CASE f = e
    <3>1. DOMAIN q = 1 .. Len(q) /\ DOMAIN r = 1 .. Len(q) + 1
      BY <1>3, <1>4
    <3>2. \A k \in 1 .. Len(q) : r[k] \in 1 .. n
      BY <1>4, <2>1, <2>3, <3>1
    <3>3. \A k \in DOMAIN r : r[k] \in 1 .. n + 1
      <4>1. ASSUME NEW k \in 1 .. Len(q) PROVE r[k] \in 1 .. n + 1
        BY <1>1, <3>2
      <4>2. r[Len(q) + 1] \in 1 .. n + 1
        BY <1>1, <1>4
      <4> QED BY <1>3, <3>1, <4>1, <4>2
    <3>4. ASSUME NEW j \in DOMAIN r, NEW k \in DOMAIN r, j < k PROVE r[j] < r[k]
      <4>1. j \in 1 .. Len(q)
        BY <1>3, <3>1, <3>4
      <4>2. CASE k = Len(q) + 1
        BY <1>1, <1>4, <3>2, <4>1, <4>2
      <4>3. CASE k \in 1 .. Len(q)
        BY <1>4, <2>1, <2>3, <3>1, <3>4, <4>1, <4>3
      <4> QED BY <1>3, <3>1, <4>2, <4>3
    <3> QED BY <1>2, <1>6, <2>3, <3>3, <3>4
  <2> QED BY <2>2, <2>3
<1> QED BY <1>2, <1>7, <1>8, <1>9 DEF n

LEMMA ScriptsStart == ScriptsInit => ScriptsIInv
<1> SUFFICES ASSUME ScriptsInit PROVE ScriptsIInv
  OBVIOUS
<1>1. Types
  BY DEF ScriptsInit, Types, Phases
<1>2. EachRun /\ Numbered /\ InTurn
  BY DEF ScriptsInit, EachRun, Numbered, InTurn
<1>3. Walking
  BY DEF ScriptsInit, Walking
<1> QED BY <1>1, <1>2, <1>3 DEF ScriptsIInv

LEMMA RegisterAtLoadStep ==
    ASSUME ScriptsIInv, NEW e \in Event, RegisterAtLoad(e)
    PROVE  ScriptsIInv'
<1> USE DEF ScriptsIInv
<1>1. /\ phase = "loading" /\ phase' = phase /\ file' = file /\ file \in 1 .. Files
      /\ loaded' = loaded /\ failed' = failed
      /\ snapshot' = snapshot /\ called' = called
      /\ ~dangling' => ~dangling
  <2>1. file \in 1 .. Files
    BY DEF RegisterAtLoad, Loading, Types
  <2> QED BY <2>1 DEF RegisterAtLoad, Register, Loading, load, fire
<1>2. Register(e, file) /\ file \in Nat
  BY <1>1 DEF RegisterAtLoad
<1>3. /\ handlers' \in [Event -> Seq(Nat)] /\ Numbered'
      /\ owner' \in Seq(Nat) /\ DOMAIN owner' = 1 .. Len(owner) + 1
      /\ owner'[Len(owner) + 1] = file
      /\ \A k \in DOMAIN owner : owner'[k] = owner[k]
  BY <1>2, RegisterAdds
<1>4. Len(owner) \in Nat /\ DOMAIN owner = 1 .. Len(owner)
  BY DEF Types
<1>5. InTurn'
  <2>1. ASSUME NEW k \in DOMAIN owner' PROVE owner'[k] \in 1 .. file
    <3>1. CASE k \in DOMAIN owner
      <4>1. owner[k] \in 1 .. file
        BY <1>1, <3>1 DEF InTurn
      <4>2. owner'[k] = owner[k]
        BY <1>3, <3>1
      <4> QED BY <4>1, <4>2
    <3>2. CASE k \notin DOMAIN owner
      <4>1. k = Len(owner) + 1
        BY <1>3, <1>4, <3>2
      <4>2. owner'[k] = file
        BY <1>3, <4>1
      <4> QED BY <1>1, <4>2
    <3> QED BY <3>1, <3>2
  <2>2. ASSUME NEW j \in DOMAIN owner', NEW k \in DOMAIN owner', j < k
        PROVE  owner'[j] \in 1 .. owner'[k]
    <3>1. j \in DOMAIN owner
      BY <1>3, <1>4, <2>2
    <3>2. CASE k \in DOMAIN owner
      <4>1. owner[k] # 0
        BY <1>1, <3>2 DEF InTurn
      <4> QED BY <1>3, <2>2, <3>1, <3>2, <4>1 DEF InTurn
    <3>3. CASE k = Len(owner) + 1
      BY <1>3, <2>1, <3>3
    <3> QED BY <1>3, <1>4, <3>2, <3>3
  <2> QED BY <1>1, <2>1, <2>2 DEF InTurn
<1> QED BY <1>1, <1>3, <1>5 DEF Types, EachRun, Walking

LEMMA RegisterInHandlerStep ==
    ASSUME ScriptsIInv, NEW e \in Event, RegisterInHandler(e)
    PROVE  ScriptsIInv'
<1> USE DEF ScriptsIInv
<1>1. /\ phase = "firing" /\ phase' = phase /\ file' = file
      /\ loaded' = loaded /\ failed' = failed
      /\ UNCHANGED <<firing, at, end, snapshot, called>>
      /\ ~dangling' => ~dangling
  BY DEF RegisterInHandler, Register, load, fire
<1>2. Register(e, 0)
  BY DEF RegisterInHandler
<1>3. /\ handlers' \in [Event -> Seq(Nat)] /\ Numbered'
      /\ \A f \in Event : Len(handlers[f]) <= Len(handlers'[f])
      /\ \A f \in Event : \A k \in 1 .. Len(handlers[f]) : handlers'[f][k] = handlers[f][k]
      /\ owner' \in Seq(Nat) /\ DOMAIN owner' = 1 .. Len(owner) + 1
      /\ owner'[Len(owner) + 1] = 0
      /\ \A k \in DOMAIN owner : owner'[k] = owner[k]
  BY <1>2, RegisterAdds
<1>4. Len(owner) \in Nat /\ DOMAIN owner = 1 .. Len(owner)
  BY DEF Types
<1>5. InTurn'
  <2>1. ASSUME NEW j \in DOMAIN owner', NEW k \in DOMAIN owner', j < k, owner'[k] # 0
        PROVE  owner'[j] \in 1 .. owner'[k]
    <3>1. k \in DOMAIN owner /\ j \in DOMAIN owner
      BY <1>3, <1>4, <2>1
    <3> QED BY <1>3, <2>1, <3>1 DEF InTurn
  <2> QED BY <1>1, <2>1 DEF InTurn
<1>6. ASSUME Walk PROVE Walk'
  <2>1. /\ firing \in Event /\ end = Len(snapshot) /\ end <= Len(handlers[firing])
        /\ end \in Nat /\ Len(handlers[firing]) \in Nat /\ Len(handlers'[firing]) \in Nat
    BY <1>3, <1>6 DEF Walk, Types
  <2>2. end <= Len(handlers'[firing])
    BY <1>3, <2>1
  <2>3. \A k \in 1 .. end : handlers'[firing][k] = snapshot[k]
    BY <1>3, <1>6, <2>1 DEF Walk
  <2> QED BY <1>1, <1>6, <2>2, <2>3 DEF Walk
<1>7. Walking'
  BY <1>1, <1>6 DEF Walking
<1> QED BY <1>1, <1>3, <1>5, <1>7 DEF Types, EachRun

LEMMA IInvStep == ScriptsIInv /\ [ScriptsNext]_scriptsVars => ScriptsIInv'
<1> SUFFICES ASSUME ScriptsIInv, [ScriptsNext]_scriptsVars PROVE ScriptsIInv'
  OBVIOUS
<1> USE DEF ScriptsIInv
<1>1. CASE UNCHANGED scriptsVars
  BY <1>1 DEF scriptsVars, Types, EachRun, Numbered, InTurn, Walking, Walk
<1>2. ASSUME NEW e \in Event, Begin(e) PROVE ScriptsIInv'
  <2>1. /\ phase = "idle" /\ phase' = "firing" /\ firing' = e /\ at' = 1
        /\ end' = Len(handlers[e]) /\ snapshot' = handlers[e] /\ called' = <<>>
        /\ UNCHANGED <<file, loaded, failed, handlers, owner>>
    BY <1>2 DEF Begin, load
  <2>2. handlers[e] \in Seq(Nat) /\ Len(handlers[e]) \in Nat /\ <<>> \in Seq(Nat)
    BY DEF Types
  <2>3. Walk'
    BY <2>1, <2>2 DEF Walk
  <2> QED BY <2>1, <2>2, <2>3 DEF Types, Phases, EachRun, Numbered, InTurn, Walking
<1>3. ASSUME NEW state, ScriptFails \/ ScriptLoads PROVE ScriptsIInv'
  <2>1. /\ phase = "loading" /\ phase' = "loading" /\ file \in 1 .. Files /\ file' = file + 1
        /\ loaded' \cup failed' = loaded \cup failed \cup {file}
        /\ UNCHANGED <<handlers, owner, dangling, snapshot, called>>
    BY <1>3 DEF ScriptFails, ScriptLoads, Loading, fire, Types
  <2>2. loaded' \cup failed' = 1 .. file' - 1
    <3>1. loaded \cup failed = 1 .. file - 1
      BY DEF EachRun
    <3>2. (1 .. file - 1) \cup {file} = 1 .. file' - 1
      BY <2>1
    <3> QED BY <2>1, <3>1, <3>2
  <2>3. InTurn'
    <3>1. \A k \in DOMAIN owner : owner[k] \in 1 .. file'
      BY <2>1 DEF InTurn
    <3> QED BY <2>1, <3>1 DEF InTurn
  <2> QED BY <2>1, <2>2, <2>3 DEF Types, EachRun, Numbered, Walking
<1>4. CASE Started
  <2>1. /\ phase = "loading" /\ phase' = "idle" /\ file > Files
        /\ UNCHANGED <<file, loaded, failed, handlers, owner, dangling, snapshot, called>>
    BY <1>4 DEF Started, load, fire
  <2>2. file = Files + 1
    BY <2>1 DEF Types
  <2> QED BY <2>1, <2>2 DEF Types, Phases, EachRun, Numbered, InTurn, Walking
<1>5. CASE Call
  <2>1. /\ phase = "firing" /\ at <= end /\ ~dangling
        /\ called' = Append(called, handlers[firing][at]) /\ at' = at + 1
        /\ UNCHANGED <<phase, file, loaded, failed, handlers, owner, firing, end, dangling, snapshot>>
    BY <1>5 DEF Call, Calling, load
  <2>2. Walk
    BY <2>1 DEF Walking
  <2>3. /\ firing \in Event /\ end \in Nat /\ at \in 1 .. end
        /\ end = Len(snapshot) /\ snapshot \in Seq(Nat)
        /\ handlers[firing][at] = snapshot[at]
    BY <2>1, <2>2 DEF Walk, Types
  <2>4. snapshot[at] \in Nat
    BY <2>3
  <2>5. called \in Seq(Nat) /\ Len(called) = at - 1
    BY <2>1, <2>2 DEF Walk, Walking
  <2>6. /\ called' \in Seq(Nat) /\ Len(called') = at
        /\ \A k \in 1 .. at : called'[k] = snapshot[k]
    <3>1. called' = Append(called, snapshot[at])
      BY <2>1, <2>3
    <3>2. called' \in Seq(Nat) /\ Len(called') = at /\ called'[at] = snapshot[at]
          /\ \A k \in 1 .. at - 1 : called'[k] = called[k]
      BY <2>3, <2>4, <2>5, <3>1
    <3>3. \A k \in 1 .. at - 1 : called'[k] = snapshot[k]
      BY <2>2, <3>2 DEF Walk
    <3>4. \A k \in 1 .. at : k = at \/ k \in 1 .. at - 1
      BY <2>3
    <3> QED BY <3>2, <3>3, <3>4
  <2>7. Walk'
    BY <2>1, <2>2, <2>3, <2>6 DEF Walk
  <2> QED BY <2>1, <2>6, <2>7 DEF Types, EachRun, Numbered, InTurn, Walking
<1>6. CASE CallFreed
  <2>1. /\ phase = "firing" /\ dangling
        /\ UNCHANGED <<phase, file, loaded, failed, handlers, owner, dangling, snapshot>>
    BY <1>6 DEF CallFreed, Calling, load
  <2> QED BY <2>1 DEF Types, EachRun, Numbered, InTurn, Walking
<1>7. CASE Crash
  <2>1. /\ phase = "firing" /\ phase' = "crashed"
        /\ UNCHANGED <<file, loaded, failed, handlers, owner, dangling, snapshot, called>>
    BY <1>7 DEF Crash, Calling, load, fire
  <2> QED BY <2>1 DEF Types, Phases, EachRun, Numbered, InTurn, Walking
<1>8. CASE Finish
  <2>1. /\ phase = "firing" /\ phase' = "idle" /\ at > end
        /\ UNCHANGED <<file, loaded, failed, handlers, owner, dangling, snapshot, called>>
    BY <1>8 DEF Finish, load
  <2>2. ASSUME ~dangling PROVE called = snapshot
    <3>1. Walk
      BY <2>1, <2>2 DEF Walking
    <3>2. /\ called \in Seq(Nat) /\ snapshot \in Seq(Nat) /\ Len(called) = Len(snapshot)
          /\ \A k \in 1 .. Len(called) : called[k] = snapshot[k]
      BY <2>1, <2>2, <3>1 DEF Walk, Types, Walking
    <3> QED BY <3>2, SeqEqual
  <2> QED BY <2>1, <2>2 DEF Types, Phases, EachRun, Numbered, InTurn, Walking
<1>9. CASE StopAll
  <2>1. /\ phase = "idle" /\ phase' = "stopped" /\ handlers' = [e \in Event |-> <<>>]
        /\ UNCHANGED <<file, loaded, failed, owner, dangling, snapshot, called>>
    BY <1>9 DEF StopAll, load, fire
  <2>2. handlers' \in [Event -> Seq(Nat)] /\ Numbered'
    BY <2>1 DEF Numbered
  <2> QED BY <2>1, <2>2 DEF Types, Phases, EachRun, InTurn, Walking
<1> QED BY <1>1, <1>2, <1>3, <1>4, <1>5, <1>6, <1>7, <1>8, <1>9,
           RegisterAtLoadStep, RegisterInHandlerStep DEF ScriptsNext

LEMMA Invariance == ScriptsSpec => []ScriptsIInv
BY ScriptsStart, IInvStep, PTL DEF ScriptsSpec

-----------------------------------------------------------------------------
(* The theorems.                                                           *)

\* Fire calls each handler there was when it began once and in order, whatever
\* they do, as long as the vector stays where it is.
THEOREM CalledOnce == ScriptsSpec => []EachCalledOnce
<1>1. ASSUME ScriptsIInv PROVE EachCalledOnce
  <2>1. ASSUME ~dangling, phase = "firing"
        PROVE  Len(called) = at - 1 /\ IsPrefix(called, snapshot)
    <3>1. Walk /\ called \in Seq(Nat) /\ snapshot \in Seq(Nat)
      BY <1>1, <2>1 DEF ScriptsIInv, Walking, Types
    <3>2. /\ Len(called) \in Nat /\ Len(called) <= Len(snapshot)
          /\ \A k \in 1 .. Len(called) : called[k] = snapshot[k]
      BY <3>1 DEF Walk
    <3> QED BY <3>1, <3>2 DEF Walk, IsPrefix
  <2> QED BY <1>1, <2>1 DEF EachCalledOnce, ScriptsIInv, Walking
<1> QED BY <1>1, Invariance, PTL

\* Every script is run, and the handlers of an event stand in load order.
THEOREM LoadOrder == ScriptsSpec => []LoadOrderKept
<1>1. ASSUME ScriptsIInv PROVE LoadOrderKept
  <2> USE <1>1 DEF ScriptsIInv
  <2>1. phase # "loading" => loaded \cup failed = 1 .. Files
    BY DEF EachRun
  <2>2. ASSUME NEW e \in Event, NEW k \in DOMAIN handlers[e], NEW j \in 1 .. k - 1, By(e, k) # 0
        PROVE  By(e, j) \in 1 .. By(e, k)
    <3>1. handlers[e] \in Seq(Nat)
      BY DEF Types
    <3>2. j \in DOMAIN handlers[e] /\ j < k
      BY <3>1
    <3>3. /\ handlers[e][j] \in DOMAIN owner /\ handlers[e][k] \in DOMAIN owner
          /\ handlers[e][j] < handlers[e][k]
      BY <3>2 DEF Numbered
    <3> QED BY <2>2, <3>3 DEF By, InTurn
  <2> QED BY <2>1, <2>2 DEF LoadOrderKept
<1> QED BY <1>1, Invariance, PTL
=============================================================================
