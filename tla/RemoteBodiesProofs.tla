------------------------- MODULE RemoteBodiesProofs -------------------------
(***************************************************************************)
(* The bodies of remote players, for any number of players, connections,   *)
(* entities and queued events.  Announced: the bodies and the queue        *)
(* together are those of the players that are there.  Linked: every entity *)
(* that is not lost is held by the body of its player, which knows that it *)
(* was asked for; so there is none where the pump creates one, and none    *)
(* where SetBodyKind is about to reset the body.                           *)
(***************************************************************************)
EXTENDS RemoteBodies, TLAPS

Body      == [entity: 0 .. MaxEntity, requested: BOOLEAN]
EventType == [joined: BOOLEAN, id: Player]
Being     == [player: Player, lost: BOOLEAN]

Bodies ==
    /\ DOMAIN bodies \subseteq Player
    /\ \A i \in DOMAIN bodies : bodies[i] \in Body
    /\ pump = "create" => creating \in DOMAIN bodies
    /\ copied \subseteq DOMAIN bodies /\ (pump = "idle" => copied = {})
    /\ inHand \in {0} \cup DOMAIN bodies

Entities ==
    /\ lastEntity \in 0 .. MaxEntity
    /\ DOMAIN entities \subseteq 1 .. lastEntity
    /\ \A e \in DOMAIN entities : entities[e] \in Being
    /\ \A i \in DOMAIN bodies : bodies[i].entity <= lastEntity

Pumping ==
    /\ attached \in BOOLEAN /\ system \in BOOLEAN /\ (system = TRUE => attached = TRUE)
    /\ pump \in {"idle", "copy", "visit", "create"}

Announced ==
    /\ events \in Seq(EventType) /\ present \subseteq Player
    /\ Members = present

Types == Bodies /\ Entities /\ Pumping /\ Announced

\* i has no entity, but for lost ones.
None(i) == \A e \in DOMAIN entities : entities[e].player = i => entities[e].lost

Linked ==
    /\ \A e \in DOMAIN entities :
          LET i == entities[e].player
          IN  \/ entities[e].lost
              \/ i \in DOMAIN bodies /\ bodies[i].entity = e /\ bodies[i].requested
    /\ pump = "create" => None(creating)
    /\ inHand # 0 => None(inHand)

-----------------------------------------------------------------------------

LEMMA NoBodyType == NoBody \in Body /\ NoBody.entity = 0
BY BoundAssumption DEF NoBody, Body

LEMMA EventFields ==
    ASSUME NEW e \in EventType, NEW i \in Player
    PROVE  /\ Joined(i) \in EventType /\ Left(i) \in EventType
           /\ e = Left(i) <=> e.id = i /\ ~e.joined
           /\ e = Joined(i) <=> e.id = i /\ e.joined
BY DEF EventType, Joined, Left

\* Members, of any queue q, worked through where S have bodies.
Leaves(q, i, k) == \E m \in DOMAIN q : m > k /\ q[m] = Left(i)
Stays(S, q, i) ==
    \/ i \in S /\ ~Leaves(q, i, 0)
    \/ \E k \in DOMAIN q : q[k] = Joined(i) /\ ~Leaves(q, i, k)

LEMMA MembersStay == Members = {i \in Player : Stays(DOMAIN bodies, events, i)}
BY DEF Members, Stays, LeavesAfter, Leaves

\* The last event about a player decides.
LEMMA StaysAppend ==
    ASSUME NEW q \in Seq(EventType), NEW e \in EventType, NEW i \in Player,
           NEW S
    PROVE  Stays(S, Append(q, e), i) <=>
                (i = e.id /\ e.joined) \/ (i # e.id /\ Stays(S, q, i))
<1> DEFINE r == Append(q, e)
           n == Len(q)
<1>1. /\ n \in Nat /\ DOMAIN q = 1 .. n /\ DOMAIN r = 1 .. n + 1
      /\ \A k \in 1 .. n : r[k] = q[k]
      /\ r[n + 1] = e
  OBVIOUS
<1> HIDE DEF r, n
<1>2. /\ e = Left(i) <=> ~e.joined /\ i = e.id
      /\ e = Joined(i) <=> e.joined /\ i = e.id
  BY EventFields
<1>3. ASSUME NEW k \in 0 .. n PROVE Leaves(r, i, k) <=> Leaves(q, i, k) \/ (~e.joined /\ i = e.id)
  <2>1. Leaves(q, i, k) => Leaves(r, i, k)
    BY <1>1 DEF Leaves
  <2>2. ~e.joined /\ i = e.id => Leaves(r, i, k)
    BY <1>1, <1>2 DEF Leaves
  <2>3. Leaves(r, i, k) => Leaves(q, i, k) \/ (~e.joined /\ i = e.id)
    BY <1>1, <1>2 DEF Leaves
  <2> QED BY <2>1, <2>2, <2>3
<1>4. ~Leaves(r, i, n + 1)
  BY <1>1 DEF Leaves
<1>5. CASE i = e.id /\ e.joined
  BY <1>1, <1>2, <1>4, <1>5 DEF Stays, r
<1>6. CASE i = e.id /\ ~e.joined
  <2>1. \A k \in 0 .. n : Leaves(r, i, k)
    BY <1>3, <1>6
  <2>2. r[n + 1] # Joined(i)
    BY <1>1, <1>2, <1>6
  <2>3. ~Stays(S, r, i)
    BY <1>1, <2>1, <2>2 DEF Stays
  <2> QED BY <1>6, <2>3 DEF r
<1>7. CASE i # e.id
  <2>1. \A k \in 0 .. n : Leaves(r, i, k) <=> Leaves(q, i, k)
    BY <1>3, <1>7
  <2>2. r[n + 1] # Joined(i)
    BY <1>1, <1>2, <1>7
  <2>3. Stays(S, r, i) <=> Stays(S, q, i)
    BY <1>1, <2>1, <2>2 DEF Stays
  <2> QED BY <1>7, <2>3 DEF r
<1> QED BY <1>5, <1>6, <1>7

\* What a join or a leave at the end of the queue does to the bodies to come.
LEMMA MembersAppend ==
    ASSUME events \in Seq(EventType), NEW e \in EventType,
           events' = Append(events, e), UNCHANGED bodies
    PROVE  \A h \in Player : /\ e = Joined(h) => Members' = Members \cup {h}
                             /\ e = Left(h) => Members' = Members \ {h}
<1>1. Members' = {i \in Player : Stays(DOMAIN bodies', events', i)}
  BY DEF Members, Stays, LeavesAfter, Leaves
<1>2. \A i \in Player : Stays(DOMAIN bodies, Append(events, e), i)
        <=> (i = e.id /\ e.joined) \/ (i # e.id /\ Stays(DOMAIN bodies, events, i))
  BY StaysAppend
<1>3. \A i \in Player : i \in Members <=> Stays(DOMAIN bodies, events, i)
  BY MembersStay
<1>4. \A i \in Player : i \in Members' <=> Stays(DOMAIN bodies, Append(events, e), i)
  BY <1>1
<1>5. Members \subseteq Player /\ Members' \subseteq Player
  BY DEF Members
<1>6. \A i \in Player : i \in Members' <=> (i = e.id /\ e.joined) \/ (i # e.id /\ i \in Members)
  BY <1>2, <1>3, <1>4
<1>7. ASSUME NEW h \in Player, e = Joined(h) PROVE Members' = Members \cup {h}
  <2>1. \A i \in Player : i \in Members' <=> i = h \/ i \in Members
    BY <1>6, <1>7, EventFields
  <2> QED BY <1>5, <2>1
<1>8. ASSUME NEW h \in Player, e = Left(h) PROVE Members' = Members \ {h}
  <2>1. \A i \in Player : i \in Members' <=> i # h /\ i \in Members
    BY <1>6, <1>8, EventFields
  <2> QED BY <1>5, <2>1
<1> QED BY <1>7, <1>8

\* With nothing queued the bodies stay whose they are.
LEMMA MembersOfEmpty ==
    ASSUME events = <<>>, DOMAIN bodies \subseteq Player
    PROVE  Members = DOMAIN bodies
<1>1. DOMAIN events = {}
  OBVIOUS
<1> QED BY <1>1 DEF Members, LeavesAfter

\* What those frames do that leave the bodies and the queue alone.
LEMMA MembersFrame ==
    ASSUME UNCHANGED events, DOMAIN bodies' = DOMAIN bodies PROVE Members' = Members
BY DEF Members, LeavesAfter

-----------------------------------------------------------------------------
(* Who writes what.                                                        *)

LEMMA Frames ==
    ASSUME [Next]_vars
    PROVE  \/ Network \/ World \/ Pump \/ Console
           \/ /\ UNCHANGED <<bodies, pump, copied, system, creating, inHand>>
              /\ UNCHANGED <<attached, entities, lastEntity>>
              /\ UNCHANGED <<events, remote, conn, present>>
BY DEF Next, vars, client, pumping, world, net

LEMMA NetworkFrame ==
    Network => /\ UNCHANGED <<bodies, pump, copied, system, creating, inHand>>
               /\ UNCHANGED <<attached, entities, lastEntity>>
BY DEF Network, ReceiveJoined, ReceiveLeft, ReceiveState, Reconnect, client, pumping, world

LEMMA WorldFrame ==
    World => /\ UNCHANGED <<bodies, pump, copied, creating, inHand, lastEntity>>
             /\ UNCHANGED <<events, remote, conn, present>>
             /\ entities' = <<>> \/ UNCHANGED entities
             /\ \/ attached' = FALSE /\ system' = FALSE
                \/ attached' = TRUE /\ UNCHANGED system
BY DEF World, OnWorldDetached, OnWorldAttached, client, pumping, net

LEMMA PumpFrame ==
    Pump => \/ /\ TakeEvents
               /\ UNCHANGED <<copied, system, creating, attached, lastEntity>>
            \/ /\ CopyRemoteSnapshots \/ CreateFails \/ PumpDone \/ Create
                  \/ \E i \in copied : Pass(i) \/ Request(i)
               /\ UNCHANGED <<events, conn, present, attached, inHand>>
               /\ DOMAIN bodies' = DOMAIN bodies
BY DEF Pump, TakeEvents, CopyRemoteSnapshots, CreateFails, PumpDone, Create,
       Pass, Request, Visit, world, net

LEMMA ConsoleFrame ==
    Console => /\ UNCHANGED <<pump, copied, system, creating, attached, lastEntity>>
               /\ UNCHANGED <<events, conn, present>>
               /\ DOMAIN bodies' = DOMAIN bodies
BY DEF Console, SetBodyKind, ResetBody, pumping, world, net

\* What DestroyBodyEntity leaves is what there was, and what it could not
\* delete is lost.
LEMMA DestroyLeaves ==
    ASSUME NEW es, Destroy(es), \A e \in DOMAIN entities : entities[e] \in Being
    PROVE  \A e \in DOMAIN entities' :
              /\ e \in DOMAIN entities /\ entities'[e] \in Being
              /\ entities'[e].player = entities[e].player
              /\ entities[e].lost \/ e \in es => entities'[e].lost
BY DEF Destroy, Being

LEMMA BodiesStep == Types /\ [Next]_vars => Bodies'
<1> SUFFICES ASSUME Types, [Next]_vars PROVE Bodies'
  OBVIOUS
<1> USE DEF Types, Bodies
<1>1. CASE TakeEvents
  <2>1. Members \subseteq Player /\ Made \subseteq Members
    BY DEF Members, Made
  <2>2. DOMAIN bodies' = Members /\ pump' # "create" /\ copied' = {}
    BY <1>1 DEF TakeEvents
  <2>3. \A i \in Members : bodies'[i] \in Body
    BY <1>1, NoBodyType DEF TakeEvents, Kept
  <2>4. inHand' \in {0} \cup Members
    <3>1. \A i \in DOMAIN bodies \ Erased : i \in Members
      BY DEF Members, Erased
    <3> QED BY <1>1, <2>1, <3>1 DEF TakeEvents, InHandAfter
  <2> QED BY <2>1, <2>2, <2>3, <2>4
<1>2. ASSUME NEW i \in copied, Pass(i) \/ Request(i) PROVE Bodies'
  <2>1. CASE Pass(i)
    BY <2>1 DEF Pass, Visit
  <2>2. CASE Request(i)
    BY <2>2 DEF Request, Visit, Body
  <2> QED BY <1>2, <2>1, <2>2
<1>3. CASE Create
  <2>1. lastEntity + 1 \in 0 .. MaxEntity
    BY <1>3, BoundAssumption DEF Create, Entities
  <2> QED BY <1>3, <2>1 DEF Create, Body
<1>4. CASE CopyRemoteSnapshots \/ CreateFails \/ PumpDone
  BY <1>4 DEF CopyRemoteSnapshots, CreateFails, PumpDone
<1>5. CASE Console
  BY <1>5, NoBodyType DEF Console, SetBodyKind, ResetBody, pumping
<1>6. CASE Network \/ World
  BY <1>6, NetworkFrame, WorldFrame
<1> QED BY <1>1, <1>2, <1>3, <1>4, <1>5, <1>6, Frames, PumpFrame

LEMMA EntitiesStep == Types /\ [Next]_vars => Entities'
<1> SUFFICES ASSUME Types, [Next]_vars PROVE Entities'
  OBVIOUS
<1> USE DEF Types, Entities
\* Steps that make no entity.
<1>1. ASSUME UNCHANGED lastEntity,
             \A e \in DOMAIN entities' : e \in DOMAIN entities /\ entities'[e] \in Being,
             \A i \in DOMAIN bodies' : \/ bodies'[i].entity = 0
                                       \/ i \in DOMAIN bodies
                                          /\ bodies'[i].entity = bodies[i].entity
      PROVE  Entities'
  BY <1>1
<1>2. CASE TakeEvents
  <2>1. PICK es : Destroy(es)
    BY <1>2 DEF TakeEvents
  <2> QED BY <1>1, <1>2, <2>1, DestroyLeaves, NoBodyType DEF TakeEvents, Kept
<1>3. ASSUME NEW h \in copied, Pass(h) \/ Request(h) PROVE Entities'
  <2>1. UNCHANGED <<lastEntity, entities>>
    BY <1>3 DEF Pass, Request, Visit, world
  <2>2. \A i \in DOMAIN bodies' : i \in DOMAIN bodies /\ bodies'[i].entity = bodies[i].entity
    BY <1>3 DEF Pass, Request, Visit, Bodies, Body
  <2> QED BY <1>1, <2>1, <2>2
<1>4. CASE Create
  <2>1. lastEntity' = lastEntity + 1 /\ lastEntity' \in 0 .. MaxEntity
    BY <1>4, BoundAssumption DEF Create
  <2>2. /\ DOMAIN entities' = DOMAIN entities \cup {lastEntity'}
        /\ \A e \in DOMAIN entities' : entities'[e] \in Being
    <3>1. creating \in Player
      BY <1>4 DEF Create, Bodies
    <3>2. \A b \in BOOLEAN : [player |-> creating, lost |-> b] \in Being
      BY <3>1 DEF Being
    <3> QED BY <1>4, <3>2 DEF Create, With
  <2>3. \A i \in DOMAIN bodies' : /\ i \in DOMAIN bodies
                                  /\ bodies'[i].entity \in {bodies[i].entity, lastEntity'}
    BY <1>4 DEF Create, Bodies, Body
  <2>4. \A i \in DOMAIN bodies : bodies[i].entity \in Nat
    BY DEF Bodies, Body
  <2> QED BY <2>1, <2>2, <2>3, <2>4
<1>5. CASE CopyRemoteSnapshots \/ CreateFails \/ PumpDone
  BY <1>5 DEF CopyRemoteSnapshots, CreateFails, PumpDone, world
<1>6. CASE Console
  <2>1. ASSUME NEW i \in Player, SetBodyKind(i) PROVE Entities'
    BY <1>1, <2>1, DestroyLeaves DEF SetBodyKind
  <2>2. CASE ResetBody
    BY <1>1, <2>2, NoBodyType DEF ResetBody, world
  <2> QED BY <1>6, <2>1, <2>2 DEF Console
<1>7. CASE Network
  BY <1>7, NetworkFrame
<1>8. CASE World
  BY <1>1, <1>8, WorldFrame
<1> QED BY <1>2, <1>3, <1>4, <1>5, <1>6, <1>7, <1>8, Frames, PumpFrame

LEMMA PumpingStep == Types /\ [Next]_vars => Pumping'
<1> SUFFICES ASSUME Types, [Next]_vars PROVE Pumping'
  OBVIOUS
<1>1. Pumping
  BY DEF Types
<1>2. CASE Pump
  <2>1. CASE TakeEvents
    BY <1>1, <2>1 DEF TakeEvents, Pumping
  <2>2. ASSUME NEW i \in copied, Pass(i) \/ Request(i) PROVE Pumping'
    BY <1>1, <2>2 DEF Pass, Request, Visit, Pumping, world
  <2>3. CASE CopyRemoteSnapshots
    BY <1>1, <2>3 DEF CopyRemoteSnapshots, Pumping, world
  <2>4. CASE Create \/ CreateFails \/ PumpDone
    <3>1. /\ UNCHANGED attached /\ pump' \in {"idle", "visit"}
          /\ UNCHANGED system \/ system' = FALSE
      BY <2>4 DEF Create, CreateFails, PumpDone, world
    <3> QED BY <1>1, <3>1 DEF Pumping
  <2> QED BY <1>2, <2>1, <2>2, <2>3, <2>4, PumpFrame
<1>3. CASE World
  BY <1>1, <1>3, WorldFrame DEF Pumping
<1>4. CASE Console
  BY <1>1, <1>4, ConsoleFrame DEF Pumping
<1>5. CASE Network
  BY <1>1, <1>5, NetworkFrame DEF Pumping
<1> QED BY <1>1, <1>2, <1>3, <1>4, <1>5, Frames DEF Pumping

LEMMA AnnouncedStep == Types /\ [Next]_vars => Announced'
<1> SUFFICES ASSUME Types, [Next]_vars PROVE Announced'
  OBVIOUS
<1>1. Announced /\ DOMAIN bodies \subseteq Player
  BY DEF Types, Bodies
<1>2. ASSUME UNCHANGED <<events, present>>, DOMAIN bodies' = DOMAIN bodies PROVE Announced'
  BY <1>1, <1>2, MembersFrame DEF Announced
<1>3. CASE Network
  <2> UNCHANGED bodies
    BY <1>3, NetworkFrame
  <2>1. ASSUME NEW h \in Player, ReceiveJoined(h) PROVE Announced'
    <3>1. Joined(h) \in EventType
      BY DEF Joined, EventType
    <3>2. events' \in Seq(EventType) /\ Members' = Members \cup {h}
      BY <1>1, <2>1, <3>1, MembersAppend DEF ReceiveJoined, Announced
    <3> QED BY <1>1, <2>1, <3>2 DEF ReceiveJoined, Announced
  <2>2. ASSUME NEW h \in Player, ReceiveLeft(h) PROVE Announced'
    <3>1. Left(h) \in EventType
      BY DEF Left, EventType
    <3>2. events' \in Seq(EventType) /\ Members' = Members \ {h}
      BY <1>1, <2>2, <3>1, MembersAppend DEF ReceiveLeft, Announced
    <3> QED BY <1>1, <2>2, <3>2 DEF ReceiveLeft, Announced
  <2>3. ASSUME NEW h \in Player, ReceiveState(h) PROVE Announced'
    BY <1>2, <2>3 DEF ReceiveState
  \* The queue is empty, and those that have bodies count.
  <2>4. CASE Reconnect
    <3>1. events' = <<>> /\ present' = DOMAIN bodies /\ bodies' = bodies
      BY <2>4 DEF Reconnect
    <3>2. DOMAIN events' = {} /\ events' \in Seq(EventType)
      BY <3>1
    <3>3. Members' = DOMAIN bodies
      BY <1>1, <3>1, <3>2 DEF Members, LeavesAfter
    <3> QED BY <1>1, <3>1, <3>2, <3>3 DEF Announced
  <2> QED BY <1>3, <2>1, <2>2, <2>3, <2>4 DEF Network
<1>4. CASE TakeEvents
  <2>1. DOMAIN bodies' = Members /\ events' = <<>> /\ UNCHANGED present
    BY <1>4 DEF TakeEvents
  <2>2. DOMAIN events' = {} /\ events' \in Seq(EventType)
    BY <2>1
  <2>3. Members' = Members
    BY <2>1, <2>2 DEF Members, LeavesAfter
  <2> QED BY <1>1, <2>1, <2>2, <2>3 DEF Announced
<1>5. CASE World
  BY <1>2, <1>5, WorldFrame
<1>6. CASE Console
  BY <1>2, <1>6, ConsoleFrame
<1> QED BY <1>2, <1>3, <1>4, <1>5, <1>6, Frames, PumpFrame

LEMMA LinkedStep ==
    ASSUME Types, Linked, [Next]_vars
    PROVE  Linked'
<1>1. /\ DOMAIN bodies \subseteq Player
      /\ \A i \in DOMAIN bodies : bodies[i] \in Body
      /\ pump = "create" => creating \in DOMAIN bodies
      /\ copied \subseteq DOMAIN bodies
      /\ inHand \in {0} \cup DOMAIN bodies
      /\ lastEntity \in Nat /\ DOMAIN entities \subseteq 1 .. lastEntity
      /\ \A e \in DOMAIN entities : entities[e] \in Being
  BY BoundAssumption DEF Types, Bodies, Entities
\* An erased body's entity is deleted or lost; the other bodies stay as they
\* are, and a body made in this step has no entity.
<1>2. CASE TakeEvents
  <2>1. pump' # "create" /\ Destroy({bodies[i].entity : i \in Erased})
        /\ inHand' \in InHandAfter
    BY <1>2 DEF TakeEvents
  <2>2. ASSUME NEW e \in DOMAIN entities', ~entities'[e].lost
        PROVE  LET i == entities'[e].player
               IN  /\ i \in Kept /\ i \in DOMAIN bodies' /\ bodies'[i] = bodies[i]
                   /\ bodies[i].entity = e /\ bodies[i].requested
                   /\ e \in DOMAIN entities /\ entities[e].player = i /\ ~entities[e].lost
    <3> DEFINE i == entities[e].player
    <3>1. /\ e \in DOMAIN entities /\ entities'[e].player = i /\ ~entities[e].lost
          /\ \A j \in Erased : bodies[j].entity # e
      BY <1>1, <2>1, <2>2, DestroyLeaves
    <3>2. i \in DOMAIN bodies /\ bodies[i].entity = e /\ bodies[i].requested
      BY <3>1 DEF Linked
    <3>3. i \in Kept /\ i \in Members
      BY <1>1, <3>1, <3>2 DEF Erased, Kept, Members
    <3> QED BY <1>2, <3>1, <3>2, <3>3 DEF TakeEvents
  <2>3. inHand' # 0 => None(inHand)'
    <3>1. inHand' # 0 => inHand' = inHand \/ inHand' \notin Kept
      BY <2>1 DEF InHandAfter, Made
    <3> QED BY <2>2, <3>1 DEF None, Linked
  <2> QED BY <2>1, <2>2, <2>3 DEF Linked
\* A body whose flag is not set has no entity yet, but for lost ones.
<1>3. ASSUME NEW i \in copied, Pass(i) \/ Request(i) PROVE Linked'
  <2>1. UNCHANGED <<entities, inHand>>
    BY <1>3 DEF Pass, Request, Visit, world
  <2>2. CASE Pass(i)
    BY <2>1, <2>2 DEF Pass, Visit, Linked, None
  <2>3. CASE Request(i)
    <3>1. /\ i \in DOMAIN bodies /\ ~bodies[i].requested /\ creating' = i
          /\ bodies' = [bodies EXCEPT ![i].requested = TRUE]
      BY <1>1, <2>3 DEF Request, Visit
    <3>2. /\ DOMAIN bodies' = DOMAIN bodies
          /\ \A j \in DOMAIN bodies \ {i} : bodies'[j] = bodies[j]
      BY <3>1
    <3>3. None(i)
      BY <3>1 DEF Linked, None
    <3> QED BY <2>1, <3>1, <3>2, <3>3 DEF Linked, None
  <2> QED BY <1>3, <2>2, <2>3
\* The body gets the entity, and had none before, unless it is lost at once.
<1>4. CASE Create
  <2> DEFINE n == lastEntity + 1
             b == inHand = creating \/ ~bodies[creating].requested
  <2>1. creating \in DOMAIN bodies /\ bodies[creating] \in Body /\ None(creating)
    BY <1>1, <1>4 DEF Create, Linked
  <2>2. /\ DOMAIN bodies' = DOMAIN bodies /\ pump' = "visit" /\ inHand' = inHand
        /\ \A j \in DOMAIN bodies \ {creating} : bodies'[j] = bodies[j]
        /\ bodies'[creating].requested = bodies[creating].requested
        /\ bodies'[creating].entity = n
    BY <1>4, <2>1 DEF Create, Body
  <2>3. /\ DOMAIN entities' = DOMAIN entities \cup {n}
        /\ entities'[n] = [player |-> creating, lost |-> b]
        /\ \A e \in DOMAIN entities : e # n /\ entities'[e] = entities[e]
    BY <1>1, <1>4 DEF Create, With
  <2>4. entities'[n].player = creating /\ entities'[n].lost = b
    BY <2>3
  <2> HIDE DEF n
  <2>5. ASSUME NEW e \in DOMAIN entities, ~entities[e].lost
        PROVE  /\ entities[e].player # creating /\ entities[e].player \in DOMAIN bodies
               /\ bodies'[entities[e].player] = bodies[entities[e].player]
    BY <2>1, <2>2, <2>5 DEF Linked, None
  <2>6. ASSUME NEW e \in DOMAIN entities', ~entities'[e].lost
        PROVE  LET i == entities'[e].player
               IN  i \in DOMAIN bodies' /\ bodies'[i].entity = e /\ bodies'[i].requested
    <3>1. CASE e = n
      <4>1. bodies[creating].requested
        BY <2>4, <2>6, <3>1
      <4> QED BY <2>1, <2>2, <2>4, <3>1, <4>1
    <3>2. CASE e # n
      <4>1. e \in DOMAIN entities /\ entities'[e] = entities[e] /\ ~entities[e].lost
        BY <2>3, <2>6, <3>2
      <4> QED BY <2>2, <2>5, <4>1 DEF Linked
    <3> QED BY <3>1, <3>2
  <2>7. inHand' # 0 => None(inHand)'
    BY <2>2, <2>3, <2>4 DEF Linked, None
  <2> QED BY <2>2, <2>6, <2>7 DEF Linked
<1>5. CASE CopyRemoteSnapshots \/ CreateFails \/ PumpDone
  BY <1>5 DEF CopyRemoteSnapshots, CreateFails, PumpDone, world, Linked, None
<1>6. CASE Console
  \* The one entity the body has is deleted or lost.
  <2>1. ASSUME NEW i \in Player, SetBodyKind(i) PROVE Linked'
    <3>1. \A e \in DOMAIN entities' :
             /\ e \in DOMAIN entities /\ entities'[e].player = entities[e].player
             /\ entities[e].lost \/ e = bodies[i].entity => entities'[e].lost
      BY <1>1, <2>1, DestroyLeaves DEF SetBodyKind
    <3>2. UNCHANGED <<bodies, pump, creating>> /\ inHand' = i
      BY <2>1 DEF SetBodyKind, pumping
    <3>3. None(i)'
      BY <3>1 DEF Linked, None
    <3> QED BY <3>1, <3>2, <3>3 DEF Linked, None
  <2>2. CASE ResetBody
    <3>1. /\ inHand # 0 /\ inHand' = 0 /\ UNCHANGED <<entities, pump, creating>>
          /\ DOMAIN bodies' = DOMAIN bodies
          /\ \A j \in DOMAIN bodies \ {inHand} : bodies'[j] = bodies[j]
      BY <2>2 DEF ResetBody, pumping, world
    <3>2. None(inHand)
      BY <3>1 DEF Linked
    <3> QED BY <3>1, <3>2 DEF Linked, None
  <2> QED BY <1>6, <2>1, <2>2 DEF Console
<1>7. CASE Network
  BY <1>7, NetworkFrame DEF Linked, None
<1>8. CASE World
  <2>1. CASE entities' = <<>>
    BY <2>1 DEF Linked, None
  <2>2. CASE UNCHANGED entities
    BY <1>8, <2>2, WorldFrame DEF Linked, None
  <2> QED BY <1>8, <2>1, <2>2, WorldFrame
<1> QED BY <1>2, <1>3, <1>4, <1>5, <1>6, <1>7, <1>8, Frames, PumpFrame DEF Linked, None

-----------------------------------------------------------------------------
(* The theorems.                                                           *)

LEMMA Start == Init => Types /\ Linked
<1> SUFFICES ASSUME Init PROVE Types /\ Linked
  OBVIOUS
<1>1. DOMAIN bodies = {} /\ DOMAIN entities = {} /\ DOMAIN events = {}
  BY DEF Init
<1>2. Members = {}
  BY <1>1 DEF Members
<1>3. Bodies /\ Entities /\ Linked
  BY <1>1, BoundAssumption DEF Init, Bodies, Entities, Linked, None
<1>4. Pumping
  BY <1>1 DEF Init, Pumping
<1>5. Announced
  BY <1>2 DEF Init, Announced
<1> QED BY <1>3, <1>4, <1>5 DEF Types

LEMMA TypesInvariant == Spec => []Types
<1>1. Types /\ [Next]_vars => Types'
  BY BodiesStep, EntitiesStep, PumpingStep, AnnouncedStep DEF Types
<1> QED BY <1>1, Start, PTL DEF Spec

\* The values of the variables, also where the console comes between the steps
\* of the pump.
THEOREM TypeCorrect == Spec => []TypeOK
<1>1. Types => TypeOK
  <2> SUFFICES ASSUME Types PROVE TypeOK
    OBVIOUS
  <2>1. \A i \in DOMAIN bodies :
           bodies[i] \in [entity: 0 .. lastEntity, requested: BOOLEAN]
    BY BoundAssumption DEF Types, Bodies, Entities, Body
  <2> QED BY <2>1 DEF Types, Bodies, Entities, Pumping, Announced, TypeOK, EventType
<1> QED BY <1>1, TypesInvariant, PTL

\* The bodies are those of the players that joined and did not leave, of this
\* connection or of one before it, however many come and go between two ticks
\* and whatever the console does meanwhile.
THEOREM BodiesMatch == Spec => []BodiesArePresent
<1>1. Types => BodiesArePresent
  BY MembersOfEmpty DEF Types, Bodies, Announced, BodiesArePresent
<1> QED BY <1>1, TypesInvariant, PTL

\* However spawns, leaves, the world and the console interleave and whichever
\* calls of the game fail, no entity is left without its player's body but
\* those that could not be deleted and those that were made while SetBodyKind
\* was at the body.
THEOREM EntitiesHeld == Spec => []NoOrphan
<1>1. Types /\ Linked /\ [Next]_vars => (Types /\ Linked)'
  BY LinkedStep, BodiesStep, EntitiesStep, PumpingStep, AnnouncedStep DEF Types
<1>2. Linked => NoOrphan
  BY DEF Linked, NoOrphan
<1> QED BY <1>1, <1>2, Start, PTL DEF Spec
=============================================================================
